----------------------------- MODULE Swarm_proofs -----------------------------
(***************************************************************************)
(* Swarms, for every number of processes, channels and swarms and every    *)
(* program: the rest of LuaCSP keeps its invariants next to them, no       *)
(* closure given to go is forgotten, no swarm points to an operation that  *)
(* has ended, and sleeps end in the order of their closures.               *)
(***************************************************************************)
EXTENDS Swarm, LuaCSP_asserts

(* What a swarm points to is a MAIN of this swarm, so that go can rely on it. *)
NoDanglingMain ==
  \A s \in Swarms, p \in Proc : opMain[s] = p => IsMain(p) /\ swarm[p] = s

(* The MAIN whose Evaluate is still to be finished lives on meanwhile. *)
TailIsMain == tail # NoProc => IsMain(tail)

(***************************************************************************)
(* A MAIN that is not on the stack has nothing to start, and what it has   *)
(* started lives, except while the last closure it starts runs for the     *)
(* first time: then the end of its Evaluate is still to come.              *)
(***************************************************************************)
MainsRest ==
  failed = "none" =>
    \A m \in Proc : IsMain(m) /\ ~isOnStack[m] =>
      /\ op[m].closureToRun = Len(op[m].closures)
      /\ m = tail \/ \A k \in Children(m) : Alive(k)

SwarmTypes ==
  /\ opMain \in [Swarms -> Proc \cup {NoProc}]
  /\ swarm \in [Proc -> Swarms \cup {NoSwarm}]
  /\ tail \in Proc \cup {NoProc}

SInv ==
  /\ IInv /\ Turns /\ Prompt /\ WInv
  /\ SwarmTypes /\ NoDanglingMain /\ TailIsMain /\ MainsRest
----------------------------------------------------------------------------
(* The rest of LuaCSP never makes an operation a MAIN. *)
LEMMA NoneBecomesMain ==
  ASSUME IInv, [Next]_vars, NEW q \in Proc, op'[q].kind = "MAIN"
  PROVE  op[q].kind = "MAIN"
<1> QED
  BY StepKinds DEF KindStep, SameKind, ForeignKinds

(***************************************************************************)
(* The two lists of a MAIN, and what Go and Collect make of them.          *)
(***************************************************************************)
LEMMA ListFacts ==
  ASSUME IInv, NEW m \in Proc
  PROVE  /\ Range(StartedOf(op[m])) = {op[m].closures[i] : i \in 1 .. op[m].closureToRun}
         /\ Range(ToRun(op[m])) =
              {op[m].closures[i] : i \in op[m].closureToRun + 1 .. Len(op[m].closures)}
         /\ StartedOf(op[m]) \in Seq(Proc) /\ Injective(StartedOf(op[m]))
         /\ ToRun(op[m]) = <<>> <=> op[m].closureToRun = Len(op[m].closures)
<1> DEFINE s == op[m].closures
           n == op[m].closureToRun
           l == Len(op[m].closures)
<1>1. /\ s \in Seq(Proc) /\ DOMAIN s = 1 .. l /\ l \in Nat /\ n \in Nat /\ n <= l
      /\ \A i \in 1 .. l : s[i] \in Proc
  BY ChildFacts DEF IInv, TypeOK, ProcessTypeOK, Operation
<1>2. \A i, j \in DOMAIN s : s[i] = s[j] => i = j
  BY DEF IInv, Tree
<1> HIDE DEF s, n, l
<1> DEFINE started == SubSeq(s, 1, n)
           left    == SubSeq(s, n + 1, l)
<1>3. /\ started \in Seq(Proc) /\ Len(started) = n
      /\ \A i \in 1 .. n : started[i] = s[i]
  <2>1. \A i \in 1 .. n : s[i] \in Proc
    BY <1>1
  <2>2. /\ SubSeq(s, 1, n) \in Seq(Proc)
        /\ Len(SubSeq(s, 1, n)) = IF 1 <= n THEN n - 1 + 1 ELSE 0
        /\ \A i \in 1 .. n - 1 + 1 : SubSeq(s, 1, n)[i] = s[1 + i - 1]
    BY <1>1, <2>1, SubSeqProperties
  <2> QED
    BY <1>1, <2>2
<1>4. /\ left \in Seq(Proc) /\ Len(left) = l - n
      /\ \A i \in 1 .. l - n : left[i] = s[n + i]
  <2>1. \A i \in n + 1 .. l : s[i] \in Proc
    BY <1>1
  <2>2. /\ SubSeq(s, n + 1, l) \in Seq(Proc)
        /\ Len(SubSeq(s, n + 1, l)) = IF n + 1 <= l THEN l - (n + 1) + 1 ELSE 0
        /\ \A i \in 1 .. l - (n + 1) + 1 : SubSeq(s, n + 1, l)[i] = s[n + 1 + i - 1]
    BY <1>1, <2>1, SubSeqProperties
  <2> QED
    BY <1>1, <2>2
<1> HIDE DEF started, left
<1>5. DOMAIN started = 1 .. n /\ DOMAIN left = 1 .. l - n
  BY <1>1, <1>3, <1>4, LenProperties
<1>6. Range(started) = {s[i] : i \in 1 .. n}
  BY <1>3, <1>5 DEF Range
<1>7. Range(left) = {s[i] : i \in n + 1 .. l}
  <2>1. \A i \in 1 .. l - n : n + i \in n + 1 .. l /\ left[i] = s[n + i]
    BY <1>1, <1>4
  <2>2. \A i \in n + 1 .. l : i - n \in 1 .. l - n /\ left[i - n] = s[i]
    BY <1>1, <1>4
  <2> QED
    BY <1>5, <2>1, <2>2 DEF Range
<1>8. Injective(started)
  BY <1>1, <1>2, <1>3, <1>5 DEF Injective
<1>9. left = <<>> <=> n = l
  BY <1>1, <1>4, EmptySeq
<1> QED
  BY <1>3, <1>6, <1>7, <1>8, <1>9 DEF StartedOf, ToRun, s, n, l, started, left

(* swarm:go of p adds the closures of new to the MAIN m. *)
Gives(p, m, new) ==
  /\ failed = "none" /\ running = p /\ IsMain(m)
  /\ new \in Seq(Proc) /\ Range(new) \subseteq Free /\ Injective(new)
  /\ op' = [op EXCEPT ![m].closures = @ \o new]
  /\ thread' = [q \in Proc |-> IF q \in Range(new) THEN "ready" ELSE thread[q]]
  /\ parent' = [q \in Proc |-> IF q \in Range(new) THEN m ELSE parent[q]]
  /\ PushEvalSteps("none", stack, isOnStack, MainToWake(m))
  /\ UNCHANGED <<running, result, hostVars, chanVars, swarmVars>>

LEMMA GoGives ==
  ASSUME SwarmTypes, NoDanglingMain, NEW p \in Proc, Go(p)
  PROVE  \E m \in Proc, new \in Seq(Proc) : Gives(p, m, new)
<1>1. PICK s \in Swarms, n \in 0 .. MaxClosures : \E new \in [1 .. n -> Free] :
        /\ opMain[s] # NoProc /\ Injective(new)
        /\ op' = [op EXCEPT ![opMain[s]].closures = @ \o new]
        /\ thread' = [q \in Proc |-> IF q \in Range(new) THEN "ready" ELSE thread[q]]
        /\ parent' = [q \in Proc |-> IF q \in Range(new) THEN opMain[s] ELSE parent[q]]
        /\ PushEvalSteps("none", stack, isOnStack, MainToWake(opMain[s]))
  BY DEF Go
<1>2. PICK new \in [1 .. n -> Free] :
        /\ opMain[s] # NoProc /\ Injective(new)
        /\ op' = [op EXCEPT ![opMain[s]].closures = @ \o new]
        /\ thread' = [q \in Proc |-> IF q \in Range(new) THEN "ready" ELSE thread[q]]
        /\ parent' = [q \in Proc |-> IF q \in Range(new) THEN opMain[s] ELSE parent[q]]
        /\ PushEvalSteps("none", stack, isOnStack, MainToWake(opMain[s]))
  BY <1>1
<1>3. PICK m \in Proc : m = opMain[s]
  BY <1>2 DEF SwarmTypes
<1>4. new \in Seq(Proc) /\ Range(new) \subseteq Free
  <2>1. n \in Nat /\ Free \subseteq Proc
    BY ProcessAssumption DEF Free
  <2>2. new \in [1 .. n -> Proc]
    BY <2>1
  <2> QED
    BY <2>1, <2>2, SeqDef DEF Range
<1>5. IsMain(m)
  BY <1>3 DEF NoDanglingMain
<1> QED
  BY <1>2, <1>3, <1>4, <1>5 DEF Go, InLua, Gives

LEMMA GoFacts ==
  ASSUME IInv, NEW p \in Proc, NEW m \in Proc, NEW new, Gives(p, m, new)
  PROVE  /\ \A q \in Proc \ {m} : op'[q] = op[q]
         /\ op' \in [Proc -> Operation]
         /\ op'[m].kind = "MAIN" /\ op'[m].closureToRun = op[m].closureToRun
         /\ op'[m].channel = op[m].channel
         /\ op'[m].closures = op[m].closures \o new
         /\ op'[m].closures \in Seq(Proc)
         /\ Len(op'[m].closures) = Len(op[m].closures) + Len(new) /\ Len(new) \in Nat
         /\ DOMAIN op'[m].closures = 1 .. Len(op[m].closures) + Len(new)
         /\ DOMAIN new = 1 .. Len(new)
         /\ \A i \in DOMAIN op'[m].closures :
              op'[m].closures[i] = IF i <= Len(op[m].closures) THEN op[m].closures[i]
                                   ELSE new[i - Len(op[m].closures)]
         /\ \A q \in Proc : Children(q)' = IF q = m THEN Children(m) \cup Range(new)
                                           ELSE Children(q)
         /\ \A k \in Range(new) : /\ k \in Proc /\ thread[k] = "free" /\ k # Main
                                  /\ op[k].kind = "none"
                                  /\ \A q \in Proc : k \notin Children(q)
         /\ \A q \in Proc : thread'[q] = IF q \in Range(new) THEN "ready" ELSE thread[q]
         /\ thread[m] = "yield" /\ thread[p] = "running" /\ m # p
<1> USE DEF IInv
<1>1. /\ op[m] \in Operation /\ op[m].kind = "MAIN" /\ op[m].closures \in Seq(Proc)
      /\ op \in [Proc -> Operation] /\ new \in Seq(Proc)
  BY DEF Gives, IsMain, TypeOK, ProcessTypeOK, Operation
<1>2. /\ op[m].closures \o new \in Seq(Proc)
      /\ Len(op[m].closures \o new) = Len(op[m].closures) + Len(new)
      /\ \A i \in 1 .. Len(op[m].closures) + Len(new) :
           (op[m].closures \o new)[i] = IF i <= Len(op[m].closures) THEN op[m].closures[i]
                                        ELSE new[i - Len(op[m].closures)]
      /\ Range(op[m].closures \o new) = Range(op[m].closures) \cup Range(new)
  BY <1>1, ConcatProperties, RangeConcatenation
<1> DEFINE all == op[m].closures \o new
           o   == [op[m] EXCEPT !.closures = all]
<1>3. all \in Seq(Proc)
  BY <1>2
<1>4. op'[m] = o /\ \A q \in Proc \ {m} : op'[q] = op[q]
  BY <1>1 DEF Gives
<1>5. op' = [op EXCEPT ![m] = o]
  BY <1>1 DEF Gives
<1> HIDE DEF all
<1>6. /\ o \in Operation /\ o.closures = all /\ o.kind = "MAIN"
      /\ o.closureToRun = op[m].closureToRun /\ o.channel = op[m].channel
  BY <1>1, <1>3 DEF Operation
<1>7. op' \in [Proc -> Operation]
  BY <1>1, <1>5, <1>6
<1> HIDE DEF o
<1>8. DOMAIN all = 1 .. Len(op[m].closures) + Len(new) /\ DOMAIN new = 1 .. Len(new)
      /\ Len(new) \in Nat /\ Len(op[m].closures) \in Nat
  BY <1>1, <1>2, <1>3, LenProperties DEF all
<1>9. \A q \in Proc : Children(q)' = IF q = m THEN Children(m) \cup Range(new)
                                     ELSE Children(q)
  BY <1>2, <1>4, <1>6 DEF Children, all
<1>10. \A k \in Range(new) : /\ k \in Proc /\ thread[k] = "free" /\ k # Main
                             /\ op[k].kind = "none"
                             /\ \A q \in Proc : k \notin Children(q)
  BY DEF Gives, Free, Tree, InOperation
<1>11. \A q \in Proc : thread'[q] = IF q \in Range(new) THEN "ready" ELSE thread[q]
  BY DEF Gives
<1>12. thread[m] = "yield" /\ thread[p] = "running" /\ m # p
  BY <1>1, ProcessAssumption DEF InOperation, Runs, Gives
<1> QED
  BY <1>2, <1>4, <1>6, <1>7, <1>8, <1>9, <1>10, <1>11, <1>12 DEF all

(* swarm:go keeps what all of LuaCSP relies on. *)
LEMMA GoStep ==
  ASSUME IInv, NEW p \in Proc, NEW m \in Proc, NEW new, Gives(p, m, new)
  PROVE  IInv'
<1>0. /\ \A q \in Proc : op'[q].kind = op[q].kind /\ op'[q].closureToRun = op[q].closureToRun
      /\ \A q \in Proc : op'[q].channel = op[q].channel
      /\ op[m].kind = "MAIN" /\ UNCHANGED <<running, result, hostVars, chanVars>>
  <2>1. \A q \in Proc \ {m} : op'[q] = op[q]
    BY GoFacts
  <2>2. /\ op'[m].kind = "MAIN" /\ op'[m].closureToRun = op[m].closureToRun
        /\ op'[m].channel = op[m].channel
    BY GoFacts
  <2> QED
    BY <2>1, <2>2 DEF Gives, IsMain
<1>a. \A q \in Proc : Children(q)' = IF q = m THEN Children(m) \cup Range(new)
                                           ELSE Children(q)
  BY GoFacts
<1>b. \A q \in Proc : thread'[q] = IF q \in Range(new) THEN "ready" ELSE thread[q]
  BY GoFacts
<1>c. \A k \in Range(new) : /\ k \in Proc /\ thread[k] = "free" /\ k # Main
                            /\ op[k].kind = "none"
                            /\ \A q \in Proc : k \notin Children(q)
  BY GoFacts
<1>d. thread[m] = "yield" /\ thread[p] = "running" /\ m # p
  BY GoFacts
<1>e. /\ \A q \in Proc \ {m} : op'[q] = op[q]
      /\ \A q \in Proc : \A k \in Children(q) : k \in Proc /\ k # Main /\ thread[k] # "free"
  BY GoFacts, ChildFacts
<1>f. /\ DOMAIN op'[m].closures = 1 .. Len(op[m].closures) + Len(new)
      /\ DOMAIN new = 1 .. Len(new) /\ Len(new) \in Nat
      /\ DOMAIN op[m].closures = 1 .. Len(op[m].closures) /\ Len(op[m].closures) \in Nat
      /\ \A i \in DOMAIN op'[m].closures :
           op'[m].closures[i] = IF i <= Len(op[m].closures) THEN op[m].closures[i]
                                ELSE new[i - Len(op[m].closures)]
  <2>1. /\ DOMAIN op'[m].closures = 1 .. Len(op[m].closures) + Len(new)
        /\ DOMAIN new = 1 .. Len(new) /\ Len(new) \in Nat
        /\ \A i \in DOMAIN op'[m].closures :
             op'[m].closures[i] = IF i <= Len(op[m].closures) THEN op[m].closures[i]
                                  ELSE new[i - Len(op[m].closures)]
    BY GoFacts
  <2> QED
    BY <2>1, ChildFacts
<1>1. /\ stack' \in Seq(Proc) /\ isOnStack' \in [Proc -> BOOLEAN]
      /\ failed' \in Failures
      /\ StackFlags(stack', isOnStack')
      /\ Range(stack') \subseteq Range(stack) \cup {m}
  <2>1. MainToWake(m) \in Seq(Proc) /\ Range(MainToWake(m)) \subseteq {m} /\ "none" \in Failures
    BY DEF MainToWake, Range, Failures
  <2>2. StackFlags(stack, isOnStack)
    BY DEF StackConsistent, StackFlags, IInv
  <2>3. PushEvalSteps("none", stack, isOnStack, MainToWake(m))
    BY DEF Gives
  <2>4. stack \in Seq(Proc) /\ isOnStack \in [Proc -> BOOLEAN]
    BY DEF TypeOK, ProcessTypeOK, IInv
  <2>5. /\ stack' \in Seq(Proc) /\ isOnStack' \in [Proc -> BOOLEAN] /\ failed' \in Failures
        /\ StackFlags(stack', isOnStack')
        /\ Range(stack') \subseteq Range(stack) \cup Range(MainToWake(m))
    BY <2>1, <2>2, <2>3, <2>4, PushKeepsFlags
  <2> QED
    BY <2>1, <2>5
<1>2. TypeOK'
  <2>1. thread' \in [Proc -> ThreadStatus] /\ parent' \in [Proc -> Proc \cup {NoProc}]
    BY DEF Gives, TypeOK, ProcessTypeOK, ThreadStatus, IInv
  <2>2. op' \in [Proc -> Operation]
    BY GoFacts
  <2> QED
    BY <1>0, <1>1, <2>1, <2>2 DEF IInv, hostVars, chanVars, TypeOK, ProcessTypeOK, ChannelTypeOK
<1>3. InOperation'
  BY <1>0, <1>b, <1>c DEF InOperation, IInv
<1>4. Runs'
  BY <1>0, <1>b, <1>c, <1>d, ProcessAssumption DEF Runs, Gives, IInv
<1>5. Parents'
  <2>2. ASSUME NEW k \in Proc, parent'[k] # NoProc PROVE k \in Range(op'[parent'[k]].closures)
    <3>1. CASE k \in Range(new)
      <4>1. parent'[k] = m /\ k \in Children(m)'
        BY <3>1, <1>a, <1>c DEF Gives
      <4> QED
        BY <4>1 DEF Children
    <3>2. CASE k \notin Range(new)
      <4>1. parent'[k] = parent[k]
        BY <3>2 DEF Gives
      <4>2. parent[k] \in Proc /\ k \in Children(parent[k])
        BY <2>2, <4>1 DEF Parents, TypeOK, ProcessTypeOK, IInv
      <4>3. PICK q \in Proc : q = parent[k]
        BY <4>2
      <4>4. k \in Children(q)'
        BY <4>2, <4>3, <1>a
      <4> QED
        BY <4>1, <4>3, <4>4 DEF Children
    <3> QED
      BY <3>1, <3>2
  <2> QED
    BY <2>2 DEF Parents, Children
<1>6. Tree'
  <2>1. thread'[Main] # "free" /\ \A q \in Proc : \A k \in Children(q)' : thread'[k] # "free" /\ k # Main
    BY <1>a, <1>b, <1>c, <1>e, ProcessAssumption DEF Tree, IInv
  <2>2. ASSUME NEW q \in Proc, NEW r \in Proc,
               NEW i \in DOMAIN op'[q].closures, NEW j \in DOMAIN op'[r].closures,
               op'[q].closures[i] = op'[r].closures[j]
        PROVE  q = r /\ i = j
    <3>1. \A x \in Proc \ {m} : op'[x] = op[x] /\ \A l \in DOMAIN op[x].closures :
                                                    op[x].closures[l] \in Children(x)
      BY <1>e, ChildFacts
    <3>2. \A l \in DOMAIN op'[m].closures :
            \/ l \in DOMAIN op[m].closures /\ op'[m].closures[l] = op[m].closures[l]
            \/ /\ l - Len(op[m].closures) \in DOMAIN new
               /\ op'[m].closures[l] = new[l - Len(op[m].closures)]
      <4> SUFFICES ASSUME NEW l \in DOMAIN op'[m].closures
                   PROVE  \/ l \in DOMAIN op[m].closures /\ op'[m].closures[l] = op[m].closures[l]
                          \/ /\ l - Len(op[m].closures) \in DOMAIN new
                             /\ op'[m].closures[l] = new[l - Len(op[m].closures)]
        OBVIOUS
      <4>1. l \in 1 .. Len(op[m].closures) + Len(new)
        BY <1>f
      <4>2. l <= Len(op[m].closures) \/ l - Len(op[m].closures) \in 1 .. Len(new)
        BY <1>f, <4>1
      <4> QED
        BY <1>f, <4>1, <4>2
    <3>3. \A l \in DOMAIN new : /\ new[l] \in Range(new)
                                /\ \A x \in Proc : new[l] \notin Children(x)
      BY <1>c DEF Range
    <3>4. CASE q # m /\ r # m
      BY <2>2, <3>1, <3>4 DEF Tree, IInv
    <3>5. CASE q = m /\ r # m
      BY <2>2, <3>1, <3>2, <3>3, <3>5 DEF Tree, IInv
    <3>6. CASE q # m /\ r = m
      BY <2>2, <3>1, <3>2, <3>3, <3>6 DEF Tree, IInv
    <3>7. CASE q = m /\ r = m
      <4>1. CASE i \in DOMAIN op[m].closures /\ j \in DOMAIN op[m].closures
        <5>1. op[m].closures[i] = op[m].closures[j]
          BY <2>2, <3>7, <4>1, <1>f, SMTT(30)
        <5> QED
          BY <3>7, <4>1, <5>1 DEF Tree, IInv
      <4>2. CASE /\ i - Len(op[m].closures) \in DOMAIN new
                 /\ j - Len(op[m].closures) \in DOMAIN new
        <5>1. new[i - Len(op[m].closures)] = new[j - Len(op[m].closures)]
          BY <2>2, <3>7, <4>2, <1>f, SMTT(30)
        <5>2. i - Len(op[m].closures) = j - Len(op[m].closures)
          BY <4>2, <5>1 DEF Gives, Injective
        <5>3. i \in Int /\ j \in Int /\ Len(op[m].closures) \in Int
          BY <3>7, <1>f
        <5> QED
          BY <3>7, <5>2, <5>3
      <4>3. ASSUME NEW x, NEW y, x \in DOMAIN op[m].closures,
                   y - Len(op[m].closures) \in DOMAIN new,
                   y \in DOMAIN op'[m].closures, x \in DOMAIN op'[m].closures
            PROVE  op'[m].closures[x] # op'[m].closures[y]
        <5>1. op'[m].closures[x] = op[m].closures[x] /\ op[m].closures[x] \in Children(m)
          BY <4>3, <1>f, ChildFacts
        <5>2. op'[m].closures[y] = new[y - Len(op[m].closures)]
          BY <4>3, <1>f
        <5> QED
          BY <3>3, <4>3, <5>1, <5>2
      <4> QED
        BY <2>2, <3>2, <3>7, <4>1, <4>2, <4>3
    <3> QED
      BY <3>4, <3>5, <3>6, <3>7
  <2> QED
    BY <2>1, <2>2 DEF Tree, IInv
<1>7. Closures'
  <2>1. ASSUME NEW q \in Proc, q # m
        PROVE  /\ op'[q] = op[q] /\ Closure(q)' = Closure(q)
               /\ \A k \in Children(q) : thread'[k] = thread[k]
    BY <2>1, <1>b, <1>c, <1>e DEF Closure
  <2>2. ASSUME NEW q \in Proc, q # m
        PROVE  /\ op'[q].closureToRun <= Len(op'[q].closures)
               /\ op'[q].kind \notin Spawning \cup {"ALT"} => op'[q].closures = <<>>
               /\ op'[q].kind = "ALT" => Len(op'[q].closures) = 1
               /\ op'[q].kind \in Spawning =>
                    \A i \in DOMAIN op'[q].closures :
                      i > op'[q].closureToRun => thread'[op'[q].closures[i]] = "ready"
               /\ Fresh(op'[q]) => thread'[op'[q].closures[1]] = "null"
    BY <2>1, <2>2, ChildFacts DEF Closures, Fresh, Closure, IInv
  <2>3. /\ op'[m].closureToRun <= Len(op'[m].closures)
        /\ ~Fresh(op'[m])
        /\ \A i \in DOMAIN op'[m].closures :
             i > op'[m].closureToRun => thread'[op'[m].closures[i]] = "ready"
    <3>1. op[m].closureToRun <= Len(op[m].closures) /\ Len(op[m].closures) \in Nat
          /\ op[m].closureToRun \in Nat /\ DOMAIN op[m].closures = 1 .. Len(op[m].closures)
      BY ChildFacts
    <3>2. ASSUME NEW i \in DOMAIN op'[m].closures, i > op'[m].closureToRun
          PROVE  thread'[op'[m].closures[i]] = "ready"
      <4>1. CASE i <= Len(op[m].closures)
        <5>1. /\ i \in DOMAIN op[m].closures /\ op'[m].closures[i] = op[m].closures[i]
              /\ i > op[m].closureToRun
          BY <1>0, <1>f, <3>2, <4>1
        <5>2. thread[op[m].closures[i]] = "ready" /\ op[m].closures[i] \in Proc
          BY <1>0, <5>1, ChildFacts DEF Closures, Spawning, IInv
        <5> QED
          BY <5>1, <5>2, <1>b, <1>c
      <4>2. CASE ~(i <= Len(op[m].closures))
        <5>1. /\ i - Len(op[m].closures) \in DOMAIN new
              /\ op'[m].closures[i] = new[i - Len(op[m].closures)]
          BY <1>f, <3>2, <4>2, SMTT(30)
        <5>2. op'[m].closures[i] \in Range(new)
          BY <5>1 DEF Range
        <5> QED
          BY <5>2, <1>b, <1>c
      <4> QED
        BY <4>1, <4>2
    <3> QED
      BY <1>0, <1>f, <3>1, <3>2 DEF Fresh
  <2> QED
    BY <1>0, <2>2, <2>3 DEF Closures, Closure, Spawning
<1>8. OnChannel'
  BY <1>0 DEF OnChannel, IInv
<1>9. Attached'
  <2>1. \A q \in Proc, c \in Chan : WaitsIn(q, c)' = WaitsIn(q, c) /\ OffersOn(q, c)' = OffersOn(q, c)
    BY <1>0, <1>e DEF WaitsIn, OffersOn, CasesFor
  <2> QED
    BY <1>0, <2>1 DEF Attached, chanVars, IInv
<1>10. StackConsistent'
  BY <1>0, <1>1, <1>3, RangeOfSeq DEF StackConsistent, StackFlags, InOperation, IInv
<1> QED
  BY <1>2, <1>3, <1>4, <1>5, <1>6, <1>7, <1>8, <1>9, <1>10 DEF IInv

LEMMA GoWakeup ==
  ASSUME SInv, NEW p \in Proc, NEW m \in Proc, NEW new, Gives(p, m, new)
  PROVE  Turns' /\ Prompt' /\ WInv' /\ MainsRest'
<1>0. IInv /\ Turns /\ Prompt /\ WInv /\ MainsRest /\ IInv' /\ failed = "none" /\ p # NoProc
  BY GoStep, ProcessAssumption DEF SInv, Gives
<1>1. /\ op[m].kind = "MAIN" /\ running = p /\ running' = p
      /\ UNCHANGED <<work, chanVars, swarmVars>>
      /\ parent' = [q \in Proc |-> IF q \in Range(new) THEN m ELSE parent[q]]
  BY DEF Gives, IsMain, hostVars
<1>a. \A q \in Proc : Children(q)' = IF q = m THEN Children(m) \cup Range(new)
                                           ELSE Children(q)
  BY <1>0, GoFacts
<1>b. \A q \in Proc : thread'[q] = IF q \in Range(new) THEN "ready" ELSE thread[q]
  BY <1>0, GoFacts
<1>c. \A k \in Range(new) : /\ k \in Proc /\ thread[k] = "free" /\ k # Main
                            /\ op[k].kind = "none"
                            /\ \A q \in Proc : k \notin Children(q)
  BY <1>0, GoFacts
<1>d. /\ thread[m] = "yield" /\ op'[m].kind = "MAIN"
      /\ op'[m].closureToRun = op[m].closureToRun
  BY <1>0, GoFacts
<1>e. /\ \A q \in Proc \ {m} : op'[q] = op[q]
      /\ \A q \in Proc : \A k \in Children(q) : k \in Proc /\ k # Main /\ thread[k] # "free"
  BY <1>0, GoFacts, ChildFacts
<1>f. failed' = "none" => \A q \in Proc : isOnStack'[q] <=> isOnStack[q] \/ q = m
  <2>1. failed' = "none" => isOnStack' = [q \in Proc |-> isOnStack[q] \/ q \in Range(MainToWake(m))]
    BY DEF Gives, PushEvalSteps
  <2>2. Range(MainToWake(m)) = IF isOnStack[m] THEN {} ELSE {m}
    BY DEF MainToWake, Range
  <2> QED
    BY <2>1, <2>2
<1>2. Turns'
  BY <1>0, <1>1, <1>b, <1>c, ProcessAssumption DEF Turns
<1>3. Prompt'
  <2>1. \A q \in Proc : ~Evaluating(q)
    BY <1>0, <1>1 DEF Evaluating
  <2>2. \A q \in Proc : NilWaits(q)' => NilWaits(q)
    BY <1>d, <1>e DEF NilWaits
  <2>3. Shrinking
    BY <1>1 DEF chanVars, Shrinking
  <2> QED
    BY <1>0, <2>1, <2>2, <2>3, NothingBegins
<1>4. ASSUME NEW q \in Proc, NEW k \in Children(q)
      PROVE  /\ k \in Proc /\ k \notin Range(new)
             /\ thread'[k] = thread[k] /\ parent'[k] = parent[k]
             /\ HasStarted(k) => HasStarted(k)'
             /\ Alive(k) => Alive(k)'
  <2>1. k \in Proc /\ k \notin Range(new)
    BY <1>4, <1>c, <1>e
  <2> QED
    BY <2>1, <1>1, <1>b DEF HasStarted, Alive
<1>5. OnlyRunning'
  BY <1>0, <1>1, <1>b DEF WInv, OnlyRunning
<1>6. Begun'
  <2>1. ASSUME NEW q \in Proc
        PROVE  /\ op'[q].kind \in Spawning =>
                    \A i \in DOMAIN op'[q].closures :
                      /\ parent'[op'[q].closures[i]] = q
                      /\ i <= op'[q].closureToRun =>
                           thread'[op'[q].closures[i]] \in {"running", "yield", "dead", "error"}
               /\ op'[q].kind = "ALT" /\ ~Fresh(op'[q]) =>
                    /\ parent'[op'[q].closures[1]] = q
                    /\ thread'[op'[q].closures[1]] \in {"running", "yield", "dead", "error"}
    <3>1. CASE q # m
      BY <3>1, <1>0, <1>4, <1>e, BegunKept DEF WInv, HasStarted
    <3>2. CASE q = m
      <4>1. ASSUME NEW i \in DOMAIN op'[m].closures
            PROVE  /\ parent'[op'[m].closures[i]] = m
                   /\ i <= op[m].closureToRun =>
                        thread'[op'[m].closures[i]] \in {"running", "yield", "dead", "error"}
        <5>0. /\ DOMAIN op'[m].closures = 1 .. Len(op[m].closures) + Len(new)
              /\ DOMAIN new = 1 .. Len(new) /\ Len(new) \in Nat
              /\ op'[m].closures[i] = IF i <= Len(op[m].closures) THEN op[m].closures[i]
                                      ELSE new[i - Len(op[m].closures)]
          BY <1>0, <4>1, GoFacts
        <5>1. /\ DOMAIN op[m].closures = 1 .. Len(op[m].closures)
              /\ Len(op[m].closures) \in Nat /\ op[m].closureToRun \in Nat
              /\ op[m].closureToRun <= Len(op[m].closures)
          BY <1>0, ChildFacts
        <5>2. CASE i <= Len(op[m].closures)
          <6>1. i \in DOMAIN op[m].closures /\ op'[m].closures[i] = op[m].closures[i]
            BY <4>1, <5>0, <5>1, <5>2
          <6>2. PICK k \in Children(m) : k = op[m].closures[i]
            BY <1>0, <6>1, ChildFacts
          <6>3. parent[k] = m /\ (i <= op[m].closureToRun => HasStarted(k))
            BY <1>0, <1>1, <6>1, <6>2 DEF WInv, Begun, Spawning
          <6> QED
            BY <1>4, <6>1, <6>2, <6>3 DEF HasStarted
        <5>3. CASE ~(i <= Len(op[m].closures))
          <6>1. i - Len(op[m].closures) \in DOMAIN new /\ ~(i <= op[m].closureToRun)
            BY <4>1, <5>0, <5>1, <5>3
          <6>2. op'[m].closures[i] \in Range(new)
            BY <5>0, <5>3, <6>1 DEF Range
          <6> QED
            BY <1>1, <1>c, <6>1, <6>2
        <5> QED
          BY <5>2, <5>3
      <4> QED
        BY <3>2, <4>1, <1>d
    <3> QED
      BY <3>1, <3>2
  <2> QED
    BY <2>1, BegunNext
<1>7. Rooted'
  <2> SUFFICES ASSUME NEW S \in SUBSET Proc, Children(Main)' \subseteq S, Closed(S)',
                      NEW q \in Proc, thread'[q] # "free"
               PROVE  q = Main \/ q \in S
    BY DEF Rooted
  <2>1. \A r \in S : Children(r)' \subseteq S
    BY DEF Closed
  <2>2. Children(Main) \subseteq S /\ Closed(S)
    BY <1>a, <2>1, ProcessAssumption DEF Closed
  <2>3. \A r \in Proc : thread[r] # "free" => r = Main \/ r \in S
    BY <1>0, <2>2 DEF WInv, Rooted
  <2>4. m = Main \/ m \in S
    BY <1>d, <2>3
  <2>5. Range(new) \subseteq S
    BY <1>a, <2>1, <2>4
  <2> QED
    BY <1>b, <2>3, <2>5
<1>8. Awake'
  <2> SUFFICES ASSUME failed' = "none", NEW q \in Proc, thread'[q] = "yield", ~isOnStack'[q]
               PROVE  Rests(q)'
    BY DEF Awake
  <2>1. q # m /\ ~isOnStack[q] /\ thread[q] = "yield"
    BY <1>b, <1>f
  <2>2. Rests(q)
    BY <1>0, <2>1 DEF WInv, Awake
  <2> QED
    BY <1>0, <1>4, <1>e, <2>1, <2>2, RestsKept
<1>9. MainsRest'
  <2> SUFFICES ASSUME failed' = "none", NEW q \in Proc, op'[q].kind = "MAIN", ~isOnStack'[q]
               PROVE  /\ op'[q].closureToRun = Len(op'[q].closures)
                      /\ q = tail \/ \A k \in Children(q)' : Alive(k)'
    BY <1>1 DEF MainsRest, IsMain, swarmVars
  <2>1. q # m /\ ~isOnStack[q] /\ op'[q] = op[q] /\ Children(q)' = Children(q)
    BY <1>a, <1>e, <1>f
  <2> QED
    BY <1>0, <1>4, <2>1 DEF MainsRest, IsMain
<1> QED
  BY <1>2, <1>3, <1>5, <1>6, <1>7, <1>8, <1>9 DEF WInv

LEMMA GoPointedTo ==
  ASSUME IInv, PointedTo, NEW p \in Proc, NEW m \in Proc, NEW new, Gives(p, m, new)
  PROVE  PointedTo'
<1>1. /\ \A q \in Proc \ {m} : op'[q] = op[q]
      /\ op'[m].kind = "MAIN" /\ UNCHANGED attachIn
  BY GoFacts DEF Gives, chanVars
<1>2. \A c \in Chan : ~WaitsIn(m, c)'
  BY <1>1 DEF WaitsIn
<1> QED
  BY <1>1, <1>2, NoneBegins

----------------------------------------------------------------------------
(***************************************************************************)
(* What has ended is collected (CheckFinished), from the end of either     *)
(* branch of Evaluate, when no Lua code runs.                              *)
(***************************************************************************)
LEMMA CollectFacts ==
  ASSUME IInv, NEW p \in Proc, IsMain(p), NEW gone, gone = Ended(op[p]), Collect(p, gone)
  PROVE  /\ gone \subseteq Children(p) /\ p \notin gone /\ Main \notin gone
         /\ \A k \in gone : /\ k \in Proc /\ op[k].kind = "none" /\ Children(k) = {}
                            /\ ~isOnStack[k] /\ ~IsRunning(k)
                            /\ \A q \in Proc : k \in Children(q) => q = p
         /\ op' \in [Proc -> Operation]
         /\ \A q \in Proc : q # p /\ q \notin gone => op'[q] = op[q]
         /\ \A q \in gone : op'[q] = NoOp
         /\ op'[p].kind = "MAIN" /\ op'[p].closures \in Seq(Proc)
         /\ Injective(op'[p].closures)
         /\ op'[p].closureToRun \in 0 .. Len(op'[p].closures)
         /\ \A q \in Proc : Children(q)' = Children(q) \ gone
         /\ \A i \in DOMAIN op'[p].closures : \E j \in DOMAIN op[p].closures :
              /\ op'[p].closures[i] = op[p].closures[j] /\ op[p].closures[j] \notin gone
              /\ i <= op'[p].closureToRun <=> j <= op[p].closureToRun
<1>1. /\ op[p] \in Operation /\ op[p].kind = "MAIN" /\ op[p].closures \in Seq(Proc)
      /\ op \in [Proc -> Operation] /\ op[p].closureToRun \in 0 .. Len(op[p].closures)
      /\ Injective(op[p].closures)
  <2>1. /\ op[p] \in Operation /\ op[p].kind = "MAIN" /\ op[p].closures \in Seq(Proc)
        /\ op \in [Proc -> Operation]
    BY DEF IsMain, IInv, TypeOK, ProcessTypeOK, Operation
  <2>2. op[p].closureToRun \in 0 .. Len(op[p].closures)
    BY ChildFacts
  <2>3. Injective(op[p].closures)
    BY DEF Injective, IInv, Tree
  <2> QED
    BY <2>1, <2>2, <2>3
<1>2. gone \subseteq Children(p) /\ \A k \in gone : ~IsRunning(k)
  <2>1. gone \subseteq Range(StartedOf(op[p])) /\ \A k \in gone : ~IsRunning(k)
    BY DEF Ended
  <2>2. Range(StartedOf(op[p])) \subseteq Children(p)
    <3>1. Range(StartedOf(op[p])) = {op[p].closures[i] : i \in 1 .. op[p].closureToRun}
      BY ListFacts
    <3>2. /\ DOMAIN op[p].closures = 1 .. Len(op[p].closures)
          /\ op[p].closureToRun \in 0 .. Len(op[p].closures)
      BY <1>1, LenProperties
    <3>3. \A i \in 1 .. op[p].closureToRun : op[p].closures[i] \in Range(op[p].closures)
      BY <3>2 DEF Range
    <3> QED
      BY <3>1, <3>3 DEF Children
  <2> QED
    BY <2>1, <2>2
<1>3. \A k \in gone : /\ k \in Proc /\ k # Main /\ op[k].kind = "none"
                      /\ \A q \in Proc : k \in Children(q) => q = p
  BY <1>2, ChildFacts DEF IsRunning
<1>4. \A k \in gone : Children(k) = {} /\ ~isOnStack[k]
  BY <1>3, NoClosures DEF IInv, StackConsistent, Spawning, ParKinds
<1>5. p \notin gone
  BY <1>1, <1>3
<1> DEFINE s == Without(op[p].closures, gone)
           n == WritePos(op[p].closures, gone, op[p].closureToRun)
           o == Collected(op[p], gone)
<1>6. /\ s \in Seq(Proc) /\ Injective(s) /\ Range(s) = Range(op[p].closures) \ gone
  BY <1>1, WithoutRemoves
<1>7. /\ n \in 0 .. Len(s)
      /\ \A i \in DOMAIN s : \E j \in DOMAIN op[p].closures :
           /\ s[i] = op[p].closures[j] /\ op[p].closures[j] \notin gone
           /\ i <= n <=> j <= op[p].closureToRun
  <2>1. op[p].closures \in Seq(Proc) /\ op[p].closureToRun \in 0 .. Len(op[p].closures)
    BY <1>1
  <2>0. PICK stk \in Seq(Proc) : stk = op[p].closures
    BY <2>1
  <2>2. PICK m \in 0 .. Len(stk) : m = op[p].closureToRun
    BY <2>0, <2>1
  <2>3. /\ WritePos(stk, gone, m) \in 0 .. Len(Without(stk, gone))
        /\ \A i \in DOMAIN Without(stk, gone) : \E j \in DOMAIN stk :
             /\ Without(stk, gone)[i] = stk[j] /\ stk[j] \notin gone
             /\ i <= WritePos(stk, gone, m) <=> j <= m
    BY WithoutKeepsOrder
  <2> QED
    BY <2>0, <2>2, <2>3
<1>8. o = [op[p] EXCEPT !.closures = s, !.closureToRun = n] /\ n \in Nat
  <2>1. n \in Nat
    BY <1>6, <1>7, LenProperties
  <2> QED
    BY <1>1, <2>1 DEF Collected, Operation
<1> HIDE DEF s, n, o
<1>9. o \in Operation /\ o.kind = "MAIN" /\ o.closures = s /\ o.closureToRun = n
  BY <1>1, <1>6, <1>8 DEF Operation
<1>10. \A q \in Proc : op'[q] = IF q = p THEN o ELSE IF q \in gone THEN NoOp ELSE op[q]
  BY DEF Collect, o
<1>11. op' \in [Proc -> Operation]
  <2>1. NoOp \in Operation
    BY TypeFacts DEF IInv
  <2>2. \A q \in Proc : (IF q = p THEN o ELSE IF q \in gone THEN NoOp ELSE op[q]) \in Operation
    BY <1>1, <1>9, <2>1
  <2> QED
    BY <2>2 DEF Collect, o
<1>12. \A q \in Proc : Children(q)' = Children(q) \ gone
  <2>1. Range(NoOp.closures) = {}
    BY DEF NoOp, Range
  <2>2. ASSUME NEW q \in Proc PROVE Range(op'[q].closures) = Range(op[q].closures) \ gone
    <3>1. CASE q = p
      BY <1>6, <1>9, <1>10, <3>1
    <3>2. CASE q # p /\ q \in gone
      BY <1>4, <1>10, <2>1, <3>2 DEF Children
    <3>3. CASE q # p /\ q \notin gone
      BY <1>3, <1>10, <3>3 DEF Children
    <3> QED
      BY <3>1, <3>2, <3>3
  <2> QED
    BY <2>2 DEF Children
<1> QED
  BY <1>2, <1>3, <1>4, <1>5, <1>6, <1>7, <1>9, <1>10, <1>11, <1>12

LEMMA CollectStep ==
  ASSUME IInv, NEW p \in Proc, IsMain(p), Collect(p, Ended(op[p])), running = NoProc,
         stack' \in Seq(Proc), isOnStack' \in [Proc -> BOOLEAN],
         StackFlags(stack', isOnStack'), Range(stack') \subseteq Range(stack)
  PROVE  IInv'
<1> SUFFICES ASSUME NEW gone, gone = Ended(op[p]), Collect(p, gone)
             PROVE  IInv'
  OBVIOUS
<1>a. /\ gone \subseteq Children(p) /\ p \notin gone /\ Main \notin gone
      /\ \A k \in gone : /\ k \in Proc /\ op[k].kind = "none" /\ Children(k) = {}
                         /\ ~isOnStack[k]
                         /\ \A q \in Proc : k \in Children(q) => q = p
  <2>1. gone \subseteq Children(p) /\ p \notin gone /\ Main \notin gone
    BY CollectFacts
  <2>2. ASSUME NEW k \in gone
        PROVE  /\ k \in Proc /\ op[k].kind = "none" /\ Children(k) = {}
               /\ ~isOnStack[k]
               /\ \A q \in Proc : k \in Children(q) => q = p
    BY CollectFacts, SMTT(30)
  <2> QED
    BY <2>1, <2>2
<1>b. /\ op' \in [Proc -> Operation]
      /\ \A q \in Proc : q # p /\ q \notin gone => op'[q] = op[q]
      /\ \A q \in gone : op'[q] = NoOp
      /\ op'[p].kind = "MAIN" /\ op'[p].closures \in Seq(Proc)
      /\ Injective(op'[p].closures)
      /\ op'[p].closureToRun \in 0 .. Len(op'[p].closures)
      /\ \A q \in Proc : Children(q)' = Children(q) \ gone
  BY CollectFacts
<1>c. \A i \in DOMAIN op'[p].closures : \E j \in DOMAIN op[p].closures :
        /\ op'[p].closures[i] = op[p].closures[j] /\ op[p].closures[j] \notin gone
        /\ i <= op'[p].closureToRun <=> j <= op[p].closureToRun
  BY CollectFacts
<1>d. /\ thread' = [q \in Proc |-> IF q \in gone THEN "free" ELSE thread[q]]
      /\ parent' = [q \in Proc |-> IF q \in gone THEN NoProc ELSE parent[q]]
      /\ UNCHANGED <<running, result, hostVars, failed, chanVars>>
      /\ op[p].kind = "MAIN"
  BY DEF Collect, IsMain
<1>0. /\ NoOp.kind = "none" /\ NoOp.closures = <<>> /\ NoOp.closureToRun = 0
      /\ op[p].closures \in Seq(Proc)
      /\ \A q \in Proc : \A k \in Children(q) : k \in Proc /\ thread[k] # "free" /\ k # Main
      /\ thread \in [Proc -> ThreadStatus] /\ parent \in [Proc -> Proc \cup {NoProc}]
  BY ChildFacts DEF NoOp, IInv, TypeOK, ProcessTypeOK, Operation
<1>1. TypeOK'
  <2>1. thread' \in [Proc -> ThreadStatus] /\ parent' \in [Proc -> Proc \cup {NoProc}]
    BY <1>0, <1>d DEF ThreadStatus
  <2> QED
    BY <1>b, <1>d, <2>1 DEF IInv, hostVars, chanVars, TypeOK, ProcessTypeOK, ChannelTypeOK
<1>2. InOperation'
  BY <1>0, <1>a, <1>b, <1>d DEF InOperation, IInv
<1>3. Runs'
  BY <1>d DEF Runs
<1>4. Parents'
  <2>1. ASSUME NEW k \in Proc, parent'[k] # NoProc PROVE k \in Range(op'[parent'[k]].closures)
    <3>1. k \notin gone /\ parent'[k] = parent[k]
      BY <1>d, <2>1
    <3>2. PICK q \in Proc : q = parent[k] /\ k \in Children(q)
      BY <1>0, <2>1, <3>1 DEF Parents, IInv
    <3>3. k \in Children(q)'
      BY <1>b, <3>1, <3>2
    <3> QED
      BY <3>1, <3>2, <3>3 DEF Children
  <2> QED
    BY <2>1 DEF Parents, Children
<1>5. Tree'
  <2>1. thread'[Main] # "free"
    BY <1>a, <1>d, ProcessAssumption DEF Tree, IInv
  <2>2. \A q \in Proc : \A k \in Children(q)' : thread'[k] # "free" /\ k # Main
    BY <1>0, <1>b, <1>d
  <2>3. \A q \in Proc : \A i \in DOMAIN op'[q].closures :
          \E j \in DOMAIN op[q].closures : op'[q].closures[i] = op[q].closures[j]
    <3> SUFFICES ASSUME NEW q \in Proc, NEW i \in DOMAIN op'[q].closures
                 PROVE  \E j \in DOMAIN op[q].closures : op'[q].closures[i] = op[q].closures[j]
      OBVIOUS
    <3>1. CASE q = p
      BY <1>c, <3>1
    <3>2. CASE q # p /\ q \in gone
      BY <1>0, <1>b, <3>2, EmptySeq
    <3>3. CASE q # p /\ q \notin gone
      BY <1>b, <3>3
    <3> QED
      BY <3>1, <3>2, <3>3
  <2>4. ASSUME NEW q \in Proc, NEW r \in Proc,
               NEW i \in DOMAIN op'[q].closures, NEW j \in DOMAIN op'[r].closures,
               op'[q].closures[i] = op'[r].closures[j]
        PROVE  q = r /\ i = j
    <3>1. q = r
      BY <2>3, <2>4 DEF Tree, IInv
    <3>2. CASE q = p
      BY <1>b, <2>4, <3>1, <3>2 DEF Injective
    <3>3. CASE q # p
      <4>1. q \notin gone
        BY <1>0, <1>b, <2>4, <3>3, EmptySeq
      <4> QED
        BY <1>b, <2>4, <3>1, <3>3, <4>1 DEF Tree, IInv
    <3> QED
      BY <3>2, <3>3
  <2> QED
    BY <2>1, <2>2, <2>4 DEF Tree
<1>6. Closures'
  <2>1. ASSUME NEW q \in Proc, q # p, q \notin gone
        PROVE  /\ op'[q].closureToRun <= Len(op'[q].closures)
               /\ op'[q].kind \notin Spawning \cup {"ALT"} => op'[q].closures = <<>>
               /\ op'[q].kind = "ALT" => Len(op'[q].closures) = 1
               /\ op'[q].kind \in Spawning =>
                    \A i \in DOMAIN op'[q].closures :
                      i > op'[q].closureToRun => thread'[op'[q].closures[i]] = "ready"
               /\ Fresh(op'[q]) => thread'[op'[q].closures[1]] = "null"
    <3>1. op'[q] = op[q] /\ \A k \in Children(q) : thread'[k] = thread[k]
      BY <1>0, <1>a, <1>b, <1>d, <2>1
    <3>2. \A i \in DOMAIN op[q].closures : op[q].closures[i] \in Children(q)
      BY ChildFacts
    <3>3. op[q].kind = "ALT" => op[q].closures[1] \in Children(q)
      BY ChildFacts DEF Closure
    <3> QED
      BY <3>1, <3>2, <3>3 DEF Closures, Fresh, Closure, IInv
  <2>2. ASSUME NEW q \in gone
        PROVE  /\ op'[q].closureToRun <= Len(op'[q].closures)
               /\ op'[q].kind = "none" /\ op'[q].closures = <<>>
    BY <1>0, <1>b, EmptySeq
  <2>3. /\ op'[p].closureToRun <= Len(op'[p].closures)
        /\ \A i \in DOMAIN op'[p].closures :
             i > op'[p].closureToRun => thread'[op'[p].closures[i]] = "ready"
    <3>1. ASSUME NEW i \in DOMAIN op'[p].closures, i > op'[p].closureToRun
          PROVE  thread'[op'[p].closures[i]] = "ready"
      <4>1. PICK j \in DOMAIN op[p].closures :
              /\ op'[p].closures[i] = op[p].closures[j] /\ op[p].closures[j] \notin gone
              /\ i <= op'[p].closureToRun <=> j <= op[p].closureToRun
        BY <1>c
      <4>2. i \in Int /\ op'[p].closureToRun \in Int /\ j \in Int /\ op[p].closureToRun \in Int
        BY <1>b, LenProperties, ChildFacts
      <4>3. j > op[p].closureToRun
        BY <3>1, <4>1, <4>2
      <4>4. op[p].closures[j] \in Proc /\ thread[op[p].closures[j]] = "ready"
        BY <1>d, <4>3, ChildFacts DEF Closures, Spawning, IInv
      <4> QED
        BY <1>d, <4>1, <4>4
    <3>2. op'[p].closureToRun <= Len(op'[p].closures)
      BY <1>b
    <3> QED
      BY <3>1, <3>2
  <2>4. \A q \in gone : ~Fresh(op'[q]) /\ op'[q].kind \notin Spawning \cup {"ALT"}
    BY <2>2 DEF Fresh, Spawning, ParKinds
  <2>5. ~Fresh(op'[p]) /\ op'[p].kind \in Spawning /\ op'[p].kind # "ALT"
    BY <1>b DEF Fresh, Spawning
  <2>6. ASSUME NEW q \in Proc
        PROVE  /\ op'[q].closureToRun <= Len(op'[q].closures)
               /\ op'[q].kind \notin Spawning \cup {"ALT"} => op'[q].closures = <<>>
               /\ op'[q].kind = "ALT" => Len(op'[q].closures) = 1
               /\ op'[q].kind \in Spawning =>
                    \A i \in DOMAIN op'[q].closures :
                      i > op'[q].closureToRun => thread'[op'[q].closures[i]] = "ready"
               /\ Fresh(op'[q]) => thread'[op'[q].closures[1]] = "null"
    BY <2>1, <2>2, <2>3, <2>4, <2>5
  <2> QED
    BY <2>6 DEF Closures, Closure
<1>7. OnChannel'
  BY <1>0, <1>b DEF OnChannel, ChannelKinds, IInv
<1>8. Attached'
  <2>1. \A q \in Proc, c \in Chan : WaitsIn(q, c)' = WaitsIn(q, c) /\ OffersOn(q, c)' = OffersOn(q, c)
    BY <1>0, <1>a, <1>b, <1>d DEF WaitsIn, OffersOn, CasesFor
  <2> QED
    BY <1>d, <2>1 DEF Attached, chanVars, IInv
<1>9. StackConsistent'
  <2>1. \A q \in Range(stack') : q \in Proc /\ op[q].kind # "none" /\ q \notin gone
    BY <1>a, RangeOfSeq DEF StackConsistent, IInv
  <2> QED
    BY <1>2, <1>b, <1>d, <2>1 DEF StackConsistent, StackFlags, InOperation
<1> QED
  BY <1>1, <1>2, <1>3, <1>4, <1>5, <1>6, <1>7, <1>8, <1>9 DEF IInv

(* The stack, the channels and who runs stay as they are. *)
LEMMA PromptKept ==
  ASSUME Prompt, UNCHANGED <<stack, running, work, failed, attachIn, attachOut>>,
         \A q \in Proc : NilWaits(q)' => NilWaits(q)
  PROVE  Prompt'
<1>1. \A q : Evaluating(q)' <=> Evaluating(q)
  BY DEF Evaluating
<1>2. \A c \in Chan : /\ InAttached(c)' <=> InAttached(c)
                      /\ OutAttached(c)' <=> OutAttached(c)
  BY DEF InAttached, OutAttached
<1> SUFFICES ASSUME failed' = "none"
             PROVE  /\ \A c \in Chan : InAttached(c)' /\ OutAttached(c)' =>
                         Evaluating(attachIn[c])' \/ Evaluating(attachOut[c])'
                    /\ \A q \in Proc : NilWaits(q)' => Evaluating(q)'
  BY DEF Prompt
<1>3. ASSUME NEW c \in Chan, InAttached(c)', OutAttached(c)'
      PROVE  Evaluating(attachIn[c])' \/ Evaluating(attachOut[c])'
  <2>1. Evaluating(attachIn[c]) \/ Evaluating(attachOut[c])
    BY <1>2, <1>3 DEF Prompt
  <2> QED
    BY <2>1 DEF Evaluating
<1>4. ASSUME NEW q \in Proc, NilWaits(q)' PROVE Evaluating(q)'
  BY <1>1, <1>4 DEF Prompt
<1> QED
  BY <1>3, <1>4

LEMMA CollectWakeup ==
  ASSUME SInv, NEW p \in Proc, IsMain(p), Collect(p, Ended(op[p])),
         running = NoProc, failed = "none", tail \in {NoProc, p}, tail' = NoProc,
         ~isOnStack'[p] => op[p].closureToRun = Len(op[p].closures),
         \A q \in Proc : q # p /\ ~isOnStack'[q] => ~isOnStack[q],
         stack = <<>> => stack' = <<>>
  PROVE  Turns' /\ WInv' /\ MainsRest'
<1> SUFFICES ASSUME NEW gone, gone = Ended(op[p]), Collect(p, gone)
             PROVE  Turns' /\ WInv' /\ MainsRest'
  OBVIOUS
<1>0. /\ IInv /\ Turns /\ WInv /\ MainsRest /\ op[p].kind = "MAIN" /\ p # NoProc
      /\ UNCHANGED <<running, work>>
  BY ProcessAssumption DEF SInv, IsMain, Collect, hostVars
<1>a. /\ p \notin gone /\ Main \notin gone
      /\ \A k \in gone : k \in Proc /\ Children(k) = {}
      /\ \A k \in gone, q \in Proc : k \in Children(q) => q = p
  <2>1. p \notin gone /\ Main \notin gone
    BY <1>0, CollectFacts
  <2>2. ASSUME NEW k \in gone
        PROVE  /\ k \in Proc /\ Children(k) = {}
               /\ \A q \in Proc : k \in Children(q) => q = p
    BY <1>0, CollectFacts
  <2> QED
    BY <2>1, <2>2
<1>b. /\ \A q \in Proc : q # p /\ q \notin gone => op'[q] = op[q]
      /\ \A q \in gone : op'[q].kind = "none"
      /\ op'[p].kind = "MAIN" /\ op'[p].closures \in Seq(Proc)
      /\ op'[p].closureToRun \in 0 .. Len(op'[p].closures)
      /\ \A q \in Proc : Children(q)' = Children(q) \ gone
  <2>1. NoOp.kind = "none"
    BY DEF NoOp
  <2> QED
    BY <1>0, <2>1, CollectFacts
<1>c. \A i \in DOMAIN op'[p].closures : \E j \in DOMAIN op[p].closures :
        /\ op'[p].closures[i] = op[p].closures[j] /\ op[p].closures[j] \notin gone
        /\ i <= op'[p].closureToRun <=> j <= op[p].closureToRun
  BY <1>0, CollectFacts
<1>d. \A q \in Proc : /\ q \in gone => thread'[q] = "free"
                      /\ q \notin gone => thread'[q] = thread[q] /\ parent'[q] = parent[q]
  BY DEF Collect
<1>e. \A q \in Proc : \A k \in Children(q) \ gone :
        /\ k \in Proc /\ parent'[k] = parent[k]
        /\ HasStarted(k) => HasStarted(k)'
        /\ Alive(k) => Alive(k)'
  BY <1>0, <1>d, ChildFacts DEF HasStarted, Alive
<1>f. \A q \in Proc : q # p => Children(q) \cap gone = {}
  BY <1>a
<1>g. \A j \in DOMAIN op[p].closures :
        /\ parent[op[p].closures[j]] = p
        /\ j <= op[p].closureToRun => HasStarted(op[p].closures[j])
  BY <1>0 DEF WInv, Begun, Spawning
<1>1. Turns'
  BY <1>0, <1>a, <1>d, ProcessAssumption DEF Turns
<1>2. OnlyRunning'
  BY <1>0, <1>d DEF WInv, OnlyRunning
<1>3. Begun'
  <2>1. ASSUME NEW q \in Proc
        PROVE  /\ op'[q].kind \in Spawning =>
                    \A i \in DOMAIN op'[q].closures :
                      /\ parent'[op'[q].closures[i]] = q
                      /\ i <= op'[q].closureToRun =>
                           thread'[op'[q].closures[i]] \in {"running", "yield", "dead", "error"}
               /\ op'[q].kind = "ALT" /\ ~Fresh(op'[q]) =>
                    /\ parent'[op'[q].closures[1]] = q
                    /\ thread'[op'[q].closures[1]] \in {"running", "yield", "dead", "error"}
    <3>1. CASE q # p /\ q \notin gone
      <4>1. /\ op'[q] = op[q]
            /\ \A k \in Children(q) : /\ parent[k] = q => parent'[k] = q
                                      /\ HasStarted(k) => HasStarted(k)'
        BY <3>1, <1>b, <1>e, <1>f
      <4> QED
        BY <1>0, <4>1, BegunKept DEF WInv, HasStarted
    <3>2. CASE q \in gone
      BY <3>2, <1>b DEF Spawning, ParKinds
    <3>3. CASE q = p
      <4>1. ASSUME NEW i \in DOMAIN op'[p].closures
            PROVE  /\ parent'[op'[p].closures[i]] = p
                   /\ i <= op'[p].closureToRun =>
                        thread'[op'[p].closures[i]] \in {"running", "yield", "dead", "error"}
        <5>1. PICK j \in DOMAIN op[p].closures :
                /\ op'[p].closures[i] = op[p].closures[j] /\ op[p].closures[j] \notin gone
                /\ i <= op'[p].closureToRun <=> j <= op[p].closureToRun
          BY <1>c
        <5>2. PICK k \in Children(p) : k = op[p].closures[j]
          BY <1>0, ChildFacts
        <5>3. parent[k] = p /\ (j <= op[p].closureToRun => HasStarted(k))
          BY <1>g, <5>2
        <5> QED
          BY <1>e, <5>1, <5>2, <5>3 DEF HasStarted
      <4> QED
        BY <3>3, <4>1, <1>b
    <3> QED
      BY <3>1, <3>2, <3>3
  <2> QED
    BY <2>1, BegunNext
<1>4. Rooted'
  <2> SUFFICES ASSUME NEW S \in SUBSET Proc, Children(Main)' \subseteq S, Closed(S)',
                      NEW q \in Proc, thread'[q] # "free"
               PROVE  q = Main \/ q \in S
    BY DEF Rooted
  <2> DEFINE T == S \cup gone
  <2>1. \A r \in S : Children(r)' \subseteq S
    BY DEF Closed
  <2>2. T \in SUBSET Proc /\ Children(Main) \subseteq T /\ \A r \in T : Children(r) \subseteq T
    BY <1>a, <1>b, <2>1, ProcessAssumption
  <2>3. \A r \in Proc : thread[r] # "free" => r = Main \/ r \in T
    BY <1>0, <2>2 DEF WInv, Rooted, Closed
  <2> QED
    BY <1>d, <2>3
<1>5. Awake'
  <2> SUFFICES ASSUME failed' = "none", NEW q \in Proc, thread'[q] = "yield", ~isOnStack'[q]
               PROVE  Rests(q)'
    BY DEF Awake
  <2>1. CASE q = p
    BY <2>1, <1>b DEF Rests, ChannelKinds
  <2>2. CASE q # p
    <3>1. q \notin gone /\ thread[q] = "yield" /\ ~isOnStack[q] /\ op'[q] = op[q]
      BY <2>2, <1>b, <1>d
    <3>2. Rests(q)
      BY <1>0, <3>1 DEF WInv, Awake
    <3>3. \A k \in Children(q) : Alive(k) => Alive(k)'
      BY <2>2, <1>e, <1>f
    <3> QED
      BY <1>0, <3>1, <3>2, <3>3, RestsKept
  <2> QED
    BY <2>1, <2>2
<1>6. MainsRest'
  <2> SUFFICES ASSUME NEW q \in Proc, op'[q].kind = "MAIN", ~isOnStack'[q]
               PROVE  /\ op'[q].closureToRun = Len(op'[q].closures)
                      /\ \A k \in Children(q)' : Alive(k)'
    BY DEF MainsRest, IsMain
  <2>1. CASE q # p
    <3>1. q \notin gone /\ ~isOnStack[q] /\ op'[q] = op[q] /\ q # tail
      BY <2>1, <1>b, ProcessAssumption
    <3>2. op[q].closureToRun = Len(op[q].closures) /\ \A k \in Children(q) : Alive(k)
      BY <1>0, <3>1 DEF MainsRest, IsMain
    <3> QED
      BY <2>1, <3>1, <3>2, <1>b, <1>e, <1>f
  <2>2. CASE q = p
    <3>1. op[p].closureToRun = Len(op[p].closures)
      BY <2>2
    <3>2. op'[p].closureToRun = Len(op'[p].closures)
      <4>1. /\ Len(op'[p].closures) \in Nat
            /\ DOMAIN op'[p].closures = 1 .. Len(op'[p].closures)
            /\ DOMAIN op[p].closures = 1 .. Len(op[p].closures)
            /\ Len(op[p].closures) \in Nat
        BY <1>0, <1>b, LenProperties, ChildFacts
      <4>2. \A i \in 1 .. Len(op'[p].closures) : i <= op'[p].closureToRun
        BY <1>c, <3>1, <4>1
      <4> QED
        BY <1>b, <4>1, <4>2
    <3>3. ASSUME NEW k \in Children(p) \ gone PROVE Alive(k)'
      <4>1. PICK j \in DOMAIN op[p].closures : k = op[p].closures[j]
        BY <1>0, ChildFacts
      <4>2. /\ j \in 1 .. op[p].closureToRun /\ k \in Proc
            /\ DOMAIN op[p].closures = 1 .. Len(op[p].closures)
        BY <1>0, <3>1, ChildFacts
      <4>3. HasStarted(k)
        BY <1>g, <4>1, <4>2
      <4>4. k \in Range(StartedOf(op[p]))
        <5>1. Range(StartedOf(op[p])) = {op[p].closures[i] : i \in 1 .. op[p].closureToRun}
          BY <1>0, ListFacts
        <5> QED
          BY <4>1, <4>2, <5>1
      <4>5. IsRunning(k)
        BY <3>3, <4>4 DEF Ended
      <4>6. Alive(k)
        BY <1>0, <4>2, <4>3, <4>5, StartedIsAlive
      <4> QED
        BY <1>e, <4>6
    <3> QED
      BY <2>2, <3>2, <3>3, <1>b
  <2> QED
    BY <2>1, <2>2
<1> QED
  BY <1>1, <1>2, <1>3, <1>4, <1>5, <1>6 DEF WInv

(* The two ends of Evaluate that collect. *)
Collects(p) ==
  /\ IsMain(p) /\ Collect(p, Ended(op[p])) /\ running = NoProc /\ failed = "none"
  /\ tail \in {NoProc, p} /\ tail' = NoProc /\ UNCHANGED <<opMain, swarm>>
  /\ \/ UNCHANGED <<stack, isOnStack>>
     \/ /\ Evaluating(p) /\ ToRun(op[p]) = <<>>
        /\ stack' = Popped /\ isOnStack' = PoppedFlags

LEMMA CollectingStep ==
  ASSUME SInv, NEW p \in Proc, Collects(p)
  PROVE  SInv' /\ (PointedTo => PointedTo')
<1>0. /\ IInv /\ Turns /\ Prompt /\ WInv /\ SwarmTypes /\ NoDanglingMain /\ MainsRest
      /\ IsMain(p) /\ op[p].kind = "MAIN" /\ UNCHANGED <<running, work, failed, attachIn, attachOut>>
      /\ Collect(p, Ended(op[p])) /\ running = NoProc /\ failed = "none"
      /\ stack \in Seq(Proc) /\ isOnStack \in [Proc -> BOOLEAN]
      /\ StackFlags(stack, isOnStack)
  BY DEF SInv, Collects, Collect, IsMain, hostVars, chanVars, IInv, TypeOK, ProcessTypeOK,
         StackConsistent, StackFlags
<1>1. \A q \in Proc : \/ op'[q] = op[q]
                      \/ op'[q].kind = "MAIN" /\ q = p
                      \/ op'[q].kind = "none" /\ op[q].kind = "none"
  <2> SUFFICES ASSUME NEW gone, gone = Ended(op[p]), Collect(p, gone), NEW q \in Proc
               PROVE  \/ op'[q] = op[q]
                      \/ op'[q].kind = "MAIN" /\ q = p
                      \/ op'[q].kind = "none" /\ op[q].kind = "none"
    BY <1>0
  <2>1. /\ op'[p].kind = "MAIN"
        /\ q # p /\ q \notin gone => op'[q] = op[q]
        /\ q \in gone => op'[q] = NoOp
    BY <1>0, CollectFacts
  <2>2. q \in gone => op[q].kind = "none"
    BY <1>0, CollectFacts
  <2> QED
    BY <2>1, <2>2 DEF NoOp
<1>2. /\ stack' \in Seq(Proc) /\ isOnStack' \in [Proc -> BOOLEAN]
      /\ StackFlags(stack', isOnStack') /\ Range(stack') \subseteq Range(stack)
      /\ ~isOnStack'[p] => op[p].closureToRun = Len(op[p].closures)
      /\ \A q \in Proc : q # p /\ ~isOnStack'[q] => ~isOnStack[q]
      /\ stack = <<>> => stack' = <<>>
  <2>1. CASE UNCHANGED <<stack, isOnStack>>
    BY <1>0, <2>1 DEF MainsRest
  <2>2. CASE /\ Evaluating(p) /\ ToRun(op[p]) = <<>>
             /\ stack' = Popped /\ isOnStack' = PoppedFlags
    <3>1. stack # <<>> /\ p = Last(stack)
      BY <2>2 DEF Evaluating
    <3>2. /\ Popped \in Seq(Proc) /\ PoppedFlags \in [Proc -> BOOLEAN]
          /\ StackFlags(Popped, PoppedFlags) /\ Range(Popped) \subseteq Range(stack)
      BY <1>0, <2>2, EvaluatingFacts
    <3>3. op[p].closureToRun = Len(op[p].closures)
      BY <1>0, <2>2, ListFacts
    <3>4. \A q \in Proc : q # p => isOnStack'[q] = isOnStack[q]
      BY <1>0, <2>2, <3>1 DEF PoppedFlags
    <3> QED
      BY <2>2, <3>1, <3>2, <3>3, <3>4
  <2> QED
    BY <2>1, <2>2 DEF Collects
<1>3. IInv'
  BY <1>0, <1>2, CollectStep
<1>4. Turns' /\ WInv' /\ MainsRest'
  BY <1>0, <1>2, CollectWakeup DEF Collects
<1>5. Prompt'
  <2>1. \A q \in Proc : NilWaits(q)' => NilWaits(q)
    BY <1>1 DEF NilWaits
  <2>2. CASE UNCHANGED <<stack, isOnStack>>
    BY <1>0, <2>1, <2>2, PromptKept
  <2>3. CASE Evaluating(p)
    <3>1. Served(p)'
      <4>1. op'[p].kind \in {"MAIN", "none"}
        BY <1>0, <1>1
      <4> QED
        BY <4>1 DEF Served, NilWaits, WaitsIn, OffersOn
    <3>2. Shrinking
      BY <1>0 DEF Shrinking
    <3> QED
      BY <1>0, <1>3, <2>1, <2>3, <3>1, <3>2, EvaluatedPrompt
  <2> QED
    BY <2>2, <2>3 DEF Collects
<1>6. SwarmTypes' /\ NoDanglingMain' /\ TailIsMain'
  <2>1. \A q \in Proc : IsMain(q) => IsMain(q)'
    BY <1>0, <1>1 DEF IsMain
  <2> QED
    BY <1>0, <2>1 DEF Collects, SwarmTypes, NoDanglingMain, TailIsMain
<1>7. PointedTo => PointedTo'
  <2>1. ASSUME NEW q \in Proc
        PROVE  \/ op'[q] = op[q] /\ \A c \in Chan : attachIn[c] = q => attachIn'[c] = q
               \/ /\ \A c \in Chan : ~WaitsIn(q, c)'
                  /\ op'[q].kind = "ALT" => OneCase(op'[q])
    <3>1. CASE op'[q] = op[q]
      BY <1>0, <3>1
    <3>2. CASE op'[q].kind \in {"MAIN", "none"}
      BY <3>2 DEF WaitsIn
    <3> QED
      BY <1>1, <3>1, <3>2
  <2> QED
    BY <2>1, NoneBegins
<1> QED
  BY <1>3, <1>4, <1>5, <1>6, <1>7 DEF SInv

----------------------------------------------------------------------------
(***************************************************************************)
(* The other actions of a swarm.                                           *)
(***************************************************************************)
LEMMA MainInitStep ==
  ASSUME SInv, NEW p \in Proc, MainInit(p)
  PROVE  SInv' /\ (PointedTo => PointedTo')
<1> DEFINE o == [NoOp EXCEPT !.kind = "MAIN"]
<1>0. /\ IInv /\ Turns /\ Prompt /\ WInv /\ SwarmTypes /\ NoDanglingMain /\ TailIsMain
      /\ MainsRest /\ running = p /\ failed = "none" /\ Yield(p, o) /\ p # NoProc
      /\ thread' = [thread EXCEPT ![p] = "yield"] /\ parent' = parent /\ tail' = tail
      /\ UNCHANGED <<attachIn, attachOut, isClosed>>
      /\ thread \in [Proc -> ThreadStatus] /\ op \in [Proc -> Operation]
      /\ parent \in [Proc -> Proc \cup {NoProc}] /\ ChannelTypeOK /\ Attached
  BY ProcessAssumption DEF SInv, MainInit, InLua, chanVars, IInv, TypeOK, ProcessTypeOK
<1>1. /\ o \in Operation /\ o.kind = "MAIN" /\ o.closures = <<>> /\ o.closureToRun = 0
      /\ o.caseTriggered = 0 /\ ~o.argumentsMoved /\ ~o.finished /\ o.arguments = NoArgs
  BY TypeFacts DEF Operation, NoOp, OpKinds, IInv, SInv
<1>2. op' = [op EXCEPT ![p] = o] /\ running' = NoProc /\ UNCHANGED <<work, dt, time>>
  BY <1>0 DEF Yield, hostVars
<1> HIDE DEF o
<1>3. /\ op[p].kind = "none" /\ op[p].closures = <<>> /\ thread[p] = "running"
      /\ \A c \in Chan : attachIn[c] # p /\ attachOut[c] # p
  BY <1>0, RunningFacts
<1>4. ChannelTypeOK' /\ Attached'
  <2>1. ASSUME NEW b \in Chan, NEW q \in Proc
        PROVE  /\ attachIn'[b] = q => WaitsIn(q, b)'
               /\ attachOut'[b] = q <=> OffersOn(q, b)'
    <3>1. CASE q = p
      BY <3>1, <1>0, <1>1, <1>2, <1>3 DEF WaitsIn, OffersOn
    <3>2. CASE q # p
      BY <3>2, <1>0, <1>2 DEF Attached, WaitsIn, OffersOn, CasesFor
    <3> QED
      BY <3>1, <3>2
  <2> QED
    BY <1>0, <2>1 DEF Attached, ChannelTypeOK
<1>5. Begins(p, o) /\ o.kind # "ALT" /\ Range(o.closures) = {}
  <2>1. Range(o.closures) = {} /\ DOMAIN o.closures \subseteq Nat \ {0}
    BY <1>1 DEF Range
  <2>2. \A q \in Proc \ {p} : thread'[q] = thread[q]
    BY <1>0
  <2>3. thread'[p] = "yield"
    BY <1>0
  <2> QED
    BY <1>0, <1>1, <2>1, <2>2, <2>3 DEF Begins, ForeignKinds
<1>6. IInv'
  <2>1. Range(o.closures) \subseteq Free /\ Injective(o.closures)
    BY <1>1, <1>5 DEF Injective
  <2>2. /\ thread' \in [Proc -> ThreadStatus] /\ thread'[p] = "yield"
        /\ \A q \in Proc \ {p} :
             thread'[q] = IF q \notin Range(o.closures) THEN thread[q]
                          ELSE IF o.kind = "ALT" THEN "null" ELSE "ready"
    BY <1>0, <1>5 DEF ThreadStatus
  <2>3. o.kind \notin ChannelKinds
    BY <1>1 DEF ChannelKinds
  <2> QED
    BY <1>0, <1>1, <1>4, <2>1, <2>2, <2>3, CallStep
<1>7. Turns'
  BY <1>0, <1>2, <1>3 DEF Turns
<1>8. Prompt'
  BY <1>0, CallPrompt
<1>9. WInv'
  BY <1>0, <1>5, CallWakeup
<1>10. \A q \in Proc : q # p => op'[q] = op[q]
  BY <1>2
<1>11. SwarmTypes'
  BY <1>0 DEF SwarmTypes, MainInit
<1>12. NoDanglingMain' /\ TailIsMain'
  <2>1. IsMain(p)' /\ ~IsMain(p) /\ \A q \in Proc : q # p => (IsMain(q)' <=> IsMain(q))
    BY <1>0, <1>1, <1>2, <1>3, <1>10 DEF IsMain
  <2>2. PICK s \in Swarms : /\ opMain' = [opMain EXCEPT ![s] = p]
                            /\ swarm' = [swarm EXCEPT ![p] = s]
    BY DEF MainInit
  <2>3. ASSUME NEW t \in Swarms, NEW q \in Proc, opMain'[t] = q
        PROVE  IsMain(q)' /\ swarm'[q] = t
    <3>1. CASE t = s
      BY <1>0, <2>1, <2>2, <2>3, <3>1 DEF SwarmTypes
    <3>2. CASE t # s
      BY <1>0, <2>1, <2>2, <2>3, <3>2 DEF SwarmTypes, NoDanglingMain
    <3> QED
      BY <3>1, <3>2
  <2>4. TailIsMain'
    BY <1>0, <2>1 DEF TailIsMain, SwarmTypes
  <2> QED
    BY <2>3, <2>4 DEF NoDanglingMain
<1>13. MainsRest'
  <2> SUFFICES ASSUME failed' = "none", NEW q \in Proc, op'[q].kind = "MAIN", ~isOnStack'[q]
               PROVE  /\ op'[q].closureToRun = Len(op'[q].closures)
                      /\ q = tail \/ \A k \in Children(q)' : Alive(k)'
    BY <1>0 DEF MainsRest, IsMain
  <2>1. isOnStack' = [r \in Proc |-> isOnStack[r] \/ r \in Range(<<p>>)]
    BY <1>0 DEF Yield, PushEvalSteps
  <2>2. Range(<<p>>) = {p}
    BY DEF Range
  <2>3. q # p /\ ~isOnStack[q] /\ op'[q] = op[q] /\ Children(q)' = Children(q)
    BY <1>10, <2>1, <2>2 DEF Children
  <2>4. /\ op[q].closureToRun = Len(op[q].closures)
        /\ q = tail \/ \A k \in Children(q) : Alive(k)
    BY <1>0, <2>3 DEF MainsRest, IsMain
  <2>5. \A k \in Children(q) : k \in Proc /\ (Alive(k) => Alive(k)')
    BY <1>0, ChildFacts DEF Alive
  <2> QED
    BY <2>3, <2>4, <2>5
<1>14. PointedTo => PointedTo'
  BY <1>0, <1>1, CallWaiting
<1> QED
  BY <1>6, <1>7, <1>8, <1>9, <1>11, <1>12, <1>13, <1>14 DEF SInv

(* MAIN starts the next closure, and stays on the stack unless it is the last. *)
LEMMA StartNextStep ==
  ASSUME SInv, NEW p \in Proc, Evaluating(p), IsMain(p), tail = NoProc,
         StartNext(p), UNCHANGED <<opMain, swarm>>
  PROVE  SInv' /\ (PointedTo => PointedTo')
<1> DEFINE next == op[p].closureToRun + 1
           o    == [op[p] EXCEPT !.closureToRun = next]
           k    == op[p].closures[next]
           ps   == IF next < Len(op[p].closures) THEN <<p>> ELSE <<>>
<1>0. /\ IInv /\ Turns /\ Prompt /\ WInv /\ SwarmTypes /\ NoDanglingMain /\ MainsRest
      /\ op[p].kind = "MAIN" /\ op[p].kind \in Spawning /\ p # NoProc
      /\ StartEvaluation(p, o, k, NoArgs, ps, "none") /\ UNCHANGED chanVars /\ tail' = p
      /\ failed = "none"
      /\ op[p] \in Operation /\ op \in [Proc -> Operation] /\ thread \in [Proc -> ThreadStatus]
  BY ProcessAssumption DEF SInv, IsMain, Spawning, StartNext, Evaluating, IInv, TypeOK, ProcessTypeOK
<1>1. /\ next \in DOMAIN op[p].closures /\ next \in Nat
      /\ Len(op[p].closures) \in Nat /\ next <= Len(op[p].closures)
  <2>1. op[p].closureToRun # Len(op[p].closures)
    BY <1>0, ListFacts DEF StartNext
  <2>2. /\ DOMAIN op[p].closures = 1 .. Len(op[p].closures) /\ Len(op[p].closures) \in Nat
        /\ op[p].closureToRun \in Nat /\ op[p].closureToRun <= Len(op[p].closures)
    BY <1>0, ChildFacts
  <2> QED
    BY <2>1, <2>2
<1>2. StartClosure(p)
  BY <1>0, <1>1 DEF StartClosure
<1>3. o.kind = "MAIN" /\ o.closures = op[p].closures /\ o.closureToRun = next
  BY <1>0, <1>1 DEF Operation
<1>4. k \in Children(p) /\ k \in Proc /\ k # Main /\ thread[k] = "ready"
  <2>1. k \in Children(p) /\ k \in Proc /\ k # Main
    BY <1>0, <1>1, ChildFacts
  <2>2. next > op[p].closureToRun
    BY <1>0, <1>1, ChildFacts
  <2> QED
    BY <1>0, <1>1, <2>1, <2>2 DEF IInv, Closures
<1>5. /\ op'[p] = o /\ \A q \in Proc : q # p => op'[q] = op[q]
      /\ thread'[k] = "running" /\ \A q \in Proc : q # k => thread'[q] = thread[q]
      /\ running' = k /\ UNCHANGED work
  BY <1>0, <1>4 DEF StartEvaluation, hostVars
<1> HIDE DEF o, k
<1>6. IInv'
  BY <1>0, <1>2, StartClosureStep
<1>7. Turns'
  <2>1. stack # <<>> /\ work = <<>>
    BY DEF Evaluating
  <2> QED
    BY <1>0, <1>4, <1>5, <2>1, ProcessAssumption DEF Turns
<1>8. Prompt'
  BY <1>0, <1>3, <1>6, StartPrompt DEF Spawning
<1>9. WInv'
  <2>1. p \notin Range(ps) => Rests(p)'
    BY <1>3, <1>5 DEF Rests, ChannelKinds
  <2>2. /\ o.kind = op[p].kind /\ o.kind # "ALT" /\ thread[k] \in {"ready", "null"}
        /\ o.closureToRun = op[p].closureToRun + 1
        /\ k = op[p].closures[op[p].closureToRun + 1]
    BY <1>0, <1>3, <1>4 DEF k
  <2> QED
    BY <1>0, <1>3, <1>4, <2>1, <2>2, StartWakeup
<1>10. \A q \in Proc : IsMain(q)' <=> IsMain(q)
  BY <1>0, <1>3, <1>5 DEF IsMain
<1>11. SwarmTypes' /\ NoDanglingMain' /\ TailIsMain'
  BY <1>0, <1>10 DEF SwarmTypes, NoDanglingMain, TailIsMain, IsMain
<1>12. MainsRest'
  <2> SUFFICES ASSUME failed' = "none", NEW q \in Proc, IsMain(q), ~isOnStack'[q]
               PROVE  /\ op'[q].closureToRun = Len(op'[q].closures)
                      /\ q = p \/ \A r \in Children(q)' : Alive(r)'
    BY <1>0, <1>10 DEF MainsRest, IsMain
  <2>1. \A r \in Proc : isOnStack'[r] <=> PoppedFlags[r] \/ r \in Range(ps)
    BY <1>0 DEF StartEvaluation, PushEvalSteps
  <2>2. CASE q = p
    <3>1. p \notin Range(ps)
      BY <2>1, <2>2
    <3>2. ~(next < Len(op[p].closures))
      BY <3>1 DEF Range
    <3> QED
      BY <2>2, <3>2, <1>1, <1>3, <1>5
  <2>3. CASE q # p
    <3>1. PoppedFlags[q] = isOnStack[q]
      BY <1>0, <2>3 DEF PoppedFlags, Evaluating, IInv, TypeOK, ProcessTypeOK
    <3>2. op[q].closureToRun = Len(op[q].closures) /\ \A r \in Children(q) : Alive(r)
      BY <1>0, <2>1, <3>1, ProcessAssumption DEF MainsRest
    <3>3. op'[q] = op[q] /\ Children(q)' = Children(q)
      BY <2>3, <1>5 DEF Children
    <3>4. \A r \in Children(q) : Alive(r)'
      BY <1>0, <1>5, <3>2, ChildFacts DEF Alive
    <3> QED
      BY <3>2, <3>3, <3>4
  <2> QED
    BY <2>2, <2>3
<1>13. PointedTo => PointedTo'
  BY <1>0, <1>2, StartClosureWaiting
<1> QED
  BY <1>6, <1>7, <1>8, <1>9, <1>11, <1>12, <1>13 DEF SInv

LEMMA EvalMainStep ==
  ASSUME SInv, NEW p \in Proc, EvalMain(p)
  PROVE  SInv' /\ (PointedTo => PointedTo')
<1>1. CASE StartNext(p)
  BY <1>1, StartNextStep DEF EvalMain
<1>2. CASE /\ ToRun(op[p]) = <<>>
           /\ Collect(p, Ended(op[p]))
           /\ stack' = Popped
           /\ isOnStack' = PoppedFlags
           /\ UNCHANGED tail
  <2>1. Collects(p)
    BY <1>2 DEF Collects, EvalMain, Evaluating
  <2> QED
    BY <2>1, CollectingStep
<1> QED
  BY <1>1, <1>2 DEF EvalMain

LEMMA EndEvalMainStep ==
  ASSUME SInv, EndEvalMain
  PROVE  SInv' /\ (PointedTo => PointedTo')
<1>1. tail \in Proc /\ IsMain(tail)
  BY DEF EndEvalMain, SInv, SwarmTypes, TailIsMain
<1>2. PICK p \in Proc : p = tail
  BY <1>1
<1>3. Collects(p)
  BY <1>1, <1>2 DEF Collects, EndEvalMain
<1> QED
  BY <1>3, CollectingStep

LEMMA WorkMainStep ==
  ASSUME SInv, NEW p \in Proc, WorkMain(p)
  PROVE  SInv' /\ (PointedTo => PointedTo')
<1>0. /\ IInv /\ Turns /\ Prompt /\ WInv /\ MainsRest
      /\ work # <<>> /\ p = Head(work) /\ failed = "none"
      /\ work' = MainWork(p) \o Tail(work)
      /\ UNCHANGED <<thread, parent, op, stack, isOnStack, running, result,
                     dt, time, failed, attachIn, attachOut, isClosed>>
      /\ UNCHANGED <<opMain, swarm, tail>>
  BY DEF SInv, WorkMain, Working, chanVars, swarmVars
<1>1. work' \in Seq(Proc)
  <2>1. StartedOf(op[p]) \in Seq(Proc) /\ Injective(StartedOf(op[p]))
    BY <1>0, ListFacts
  <2>2. PICK s \in Seq(Proc) : s = StartedOf(op[p]) /\ Injective(s)
    BY <2>1
  <2>3. MainWork(p) \in Seq(Proc)
    BY <2>2, WithoutRemoves DEF MainWork
  <2>4. Tail(work) \in Seq(Proc)
    BY <1>0, WorkingFacts DEF WorkMain
  <2> QED
    BY <1>0, <2>3, <2>4, ConcatProperties
<1>2. IInv'
  BY <1>0, <1>1, PassOnStep DEF chanVars
<1>3. Turns'
  BY <1>0 DEF Turns
<1>4. Prompt'
  <2>1. \A q \in Proc : ~Evaluating(q)
    BY <1>0 DEF Evaluating
  <2>2. \A q \in Proc : NilWaits(q)' => NilWaits(q)
    BY <1>0 DEF NilWaits
  <2> QED
    BY <1>0, <1>2, <2>1, <2>2, NothingBegins DEF Shrinking
<1>5. WInv'
  BY <1>0 DEF WInv, OnlyRunning, Begun, Rooted, Awake, Rests, Alive, HasStarted, Children, Closed,
              AllStarted, Closure, Fresh
<1>6. SwarmTypes' /\ NoDanglingMain' /\ TailIsMain'
  BY <1>0 DEF SInv, SwarmTypes, NoDanglingMain, TailIsMain, IsMain
<1>7. MainsRest'
  BY <1>0 DEF MainsRest, IsMain, Alive, Children
<1>8. PointedTo => PointedTo'
  BY <1>0, WaitingKept
<1> QED
  BY <1>2, <1>3, <1>4, <1>5, <1>6, <1>7, <1>8 DEF SInv

----------------------------------------------------------------------------
(***************************************************************************)
(* What the rest of LuaCSP leaves of a MAIN: the operation ends or stays   *)
(* as it is, it leaves the stack only then, and the end of a closure of    *)
(* its wakes it.                                                           *)
(***************************************************************************)
MainLeft(q) ==
  op'[q].kind = "MAIN" =>
    /\ op'[q] = op[q]
    /\ failed' = "none" =>
         /\ isOnStack[q] => isOnStack'[q]
         /\ ~isOnStack'[q] => \A k \in Children(q) : Alive(k) => Alive(k)'

(* It is neither evaluated nor attached. *)
LEMMA ResumeLeavesMain ==
  ASSUME IInv, NEW q \in Proc, IsMain(q), NEW p \in Proc, Evaluating(p), p # q,
         NEW gone, NEW results, NEW stk, Resume(p, results, gone, stk, PoppedFlags),
         q \notin gone => Children(q) \cap gone = {}
  PROVE  MainLeft(q)
<1>1. q \in gone => op'[q].kind = "none"
  BY DEF Resume, NoOp
<1>2. ASSUME q \notin gone
      PROVE  /\ op'[q] = op[q]
             /\ isOnStack[q] => isOnStack'[q]
             /\ \A k \in Children(q) : Alive(k) => Alive(k)'
  <2>1. op'[q] = op[q] /\ (isOnStack'[q] <=> PoppedFlags[q])
    BY <1>2 DEF Resume
  <2>2. PoppedFlags[q] = isOnStack[q]
    BY DEF PoppedFlags, Evaluating, IInv, TypeOK, ProcessTypeOK
  <2>3. ASSUME NEW k \in Children(q), Alive(k) PROVE Alive(k)'
    <3>1. k \in Proc /\ k \notin gone
      BY <1>2, ChildFacts
    <3> QED
      BY <2>3, <3>1 DEF Resume, Alive
  <2> QED
    BY <2>1, <2>2, <2>3
<1> QED
  BY <1>1, <1>2 DEF MainLeft

LEMMA EvaluateLeavesMain ==
  ASSUME IInv, NEW q \in Proc, IsMain(q), NEW p \in Proc, EvaluateStep(p)
  PROVE  MainLeft(q)
<1>0. /\ Evaluating(p) /\ op[q].kind = "MAIN"
      /\ op \in [Proc -> Operation] /\ thread \in [Proc -> ThreadStatus]
      /\ isOnStack \in [Proc -> BOOLEAN] /\ NoProc # q
  BY EvaluateTurn, ProcessAssumption DEF IsMain, IInv, TypeOK, ProcessTypeOK
<1>a. q # p => PoppedFlags[q] = isOnStack[q]
  BY <1>0 DEF PoppedFlags, Evaluating
<1>1. CASE Nothing(p)
  <2>1. p # q
    BY <1>0, <1>1 DEF Nothing, StillWaits, ParKinds, ChannelKinds
  <2> QED
    BY <1>a, <1>1, <2>1 DEF Nothing, KeepWaiting, MainLeft, Alive
<1>2. CASE Ends(p)
  <2>1. PICK results : FinishOperation(p, results)
    BY <1>2 DEF Ends
  <2>2. p # q
    BY <1>0, <1>2 DEF Ends, Finishes, ChannelKinds
  <2>3. Children(q) \cap Children(p) = {}
    BY <2>2, ChildFacts
  <2> QED
    BY <1>0, <2>1, <2>2, <2>3, ResumeLeavesMain DEF FinishOperation
<1>3. CASE op[p].kind = "PARWHILE" /\ EndParWhile(p)
  <2>1. PICK stk : Resume(p, NoResult, Descendants(p), stk, PoppedFlags)
    BY <1>3 DEF EndParWhile
  <2>2. p # q
    BY <1>0, <1>3
  <2>3. q \notin Descendants(p) => Children(q) \cap Descendants(p) = {}
    BY <2>2, DescendantsFacts
  <2> QED
    BY <1>0, <2>1, <2>2, <2>3, ResumeLeavesMain
<1>4. CASE Communicates(p)
  <2>1. PICK c \in Chan, reader \in Proc : Meets(p, c, reader) /\ Communicate(c, reader)
    BY <1>4 DEF Communicates
  <2>2. p # q
    BY <1>0, <2>1 DEF Meets, WaitsIn, OffersOn
  <2>3. q # attachIn[c] /\ q # attachOut[c]
    BY <1>0 DEF IInv, Attached, WaitsIn, OffersOn
  <2>4. op'[q] = op[q]
    BY <1>0, <2>1, <2>3 DEF Communicate
  <2>5. PICK asserted, ps : PushEvalSteps(asserted, Popped, PoppedFlags, ps)
    BY <2>1 DEF Communicate
  <2>6. failed' = "none" /\ isOnStack[q] => isOnStack'[q]
    BY <1>a, <2>2, <2>5 DEF PushEvalSteps
  <2>7. UNCHANGED thread
    BY <1>4 DEF Communicates
  <2> QED
    BY <2>4, <2>6, <2>7 DEF MainLeft, Alive
<1>5. CASE TakesNil(p)
  <2>1. PICK i : Trigger(p, i, Popped, PoppedFlags)
    BY <1>5 DEF TakesNil
  <2>2. p # q
    BY <1>0, <1>5 DEF TakesNil
  <2>3. op'[q] = op[q] /\ UNCHANGED thread
    BY <1>0, <2>1, <2>2 DEF Trigger
  <2>4. failed' = "none" /\ isOnStack[q] => isOnStack'[q]
    BY <1>a, <2>1, <2>2 DEF Trigger, PushEvalSteps
  <2> QED
    BY <2>3, <2>4 DEF MainLeft, Alive
<1>6. CASE op[p].kind \in {"PAR", "PARWHILE", "ALT"} /\ (StartClosure(p) \/ StartTriggered(p))
  <2>1. PICK o, k, args, ps, asserted : StartEvaluation(p, o, k, args, ps, asserted)
    BY <1>6 DEF StartClosure, StartTriggered
  <2>2. p # q
    BY <1>0, <1>6
  <2>3. op'[q] = op[q]
    BY <1>0, <2>1, <2>2 DEF StartEvaluation
  <2>4. failed' = "none" /\ isOnStack[q] => isOnStack'[q]
    BY <1>a, <2>1, <2>2 DEF StartEvaluation, PushEvalSteps
  <2>5. ASSUME NEW r \in Children(q), Alive(r) PROVE Alive(r)'
    <3>1. r \in Proc
      BY ChildFacts
    <3>2. thread'[r] = IF r = k THEN "running" ELSE thread[r]
      BY <1>0, <2>1, <3>1 DEF StartEvaluation
    <3> QED
      BY <2>5, <3>2 DEF Alive
  <2> QED
    BY <2>3, <2>4, <2>5 DEF MainLeft
<1> QED
  BY <1>1, <1>2, <1>3, <1>4, <1>5, <1>6, EvaluateShape

LEMMA OthersLeaveMain ==
  ASSUME IInv, WInv, NEW q \in Proc, IsMain(q), Next
  PROVE  MainLeft(q)
<1>0. /\ op[q].kind = "MAIN" /\ op \in [Proc -> Operation]
      /\ thread \in [Proc -> ThreadStatus] /\ isOnStack \in [Proc -> BOOLEAN]
      /\ q # NoProc /\ NoOp.kind = "none" /\ \A k \in Children(q) : k \in Proc
  BY ProcessAssumption, ChildFacts DEF IsMain, IInv, TypeOK, ProcessTypeOK, NoOp
<1>1. CASE HostMain \/ HostWork
  BY <1>0, <1>1 DEF HostMain, HostWork, MainLeft, Alive
<1>2. CASE TerminateMain
  <2> DEFINE gone == Descendants(Main)
  <2>1. \A k \in gone : k \in Children(q) => q = Main \/ q \in gone
    BY ProcessAssumption, DescendantsFacts
  <2>2. op'[q].kind = "MAIN" => q # Main /\ q \notin gone /\ op'[q] = op[q]
    BY <1>0, <1>2 DEF TerminateMain
  <2>3. /\ q \notin gone => (isOnStack'[q] <=> isOnStack[q])
        /\ \A k \in Proc : k \notin gone => thread'[k] = thread[k]
    BY <1>2 DEF TerminateMain
  <2> HIDE DEF gone
  <2> QED
    BY <1>0, <2>1, <2>2, <2>3 DEF MainLeft, Alive
<1>3. ASSUME NEW p \in Proc, LuaStep(p) PROVE MainLeft(q)
  <2>0. running = p /\ op[p].kind = "none" /\ p # q /\ thread[p] = "running"
    BY <1>0, <1>3, LuaTurn, RunningFacts
  <2>1. CASE \E o : Begins(p, o)
    <3>1. PICK o : Begins(p, o)
      BY <2>1
    <3>2. op'[q] = op[q]
      BY <1>0, <2>0, <3>1 DEF Begins, Yield
    <3>3. failed' = "none" /\ isOnStack[q] => isOnStack'[q]
      BY <3>1 DEF Begins, Yield, PushEvalSteps
    <3>4. ASSUME NEW k \in Children(q), Alive(k) PROVE Alive(k)'
      <4>1. k \in Proc /\ k \notin Range(o.closures)
        BY <1>0, <3>1, <3>4 DEF Begins, Free, Alive
      <4> QED
        BY <3>1, <3>4, <4>1 DEF Begins, Alive
    <3> QED
      BY <3>2, <3>3, <3>4 DEF MainLeft
  <2>2. ASSUME NEW status, End(p, status) PROVE MainLeft(q)
    <3>1. op'[q] = op[q]
      BY <2>2 DEF End
    <3>2. failed' = "none" => isOnStack' = [r \in Proc |-> isOnStack[r] \/ r \in Range(ParentToWake(p))]
      BY <2>2 DEF End, PushEvalSteps
    <3>3. ASSUME p \in Children(q), failed' = "none" PROVE isOnStack'[q]
      <4>1. parent[p] = q
        <5>1. PICK i \in DOMAIN op[q].closures : p = op[q].closures[i]
          BY <3>3, ChildFacts
        <5> QED
          BY <1>0, <5>1 DEF WInv, Begun, Spawning
      <4>2. isOnStack[q] \/ ParentToWake(p) = <<q>>
        BY <1>0, <4>1 DEF ParentToWake
      <4>3. Range(<<q>>) = {q}
        BY DEF Range
      <4> QED
        BY <3>2, <3>3, <4>2, <4>3
    <3>4. ASSUME NEW k \in Children(q), k # p PROVE Alive(k) => Alive(k)'
      BY <1>0, <2>2, <3>4 DEF End, Alive
    <3> QED
      BY <3>1, <3>2, <3>3, <3>4 DEF MainLeft
  <2>3. CASE Busy(p)
    BY <2>3 DEF Busy, MainLeft, Alive
  <2>4. CASE Close(p)
    <3>1. PICK c \in Chan : op' = [r \in Proc |-> IF r = attachIn[c] THEN CloseInput(op[r], c)
                                         ELSE IF r = attachOut[c] THEN CloseArguments(op[r])
                                         ELSE op[r]]
      BY <2>4 DEF Close
    <3>2. q # attachIn[c] /\ q # attachOut[c]
      BY <1>0 DEF IInv, Attached, WaitsIn, OffersOn
    <3>3. PICK ps : PushEvalSteps("none", stack, isOnStack, ps)
      BY <2>4 DEF Close
    <3>4. failed' = "none" /\ isOnStack[q] => isOnStack'[q]
      BY <3>3 DEF PushEvalSteps
    <3> QED
      BY <2>4, <3>1, <3>2, <3>4 DEF MainLeft, Alive, Close
  <2> QED
    BY <1>3, <2>1, <2>2, <2>3, <2>4, CallShape
<1>4. ASSUME NEW p \in Proc, EvaluateStep(p) PROVE MainLeft(q)
  BY <1>4, EvaluateLeavesMain
<1>5. ASSUME NEW p \in Proc, WorkStep(p) PROVE MainLeft(q)
  <2>1. CASE WorkSleep(p)
    <3>1. p # q
      BY <1>0, <2>1 DEF WorkSleep
    <3>2. PICK left, done, ps : /\ op' = [op EXCEPT ![p].seconds = left, ![p].finished = done]
                                /\ PushEvalSteps("none", stack, isOnStack, ps)
      BY <2>1 DEF WorkSleep
    <3>3. failed' = "none" /\ isOnStack[q] => isOnStack'[q]
      BY <3>2 DEF PushEvalSteps
    <3> QED
      BY <1>0, <2>1, <3>1, <3>2, <3>3 DEF MainLeft, Alive, WorkSleep
  <2>2. ASSUME NEW i, op[p].kind = "ALT", Trigger(p, i, stack, isOnStack) PROVE MainLeft(q)
    <3>1. p # q
      BY <1>0, <2>2
    <3>2. op'[q] = op[q] /\ UNCHANGED thread
      BY <1>0, <2>2, <3>1 DEF Trigger
    <3>3. failed' = "none" /\ isOnStack[q] => isOnStack'[q]
      BY <2>2 DEF Trigger, PushEvalSteps
    <3> QED
      BY <3>2, <3>3 DEF MainLeft, Alive
  <2>3. CASE UNCHANGED <<op, isOnStack, thread>>
    BY <2>3 DEF MainLeft, Alive
  <2> QED
    BY <1>5, <2>1, <2>2, <2>3 DEF WorkStep, ProcessWork, WorkNothing, WorkPar, WorkAlt
<1> QED
  BY <1>1, <1>2, <1>3, <1>4, <1>5 DEF Next

LEMMA OtherStepKeeps ==
  ASSUME SInv, OtherStep
  PROVE  SInv'
<1>0. /\ IInv /\ Turns /\ Prompt /\ WInv /\ SwarmTypes /\ NoDanglingMain /\ TailIsMain
      /\ MainsRest /\ Next /\ [Next]_vars /\ EndMains /\ tail' = tail
      /\ running # NoProc \/ tail = NoProc
  BY DEF SInv, OtherStep
<1>1. IInv' /\ Turns' /\ Prompt' /\ WInv'
  BY <1>0, NextIInv, NextTurns, NextPrompt, NextWakeup
<1>2. SwarmTypes'
  BY <1>0 DEF SwarmTypes, EndMains
<1>3. NoDanglingMain'
  <2> SUFFICES ASSUME NEW s \in Swarms, NEW p \in Proc, opMain'[s] = p
               PROVE  IsMain(p)' /\ swarm'[p] = s
    BY DEF NoDanglingMain
  <2>1. opMain[s] = p /\ \A q \in Terminated : swarm[q] # s
    BY <1>0, ProcessAssumption DEF EndMains
  <2>2. IsMain(p) /\ swarm[p] = s
    BY <1>0, <2>1 DEF NoDanglingMain
  <2>3. p \notin Terminated
    BY <2>1, <2>2
  <2> QED
    BY <1>0, <2>2, <2>3 DEF EndMains, Terminated, IsMain
<1>4. TailIsMain'
  <2> SUFFICES ASSUME tail # NoProc PROVE op'[tail].kind = "MAIN"
    BY <1>0 DEF TailIsMain, IsMain
  <2>1. PICK q \in Proc : q = tail /\ op[q].kind = "MAIN"
    BY <1>0 DEF TailIsMain, IsMain, SwarmTypes
  <2>2. running # NoProc /\ work = <<>> /\ thread[Main] # "ready"
    BY <1>0 DEF Turns
  <2>3. PICK p \in Proc : LuaStep(p)
    <3>1. ~HostMain /\ ~HostWork /\ ~TerminateMain
      BY <2>2 DEF HostMain, HostWork, TerminateMain, Idle
    <3>2. \A p \in Proc : ~EvaluateStep(p) /\ ~WorkStep(p)
      BY <2>2, EvaluateTurn, WorkTurn DEF Evaluating, Working
    <3> QED
      BY <1>0, <3>1, <3>2 DEF Next
  <2>4. running = p /\ op[p].kind = "none" /\ p # q
    BY <1>0, <2>1, <2>3, LuaTurn, RunningFacts
  <2>5. op'[q] = op[q]
    <3>1. CASE \E o : Begins(p, o)
      BY <1>0, <2>4, <3>1 DEF Begins, Yield, IInv, TypeOK, ProcessTypeOK
    <3>2. CASE \E status : End(p, status)
      BY <3>2 DEF End
    <3>3. CASE Busy(p)
      BY <3>3 DEF Busy
    <3>4. CASE Close(p)
      <4>1. PICK c \in Chan : op' = [r \in Proc |-> IF r = attachIn[c] THEN CloseInput(op[r], c)
                                           ELSE IF r = attachOut[c] THEN CloseArguments(op[r])
                                           ELSE op[r]]
        BY <3>4 DEF Close
      <4>2. q # attachIn[c] /\ q # attachOut[c]
        BY <1>0, <2>1 DEF IInv, Attached, WaitsIn, OffersOn
      <4> QED
        BY <4>1, <4>2
    <3> QED
      BY <1>0, <2>3, <3>1, <3>2, <3>3, <3>4, CallShape
  <2> QED
    BY <2>1, <2>5
<1>5. MainsRest'
  <2> SUFFICES ASSUME failed' = "none", NEW q \in Proc, op'[q].kind = "MAIN", ~isOnStack'[q]
               PROVE  /\ op'[q].closureToRun = Len(op'[q].closures)
                      /\ q = tail \/ \A k \in Children(q)' : Alive(k)'
    BY <1>0 DEF MainsRest, IsMain
  <2>1. IsMain(q) /\ failed = "none"
    <3>1. IsMain(q)
      BY <1>0, NoneBecomesMain DEF IsMain
    <3>2. failed = "none"
      BY <1>0, LuaTurn, EvaluateTurn, WorkTurn
         DEF Next, HostMain, HostWork, TerminateMain, Idle, Evaluating, Working
    <3> QED
      BY <3>1, <3>2
  <2>2. MainLeft(q)
    BY <1>0, <2>1, OthersLeaveMain
  <2>3. /\ op'[q] = op[q] /\ ~isOnStack[q]
        /\ \A k \in Children(q) : Alive(k) => Alive(k)'
    BY <2>2 DEF MainLeft
  <2>4. /\ op[q].closureToRun = Len(op[q].closures)
        /\ q = tail \/ \A k \in Children(q) : Alive(k)
    BY <1>0, <2>1, <2>3 DEF MainsRest
  <2>5. Children(q)' = Children(q)
    BY <2>3 DEF Children
  <2> QED
    BY <2>3, <2>4, <2>5
<1> QED
  BY <1>1, <1>2, <1>3, <1>4, <1>5 DEF SInv

LEMMA GoKeeps ==
  ASSUME SInv, NEW p \in Proc, Go(p)
  PROVE  SInv' /\ (PointedTo => PointedTo')
<1>0. IInv /\ SwarmTypes /\ NoDanglingMain /\ TailIsMain
  BY DEF SInv
<1>1. PICK m \in Proc, new \in Seq(Proc) : Gives(p, m, new)
  BY <1>0, GoGives
<1>2. IInv'
  BY <1>0, <1>1, GoStep
<1>3. Turns' /\ Prompt' /\ WInv' /\ MainsRest'
  BY <1>1, GoWakeup
<1>4. \A q \in Proc : IsMain(q)' <=> IsMain(q)
  <2>1. \A q \in Proc \ {m} : op'[q] = op[q]
    BY <1>0, <1>1, GoFacts
  <2>2. op'[m].kind = "MAIN"
    BY <1>0, <1>1, GoFacts
  <2> QED
    BY <1>1, <2>1, <2>2 DEF IsMain, Gives
<1>5. SwarmTypes' /\ NoDanglingMain' /\ TailIsMain'
  BY <1>0, <1>1, <1>4 DEF Gives, swarmVars, SwarmTypes, NoDanglingMain, TailIsMain
<1>6. PointedTo => PointedTo'
  BY <1>0, <1>1, GoPointedTo
<1> QED
  BY <1>2, <1>3, <1>5, <1>6 DEF SInv

LEMMA SwarmInitKeeps == SwarmInit => SInv
<1> SUFFICES ASSUME SwarmInit PROVE SInv
  OBVIOUS
<1>1. IInv /\ Turns /\ Prompt /\ WInv
  BY InitIInv, InitTurns, InitPrompt, InitWakeup DEF SwarmInit
<1>2. \A p \in Proc : ~IsMain(p)
  BY DEF SwarmInit, Init, ProcessInit, NoOp, IsMain
<1>3. SwarmTypes /\ NoDanglingMain /\ TailIsMain /\ MainsRest
  BY <1>2, ProcessAssumption
     DEF SwarmInit, SwarmTypes, NoDanglingMain, TailIsMain, MainsRest
<1> QED
  BY <1>1, <1>3 DEF SInv

LEMMA SwarmNextKeeps == SInv /\ [SwarmNext]_allVars => SInv'
<1> SUFFICES ASSUME SInv, [SwarmNext]_allVars PROVE SInv'
  OBVIOUS
<1>1. CASE OtherStep
  BY <1>1, OtherStepKeeps
<1>2. CASE EndEvalMain
  BY <1>2, EndEvalMainStep
<1>3. ASSUME NEW p \in Proc, MainInit(p) PROVE SInv'
  BY <1>3, MainInitStep
<1>4. ASSUME NEW p \in Proc, Go(p) PROVE SInv'
  BY <1>4, GoKeeps
<1>5. ASSUME NEW p \in Proc, EvalMain(p) PROVE SInv'
  BY <1>5, EvalMainStep
<1>6. ASSUME NEW p \in Proc, WorkMain(p) PROVE SInv'
  BY <1>6, WorkMainStep
<1>7. CASE UNCHANGED allVars
  <2>1. UNCHANGED vars /\ UNCHANGED <<opMain, swarm, tail, op, thread, isOnStack, failed>>
    BY <1>7 DEF allVars, vars, procVars, swarmVars
  <2>2. IInv' /\ Turns' /\ Prompt' /\ WInv'
    BY <2>1, NextIInv, NextTurns, NextPrompt, NextWakeup DEF SInv
  <2>3. SwarmTypes' /\ NoDanglingMain' /\ TailIsMain' /\ MainsRest'
    BY <2>1 DEF SInv, SwarmTypes, NoDanglingMain, TailIsMain, MainsRest, IsMain, Alive, Children
  <2> QED
    BY <2>2, <2>3 DEF SInv
<1> QED
  BY <1>1, <1>2, <1>3, <1>4, <1>5, <1>6, <1>7 DEF SwarmNext

----------------------------------------------------------------------------
(***************************************************************************)
(* The theorems.                                                           *)
(***************************************************************************)
(***************************************************************************)
(* Swarms leave all that the other operations rely on in place: IInv,      *)
(* Turns, Prompt and WInv are invariants of the composed system too.       *)
(***************************************************************************)
THEOREM SwarmInductive == SwarmSpec => []SInv
<1> QED
  BY SwarmInitKeeps, SwarmNextKeeps, PTL DEF SwarmSpec

(* Every variable of the composed system always has its type. *)
THEOREM SwarmTypeCorrect == SwarmSpec => []SwarmTypeOK
<1>1. SInv => SwarmTypeOK
  BY DEF SInv, IInv, SwarmTypes, SwarmTypeOK
<1> QED
  BY <1>1, SwarmInductive, PTL

(***************************************************************************)
(* The closures given to go are in the tree of processes, and those that   *)
(* MAIN destroys (swarm.cpp:126-157) leave it: nothing that lives is       *)
(* without an operation that has it, and nothing has two.                  *)
(***************************************************************************)
THEOREM SwarmsKeepTree == SwarmSpec => []ProcessTree
<1>1. SInv => ProcessTree
  BY TreeFacts DEF SInv
<1> QED
  BY <1>1, SwarmInductive, PTL

(***************************************************************************)
(* The pointer of a swarm to its MAIN (swarm.h:39) is that of the MAIN     *)
(* that runs, and of none when none runs, in programs that do not start a  *)
(* second MAIN of a swarm while one runs.  With a second one Terminate of  *)
(* either clears the pointer (swarm.cpp:216-220).                          *)
(***************************************************************************)
THEOREM SwarmKnowsItsMain ==
  ASSUME "twice" \notin Calls
  PROVE  SwarmSpec => []SwarmPointsToMain
<1> DEFINE Knows == \A s \in Swarms, p \in Proc : IsMain(p) /\ swarm[p] = s => opMain[s] = p
<1>1. SwarmInit => Knows
  BY DEF SwarmInit, Init, ProcessInit, NoOp, IsMain
<1>2. SInv /\ Knows /\ [SwarmNext]_allVars => Knows'
  <2> SUFFICES ASSUME SInv, Knows, [SwarmNext]_allVars, NEW s \in Swarms, NEW p \in Proc,
                      op'[p].kind = "MAIN", swarm'[p] = s
               PROVE  opMain'[s] = p
    BY DEF IsMain
  <2>0. /\ IInv /\ SwarmTypes /\ NoDanglingMain /\ op \in [Proc -> Operation]
        /\ \A q \in Proc : q # NoProc
    BY ProcessAssumption DEF SInv, IInv, TypeOK, ProcessTypeOK
  <2>1. CASE OtherStep
    <3>1. IsMain(p) /\ EndMains
      BY <2>0, <2>1, NoneBecomesMain DEF OtherStep, IsMain
    <3>2. swarm[p] = s
      BY <2>0, <3>1, SwarmAssumption DEF EndMains
    <3>3. opMain[s] = p
      BY <3>1, <3>2
    <3>4. \A q \in Terminated : swarm[q] # s
      <4> SUFFICES ASSUME NEW q \in Proc, IsMain(q), op'[q].kind # "MAIN", swarm[q] = s
                   PROVE  FALSE
        BY DEF Terminated
      <4>1. opMain[s] = q
        OBVIOUS
      <4> QED
        BY <3>3, <4>1
    <3> QED
      BY <2>0, <3>1, <3>3, <3>4 DEF EndMains
  <2>2. CASE UNCHANGED <<opMain, swarm>> /\ (op'[p].kind = "MAIN" => op[p].kind = "MAIN")
    BY <2>2 DEF IsMain
  <2>3. ASSUME NEW q \in Proc, MainInit(q) PROVE opMain'[s] = p
    <3>1. PICK t \in Swarms : /\ opMain[t] = NoProc
                              /\ opMain' = [opMain EXCEPT ![t] = q]
                              /\ swarm' = [swarm EXCEPT ![q] = t]
      BY <2>3 DEF MainInit
    <3>2. p # q => op'[p] = op[p]
      BY <2>0, <2>3 DEF MainInit, Yield
    <3>3. CASE p = q
      BY <2>0, <3>1, <3>3 DEF SwarmTypes
    <3>4. CASE p # q
      <4>1. IsMain(p) /\ swarm[p] = s
        BY <2>0, <3>1, <3>2, <3>4 DEF SwarmTypes, IsMain
      <4>2. opMain[s] = p /\ s # t
        BY <2>0, <3>1, <4>1
      <4> QED
        BY <2>0, <3>1, <4>2 DEF SwarmTypes
    <3> QED
      BY <3>3, <3>4
  <2>4. ASSUME NEW q \in Proc, Go(q) PROVE opMain'[s] = p
    <3>1. PICK m \in Proc, new \in Seq(Proc) : Gives(q, m, new)
      BY <2>0, <2>4, GoGives
    <3>2. p # m => op'[p] = op[p]
      BY <2>0, <3>1, GoFacts
    <3>3. UNCHANGED <<opMain, swarm>> /\ IsMain(m)
      BY <3>1 DEF Gives, swarmVars
    <3> QED
      BY <2>2, <3>2, <3>3 DEF IsMain
  <2>5. ASSUME NEW q \in Proc, EvalMain(q) PROVE opMain'[s] = p
    <3>1. UNCHANGED <<opMain, swarm>> /\ op[q].kind = "MAIN"
      BY <2>5 DEF EvalMain, IsMain
    <3>2. CASE StartNext(q)
      <4>1. p # q => op'[p] = op[p]
        BY <2>0, <3>2 DEF StartNext, StartEvaluation
      <4> QED
        BY <2>2, <3>1, <4>1
    <3>3. CASE Collect(q, Ended(op[q]))
      <4>1. p # q => op'[p] \in {op[p], NoOp}
        BY <3>3 DEF Collect
      <4> QED
        BY <2>2, <3>1, <4>1 DEF NoOp
    <3> QED
      BY <2>5, <3>2, <3>3 DEF EvalMain
  <2>6. CASE EndEvalMain
    <3>1. UNCHANGED <<opMain, swarm>> /\ IsMain(tail) /\ Collect(tail, Ended(op[tail]))
      BY <2>6 DEF EndEvalMain, SInv, TailIsMain
    <3>2. p # tail => op'[p] \in {op[p], NoOp}
      BY <3>1 DEF Collect
    <3> QED
      BY <2>2, <3>1, <3>2 DEF NoOp, IsMain
  <2>7. CASE UNCHANGED <<op, opMain, swarm>>
    BY <2>2, <2>7
  <2>8. ASSUME NEW q \in Proc, WorkMain(q) PROVE opMain'[s] = p
    BY <2>7, <2>8 DEF WorkMain, swarmVars
  <2> QED
    BY <2>1, <2>3, <2>4, <2>5, <2>6, <2>7, <2>8
       DEF SwarmNext, allVars, vars, procVars, swarmVars
<1>3. SInv /\ Knows => SwarmPointsToMain
  <2> SUFFICES ASSUME SInv, Knows PROVE SwarmPointsToMain
    OBVIOUS
  <2>1. NoDanglingMain
    BY DEF SInv
  <2> QED
    BY <2>1 DEF NoDanglingMain, SwarmPointsToMain
<1> HIDE DEF Knows
<1> QED
  BY <1>1, <1>2, <1>3, SwarmInductive, PTL DEF SwarmSpec

(* What waits on a channel stays pointed to. *)
LEMMA SwarmNextWaiting ==
  ASSUME {"ALT", "close"} \subseteq Calls => NoChannelTwice,
         SInv, PointedTo, [SwarmNext]_allVars
  PROVE  PointedTo'
<1>1. CASE OtherStep \/ UNCHANGED allVars
  <2>1. IInv /\ [Next]_vars
    BY <1>1 DEF SInv, OtherStep, allVars
  <2> QED
    BY <2>1, NextWaiting
<1> QED
  BY <1>1, EndEvalMainStep, MainInitStep, GoKeeps, EvalMainStep, WorkMainStep DEF SwarmNext

(***************************************************************************)
(* Next to swarms there is no operation of an extension, and who is        *)
(* suspended without an operation is the main process, terminated.         *)
(***************************************************************************)
Plain == (\A q \in Proc : op[q].kind \notin {"CPPOUT", "LUA"}) /\ Suspended

LEMMA SwarmNextPlain ==
  ASSUME SInv, Plain, [SwarmNext]_allVars
  PROVE  Plain'
<1> DEFINE New(q) == /\ op'[q].kind \notin {"CPPOUT", "LUA"}
                     /\ thread'[q] = "yield" /\ op'[q].kind = "none" =>
                          q = Main /\ "terminate" \in Calls
<1>0. /\ IInv /\ op \in [Proc -> Operation] /\ thread \in [Proc -> ThreadStatus]
      /\ NoOp.kind = "none"
  BY DEF SInv, IInv, TypeOK, ProcessTypeOK, NoOp
<1>1. SUFFICES ASSUME NEW q \in Proc PROVE New(q)
  BY DEF Plain, Suspended
<1>2. ASSUME op'[q] = op[q], thread'[q] = thread[q] PROVE New(q)
  BY <1>2 DEF Plain, Suspended
<1>3. ASSUME op'[q].kind = "MAIN" PROVE New(q)
  BY <1>3
<1>4. ASSUME op'[q].kind \notin {"CPPOUT", "LUA"}, thread'[q] # "yield" PROVE New(q)
  BY <1>4
<1>5. CASE OtherStep \/ UNCHANGED allVars
  <2>1. [Next]_vars
    BY <1>5 DEF OtherStep, allVars
  <2>2. op'[q].kind \notin {"CPPOUT", "LUA"}
    BY <1>0, <2>1, StepKinds DEF KindStep, SameKind, ForeignKinds, Plain
  <2> QED
    BY <1>0, <2>1, <2>2, StepSuspended DEF Plain, Suspended
<1>6. ASSUME NEW p \in Proc, MainInit(p) PROVE New(q)
  <2>1. /\ op' = [op EXCEPT ![p] = [NoOp EXCEPT !.kind = "MAIN"]]
        /\ thread' = [thread EXCEPT ![p] = "yield"]
    BY <1>6 DEF MainInit, Yield
  <2>2. [NoOp EXCEPT !.kind = "MAIN"].kind = "MAIN"
    BY DEF NoOp
  <2>3. q = p => op'[q].kind = "MAIN"
    BY <1>0, <2>1, <2>2
  <2>4. q # p => op'[q] = op[q] /\ thread'[q] = thread[q]
    BY <1>0, <2>1
  <2> QED
    BY <1>2, <1>3, <2>3, <2>4
<1>7. ASSUME NEW p \in Proc, Go(p) PROVE New(q)
  <2>1. PICK m \in Proc, new \in Seq(Proc) : Gives(p, m, new)
    BY <1>0, <1>7, GoGives DEF SInv
  <2>2. q # m => op'[q] = op[q]
    BY <1>0, <2>1, GoFacts DEF SInv
  <2>3. IsMain(m) /\ (q = m => op'[q].kind = "MAIN")
    BY <1>0, <2>1 DEF Gives, IsMain, Operation
  <2>4. thread'[q] \in {thread[q], "ready"}
    BY <1>0, <2>1 DEF Gives
  <2> QED
    BY <1>2, <1>3, <1>4, <2>2, <2>3, <2>4 DEF Plain
<1>8. ASSUME NEW p \in Proc, IsMain(p), Collect(p, Ended(op[p])) PROVE New(q)
  <2>1. q = p => op'[q].kind = "MAIN"
    BY <1>0, <1>8 DEF Collect, Collected, IsMain, Operation
  <2>2. q # p => \/ op'[q] = op[q] /\ thread'[q] = thread[q]
                 \/ op'[q] = NoOp /\ thread'[q] = "free"
    BY <1>8 DEF Collect
  <2> QED
    BY <1>0, <1>2, <1>3, <1>4, <2>1, <2>2
<1>9. ASSUME NEW p \in Proc, EvalMain(p) PROVE New(q)
  <2>1. CASE StartNext(p)
    <3>1. PICK next, k, ps : StartEvaluation(p, [op[p] EXCEPT !.closureToRun = next], k, NoArgs, ps, "none")
      BY <2>1 DEF StartNext
    <3>2. /\ q = p => op'[q].kind = "MAIN"
          /\ q # p => op'[q] = op[q]
          /\ thread'[q] \in {thread[q], "running"}
      BY <1>0, <1>9, <3>1 DEF StartEvaluation, EvalMain, IsMain, Operation
    <3> QED
      BY <1>2, <1>3, <1>4, <3>2 DEF Plain
  <2> QED
    BY <1>8, <1>9, <2>1 DEF EvalMain
<1>10. CASE EndEvalMain
  BY <1>8, <1>10 DEF EndEvalMain, SInv, SwarmTypes, TailIsMain
<1>11. ASSUME NEW p \in Proc, WorkMain(p) PROVE New(q)
  BY <1>2, <1>11 DEF WorkMain
<1> QED
  BY <1>5, <1>6, <1>7, <1>9, <1>10, <1>11 DEF SwarmNext

(***************************************************************************)
(* "Fire-and-forget": when the evaluator comes to rest every closure given *)
(* to go has been started and every one that has ended has been collected, *)
(* and nobody else is forgotten either: in programs that close no channel, *)
(* or whose ALTs name no channel twice.  An ALT with two guards on one     *)
(* channel forgets its writer when it is closed, with swarms and without.  *)
(***************************************************************************)
THEOREM NothingGivenIsForgotten ==
  ASSUME {"ALT", "close"} \subseteq Calls => NoChannelTwice
  PROVE  SwarmSpec => []NoLostGo
<1>1. SwarmInit => PointedTo /\ Plain
  BY InitWaiting DEF SwarmInit, Init, ProcessInit, NoOp, Plain, Suspended
<1>2. SInv /\ PointedTo /\ Plain /\ [SwarmNext]_allVars => PointedTo' /\ Plain'
  BY SwarmNextWaiting, SwarmNextPlain
<1>3. SInv /\ PointedTo /\ Plain => NoLostGo
  <2> SUFFICES ASSUME SInv, PointedTo, Plain, AtRest, NEW p \in Proc, thread[p] = "yield"
               PROVE  SwarmBlocked(p)
    BY DEF NoLostGo
  <2>0. /\ IInv /\ Prompt /\ WInv /\ MainsRest /\ Idle /\ tail = NoProc
        /\ failed = "none" /\ running = NoProc /\ stack = <<>> /\ p # NoProc
    BY ProcessAssumption DEF SInv, AtRest, Idle
  <2>1. CASE ~IsMain(p)
    BY <2>0, <2>1, RestingIsBlocked DEF SwarmBlocked, IsMain, Plain, ForeignKinds, Suspended
  <2>2. CASE IsMain(p)
    <3>1. ~isOnStack[p]
      BY <2>0 DEF IInv, StackConsistent, Range
    <3>2. op[p].closureToRun = Len(op[p].closures) /\ \A k \in Children(p) : Alive(k)
      BY <2>0, <2>2, <3>1 DEF MainsRest
    <3>3. ToRun(op[p]) = <<>>
      BY <2>0, <3>2, ListFacts
    <3>4. ASSUME NEW k \in Children(p) PROVE IsRunning(k)
      <4>1. k \in Proc /\ k # NoProc
        BY <2>0, ChildFacts, ProcessAssumption
      <4>2. thread[k] # "running"
        BY <2>0, <4>1 DEF WInv, OnlyRunning
      <4> QED
        BY <3>2, <4>2 DEF Alive, IsRunning
    <3> QED
      BY <2>2, <3>3, <3>4 DEF SwarmBlocked
  <2> QED
    BY <2>1, <2>2
<1> QED
  BY <1>1, <1>2, <1>3, SwarmInductive, PTL DEF SwarmSpec

(* Those to run are the closures after the first closureToRun. *)
LEMMA ToRunEntries ==
  ASSUME NEW o, o.closures \in Seq(Proc), o.closureToRun \in 0 .. Len(o.closures), NEW k
  PROVE  k \in Range(ToRun(o)) <=>
           \E i \in DOMAIN o.closures : i > o.closureToRun /\ k = o.closures[i]
<1> DEFINE s == o.closures
           n == o.closureToRun
           l == Len(s)
           left == SubSeq(s, n + 1, l)
<1>1. l \in Nat /\ DOMAIN s = 1 .. l /\ n \in Nat /\ \A i \in 1 .. l : s[i] \in Proc
  BY LenProperties, ElementOfSeq
<1>0. n <= l
  OBVIOUS
<1>2. /\ left \in Seq(Proc) /\ Len(left) = l - n /\ \A i \in 1 .. l - n : left[i] = s[n + i]
  <2>1. \A i \in n + 1 .. l : s[i] \in Proc
    BY <1>1
  <2>2. /\ SubSeq(s, n + 1, l) \in Seq(Proc)
        /\ Len(SubSeq(s, n + 1, l)) = IF n + 1 <= l THEN l - (n + 1) + 1 ELSE 0
        /\ \A i \in 1 .. l - (n + 1) + 1 : SubSeq(s, n + 1, l)[i] = s[n + 1 + i - 1]
    BY <1>1, <2>1, SubSeqProperties, SMTT(30)
  <2> HIDE DEF left, s, n, l
  <2>3. (n + 1 <= l => l - (n + 1) + 1 = l - n) /\ (~(n + 1 <= l) => l - n = 0)
    BY <1>1, <1>0
  <2>4. Len(left) = l - n
    BY <2>2, <2>3 DEF left
  <2>5. ASSUME NEW i \in 1 .. l - n PROVE left[i] = s[n + i]
    <3>1. i \in 1 .. l - (n + 1) + 1 /\ n + 1 + i - 1 = n + i
      BY <1>1
    <3> QED
      BY <2>2, <3>1 DEF left
  <2> QED
    BY <2>2, <2>4, <2>5 DEF left
<1> HIDE DEF left
<1>3. DOMAIN left = 1 .. l - n
  BY <1>1, <1>2, LenProperties
<1>4. \A i \in 1 .. l - n : n + i \in 1 .. l /\ n + i > n
  BY <1>1
<1>5. \A i \in 1 .. l : i > n => i - n \in 1 .. l - n /\ n + (i - n) = i
  BY <1>1
<1>6. Range(left) = {left[i] : i \in 1 .. l - n}
  BY <1>3 DEF Range
<1>7. ToRun(o) = left
  BY DEF ToRun, left
<1>8. ASSUME k \in Range(left) PROVE \E i \in DOMAIN s : i > n /\ k = s[i]
  <2>1. PICK i \in 1 .. l - n : k = left[i]
    BY <1>6, <1>8
  <2>2. n + i \in DOMAIN s /\ n + i > n /\ k = s[n + i]
    BY <1>1, <1>2, <1>4, <2>1
  <2> QED
    BY <2>2
<1>9. ASSUME NEW i \in DOMAIN s, i > n, k = s[i] PROVE k \in Range(left)
  <2>1. i - n \in 1 .. l - n /\ left[i - n] = s[n + (i - n)] /\ n + (i - n) = i
    BY <1>1, <1>2, <1>5, <1>9
  <2> QED
    BY <1>6, <1>9, <2>1
<1> QED
  BY <1>7, <1>8, <1>9

(***************************************************************************)
(* A closure given to go leaves the list of those to run only by being     *)
(* started, or because its MAIN ends: OpSwarmMain::CheckFinished           *)
(* (swarm.cpp:126-157), which destroys what has ended, never takes one     *)
(* that has not begun for one that has ended.                              *)
(***************************************************************************)
THEOREM GivenIsStarted == SwarmSpec => LeftToRun
<1> DEFINE Leaves == \A m, k \in Proc :
                       IsMain(m) /\ op'[m].kind = "MAIN" /\ k \in Range(ToRun(op[m]))
                       => k \in Range(ToRun(op'[m])) \/ running' = k
<1>1. SInv /\ [SwarmNext]_allVars => [Leaves]_allVars
  <2> SUFFICES ASSUME SInv, SwarmNext, NEW m \in Proc, NEW k \in Proc, IsMain(m),
                      op'[m].kind = "MAIN", k \in Range(ToRun(op[m])),
                      op'[m] # op[m]
               PROVE  k \in Range(ToRun(op'[m])) \/ running' = k
    OBVIOUS
  <2>0. /\ IInv /\ WInv /\ op \in [Proc -> Operation] /\ op[m].kind = "MAIN"
        /\ op[m].closures \in Seq(Proc) /\ op[m].closureToRun \in 0 .. Len(op[m].closures)
        /\ op[m].closureToRun \in Nat /\ op[m] \in Operation
        /\ DOMAIN op[m].closures \subseteq Nat
        /\ DOMAIN op[m].closures = 1 .. Len(op[m].closures) /\ Len(op[m].closures) \in Nat
    <3>1. IInv /\ WInv /\ op[m].kind = "MAIN" /\ op \in [Proc -> Operation]
          /\ op[m].closures \in Seq(Proc) /\ op[m] \in Operation
      BY DEF SInv, IInv, TypeOK, ProcessTypeOK, Operation, IsMain
    <3> QED
      BY <3>1, ChildFacts
  <2>a. PICK i \in DOMAIN op[m].closures : i > op[m].closureToRun /\ k = op[m].closures[i]
    BY <2>0, ToRunEntries
  <2>e. \A j, h \in DOMAIN op[m].closures : op[m].closures[j] = op[m].closures[h] => j = h
    BY <2>0 DEF IInv, Tree
  <2>b. SInv'
    BY SwarmNextKeeps
  <2>c. /\ op'[m].closures \in Seq(Proc)
        /\ op'[m].closureToRun \in 0 .. Len(op'[m].closures)
    <3>1. IInv' /\ op'[m].closures \in Seq(Proc) /\ op'[m].closureToRun \in Nat
      BY <2>b DEF SInv, IInv, TypeOK, ProcessTypeOK, Operation
    <3>2. op'[m].closureToRun <= Len(op'[m].closures) /\ Len(op'[m].closures) \in Nat
      BY <3>1, LenProperties DEF IInv, Closures
    <3> QED
      BY <3>1, <3>2
  <2>d. (\E j \in DOMAIN op'[m].closures : j > op'[m].closureToRun /\ k = op'[m].closures[j])
          => k \in Range(ToRun(op'[m]))
    <3>1. PICK o : o = op'[m]
      OBVIOUS
    <3> QED
      BY <2>c, <3>1, ToRunEntries
  <2>1. CASE OtherStep
    BY <2>0, <2>1, OthersLeaveMain DEF OtherStep, MainLeft
  <2>2. ASSUME NEW p \in Proc, MainInit(p) PROVE FALSE
    <3>1. p # m
      BY <2>0, <2>2, RunningFacts DEF MainInit, InLua
    <3> QED
      BY <2>0, <2>2, <3>1 DEF MainInit, Yield
  <2>3. ASSUME NEW p \in Proc, Go(p) PROVE k \in Range(ToRun(op'[m]))
    <3>1. PICK r \in Proc, new \in Seq(Proc) : Gives(p, r, new)
      BY <2>3, GoGives DEF SInv
    <3>2. r = m
      BY <2>0, <3>1, GoFacts
    <3>3. /\ op'[m].closureToRun = op[m].closureToRun
          /\ DOMAIN op'[m].closures = 1 .. Len(op[m].closures) + Len(new)
          /\ Len(new) \in Nat
          /\ \A j \in DOMAIN op'[m].closures :
               op'[m].closures[j] = IF j <= Len(op[m].closures) THEN op[m].closures[j]
                                    ELSE new[j - Len(op[m].closures)]
      BY <2>0, <3>1, <3>2, GoFacts
    <3>4. i \in DOMAIN op'[m].closures /\ op'[m].closures[i] = k
      BY <2>0, <2>a, <3>3
    <3> QED
      BY <2>a, <2>d, <3>3, <3>4
  <2>4. ASSUME NEW p \in Proc, StartNext(p) PROVE k \in Range(ToRun(op'[m])) \/ running' = k
    <3> DEFINE next == op[m].closureToRun + 1
    <3>1. p = m
      BY <2>0, <2>4 DEF StartNext, StartEvaluation
    <3>2. /\ op'[m] = [op[m] EXCEPT !.closureToRun = next] /\ running' = op[m].closures[next]
      BY <2>0, <2>4, <3>1 DEF StartNext, StartEvaluation
    <3>3. op'[m].closures = op[m].closures /\ op'[m].closureToRun = next
      BY <2>0, <3>2 DEF Operation
    <3>4. i = next \/ i > next
      BY <2>0, <2>a
    <3> QED
      BY <2>a, <2>d, <3>2, <3>3, <3>4
  <2>5. ASSUME NEW p \in Proc, IsMain(p), Collect(p, Ended(op[p])) PROVE k \in Range(ToRun(op'[m]))
    <3> SUFFICES ASSUME NEW gone, gone = Ended(op[p]), Collect(p, gone)
                 PROVE  k \in Range(ToRun(op'[m]))
      BY <2>5
    <3>1. m \notin gone
      <4>1. ASSUME m \in gone PROVE op[m].kind = "none"
        BY <2>0, <2>5, <4>1, CollectFacts
      <4> QED
        BY <2>0, <4>1
    <3>2. p = m
      <4>1. p # m => op'[m] = op[m]
        BY <2>0, <2>5, <3>1, CollectFacts
      <4> QED
        BY <4>1
    <3>3. k \notin gone
      <4> SUFFICES ASSUME k \in gone PROVE FALSE
        OBVIOUS
      <4>1. k \in Range(StartedOf(op[m]))
        BY <3>2 DEF Ended
      <4>2. Range(StartedOf(op[m])) = {op[m].closures[j] : j \in 1 .. op[m].closureToRun}
        BY <2>0, ListFacts
      <4>3. PICK j \in 1 .. op[m].closureToRun : k = op[m].closures[j]
        BY <4>1, <4>2
      <4>4. j \in DOMAIN op[m].closures /\ j # i
        BY <2>0, <2>a
      <4> QED
        BY <2>a, <2>e, <4>3, <4>4
    <3>4. k \in Children(m)'
      <4>1. k \in Children(m)
        BY <2>0, <2>a, ChildFacts
      <4>2. Children(m)' = Children(m) \ gone
        BY <2>0, <2>5, CollectFacts
      <4> QED
        BY <3>3, <4>1, <4>2
    <3>5. PICK j \in DOMAIN op'[m].closures : k = op'[m].closures[j]
      BY <3>4 DEF Children, Range
    <3>6. PICK h \in DOMAIN op[m].closures :
            /\ op'[m].closures[j] = op[m].closures[h]
            /\ j <= op'[m].closureToRun <=> h <= op[m].closureToRun
      BY <2>0, <2>5, <3>2, CollectFacts, SMTT(30)
    <3>7. h = i
      BY <2>a, <2>e, <3>5, <3>6
    <3>8. j > op'[m].closureToRun
      <4>1. j \in Nat /\ op'[m].closureToRun \in Nat
        BY <2>c, LenProperties
      <4> QED
        BY <2>0, <2>a, <3>6, <3>7, <4>1
    <3> QED
      BY <2>d, <3>5, <3>8
  <2>6. CASE EndEvalMain
    <3>1. PICK p \in Proc : p = tail /\ IsMain(p)
      BY <2>6 DEF EndEvalMain, SInv, SwarmTypes, TailIsMain
    <3> QED
      BY <2>5, <2>6, <3>1 DEF EndEvalMain
  <2>7. ASSUME NEW p \in Proc, EvalMain(p) PROVE k \in Range(ToRun(op'[m])) \/ running' = k
    BY <2>4, <2>5, <2>7 DEF EvalMain
  <2>8. ASSUME NEW p \in Proc, WorkMain(p) PROVE FALSE
    BY <2>8 DEF WorkMain
  <2> QED
    BY <2>1, <2>2, <2>3, <2>6, <2>7, <2>8 DEF SwarmNext
<1>2. SwarmSpec => [][Leaves]_allVars
  BY <1>1, SwarmInductive, PTL DEF SwarmSpec
<1> QED
  BY <1>2 DEF LeftToRun

----------------------------------------------------------------------------
(***************************************************************************)
(* The assertions of the debug build, with swarms.                         *)
(***************************************************************************)
(* An operation ends or is one of a swarm, and the others stay. *)
Spared(q) == op'[q] = op[q] \/ op'[q] = NoOp \/ op'[q].kind = "MAIN"

LEMMA SparedKeep ==
  ASSUME AInv, Values, \A q \in Proc : Spared(q)
  PROVE  /\ Values'
         /\ \A q \in Proc : IntactAlt(op'[q]) /\ (Awaits(q)' => Awaits(q))
<1>1. Values'
  BY DEF Values, Honest, Spared, NoOp
<1>2. ASSUME NEW q \in Proc PROVE IntactAlt(op'[q])
  BY DEF AInv, Intact, IntactAlt, Spared, NoOp
<1>3. ASSUME NEW q \in Proc PROVE Awaits(q)' => Awaits(q)
  <2>1. CASE op'[q] = op[q]
    BY <2>1, AwaitsKept
  <2>2. CASE op'[q] = NoOp \/ op'[q].kind = "MAIN"
    BY <2>2 DEF NoOp, Awaits, WaitsIn, OffersOn
  <2> QED
    BY <2>1, <2>2 DEF Spared
<1> QED
  BY <1>1, <1>2, <1>3

(* The end of an Evaluate is still to come only while no delta time is handed down. *)
TailFirst == tail # NoProc => work = <<>>

LEMMA MainInitAsserts ==
  ASSUME KeepsTheRules, SInv, AInv, Values, NEW p \in Proc, MainInit(p)
  PROVE  AInv' /\ Values'
<1>0. /\ IInv /\ Turns /\ op \in [Proc -> Operation] /\ thread \in [Proc -> ThreadStatus]
      /\ NoOp \in Operation
  BY TypeFacts DEF SInv, IInv, TypeOK, ProcessTypeOK
<1>1. PICK o : o = [NoOp EXCEPT !.kind = "MAIN"]
  OBVIOUS
<1>2. /\ o.kind = "MAIN" /\ o.closures = <<>> /\ o.closureToRun = 0
      /\ o.caseTriggered = 0 /\ ~o.argumentsMoved /\ ~o.finished /\ o.arguments = NoArgs
  BY <1>1 DEF NoOp
<1>3. DOMAIN o.closures \subseteq Nat \ {0} /\ Range(o.closures) = {}
  BY <1>2, NonePushed
<1>4. /\ running = p /\ failed = "none" /\ Yield(p, o) /\ parent' = parent
      /\ thread' = [thread EXCEPT ![p] = "yield"]
  BY <1>1 DEF MainInit, InLua
<1>5. parent \in [Proc -> Proc \cup {NoProc}]
  BY <1>0 DEF IInv, TypeOK, ProcessTypeOK
<1>6. Begins(p, o)
  BY <1>0, <1>2, <1>3, <1>4, <1>5 DEF Begins, ForeignKinds
<1>7. op' = [op EXCEPT ![p] = o]
  BY <1>4 DEF Yield
<1>8. \A q \in Proc : Spared(q)
  BY <1>0, <1>2, <1>7 DEF Spared
<1> QED
  BY <1>0, <1>6, <1>8, CallAsserts, SparedKeep

LEMMA GoAsserts ==
  ASSUME KeepsTheRules, SInv, AInv, Values, NEW p \in Proc, Go(p)
  PROVE  AInv' /\ Values'
<1>0. /\ IInv /\ Turns /\ SwarmTypes /\ NoDanglingMain
      /\ stack \in Seq(Proc) /\ StackFlags(stack, isOnStack)
  BY DEF SInv, IInv, TypeOK, ProcessTypeOK, StackConsistent, StackFlags
<1>1. PICK m \in Proc, new \in Seq(Proc) : Gives(p, m, new)
  BY <1>0, GoGives
<1>2. /\ running # NoProc /\ work = <<>> /\ work' = <<>> /\ running' = running
      /\ PushEvalSteps("none", stack, isOnStack, MainToWake(m)) /\ IsMain(m)
  BY <1>0, <1>1, ProcessAssumption DEF Gives, Turns, hostVars
<1>3. \A q \in Proc : Spared(q)
  BY <1>0, <1>1, GoFacts DEF Spared
<1>4. failed' = "none" /\ Range(stack') \subseteq Range(stack) \cup {m}
  <2>1. PICK stk, flags : stk \in Seq(Proc) /\ stk = stack /\ flags = isOnStack
    BY <1>0
  <2>2. PICK ps \in Seq(Proc) :
          /\ ps = MainToWake(m) /\ Injective(ps) /\ Range(ps) \subseteq {m}
          /\ ~isOnStack[m] \/ Range(ps) = {}
    BY OnePushed, NonePushed DEF MainToWake
  <2>3. /\ StackFlags(stk, flags) /\ PushEvalSteps("none", stk, flags, ps)
        /\ Range(ps) \cap Range(stk) = {}
    BY <1>0, <1>2, <2>1, <2>2 DEF StackFlags
  <2>4. failed' = "none" /\ Range(stack') = Range(stk) \cup Range(ps)
    BY <2>1, <2>2, <2>3, PushesSucceed
  <2> QED
    BY <2>1, <2>2, <2>4
<1>5. \A q \in Range(stack') : Awaits(q)' => Evaluating(q)'
  <2> SUFFICES ASSUME NEW q \in Range(stack'), Awaits(q)' PROVE FALSE
    OBVIOUS
  <2>1. q \in Proc
    <3>1. Range(stack) \subseteq Proc
      BY <1>0, RangeOfSeq
    <3>2. m \in Proc
      OBVIOUS
    <3> QED
      BY <1>4, <3>1, <3>2
  <2>2. Awaits(q)
    BY <1>3, <2>1, SparedKeep
  <2>3. q # m
    BY <1>2, <2>2, AwaitsKinds DEF IsMain
  <2> QED
    BY <1>2, <1>4, <2>1, <2>2, <2>3, NobodyWaits DEF AInv
<1> QED
  BY <1>2, <1>3, <1>4, <1>5, SparedKeep, QuietStep

(* What has ended is collected. *)
LEMMA CollectsAsserts ==
  ASSUME SInv, AInv, Values, NEW p \in Proc, Collects(p), work = <<>>
  PROVE  AInv' /\ Values'
<1>0. /\ IInv /\ IsMain(p) /\ stack \in Seq(Proc) /\ op \in [Proc -> Operation]
      /\ UNCHANGED <<running, work, failed>> /\ failed = "none"
  BY DEF SInv, Collects, Collect, hostVars, IInv, TypeOK, ProcessTypeOK
<1>1. \A q \in Proc : Spared(q)
  <2>1. PICK gone : gone = Ended(op[p])
    OBVIOUS
  <2>2. Collect(p, gone)
    BY <2>1 DEF Collects
  <2>3. /\ \A q \in Proc : q # p /\ q \notin gone => op'[q] = op[q]
        /\ \A q \in gone : op'[q] = NoOp
        /\ op'[p].kind = "MAIN"
    BY <1>0, <2>1, <2>2, CollectFacts
  <2> QED
    BY <2>3 DEF Spared
<1>2. \A q \in Range(stack') : Awaits(q)' => Evaluating(q)'
  <2> SUFFICES ASSUME NEW q \in Range(stack'), Awaits(q)' PROVE Evaluating(q)'
    OBVIOUS
  <2>1. CASE UNCHANGED stack
    <3>1. q \in Proc
      BY <1>0, <2>1 DEF Range
    <3>2. Evaluating(q)
      BY <1>1, <2>1, <3>1, SparedKeep DEF AInv, WaitersRest
    <3> QED
      BY <1>0, <2>1, <3>2 DEF Evaluating
  <2>2. CASE Evaluating(p) /\ stack' = Popped
    <3>1. q \in Range(Popped) /\ q \in Proc
      BY <1>0, <2>2, EvaluatingFacts DEF Range
    <3>2. ~Awaits(q)
      BY <1>0, <2>2, <3>1, NobodyWaitsBelow DEF AInv
    <3> QED
      BY <1>1, <3>1, <3>2, SparedKeep
  <2> QED
    BY <2>1, <2>2 DEF Collects
<1> QED
  BY <1>0, <1>1, <1>2, SparedKeep, QuietStep

LEMMA EvalMainAsserts ==
  ASSUME KeepsTheRules, SInv, AInv, Values, NEW p \in Proc, EvalMain(p)
  PROVE  AInv' /\ Values'
<1>0. IInv /\ Evaluating(p) /\ work = <<>> /\ IsMain(p) /\ tail = NoProc
      /\ op \in [Proc -> Operation] /\ op[p] \in Operation
  BY DEF SInv, EvalMain, Evaluating, IInv, TypeOK, ProcessTypeOK
<1>1. CASE StartNext(p)
  <2>1. PICK o, k, ps :
          /\ ps \in {<<>>, <<p>>}
          /\ o = [op[p] EXCEPT !.closureToRun = op[p].closureToRun + 1]
          /\ StartEvaluation(p, o, k, NoArgs, ps, "none")
    BY <1>1 DEF StartNext
  <2>2. o.kind = "MAIN"
    BY <1>0, <2>1 DEF Operation, IsMain
  <2>3. o.kind \in Spawning /\ IntactAlt(o)
    BY <2>2 DEF Spawning, IntactAlt
  <2>4. AInv'
    BY <1>0, <2>1, <2>3, StartAsserts
  <2>5. \A q \in Proc : Spared(q)
    BY <1>0, <2>1, <2>2 DEF StartEvaluation, Spared
  <2> QED
    BY <2>4, <2>5, SparedKeep
<1>2. CASE Collects(p)
  BY <1>0, <1>2, CollectsAsserts
<1> QED
  BY <1>1, <1>2 DEF EvalMain, Collects, Evaluating

LEMMA WorkMainAsserts ==
  ASSUME SInv, AInv, Values, NEW p \in Proc, WorkMain(p)
  PROVE  AInv' /\ Values'
<1>0. /\ IInv /\ Rooted /\ Working(p) /\ UNCHANGED <<op, stack, failed>>
      /\ work' = MainWork(p) \o Tail(work) /\ failed = "none"
  BY DEF SInv, WInv, WorkMain, Working
<1>1. PICK ks \in Seq(Proc) :
        ks = MainWork(p) /\ Injective(ks) /\ Range(ks) \subseteq Children(p)
  <2>1. /\ StartedOf(op[p]) \in Seq(Proc) /\ Injective(StartedOf(op[p]))
        /\ Range(StartedOf(op[p])) \subseteq Children(p)
    <3>1. /\ DOMAIN op[p].closures = 1 .. Len(op[p].closures)
          /\ Len(op[p].closures) \in Nat /\ op[p].closureToRun \in Nat
          /\ op[p].closureToRun <= Len(op[p].closures)
          /\ \A i \in DOMAIN op[p].closures : op[p].closures[i] \in Children(p)
      BY <1>0, ChildFacts
    <3>2. \A i \in 1 .. op[p].closureToRun : op[p].closures[i] \in Children(p)
      BY <3>1
    <3>3. Range(StartedOf(op[p])) = {op[p].closures[i] : i \in 1 .. op[p].closureToRun}
      BY <1>0, ListFacts
    <3>4. StartedOf(op[p]) \in Seq(Proc) /\ Injective(StartedOf(op[p]))
      BY <1>0, ListFacts
    <3>5. Range(StartedOf(op[p])) \subseteq Children(p)
      BY <3>2, <3>3
    <3> QED
      BY <3>4, <3>5
  <2>2. PICK s \in Seq(Proc) :
          s = StartedOf(op[p]) /\ Injective(s) /\ Range(s) \subseteq Children(p)
    BY <2>1
  <2>3. PICK gone : gone = Ended(op[p])
    OBVIOUS
  <2>4. /\ Without(s, gone) \in Seq(Proc) /\ Injective(Without(s, gone))
        /\ Range(Without(s, gone)) \subseteq Range(s)
    BY <2>2, WithoutRemoves
  <2> QED
    BY <2>2, <2>3, <2>4 DEF MainWork
<1>2. IntactAlt(op[p])
  BY DEF AInv, Intact
<1>3. AInv'
  BY <1>0, <1>1, <1>2, WorkedAsserts
<1>4. Values'
  BY <1>0 DEF Values
<1> QED
  BY <1>3, <1>4

(* The end of an Evaluate is not put off until Host::Work. *)
LEMMA NextTailFirst ==
  ASSUME SInv, TailFirst, [SwarmNext]_allVars
  PROVE  TailFirst'
<1>0. IInv /\ Turns
  BY DEF SInv
<1>1. CASE OtherStep
  <2> SUFFICES ASSUME tail # NoProc PROVE work' = <<>>
    BY <1>1 DEF OtherStep, TailFirst
  <2>1. running # NoProc /\ work = <<>> /\ Next
    BY <1>1 DEF OtherStep, TailFirst
  <2>2. ASSUME NEW p \in Proc, LuaStep(p) PROVE work' = work
    BY <2>2, LuaTurn
  <2>3. ASSUME NEW p \in Proc PROVE ~EvaluateStep(p) /\ ~WorkStep(p)
    BY <2>1, EvaluateTurn, WorkTurn DEF Working, Evaluating
  <2> QED
    BY <1>0, <2>1, <2>2, <2>3 DEF Next, HostMain, HostWork, TerminateMain, Idle, Turns
<1>2. CASE EndEvalMain
  BY <1>2 DEF EndEvalMain, TailFirst
<1>3. ASSUME NEW p \in Proc, MainInit(p) PROVE TailFirst'
  BY <1>3 DEF MainInit, Yield, hostVars, TailFirst
<1>4. ASSUME NEW p \in Proc, Go(p) PROVE TailFirst'
  BY <1>4 DEF Go, hostVars, swarmVars, TailFirst
<1>5. ASSUME NEW p \in Proc, EvalMain(p) PROVE TailFirst'
  BY <1>5 DEF EvalMain, Evaluating, StartNext, StartEvaluation, Collect, hostVars, TailFirst
<1>6. ASSUME NEW p \in Proc, WorkMain(p) PROVE TailFirst'
  BY <1>6 DEF WorkMain, Working, swarmVars, TailFirst
<1>7. CASE UNCHANGED allVars
  BY <1>7 DEF allVars, vars, procVars, swarmVars, TailFirst
<1> QED
  BY <1>1, <1>2, <1>3, <1>4, <1>5, <1>6, <1>7 DEF SwarmNext

(* No step of a swarm or next to one runs into an assertion. *)
LEMMA SwarmNextAsserts ==
  ASSUME KeepsTheRules, SInv, PointedTo, TailFirst, AInv, Values, [SwarmNext]_allVars
  PROVE  AInv' /\ Values'
<1>1. CASE OtherStep \/ UNCHANGED allVars
  <2>1. IInv /\ Turns /\ Prompt /\ Rooted /\ [Next]_vars
    BY <1>1 DEF SInv, WInv, OtherStep, allVars
  <2> QED
    BY <2>1, NextAsserts, NextValues
<1>2. CASE EndEvalMain
  <2>1. tail \in Proc /\ IsMain(tail) /\ work = <<>>
    BY <1>2 DEF EndEvalMain, SInv, SwarmTypes, TailIsMain, TailFirst
  <2>2. PICK p \in Proc : p = tail
    BY <2>1
  <2>3. Collects(p)
    BY <1>2, <2>1, <2>2 DEF Collects, EndEvalMain
  <2> QED
    BY <2>1, <2>3, CollectsAsserts
<1> QED
  BY <1>1, <1>2, MainInitAsserts, GoAsserts, EvalMainAsserts, WorkMainAsserts DEF SwarmNext

(***************************************************************************)
(* No assertion of the debug build fails in programs with swarms that keep *)
(* the rules: go pushes the process of MAIN only if it is not on the stack *)
(* (swarm.cpp:186-187), and Host::Work meets no process of a swarm twice.  *)
(***************************************************************************)
THEOREM SwarmAssertionsHold ==
  ASSUME KeepsTheRules
  PROVE  SwarmSpec => []AssertsHold
<1>1. SwarmInit => PointedTo /\ Values /\ AInv /\ TailFirst
  BY InitWaiting, InitValues, InitAsserts DEF SwarmInit, TailFirst
<1>2. SInv /\ PointedTo /\ [SwarmNext]_allVars => PointedTo'
  BY SwarmNextWaiting DEF KeepsTheRules
<1>3. SInv /\ TailFirst /\ [SwarmNext]_allVars => TailFirst'
  BY NextTailFirst
<1>4. SInv /\ PointedTo /\ TailFirst /\ AInv /\ Values /\ [SwarmNext]_allVars => AInv' /\ Values'
  BY SwarmNextAsserts
<1>5. AInv => AssertsHold
  BY DEF AInv, AssertsHold
<1> QED
  BY <1>1, <1>2, <1>3, <1>4, <1>5, SwarmInductive, PTL DEF SwarmSpec

----------------------------------------------------------------------------
(***************************************************************************)
(* The order in which sleeps that end in the same tick end.  It is made    *)
(* while the delta time is handed down, as the subtrees still to be        *)
(* visited come, one after the other, before what was pushed already; then *)
(* it has to survive that processes end and begin.                         *)
(***************************************************************************)
OnlySleepsFinish == \A p \in Proc : op[p].finished => op[p].kind = "SLEEP"

VisitedInOrder ==
  \A k, l \in DOMAIN work : k < l =>
    \A p \in Below(work[k]), q \in Below(work[l]) : WokenBefore(q, p)

PushedFirst ==
  \A i \in DOMAIN stack, k \in DOMAIN work : \A q \in Below(work[k]) : WokenBefore(q, stack[i])

OInv == OnlySleepsFinish /\ WakeOrder /\ VisitedInOrder /\ PushedFirst

(* Nobody is woken before itself. *)
LEMMA NotBeforeItself ==
  ASSUME IInv, Rooted, NEW p \in Proc
  PROVE  ~WokenBefore(p, p)
<1> SUFFICES ASSUME NEW r \in Proc,
                    NEW i \in DOMAIN op[r].closures, NEW j \in DOMAIN op[r].closures,
                    IF IsMain(r) THEN i > j ELSE i < j,
                    p \in Below(op[r].closures[i]), p \in Below(op[r].closures[j])
             PROVE  FALSE
  BY DEF WokenBefore
<1>1. i # j /\ op[r].closures[i] \in Children(r) /\ op[r].closures[j] \in Children(r)
  BY ChildFacts
<1>2. op[r].closures[i] # op[r].closures[j]
  BY <1>1 DEF IInv, Tree
<1> QED
  BY <1>1, <1>2, SiblingsApart DEF Below, Under

(* What a step that destroys the processes of gone, subtrees, leaves of the tree. *)
OrderStays(gone) ==
  /\ gone \subseteq Proc /\ \A q \in gone : Children(q) \subseteq gone
  /\ \A r \in Proc : \A i, j \in DOMAIN op[r].closures :
       op[r].closures[i] \notin gone /\ op[r].closures[j] \notin gone =>
         /\ IsMain(r)' <=> IsMain(r)
         /\ \E k, l \in DOMAIN op'[r].closures :
              /\ i < j => k < l
              /\ op'[r].closures[k] = op[r].closures[i]
              /\ op'[r].closures[l] = op[r].closures[j]

(* Who survives is still below who was above it. *)
LEMMA BelowStays ==
  ASSUME IInv, IInv', NEW gone, OrderStays(gone),
         NEW k \in Proc, NEW x \in Below(k), x \notin gone
  PROVE  k \notin gone /\ x \in Below(k)'
<1> DEFINE D == Descendants(k)'
<1>1. \A q \in Proc : Children(q) \subseteq Proc
  BY ChildFacts
<1>2. \A q \in Proc : Children(q)' \subseteq Proc
  <2>1. \A q \in Proc : op'[q].closures \in Seq(Proc)
    BY DEF IInv, TypeOK, ProcessTypeOK, Operation
  <2> QED
    BY <2>1, RangeOfSeq DEF Children
<1>3. \A q \in gone : q \in Proc /\ Children(q) \subseteq gone
  BY DEF OrderStays
<1>4. \A q \in Proc : Children(q) \subseteq Children(q)' \cup gone
  BY DEF OrderStays, Children, Range
<1>5. ASSUME k \in gone PROVE FALSE
  <2>1. gone \in SUBSET Proc /\ Children(k) \subseteq gone /\ Closed(gone)
    BY <1>3, <1>5 DEF Closed
  <2>2. Descendants(k) \subseteq gone
    BY <2>1 DEF Descendants
  <2> QED
    BY <1>5, <2>2 DEF Below
<1>6. D \in SUBSET Proc /\ Children(k)' \subseteq D
  BY <1>2 DEF Descendants
<1>7. \A q \in D : Children(q)' \subseteq D
  <2> SUFFICES ASSUME NEW q \in D, NEW y \in Children(q)' PROVE y \in D
    OBVIOUS
  <2>1. q \in Proc /\ y \in Proc
    BY <1>2, <1>6
  <2>2. ASSUME NEW S \in SUBSET Proc, Children(k)' \subseteq S, Closed(S)' PROVE y \in S
    <3>1. q \in S
      BY <2>2 DEF Descendants
    <3> QED
      BY <2>2, <3>1 DEF Closed
  <2> QED
    BY <2>1, <2>2 DEF Descendants
<1> HIDE DEF D
<1> DEFINE S == {k} \cup D \cup gone
<1>8. S \in SUBSET Proc /\ Children(k) \subseteq S
  BY <1>3, <1>4, <1>6
<1>9. Closed(S)
  <2> SUFFICES ASSUME NEW q \in S, NEW y \in Children(q) PROVE y \in S
    BY DEF Closed
  <2>1. q \in Proc
    BY <1>8
  <2> QED
    BY <2>1, <1>3, <1>4, <1>6, <1>7
<1> HIDE DEF S
<1>10. Descendants(k) \subseteq S
  BY <1>8, <1>9 DEF Descendants
<1> QED
  BY <1>5, <1>10 DEF Below, S, D

(* The order of those who survive stays as it was. *)
LEMMA BeforeStays ==
  ASSUME IInv, IInv', NEW gone, OrderStays(gone),
         NEW p, NEW q, p \notin gone, q \notin gone, WokenBefore(p, q)
  PROVE  WokenBefore(p, q)'
<1>1. PICK r \in Proc : \E i, j \in DOMAIN op[r].closures :
        /\ IF IsMain(r) THEN i > j ELSE i < j
        /\ p \in Below(op[r].closures[i]) /\ q \in Below(op[r].closures[j])
  BY DEF WokenBefore
<1>2. PICK i \in DOMAIN op[r].closures, j \in DOMAIN op[r].closures :
        /\ IF IsMain(r) THEN i > j ELSE i < j
        /\ p \in Below(op[r].closures[i]) /\ q \in Below(op[r].closures[j])
  BY <1>1
<1>3. op[r].closures[i] \in Proc /\ op[r].closures[j] \in Proc /\ i \in Nat /\ j \in Nat
  BY ChildFacts
<1>4. PICK k \in Proc, l \in Proc : k = op[r].closures[i] /\ l = op[r].closures[j]
  BY <1>3
<1>5. p \in Below(k) /\ q \in Below(l)
  BY <1>2, <1>4
<1>6. k \notin gone /\ p \in Below(k)' /\ l \notin gone /\ q \in Below(l)'
  BY <1>5, BelowStays
<1>7. CASE i < j
  <2>1. /\ ~IsMain(r)' /\ ~IsMain(r)
        /\ \E a, b \in DOMAIN op'[r].closures :
             a < b /\ op'[r].closures[a] = k /\ op'[r].closures[b] = l
    BY <1>2, <1>3, <1>4, <1>6, <1>7 DEF OrderStays
  <2> QED
    BY <1>6, <2>1 DEF WokenBefore
<1>8. CASE j < i
  <2>1. /\ IsMain(r)' /\ IsMain(r)
        /\ \E a, b \in DOMAIN op'[r].closures :
             a < b /\ op'[r].closures[a] = l /\ op'[r].closures[b] = k
    BY <1>2, <1>3, <1>4, <1>6, <1>8 DEF OrderStays
  <2>2. PICK a \in DOMAIN op'[r].closures, b \in DOMAIN op'[r].closures :
          a < b /\ op'[r].closures[a] = l /\ op'[r].closures[b] = k
    BY <2>1
  <2>3. b > a
    BY <1>3, <2>2, LenProperties DEF IInv, TypeOK, ProcessTypeOK, Operation
  <2> QED
    BY <1>6, <2>1, <2>2, <2>3 DEF WokenBefore
<1> QED
  BY <1>2, <1>7, <1>8

(* The tree stays: operations keep their kind and their closures. *)
LEMMA SameTreeStays ==
  ASSUME \A q \in Proc : op'[q].closures = op[q].closures /\ op'[q].kind = op[q].kind
  PROVE  OrderStays({})
<1> QED
  BY DEF OrderStays, IsMain

(***************************************************************************)
(* A step that pushes nobody who has slept: those who have come from the   *)
(* stack, stk being what is left of it, in the order they had.             *)
(***************************************************************************)
LeftOf(stk) ==
  /\ stk \in Seq(Proc)
  /\ \A i, j \in DOMAIN stk : i < j =>
       \E k, l \in DOMAIN stack : k < l /\ stk[i] = stack[k] /\ stk[j] = stack[l]

LEMMA WakeOrderKept ==
  ASSUME IInv, IInv', WakeOrder, NEW gone, OrderStays(gone),
         NEW stk, LeftOf(stk), NEW ps \in Seq(Proc),
         stack' = stk \/ stack' = stk \o ps,
         \A q \in Range(ps) : ~op'[q].finished,
         \A q \in Proc : op'[q].finished => op[q].finished /\ q \notin gone
  PROVE  WakeOrder'
<1>1. \A i, j \in DOMAIN stack' : i < j /\ op'[stack'[i]].finished /\ op'[stack'[j]].finished =>
        i \in DOMAIN stk /\ j \in DOMAIN stk /\ stack'[i] = stk[i] /\ stack'[j] = stk[j]
  <2>1. CASE stack' = stk
    BY <2>1
  <2>2. CASE stack' = stk \o ps
    <3>1. stk \in Seq(Proc)
      BY DEF LeftOf
    <3>2. /\ DOMAIN stack' = 1 .. Len(stk) + Len(ps)
          /\ DOMAIN stk = 1 .. Len(stk) /\ DOMAIN ps = 1 .. Len(ps)
          /\ Len(stk) \in Nat /\ Len(ps) \in Nat
          /\ \A i \in 1 .. Len(stk) + Len(ps) :
               stack'[i] = IF i <= Len(stk) THEN stk[i] ELSE ps[i - Len(stk)]
      BY <2>2, <3>1, ConcatProperties, LenProperties
    <3>3. \A i \in DOMAIN stack' : op'[stack'[i]].finished => i \in DOMAIN stk /\ stack'[i] = stk[i]
      <4> SUFFICES ASSUME NEW i \in DOMAIN stack', op'[stack'[i]].finished, i > Len(stk)
                   PROVE  FALSE
        BY <3>2
      <4>1. i - Len(stk) \in DOMAIN ps /\ stack'[i] = ps[i - Len(stk)]
        BY <3>2
      <4> QED
        BY <4>1 DEF Range
    <3> QED
      BY <3>3
  <2> QED
    BY <2>1, <2>2
<1> SUFFICES ASSUME NEW i \in DOMAIN stack', NEW j \in DOMAIN stack', i < j,
                    op'[stack'[i]].finished, op'[stack'[j]].finished
             PROVE  WokenBefore(stack[j], stack[i])'
  BY DEF WakeOrder
<1>2. PICK k \in DOMAIN stack, l \in DOMAIN stack :
        k < l /\ stack'[i] = stack[k] /\ stack'[j] = stack[l]
  BY <1>1 DEF LeftOf
<1>3. PICK p \in Proc, q \in Proc : p = stack[k] /\ q = stack[l]
  BY <1>2, ElementOfSeq, LenProperties DEF IInv, TypeOK, ProcessTypeOK
<1>4. /\ op[p].finished /\ op[q].finished /\ p \notin gone /\ q \notin gone
      /\ stack'[i] = p /\ stack'[j] = q
  BY <1>2, <1>3
<1>5. WokenBefore(q, p)
  BY <1>2, <1>3, <1>4 DEF WakeOrder
<1>6. WokenBefore(q, p)'
  BY <1>4, <1>5, BeforeStays
<1> QED
  BY <1>4, <1>6

LEMMA LeftFacts ==
  ASSUME IInv
  PROVE  /\ LeftOf(stack)
         /\ stack # <<>> => /\ Popped \in Seq(Proc) /\ LeftOf(Popped)
                            /\ \A S : LeftOf(Without(Popped, S))
<1>0. stack \in Seq(Proc)
  BY DEF IInv, TypeOK, ProcessTypeOK
<1>1. LeftOf(stack)
  BY <1>0 DEF LeftOf
<1>2. ASSUME stack # <<>>
      PROVE  Popped \in Seq(Proc) /\ LeftOf(Popped) /\ \A S : LeftOf(Without(Popped, S))
  <2> DEFINE n == Len(stack)
  <2>1. n \in Nat \ {0} /\ DOMAIN stack = 1 .. n /\ \A i \in 1 .. n - 1 : stack[i] \in Proc
    BY <1>0, <1>2, LenProperties, EmptySeq, ElementOfSeq
  <2>2. /\ SubSeq(stack, 1, n - 1) \in Seq(Proc)
        /\ Len(SubSeq(stack, 1, n - 1)) = IF 1 <= n - 1 THEN n - 1 - 1 + 1 ELSE 0
        /\ \A i \in 1 .. n - 1 - 1 + 1 : SubSeq(stack, 1, n - 1)[i] = stack[1 + i - 1]
    BY <2>1, SubSeqProperties
  <2>3. PICK t \in Seq(Proc) : t = Popped
    BY <2>2 DEF Popped, Front
  <2>4. DOMAIN t = 1 .. n - 1 /\ \A i \in 1 .. n - 1 : t[i] = stack[i] /\ i \in DOMAIN stack
    BY <2>1, <2>2, <2>3, LenProperties DEF Popped, Front
  <2>5. LeftOf(t)
    BY <2>4 DEF LeftOf
  <2>6. ASSUME NEW S PROVE LeftOf(Without(t, S))
    <3>1. PICK w : w = Without(t, S)
      OBVIOUS
    <3>2. /\ w \in Seq(Proc)
          /\ \A i, j \in DOMAIN w : i < j =>
               \E k, l \in DOMAIN t : k < l /\ w[i] = t[k] /\ w[j] = t[l]
      BY <3>1, WithoutEntries, WithoutInOrder
    <3>3. LeftOf(w)
      BY <2>5, <3>2 DEF LeftOf
    <3> QED
      BY <3>1, <3>3
  <2> QED
    BY <2>3, <2>5, <2>6
<1> QED
  BY <1>1, <1>2

(* A step while no delta time is handed down. *)
LEMMA QuietOrder ==
  ASSUME IInv, IInv', OInv, work' = <<>>, NEW gone, OrderStays(gone),
         NEW stk, LeftOf(stk), NEW ps \in Seq(Proc),
         stack' = stk \/ stack' = stk \o ps,
         \A q \in Range(ps) : ~op'[q].finished,
         \A q \in Proc : op'[q].finished =>
           op[q].finished /\ q \notin gone /\ op'[q].kind = op[q].kind
  PROVE  OInv'
<1>1. WakeOrder'
  BY WakeOrderKept DEF OInv
<1>2. OnlySleepsFinish'
  BY DEF OInv, OnlySleepsFinish
<1>3. VisitedInOrder' /\ PushedFirst'
  BY DEF VisitedInOrder, PushedFirst
<1> QED
  BY <1>1, <1>2, <1>3 DEF OInv

(* An operation begins: its closures, if any, are new. *)
LEMMA BeginsOrder ==
  ASSUME IInv, IInv', Turns, OInv, NEW p \in Proc, NEW o, Begins(p, o)
  PROVE  OInv'
<1>0. /\ running = p /\ op[p].closures = <<>> /\ op \in [Proc -> Operation] /\ p # NoProc
      /\ op' = [op EXCEPT ![p] = o] /\ ~o.finished
      /\ PushEvalSteps("none", stack, isOnStack, <<p>>) /\ work' = work
  BY RunningFacts, ProcessAssumption DEF Begins, Yield, hostVars, IInv, TypeOK, ProcessTypeOK
<1>1. OrderStays({})
  BY <1>0 DEF OrderStays, IsMain
<1>2. PICK ps \in Seq(Proc) : ps = <<p>> /\ Range(ps) = {p}
  BY OnePushed DEF Range
<1>3. PICK stk : stk = stack /\ LeftOf(stk)
  BY LeftFacts
<1>4. stack' = stk \/ stack' = stk \o ps
  BY <1>0, <1>2, <1>3 DEF PushEvalSteps
<1>5. \A q \in Proc : op'[q].finished =>
        op[q].finished /\ q \notin {} /\ op'[q].kind = op[q].kind
  BY <1>0
<1>6. \A q \in Range(ps) : ~op'[q].finished
  BY <1>0, <1>2
<1>7. work' = <<>>
  BY <1>0 DEF Turns
<1> QED
  BY <1>1, <1>3, <1>4, <1>5, <1>6, <1>7, QuietOrder

(* The Lua code goes on to its next call. *)
LEMMA LuaOrder ==
  ASSUME IInv, IInv', Turns, OInv, NEW p \in Proc, LuaStep(p)
  PROVE  OInv'
<1>0. /\ work' = <<>> /\ LeftOf(stack) /\ <<>> \in Seq(Proc) /\ Range(<<>>) = {}
      /\ op \in [Proc -> Operation] /\ NoProc \notin Proc
  BY LuaTurn, LeftFacts, NonePushed, ProcessAssumption DEF Turns, IInv, TypeOK, ProcessTypeOK
<1>1. ASSUME NEW o, Begins(p, o) PROVE OInv'
  BY <1>1, BeginsOrder
<1>2. ASSUME NEW status, End(p, status) PROVE OInv'
  <2>1. op' = op /\ PushEvalSteps("none", stack, isOnStack, ParentToWake(p))
    BY <1>2 DEF End
  <2>2. parent[p] # NoProc => parent[p] \in Proc /\ ~op[parent[p]].finished
    <3>1. parent[p] # NoProc => parent[p] \in Proc /\ Children(parent[p]) # {}
      BY DEF IInv, Parents, TypeOK, ProcessTypeOK
    <3>2. \A q \in Proc : Children(q) # {} => op[q].kind # "SLEEP"
      BY NoClosures DEF IInv, Spawning, ParKinds
    <3> QED
      BY <3>1, <3>2 DEF OInv, OnlySleepsFinish
  <2>3. PICK ps \in Seq(Proc) :
          ps = ParentToWake(p) /\ \A q \in Range(ps) : ~op[q].finished
    <3>1. CASE ParentToWake(p) = <<>>
      BY <1>0, <3>1
    <3>2. CASE parent[p] # NoProc /\ ParentToWake(p) = <<parent[p]>>
      <4>1. PICK q \in Proc : q = parent[p] /\ ~op[q].finished
        BY <2>2, <3>2
      <4>2. <<q>> \in Seq(Proc) /\ Range(<<q>>) = {q}
        BY OnePushed DEF Range
      <4> QED
        BY <3>2, <4>1, <4>2
    <3> QED
      BY <3>1, <3>2 DEF ParentToWake
  <2>4. stack' = stack \/ stack' = stack \o ps
    BY <2>1, <2>3 DEF PushEvalSteps
  <2>5. OrderStays({})
    BY <2>1, SameTreeStays
  <2>6. PICK stk : stk = stack
    OBVIOUS
  <2> QED
    BY <1>0, <2>1, <2>3, <2>4, <2>5, <2>6, QuietOrder
<1>3. CASE UNCHANGED <<op, stack>>
  <2>1. PICK stk : stk = stack
    OBVIOUS
  <2>2. OrderStays({})
    BY <1>3, SameTreeStays
  <2>3. PICK ps \in Seq(Proc) : ps = <<>>
    BY <1>0
  <2> QED
    BY <1>0, <1>3, <2>1, <2>2, <2>3, QuietOrder
<1>4. CASE Close(p)
  <2>0. PICK c \in Chan :
          /\ PushEvalSteps("none", stack, isOnStack,
                           (IF attachIn[c] = NoProc THEN <<>> ELSE <<attachIn[c]>>) \o
                           (IF attachOut[c] = NoProc THEN <<>> ELSE <<attachOut[c]>>))
          /\ op' = [q \in Proc |-> IF q = attachIn[c] THEN CloseInput(op[q], c)
                                   ELSE IF q = attachOut[c] THEN CloseArguments(op[q])
                                   ELSE op[q]]
    BY <1>4 DEF Close
  <2> DEFINE in == attachIn[c]
             out == attachOut[c]
  <2>1. /\ in = attachIn[c] /\ out = attachOut[c]
        /\ PushEvalSteps("none", stack, isOnStack,
                         (IF in = NoProc THEN <<>> ELSE <<in>>) \o
                         (IF out = NoProc THEN <<>> ELSE <<out>>))
        /\ op' = [q \in Proc |-> IF q = in THEN CloseInput(op[q], c)
                                 ELSE IF q = out THEN CloseArguments(op[q])
                                 ELSE op[q]]
    BY <2>0
  <2> HIDE DEF in, out
  <2>2. in \in Proc \cup {NoProc} /\ out \in Proc \cup {NoProc}
    BY <2>1 DEF IInv, TypeOK, ChannelTypeOK
  <2>3. (in \in Proc => op[in].kind # "SLEEP") /\ (out \in Proc => op[out].kind # "SLEEP")
    BY <2>1 DEF IInv, Attached, WaitsIn, OffersOn
  <2>4. \A q \in Proc : /\ op'[q].finished = op[q].finished /\ op'[q].kind = op[q].kind
                        /\ op'[q].closures = op[q].closures
    <3> SUFFICES ASSUME NEW q \in Proc
                 PROVE  /\ op'[q].finished = op[q].finished /\ op'[q].kind = op[q].kind
                        /\ op'[q].closures = op[q].closures
      OBVIOUS
    <3>1. op[q] \in Operation
      BY <1>0
    <3>2. op'[q] \in {op[q], CloseArguments(op[q]), CloseInput(op[q], c)}
      BY <2>1
    <3> QED
      BY <3>1, <3>2 DEF CloseInput, CloseCase, CloseArguments, Operation
  <2>5. PICK a \in Seq(Proc) :
          /\ a = IF in = NoProc THEN <<>> ELSE <<in>>
          /\ \A q \in Range(a) : q = in /\ q \in Proc
    BY <1>0, <2>2, OnePushed
  <2>6. PICK b \in Seq(Proc) :
          /\ b = IF out = NoProc THEN <<>> ELSE <<out>>
          /\ \A q \in Range(b) : q = out /\ q \in Proc
    BY <1>0, <2>2, OnePushed
  <2>7. PICK ps \in Seq(Proc) : ps = a \o b /\ Range(ps) = Range(a) \cup Range(b)
    BY ConcatProperties, RangeConcatenation, ZenonT(30)
  <2>8. \A q \in Range(ps) : ~op'[q].finished
    BY <2>3, <2>4, <2>5, <2>6, <2>7, ZenonT(30) DEF OInv, OnlySleepsFinish
  <2>9. stack' = stack \/ stack' = stack \o ps
    BY <2>1, <2>5, <2>6, <2>7 DEF PushEvalSteps
  <2>10. OrderStays({})
    BY <2>4, SameTreeStays
  <2>11. PICK stk : stk = stack
    OBVIOUS
  <2> QED
    BY <1>0, <2>4, <2>8, <2>9, <2>10, <2>11, QuietOrder
<1> QED
  BY <1>1, <1>2, <1>3, <1>4, CallShape DEF Busy

(* An operation ends, and the subtrees of gone with it. *)
LEMMA ResumeOrder ==
  ASSUME IInv, IInv', OInv, NEW p \in Proc, Evaluating(p), NEW gone,
         gone \subseteq Proc, Children(p) \subseteq gone,
         \A q \in gone : Children(q) \subseteq gone,
         NEW results, NEW stk, NEW flags, LeftOf(stk), Resume(p, results, gone, stk, flags)
  PROVE  OInv'
<1>1. /\ \A q \in Proc : op'[q] = IF q = p \/ q \in gone THEN NoOp ELSE op[q]
      /\ stack' = stk /\ work' = <<>> /\ ~NoOp.finished
      /\ <<>> \in Seq(Proc) /\ Range(<<>>) = {}
  BY NonePushed DEF Resume, Evaluating, hostVars, NoOp
<1>2. OrderStays(gone)
  <2> SUFFICES ASSUME NEW r \in Proc, NEW i \in DOMAIN op[r].closures,
                      op[r].closures[i] \notin gone
               PROVE  op'[r] = op[r]
    BY DEF OrderStays, IsMain
  <2>1. op[r].closures[i] \in Children(r)
    BY ChildFacts
  <2> QED
    BY <1>1, <2>1
<1>3. PICK ps \in Seq(Proc) : ps = <<>>
  BY <1>1
<1>4. \A q \in Range(ps) : ~op'[q].finished
  BY <1>1, <1>3
<1>5. \A q \in Proc : op'[q].finished =>
        op[q].finished /\ q \notin gone /\ op'[q].kind = op[q].kind
  BY <1>1
<1> QED
  BY <1>1, <1>2, <1>4, <1>5, QuietOrder

(* Operations change, but none is a sleep; ps are pushed, and none sleeps. *)
LEMMA FieldOrder ==
  ASSUME IInv, IInv', OInv, work' = <<>>, NEW stk, LeftOf(stk), NEW ps \in Seq(Proc),
         stack' = stk \/ stack' = stk \o ps,
         \A q \in Range(ps) : q \in Proc /\ op[q].kind # "SLEEP",
         \A q \in Proc : /\ op'[q].kind = op[q].kind /\ op'[q].closures = op[q].closures
                         /\ op'[q].finished = op[q].finished
  PROVE  OInv'
<1>1. OrderStays({})
  BY SameTreeStays
<1>2. \A q \in Range(ps) : ~op'[q].finished
  BY DEF OInv, OnlySleepsFinish
<1> QED
  BY <1>1, <1>2, QuietOrder

(* A closure of p is started. *)
LEMMA StartOrder ==
  ASSUME IInv, IInv', OInv, NEW p \in Proc, Evaluating(p), op[p].kind # "SLEEP",
         NEW o, o.kind = op[p].kind, o.closures = op[p].closures,
         o.finished = op[p].finished,
         NEW k, NEW args, NEW ps, ps = <<>> \/ ps = <<p>>, NEW asserted,
         StartEvaluation(p, o, k, args, ps, asserted)
  PROVE  OInv'
<1>1. /\ op \in [Proc -> Operation] /\ op' = [op EXCEPT ![p] = o] /\ work' = <<>>
      /\ PushEvalSteps(asserted, Popped, PoppedFlags, ps)
  BY DEF StartEvaluation, Evaluating, hostVars, IInv, TypeOK, ProcessTypeOK
<1>2. PICK stk : stk = Popped /\ LeftOf(stk)
  BY LeftFacts DEF Evaluating
<1>3. PICK qs \in Seq(Proc) : qs = ps /\ Range(qs) \subseteq {p}
  BY OnePushed, NonePushed
<1>4. stack' = stk \/ stack' = stk \o qs
  BY <1>1, <1>2, <1>3 DEF PushEvalSteps
<1>5. \A q \in Proc : /\ op'[q].kind = op[q].kind /\ op'[q].closures = op[q].closures
                      /\ op'[q].finished = op[q].finished
  BY <1>1
<1>6. \A q \in Range(qs) : q \in Proc /\ op[q].kind # "SLEEP"
  BY <1>3
<1> QED
  BY <1>1, <1>2, <1>4, <1>5, <1>6, FieldOrder

(* A writer and a reader communicate: neither sleeps. *)
LEMMA CommunicateOrder ==
  ASSUME IInv, IInv', OInv, NEW p \in Proc, Evaluating(p), Communicates(p)
  PROVE  OInv'
<1>0. PICK c \in Chan, reader \in Proc : Meets(p, c, reader) /\ Communicate(c, reader)
  BY DEF Communicates
<1>1. /\ work' = <<>> /\ NoProc \notin Proc /\ attachOut[c] \in Proc /\ op \in [Proc -> Operation]
      /\ attachIn[c] \in Proc \cup {NoProc}
  BY <1>0, ProcessAssumption
     DEF Communicates, Evaluating, Meets, OutAttached, IInv, TypeOK, ProcessTypeOK, ChannelTypeOK
<1>2. PICK stk : stk = Popped /\ LeftOf(stk)
  BY LeftFacts DEF Evaluating
<1>3. op[reader].kind # "SLEEP" /\ op[attachOut[c]].kind # "SLEEP"
  <2>1. \A q \in Proc : WaitsIn(q, c) \/ OffersOn(q, c) => op[q].kind # "SLEEP"
    BY DEF WaitsIn, OffersOn
  <2> QED
    BY <1>0, <1>1, <2>1 DEF Meets, IInv, Attached
<1>4. CASE attachIn[c] = NoProc
  <2>1. PICK ps \in Seq(Proc) : ps = <<>> /\ Range(ps) = {}
    BY NonePushed
  <2>2. op' = op /\ stack' = stk
    BY <1>0, <1>2, <1>4 DEF Communicate, PushEvalSteps
  <2> QED
    BY <1>1, <1>2, <2>1, <2>2, FieldOrder
<1>5. CASE attachIn[c] # NoProc
  <2>1. PICK in \in Proc, out \in Proc : in = attachIn[c] /\ out = attachOut[c]
    BY <1>1, <1>5
  <2>2. PICK ps \in Seq(Proc) :
          ps = Partners(out, reader) /\ \A q \in Range(ps) : q \in {out, reader}
    <3>1. Partners(out, reader) = <<out>> \o <<reader>>
      BY DEF Partners
    <3>2. <<out>> \in Seq(Proc) /\ <<reader>> \in Seq(Proc)
      OBVIOUS
    <3>3. /\ <<out>> \o <<reader>> \in Seq(Proc)
          /\ Range(<<out>> \o <<reader>>) = Range(<<out>>) \cup Range(<<reader>>)
      BY <3>2, ConcatProperties, RangeConcatenation
    <3>4. Range(<<out>>) = {out} /\ Range(<<reader>>) = {reader}
      BY OnePushed
    <3> QED
      BY <3>1, <3>3, <3>4
  <2>3. stack' = stk \/ stack' = stk \o ps
    BY <1>0, <1>2, <2>1, <2>2, <1>1 DEF Communicate, PushEvalSteps
  <2>4. /\ \A q \in Proc \ {in, out} : op'[q] = op[q]
        /\ op'[in] = MoveChannelArguments(op[in], c, op[out].arguments)
        /\ op'[out] = CloseArguments(op[out])
    BY <1>0, <2>1, CommunicateFacts
  <2>5. \A q \in Proc : /\ op'[q].kind = op[q].kind /\ op'[q].closures = op[q].closures
                        /\ op'[q].finished = op[q].finished
    <3>1. op[in] \in Operation /\ op[out] \in Operation
      BY <1>1
    <3>2. /\ op'[in].kind = op[in].kind /\ op'[in].closures = op[in].closures
          /\ op'[in].finished = op[in].finished
      BY <2>4, <3>1 DEF MoveChannelArguments, Operation
    <3>3. /\ op'[out].kind = op[out].kind /\ op'[out].closures = op[out].closures
          /\ op'[out].finished = op[out].finished
      BY <2>4, <3>1 DEF CloseArguments, Operation
    <3> QED
      BY <2>4, <3>2, <3>3
  <2>6. \A q \in Range(ps) : q \in Proc /\ op[q].kind # "SLEEP"
    BY <1>3, <2>1, <2>2
  <2> QED
    BY <1>1, <1>2, <2>3, <2>5, <2>6, FieldOrder
<1> QED
  BY <1>4, <1>5

(* One turn of the loop of Host::Evaluate. *)
LEMMA EvaluateOrder ==
  ASSUME IInv, IInv', OInv, NEW p \in Proc, EvaluateStep(p)
  PROVE  OInv'
<1>0. Evaluating(p) /\ work' = <<>> /\ op \in [Proc -> Operation] /\ op[p] \in Operation
  BY EvaluateTurn DEF Evaluating, IInv, TypeOK, ProcessTypeOK
<1>1. PICK stk : stk = Popped /\ LeftOf(stk)
  BY <1>0, LeftFacts DEF Evaluating
<1>2. CASE Nothing(p)
  <2>1. PICK ps \in Seq(Proc) : ps = <<>> /\ Range(ps) = {}
    BY NonePushed
  <2>2. op' = op /\ stack' = stk
    BY <1>1, <1>2 DEF Nothing, KeepWaiting
  <2> QED
    BY <1>0, <1>1, <2>1, <2>2, FieldOrder
<1>3. CASE Ends(p)
  <2>1. PICK results, gone, flags :
          gone = Children(p) /\ Resume(p, results, gone, stk, flags)
    BY <1>1, <1>3 DEF Ends, FinishOperation
  <2>2. \A q \in gone : q \in Proc /\ Children(q) = {}
    BY <1>3, <2>1, EndedClosures, ChildFacts, NoClosures DEF IInv, Spawning, ParKinds
  <2> QED
    BY <1>0, <1>1, <2>1, <2>2, ResumeOrder
<1>4. CASE EndParWhile(p)
  <2>1. PICK gone, flags, left :
          /\ gone = Descendants(p) /\ left = Without(Popped, {q \in gone : PoppedFlags[q]})
          /\ Resume(p, NoResult, gone, left, flags)
    BY <1>4 DEF EndParWhile
  <2>2. LeftOf(left)
    BY <1>0, <2>1, LeftFacts DEF Evaluating
  <2>3. gone \subseteq Proc /\ Children(p) \subseteq gone /\ \A q \in gone : Children(q) \subseteq gone
    BY <2>1, DescendantsFacts
  <2> QED
    BY <1>0, <2>1, <2>2, <2>3, ResumeOrder
<1>5. CASE Communicates(p)
  BY <1>0, <1>5, CommunicateOrder
<1>6. CASE TakesNil(p)
  <2>1. PICK i : Trigger(p, i, Popped, PoppedFlags) /\ op[p].kind = "ALT"
    BY <1>6 DEF TakesNil
  <2>2. PICK ps \in Seq(Proc) : ps = <<p>> /\ Range(ps) = {p}
    BY OnePushed DEF Range
  <2>3. stack' = stk \/ stack' = stk \o ps
    BY <1>1, <2>1, <2>2 DEF Trigger, PushEvalSteps
  <2>4. \A q \in Proc : /\ op'[q].kind = op[q].kind /\ op'[q].closures = op[q].closures
                        /\ op'[q].finished = op[q].finished
    BY <1>0, <2>1 DEF Trigger, Operation
  <2> QED
    BY <1>0, <1>1, <2>1, <2>2, <2>3, <2>4, FieldOrder
<1>7. CASE op[p].kind \in ParKinds /\ StartClosure(p)
  <2> DEFINE next == op[p].closureToRun + 1
  <2>1. PICK o, k, ps :
          /\ o = [op[p] EXCEPT !.closureToRun = next]
          /\ ps = IF next < Len(op[p].closures) THEN <<p>> ELSE <<>>
          /\ StartEvaluation(p, o, k, NoArgs, ps, "none")
    BY <1>7 DEF StartClosure
  <2>2. o.kind = op[p].kind /\ o.closures = op[p].closures /\ o.finished = op[p].finished
    BY <1>0, <2>1 DEF Operation
  <2> QED
    BY <1>0, <1>7, <2>1, <2>2, StartOrder DEF ParKinds
<1>8. CASE op[p].kind = "ALT" /\ StartTriggered(p)
  <2>1. PICK o, k, args, asserted :
          o = Started(op[p]) /\ StartEvaluation(p, o, k, args, <<>>, asserted)
    BY <1>8 DEF StartTriggered
  <2>2. o.kind = op[p].kind /\ o.closures = op[p].closures /\ o.finished = op[p].finished
    BY <1>0, <2>1 DEF Started, Unreferenced, Operation
  <2> QED
    BY <1>0, <1>8, <2>1, <2>2, StartOrder
<1> QED
  BY <1>2, <1>3, <1>4, <1>5, <1>6, <1>7, <1>8, EvaluateShape DEF ParKinds

----------------------------------------------------------------------------
(* The calls of Process::Work that are still to be made. *)
LEMMA CallsToMake ==
  ASSUME IInv, NEW p \in Proc, Working(p)
  PROVE  /\ work \in Seq(Proc) /\ work[1] = p /\ 1 \in DOMAIN work
         /\ DOMAIN work = 1 .. Len(work) /\ Len(work) \in Nat \ {0}
         /\ Tail(work) \in Seq(Proc) /\ Len(Tail(work)) = Len(work) - 1
         /\ DOMAIN Tail(work) = 1 .. Len(work) - 1
         /\ \A k \in 1 .. Len(work) - 1 : Tail(work)[k] = work[k + 1] /\ k + 1 \in DOMAIN work
<1>1. work \in Seq(Proc) /\ work # <<>> /\ p = Head(work)
  BY DEF IInv, TypeOK, ProcessTypeOK, Working
<1>2. /\ Head(work) = work[1] /\ Tail(work) \in Seq(Proc) /\ Len(Tail(work)) = Len(work) - 1
      /\ \A k \in 1 .. Len(Tail(work)) : Tail(work)[k] = work[k + 1]
      /\ Len(work) \in Nat \ {0} /\ DOMAIN work = 1 .. Len(work)
      /\ DOMAIN Tail(work) = 1 .. Len(Tail(work))
  BY <1>1, HeadTailProperties, LenProperties, EmptySeq
<1> QED
  BY <1>1, <1>2

(***************************************************************************)
(* The delta time is passed on to closures of p, the first to be visited   *)
(* being the last to wake.                                                 *)
(***************************************************************************)
LEMMA PassOnOrder ==
  ASSUME IInv, OInv, NEW p \in Proc, Working(p), UNCHANGED <<op, stack>>,
         NEW ks \in Seq(Proc), Range(ks) \subseteq Children(p), work' = ks \o Tail(work),
         \A i, j \in DOMAIN ks : i < j =>
           \A x \in Below(ks[i]), y \in Below(ks[j]) : WokenBefore(y, x)
  PROVE  OInv'
<1>1. /\ work[1] = p /\ 1 \in DOMAIN work /\ Tail(work) \in Seq(Proc)
      /\ DOMAIN Tail(work) = 1 .. Len(work) - 1 /\ Len(Tail(work)) = Len(work) - 1
      /\ Len(work) \in Nat \ {0}
      /\ \A k \in 1 .. Len(work) - 1 : Tail(work)[k] = work[k + 1] /\ k + 1 \in DOMAIN work
  BY CallsToMake
<1>2. /\ DOMAIN work' = 1 .. Len(ks) + (Len(work) - 1)
      /\ DOMAIN ks = 1 .. Len(ks) /\ Len(ks) \in Nat
      /\ \A k \in 1 .. Len(ks) + (Len(work) - 1) :
           work'[k] = IF k <= Len(ks) THEN ks[k] ELSE Tail(work)[k - Len(ks)]
  BY <1>1, ConcatProperties, LenProperties
<1> DEFINE from(k) == IF k <= Len(ks) THEN 1 ELSE (k - Len(ks)) + 1
<1>3. ASSUME NEW k \in DOMAIN work'
      PROVE  /\ k \in Nat /\ from(k) \in DOMAIN work /\ from(k) \in Nat
             /\ Below(work'[k]) \subseteq Below(work[from(k)])
             /\ k <= Len(ks) => k \in DOMAIN ks /\ work'[k] = ks[k]
  <2>1. CASE k <= Len(ks)
    <3>1. k \in DOMAIN ks /\ work'[k] = ks[k] /\ from(k) = 1
      BY <1>2, <2>1
    <3>2. PICK x \in Children(p) : x = ks[k]
      BY <3>1 DEF Range
    <3>3. Below(x) \subseteq Below(p)
      BY UnderChild DEF Below, Under
    <3> QED
      BY <1>1, <1>2, <3>1, <3>2, <3>3
  <2>2. CASE ~(k <= Len(ks))
    <3>1. k - Len(ks) \in 1 .. Len(work) - 1 /\ work'[k] = Tail(work)[k - Len(ks)]
      BY <1>1, <1>2, <2>2
    <3>2. work'[k] = work[from(k)] /\ from(k) \in DOMAIN work /\ from(k) \in Nat
      BY <1>1, <2>2, <3>1
    <3> QED
      BY <1>2, <2>2, <3>2
  <2> QED
    BY <2>1, <2>2
<1>4. \A k, l \in DOMAIN work' : k < l => from(k) < from(l) \/ l <= Len(ks)
  BY <1>1, <1>2
<1> HIDE DEF from
<1>5. \A x, y : WokenBefore(x, y)' <=> WokenBefore(x, y)
  BY DEF WokenBefore, IsMain, Below, Descendants, Closed, Children
<1>6. \A x : Below(x)' = Below(x)
  BY DEF Below, Descendants, Closed, Children
<1>7. VisitedInOrder'
  <2> SUFFICES ASSUME NEW k \in DOMAIN work', NEW l \in DOMAIN work', k < l,
                      NEW x \in Below(work'[k]), NEW y \in Below(work'[l])
               PROVE  WokenBefore(y, x)
    BY <1>5, <1>6 DEF VisitedInOrder
  <2>1. CASE l <= Len(ks)
    <3>1. k <= Len(ks)
      BY <1>2, <1>3, <2>1
    <3> QED
      BY <1>3, <2>1, <3>1
  <2>2. CASE from(k) < from(l)
    BY <1>3, <2>2 DEF OInv, VisitedInOrder
  <2> QED
    BY <1>4, <2>1, <2>2
<1>8. PushedFirst'
  <2> SUFFICES ASSUME NEW i \in DOMAIN stack, NEW k \in DOMAIN work', NEW y \in Below(work'[k])
               PROVE  WokenBefore(y, stack[i])
    BY <1>5, <1>6 DEF PushedFirst
  <2> QED
    BY <1>3 DEF OInv, PushedFirst
<1>9. WakeOrder' /\ OnlySleepsFinish'
  BY <1>5 DEF OInv, WakeOrder, OnlySleepsFinish
<1> QED
  BY <1>7, <1>8, <1>9 DEF OInv

(* What p itself is told: it is pushed, or it is not. *)
LEMMA TellOrder ==
  ASSUME IInv, IInv', Rooted, OInv, NEW p \in Proc, Working(p), work' = Tail(work),
         \A q \in Proc : op'[q].closures = op[q].closures /\ op'[q].kind = op[q].kind,
         \A q \in Proc \ {p} : op'[q].finished = op[q].finished,
         op'[p].finished => op[p].kind = "SLEEP",
         stack' = stack \/ stack' = stack \o <<p>>
  PROVE  OInv'
<1>1. /\ work[1] = p /\ 1 \in DOMAIN work /\ DOMAIN work = 1 .. Len(work)
      /\ Len(work) \in Nat \ {0} /\ DOMAIN work' = 1 .. Len(work) - 1
      /\ \A k \in 1 .. Len(work) - 1 : work'[k] = work[k + 1] /\ k + 1 \in DOMAIN work
      /\ work \in Seq(Proc) /\ stack \in Seq(Proc)
  BY CallsToMake DEF IInv, TypeOK, ProcessTypeOK
<1>2. ASSUME NEW x \in Proc, NEW y \in Proc, WokenBefore(x, y) PROVE WokenBefore(x, y)'
  BY <1>2, SameTreeStays, BeforeStays
<1>3. ASSUME NEW k \in DOMAIN work'
      PROVE  /\ k + 1 \in DOMAIN work /\ k \in Nat
             /\ Below(work[k])' = Below(work[k + 1]) /\ Below(work[k + 1]) \subseteq Proc
  <2>1. PICK x \in Proc : x = work'[k] /\ x = work[k + 1] /\ k + 1 \in DOMAIN work /\ k \in Nat
    BY <1>1, ElementOfSeq
  <2>2. Below(x)' = Below(x) /\ Below(x) \subseteq Proc
    BY UnderKept, DescendantsFacts DEF Below, Under
  <2> QED
    BY <2>1, <2>2
<1>4. p \in Below(p) /\ \A i \in DOMAIN stack : stack[i] # p /\ stack[i] \in Proc
  <2>1. p \in Below(p)
    BY DEF Below
  <2>2. \A i \in DOMAIN stack : stack[i] \in Proc
    BY <1>1, ElementOfSeq, LenProperties
  <2> QED
    BY <1>1, <2>1, <2>2, NotBeforeItself DEF OInv, PushedFirst
<1>5. ASSUME NEW i \in DOMAIN stack'
      PROVE  \/ i \in DOMAIN stack /\ stack'[i] = stack[i]
             \/ stack'[i] = p /\ \A j \in DOMAIN stack : j < i
  <2>1. CASE stack' = stack \o <<p>>
    <3>1. <<p>> \in Seq(Proc) /\ Len(<<p>>) = 1 /\ <<p>>[1] = p
      OBVIOUS
    <3>2. /\ DOMAIN stack' = 1 .. Len(stack) + 1 /\ DOMAIN stack = 1 .. Len(stack)
          /\ Len(stack) \in Nat
          /\ \A j \in 1 .. Len(stack) + 1 :
               stack'[j] = IF j <= Len(stack) THEN stack[j] ELSE <<p>>[j - Len(stack)]
      BY <1>1, <2>1, <3>1, ConcatProperties, LenProperties
    <3> QED
      BY <3>1, <3>2
  <2>2. CASE stack' = stack
    BY <2>2
  <2> QED
    BY <2>1, <2>2
<1>6. VisitedInOrder'
  <2> SUFFICES ASSUME NEW k \in DOMAIN work', NEW l \in DOMAIN work', k < l,
                      NEW x \in Below(work[k])', NEW y \in Below(work[l])'
               PROVE  WokenBefore(y, x)'
    BY DEF VisitedInOrder
  <2>1. k + 1 < l + 1 /\ x \in Proc /\ y \in Proc
    BY <1>3
  <2>2. WokenBefore(y, x)
    BY <1>3, <2>1 DEF OInv, VisitedInOrder
  <2> QED
    BY <1>2, <2>1, <2>2
<1>7. PushedFirst'
  <2> SUFFICES ASSUME NEW i \in DOMAIN stack', NEW k \in DOMAIN work', NEW y \in Below(work[k])'
               PROVE  WokenBefore(y, stack[i])'
    BY DEF PushedFirst
  <2>1. PICK x : x = stack'[i]
    OBVIOUS
  <2>2. x \in Proc /\ y \in Proc
    BY <1>3, <1>4, <1>5, <2>1
  <2>3. CASE i \in DOMAIN stack /\ stack'[i] = stack[i]
    BY <1>2, <1>3, <2>1, <2>2, <2>3 DEF OInv, PushedFirst
  <2>4. CASE x = p
    <3>1. 1 < k + 1
      BY <1>3
    <3>2. WokenBefore(y, p)
      BY <1>1, <1>3, <1>4, <3>1 DEF OInv, VisitedInOrder
    <3> QED
      BY <1>2, <2>1, <2>2, <2>4, <3>2
  <2> QED
    BY <1>5, <2>1, <2>3, <2>4
<1>8. WakeOrder'
  <2> SUFFICES ASSUME NEW i \in DOMAIN stack', NEW j \in DOMAIN stack', i < j,
                      op'[stack'[i]].finished, op'[stack'[j]].finished
               PROVE  WokenBefore(stack[j], stack[i])'
    BY DEF WakeOrder
  <2>1. PICK x, y : x = stack'[i] /\ y = stack'[j]
    OBVIOUS
  <2>2. x \in Proc /\ y \in Proc
    BY <1>4, <1>5, <2>1
  <2>3. i \in DOMAIN stack /\ x = stack[i] /\ x # p
    <3>1. i \in Nat /\ j \in Nat
      <4>1. stack' \in Seq(Proc)
        BY DEF IInv, TypeOK, ProcessTypeOK
      <4> QED
        BY <4>1, LenProperties
    <3>2. CASE i \notin DOMAIN stack
      <4>1. \A m \in DOMAIN stack : m < i
        BY <1>5, <3>2
      <4>2. CASE j \in DOMAIN stack
        BY <3>1, <4>1, <4>2
      <4>3. CASE j \notin DOMAIN stack
        BY <1>1, <3>1, <3>2, <4>1, <4>3
      <4> QED
        BY <4>2, <4>3
    <3> QED
      BY <1>4, <1>5, <2>1, <3>1, <3>2
  <2>4. CASE y = p
    BY <1>1, <1>2, <1>4, <2>1, <2>2, <2>3, <2>4 DEF OInv, PushedFirst
  <2>5. CASE y # p
    <3>1. j \in DOMAIN stack /\ y = stack[j]
      BY <1>5, <2>1, <2>5
    <3>2. op[x].finished /\ op[y].finished
      BY <2>1, <2>2, <2>3, <2>5
    <3>3. WokenBefore(y, x)
      BY <2>3, <3>1, <3>2 DEF OInv, WakeOrder
    <3> QED
      BY <1>2, <2>1, <2>2, <3>3
  <2> QED
    BY <2>4, <2>5
<1>9. OnlySleepsFinish'
  BY DEF OInv, OnlySleepsFinish
<1> QED
  BY <1>6, <1>7, <1>8, <1>9 DEF OInv

(* Two closures of p, in the order of its kind: all below one wake before the other. *)
LEMMA SiblingsInOrder ==
  ASSUME NEW p \in Proc, NEW i \in DOMAIN op[p].closures, NEW j \in DOMAIN op[p].closures,
         IF IsMain(p) THEN i > j ELSE i < j,
         NEW x \in Below(op[p].closures[i]), NEW y \in Below(op[p].closures[j])
  PROVE  WokenBefore(x, y)
<1> QED
  BY DEF WokenBefore

(* OpPar::Work visits the closures from the last to the first (op_par.cpp:90). *)
LEMMA WorkParOrder ==
  ASSUME IInv, OInv, NEW p \in Proc, WorkPar(p)
  PROVE  OInv'
<1>0. /\ Working(p) /\ UNCHANGED <<op, stack>> /\ work' = LastToFirst(p) \o Tail(work)
      /\ ~IsMain(p)
  BY DEF WorkPar, IsMain, ParKinds
<1>1. PICK s \in Seq(Proc), n \in Nat : s = op[p].closures /\ n = op[p].closureToRun
  BY DEF IInv, TypeOK, ProcessTypeOK, Operation
<1>2. DOMAIN s = 1 .. Len(s) /\ Len(s) \in Nat /\ n <= Len(s)
  BY <1>1, ChildFacts, LenProperties
<1>3. PICK t : t = SubSeq(s, 1, n)
  OBVIOUS
<1>4. Len(t) = n /\ \A i \in 1 .. n : t[i] = s[i]
  <2>1. \A i \in 1 .. n : s[i] \in Proc
    BY <1>2, ElementOfSeq
  <2> QED
    BY <1>2, <1>3, <2>1, SubSeqProperties
<1>5. PICK ks \in Seq(Proc) : ks = LastToFirst(p) /\ Range(ks) \subseteq Children(p)
  BY LastToFirstOnce
<1>6. ks = [i \in 1 .. n |-> t[(n - i) + 1]]
  BY <1>1, <1>3, <1>4, <1>5 DEF LastToFirst, Reverse
<1>7. DOMAIN ks = 1 .. n /\ \A i \in 1 .. n : (n - i) + 1 \in DOMAIN s /\ ks[i] = s[(n - i) + 1]
  <2>1. \A i \in 1 .. n : (n - i) + 1 \in 1 .. n /\ (n - i) + 1 \in DOMAIN s
    BY <1>2
  <2> QED
    BY <1>4, <1>6, <2>1
<1>8. ASSUME NEW i \in DOMAIN ks, NEW j \in DOMAIN ks, i < j,
             NEW x \in Below(ks[i]), NEW y \in Below(ks[j])
      PROVE  WokenBefore(y, x)
  <2>1. (n - j) + 1 < (n - i) + 1 /\ ks[i] = s[(n - i) + 1] /\ ks[j] = s[(n - j) + 1]
    BY <1>7, <1>8
  <2> QED
    BY <1>0, <1>1, <1>7, <2>1, SiblingsInOrder
<1> QED
  BY <1>0, <1>5, <1>8, PassOnOrder

(* OpSwarmMain::Work visits the closures from the first to the last (swarm.cpp:118). *)
LEMMA WorkMainOrder ==
  ASSUME IInv, OInv, NEW p \in Proc, WorkMain(p)
  PROVE  OInv'
<1>0. /\ Working(p) /\ UNCHANGED <<op, stack>> /\ work' = MainWork(p) \o Tail(work)
      /\ IsMain(p)
  BY DEF WorkMain
<1>1. PICK s \in Seq(Proc), n \in Nat : s = op[p].closures /\ n = op[p].closureToRun
  BY DEF IInv, TypeOK, ProcessTypeOK, Operation
<1>1a. PICK gone : gone = Ended(op[p])
  OBVIOUS
<1>2. /\ DOMAIN s = 1 .. Len(s) /\ Len(s) \in Nat /\ n <= Len(s)
      /\ \A i \in DOMAIN s : s[i] \in Children(p)
  BY <1>1, ChildFacts, LenProperties
<1>3. PICK t \in Seq(Proc) : t = StartedOf(op[p])
  BY ListFacts
<1>4. Len(t) = n /\ \A i \in 1 .. n : t[i] = s[i]
  <2>1. \A i \in 1 .. n : s[i] \in Proc
    BY <1>2, ElementOfSeq
  <2> QED
    BY <1>1, <1>2, <1>3, <2>1, SubSeqProperties DEF StartedOf
<1>5. DOMAIN t = 1 .. n
  BY <1>4, LenProperties
<1>6. PICK ks \in Seq(Proc) : ks = MainWork(p) /\ ks = Without(t, gone)
  BY <1>1a, <1>3, WithoutEntries DEF MainWork
<1>7. \A i, j \in DOMAIN ks : i < j =>
        \E k, l \in DOMAIN t : k < l /\ ks[i] = t[k] /\ ks[j] = t[l]
  BY <1>6, WithoutInOrder
<1>8. Range(ks) \subseteq Children(p)
  <2>1. \A i \in DOMAIN ks : \E k \in DOMAIN t : ks[i] = t[k]
    <3>1. \A i \in DOMAIN Without(t, gone) : \E k \in Kept(t, gone) : Without(t, gone)[i] = t[k]
      BY WithoutEntries
    <3> QED
      BY <1>6, <3>1 DEF Kept
  <2> QED
    BY <1>2, <1>4, <1>5, <2>1 DEF Range
<1>9. ASSUME NEW i \in DOMAIN ks, NEW j \in DOMAIN ks, i < j,
             NEW x \in Below(ks[i]), NEW y \in Below(ks[j])
      PROVE  WokenBefore(y, x)
  <2>1. PICK k \in DOMAIN t, l \in DOMAIN t : k < l /\ ks[i] = t[k] /\ ks[j] = t[l]
    BY <1>7, <1>9
  <2>2. /\ k \in DOMAIN op[p].closures /\ l \in DOMAIN op[p].closures /\ l > k
        /\ ks[i] = op[p].closures[k] /\ ks[j] = op[p].closures[l]
    BY <1>1, <1>2, <1>4, <1>5, <2>1
  <2> QED
    BY <1>0, <2>2, SiblingsInOrder
<1> QED
  BY <1>0, <1>6, <1>8, <1>9, PassOnOrder

(* One call of Process::Work. *)
LEMMA WorkOrder ==
  ASSUME IInv, IInv', Rooted, OInv, NEW p \in Proc, WorkStep(p)
  PROVE  OInv'
<1>0. /\ Working(p) /\ op \in [Proc -> Operation] /\ op[p] \in Operation
      /\ Tail(work) \in Seq(Proc) /\ ~NoOp.finished
  BY WorkTurn, WorkingFacts DEF IInv, TypeOK, ProcessTypeOK, NoOp
<1>1. CASE UNCHANGED <<op, stack>> /\ work' = Tail(work)
  <2>1. op[p].finished => op[p].kind = "SLEEP"
    BY DEF OInv, OnlySleepsFinish
  <2> QED
    BY <1>0, <1>1, <2>1, TellOrder
<1>2. CASE WorkSleep(p)
  <2>1. PICK left, done, ps :
          /\ done = (left <= 0) /\ ps = (IF left <= 0 THEN <<p>> ELSE <<>>)
          /\ op' = [op EXCEPT ![p].seconds = left, ![p].finished = done]
          /\ PushEvalSteps("none", stack, isOnStack, ps)
    BY <1>2 DEF WorkSleep
  <2>2. /\ \A q \in Proc \ {p} : op'[q] = op[q]
        /\ op'[p] = [op[p] EXCEPT !.seconds = left, !.finished = done]
        /\ op[p].kind = "SLEEP" /\ work' = Tail(work)
    BY <1>0, <1>2, <2>1 DEF WorkSleep
  <2>3. \A q \in Proc : op'[q].closures = op[q].closures /\ op'[q].kind = op[q].kind
    BY <1>0, <2>2, ZenonT(30) DEF Operation
  <2>4. stack' = stack \/ stack' = stack \o <<p>>
    <3>1. stack \in Seq(Proc)
      BY DEF IInv, TypeOK, ProcessTypeOK
    <3>2. stack \o <<>> = stack
      BY <3>1, ConcatEmptySeq
    <3> QED
      BY <2>1, <3>2 DEF PushEvalSteps
  <2> QED
    BY <1>0, <2>2, <2>3, <2>4, TellOrder
<1>3. CASE WorkPar(p)
  BY <1>3, WorkParOrder
<1>4. CASE /\ op[p].kind = "ALT" /\ UNCHANGED <<op, stack>>
           /\ work' = <<Closure(p)>> \o Tail(work)
  <2>1. PICK k \in Proc : k = Closure(p) /\ k \in Children(p)
    BY <1>4, ChildFacts
  <2>2. PICK ks \in Seq(Proc) :
          /\ ks = <<k>> /\ Range(ks) \subseteq Children(p) /\ DOMAIN ks = {1}
    <3>1. <<k>> \in Seq(Proc) /\ Range(<<k>>) = {k}
      BY OnePushed
    <3>2. DOMAIN <<k>> = {1}
      OBVIOUS
    <3> QED
      BY <2>1, <3>1, <3>2
  <2>3. \A i, j \in DOMAIN ks : ~(i < j)
    BY <2>2
  <2> QED
    BY <1>0, <1>4, <2>1, <2>2, <2>3, PassOnOrder
<1>5. CASE /\ op[p].kind = "ALT" /\ Trigger(p, Earliest(op[p]), stack, isOnStack)
           /\ work' = Tail(work)
  <2>1. PICK i : Trigger(p, i, stack, isOnStack)
    BY <1>5
  <2>2. \A q \in Proc : /\ op'[q].kind = op[q].kind /\ op'[q].closures = op[q].closures
                        /\ op'[q].finished = op[q].finished
    BY <1>0, <2>1 DEF Trigger, Operation
  <2>3. stack' = stack \/ stack' = stack \o <<p>>
    BY <2>1 DEF Trigger, PushEvalSteps
  <2>4. op'[p].finished => op[p].kind = "SLEEP"
    BY <2>2 DEF OInv, OnlySleepsFinish
  <2> QED
    BY <1>0, <1>5, <2>2, <2>3, <2>4, TellOrder
<1> QED
  BY <1>1, <1>2, <1>3, <1>4, <1>5 DEF WorkStep, ProcessWork, WorkNothing, WorkAlt

(* The steps of the rest of LuaCSP. *)
LEMMA NextOrder ==
  ASSUME IInv, IInv', Turns, Rooted, OInv, [Next]_vars
  PROVE  OInv'
<1>0. op \in [Proc -> Operation] /\ <<>> \in Seq(Proc) /\ Range(<<>>) = {}
  BY NonePushed DEF IInv, TypeOK, ProcessTypeOK
<1>1. ASSUME NEW p \in Proc, LuaStep(p) PROVE OInv'
  BY <1>1, LuaOrder
<1>2. ASSUME NEW p \in Proc, EvaluateStep(p) PROVE OInv'
  BY <1>2, EvaluateOrder
<1>3. ASSUME NEW p \in Proc, WorkStep(p) PROVE OInv'
  BY <1>3, WorkOrder
<1>4. CASE /\ stack' = <<>>
           /\ \/ op' = op
              \/ /\ work' = <<>>
                 /\ \A q \in Proc : op'[q] = op[q] \/ op'[q] = NoOp
           /\ work' = <<>> \/ work' = <<Main>>
  <2>1. WakeOrder' /\ PushedFirst'
    BY <1>4 DEF WakeOrder, PushedFirst
  <2>2. VisitedInOrder'
    <3>1. \A k, l \in DOMAIN work' : ~(k < l)
      BY <1>4
    <3> QED
      BY <3>1 DEF VisitedInOrder
  <2>3. OnlySleepsFinish'
    BY <1>4 DEF OInv, OnlySleepsFinish, NoOp
  <2> QED
    BY <2>1, <2>2, <2>3 DEF OInv
<1>5. CASE HostMain \/ HostWork
  BY <1>4, <1>5 DEF HostMain, HostWork, Idle, hostVars, Turns
<1>6. CASE TerminateMain
  BY <1>4, <1>6 DEF TerminateMain, Idle, hostVars
<1>7. CASE UNCHANGED vars
  <2>1. UNCHANGED <<op, stack, work>>
    BY <1>7 DEF vars, procVars
  <2>2. \A x, y : WokenBefore(x, y)' <=> WokenBefore(x, y)
    BY <2>1 DEF WokenBefore, IsMain, Below, Descendants, Closed, Children
  <2>3. \A x : Below(x)' = Below(x)
    BY <2>1 DEF Below, Descendants, Closed, Children
  <2> QED
    BY <2>1, <2>2, <2>3 DEF OInv, OnlySleepsFinish, WakeOrder, VisitedInOrder, PushedFirst
<1> QED
  BY <1>1, <1>2, <1>3, <1>5, <1>6, <1>7 DEF Next

(* The steps of a swarm itself: MAIN, go, and the collection of what has ended. *)
LEMMA MainInitOrder ==
  ASSUME IInv, IInv', Turns, OInv, NEW p \in Proc, MainInit(p)
  PROVE  OInv'
<1>0. op \in [Proc -> Operation] /\ thread \in [Proc -> ThreadStatus] /\ NoOp \in Operation
  BY TypeFacts DEF IInv, TypeOK, ProcessTypeOK
<1>1. PICK o : o = [NoOp EXCEPT !.kind = "MAIN"]
  OBVIOUS
<1>2. /\ o.kind = "MAIN" /\ o.closures = <<>> /\ o.closureToRun = 0
      /\ o.caseTriggered = 0 /\ ~o.argumentsMoved /\ ~o.finished /\ o.arguments = NoArgs
  BY <1>1 DEF NoOp
<1>3. DOMAIN o.closures \subseteq Nat \ {0} /\ Range(o.closures) = {}
  BY <1>2, NonePushed
<1>4. /\ running = p /\ failed = "none" /\ Yield(p, o) /\ parent' = parent
      /\ thread' = [thread EXCEPT ![p] = "yield"]
  BY <1>1 DEF MainInit, InLua
<1>5. parent \in [Proc -> Proc \cup {NoProc}]
  BY DEF IInv, TypeOK, ProcessTypeOK
<1>6. Begins(p, o)
  BY <1>0, <1>2, <1>3, <1>4, <1>5 DEF Begins, ForeignKinds
<1> QED
  BY <1>6, BeginsOrder

LEMMA GoOrder ==
  ASSUME IInv, IInv', Turns, SwarmTypes, NoDanglingMain, OInv, NEW p \in Proc, Go(p)
  PROVE  OInv'
<1>1. PICK m \in Proc, new \in Seq(Proc) : Gives(p, m, new)
  BY GoGives
<1>2. /\ running = p /\ PushEvalSteps("none", stack, isOnStack, MainToWake(m))
      /\ op[m].kind = "MAIN" /\ op[m] \in Operation /\ op \in [Proc -> Operation]
      /\ op' = [op EXCEPT ![m].closures = @ \o new] /\ work' = work
  BY <1>1 DEF Gives, IsMain, hostVars, IInv, TypeOK, ProcessTypeOK
<1>3. work' = <<>>
  BY <1>2, ProcessAssumption DEF Turns
<1>4. /\ \A q \in Proc \ {m} : op'[q] = op[q]
      /\ op'[m].finished = op[m].finished /\ op'[m].kind = "MAIN"
  BY <1>2 DEF Operation
<1>5. \A i \in DOMAIN op[m].closures :
        i \in DOMAIN op'[m].closures /\ op'[m].closures[i] = op[m].closures[i]
  <2>1. /\ DOMAIN op'[m].closures = 1 .. Len(op[m].closures) + Len(new)
        /\ Len(new) \in Nat
        /\ \A i \in DOMAIN op'[m].closures :
             op'[m].closures[i] = IF i <= Len(op[m].closures) THEN op[m].closures[i]
                                  ELSE new[i - Len(op[m].closures)]
    BY <1>1, GoFacts
  <2>2. DOMAIN op[m].closures = 1 .. Len(op[m].closures) /\ Len(op[m].closures) \in Nat
    BY ChildFacts
  <2> QED
    BY <2>1, <2>2
<1>6. OrderStays({})
  <2>1. \A r \in Proc : IsMain(r)' <=> IsMain(r)
    BY <1>2, <1>4 DEF IsMain
  <2>2. ASSUME NEW r \in Proc, NEW i \in DOMAIN op[r].closures
        PROVE  i \in DOMAIN op'[r].closures /\ op'[r].closures[i] = op[r].closures[i]
    <3>1. CASE r = m
      BY <1>5, <2>2, <3>1
    <3>2. CASE r # m
      BY <1>4, <2>2, <3>2
    <3> QED
      BY <3>1, <3>2
  <2>3. ASSUME NEW r \in Proc, NEW i \in DOMAIN op[r].closures, NEW j \in DOMAIN op[r].closures
        PROVE  \E k, l \in DOMAIN op'[r].closures :
                 /\ i < j => k < l
                 /\ op'[r].closures[k] = op[r].closures[i]
                 /\ op'[r].closures[l] = op[r].closures[j]
    BY <2>2
  <2> QED
    BY <2>1, <2>3 DEF OrderStays
<1>7. PICK ps \in Seq(Proc) : ps = MainToWake(m) /\ Range(ps) \subseteq {m}
  BY OnePushed, NonePushed DEF MainToWake
<1>8. PICK stk : stk = stack /\ LeftOf(stk)
  BY LeftFacts
<1>9. stack' = stk \/ stack' = stk \o ps
  BY <1>2, <1>7, <1>8 DEF PushEvalSteps
<1>10. \A q \in Range(ps) : ~op'[q].finished
  BY <1>2, <1>4, <1>7 DEF OInv, OnlySleepsFinish
<1>11. \A q \in Proc : op'[q].finished =>
         op[q].finished /\ q \notin {} /\ op'[q].kind = op[q].kind
  BY <1>2, <1>4
<1> QED
  BY <1>3, <1>6, <1>8, <1>9, <1>10, <1>11, QuietOrder

(* What ends below a MAIN leaves, the others keep their order. *)
LEMMA CollectsOrder ==
  ASSUME IInv, IInv', OInv, NEW p \in Proc, Collects(p), work = <<>>
  PROVE  OInv'
<1>1. PICK gone : gone = Ended(op[p])
  OBVIOUS
<1>2. IsMain(p) /\ Collect(p, gone) /\ work' = <<>> /\ op \in [Proc -> Operation]
  BY <1>1 DEF Collects, Collect, hostVars, IInv, TypeOK, ProcessTypeOK
<1>3. /\ gone \subseteq Children(p) /\ p \notin gone
      /\ \A q \in Proc : q # p /\ q \notin gone => op'[q] = op[q]
      /\ \A q \in gone : op'[q] = NoOp
  BY <1>1, <1>2, CollectFacts
<1>4. \A k \in gone : k \in Proc /\ Children(k) = {}
  BY <1>1, <1>2, CollectFacts
<1>5. \A k \in gone, q \in Proc : k \in Children(q) => q = p
  BY <1>1, <1>2, CollectFacts
<1>6. PICK s \in Seq(Proc) : s = op[p].closures
  BY <1>2 DEF Operation
<1>7. /\ op'[p].finished = op[p].finished /\ op'[p].kind = op[p].kind
      /\ op'[p].closures = Without(s, gone)
  BY <1>2, <1>6 DEF Collect, Collected, Operation
<1>8. \A i, j \in DOMAIN s : s[i] \notin gone /\ s[j] \notin gone =>
        \E k, l \in DOMAIN Without(s, gone) :
          /\ i < j => k < l
          /\ Without(s, gone)[k] = s[i]
          /\ Without(s, gone)[l] = s[j]
  <2> SUFFICES ASSUME NEW i \in DOMAIN s, NEW j \in DOMAIN s,
                      s[i] \notin gone, s[j] \notin gone
               PROVE  \E k, l \in DOMAIN Without(s, gone) :
                        /\ i < j => k < l
                        /\ Without(s, gone)[k] = s[i]
                        /\ Without(s, gone)[l] = s[j]
    OBVIOUS
  <2>1. i \in Kept(s, gone) /\ j \in Kept(s, gone)
    BY DEF Kept
  <2>2. i < j => WritePos(s, gone, i) < WritePos(s, gone, j)
    BY <2>1, WithoutInOrder
  <2>3. /\ WritePos(s, gone, i) \in DOMAIN Without(s, gone)
        /\ WritePos(s, gone, j) \in DOMAIN Without(s, gone)
        /\ Without(s, gone)[WritePos(s, gone, i)] = s[i]
        /\ Without(s, gone)[WritePos(s, gone, j)] = s[j]
    BY <2>1, WithoutEntries
  <2> QED
    BY <2>2, <2>3
<1>9. OrderStays(gone)
  <2> SUFFICES ASSUME NEW r \in Proc,
                      NEW i \in DOMAIN op[r].closures, NEW j \in DOMAIN op[r].closures,
                      op[r].closures[i] \notin gone, op[r].closures[j] \notin gone
               PROVE  /\ IsMain(r)' <=> IsMain(r)
                      /\ \E k, l \in DOMAIN op'[r].closures :
                           /\ i < j => k < l
                           /\ op'[r].closures[k] = op[r].closures[i]
                           /\ op'[r].closures[l] = op[r].closures[j]
    BY <1>3, <1>4 DEF OrderStays
  <2>1. CASE r = p
    BY <1>6, <1>7, <1>8, <2>1 DEF IsMain
  <2>2. CASE r # p
    <3>1. op[r].closures[i] \in Children(r)
      BY ChildFacts
    <3>2. r \notin gone
      BY <1>4, <3>1
    <3> QED
      BY <1>3, <2>2, <3>2 DEF IsMain
  <2> QED
    BY <2>1, <2>2
<1>10. PICK stk : (stk = stack \/ stk = Popped) /\ stack' = stk /\ LeftOf(stk)
  BY LeftFacts DEF Collects, Evaluating
<1>11. PICK ps \in Seq(Proc) : ps = <<>> /\ Range(ps) = {}
  BY NonePushed
<1>12. \A q \in Range(ps) : ~op'[q].finished
  BY <1>11
<1>13. \A q \in Proc : op'[q].finished =>
         op[q].finished /\ q \notin gone /\ op'[q].kind = op[q].kind
  BY <1>3, <1>7 DEF NoOp
<1> QED
  BY <1>2, <1>9, <1>10, <1>12, <1>13, QuietOrder

LEMMA EvalMainOrder ==
  ASSUME IInv, IInv', OInv, NEW p \in Proc, EvalMain(p)
  PROVE  OInv'
<1>0. Evaluating(p) /\ work = <<>> /\ IsMain(p) /\ op[p] \in Operation
  BY DEF EvalMain, Evaluating, IInv, TypeOK, ProcessTypeOK
<1>1. CASE StartNext(p)
  <2>1. PICK o, k, ps :
          /\ ps = <<>> \/ ps = <<p>>
          /\ o = [op[p] EXCEPT !.closureToRun = op[p].closureToRun + 1]
          /\ StartEvaluation(p, o, k, NoArgs, ps, "none")
    BY <1>1 DEF StartNext
  <2>2. /\ o.kind = op[p].kind /\ o.closures = op[p].closures
        /\ o.finished = op[p].finished /\ op[p].kind # "SLEEP"
    BY <1>0, <2>1 DEF Operation, IsMain
  <2> QED
    BY <1>0, <2>1, <2>2, StartOrder
<1>2. CASE Collects(p)
  BY <1>0, <1>2, CollectsOrder
<1> QED
  BY <1>1, <1>2 DEF EvalMain, Collects, Evaluating

LEMMA SwarmNextOrder ==
  ASSUME SInv, SInv', TailFirst, OInv, [SwarmNext]_allVars
  PROVE  OInv'
<1>0. /\ IInv /\ IInv' /\ Turns /\ Rooted /\ SwarmTypes /\ NoDanglingMain /\ TailIsMain
  BY DEF SInv, WInv
<1>1. CASE OtherStep \/ UNCHANGED allVars
  <2>1. [Next]_vars
    BY <1>1 DEF OtherStep, allVars
  <2> QED
    BY <1>0, <2>1, NextOrder
<1>2. CASE EndEvalMain
  <2>1. tail \in Proc /\ IsMain(tail) /\ work = <<>>
    BY <1>0, <1>2 DEF EndEvalMain, SwarmTypes, TailIsMain, TailFirst
  <2>2. PICK p \in Proc : p = tail
    BY <2>1
  <2>3. Collects(p)
    BY <1>2, <2>1, <2>2 DEF Collects, EndEvalMain
  <2> QED
    BY <1>0, <2>1, <2>3, CollectsOrder
<1> QED
  BY <1>0, <1>1, <1>2, MainInitOrder, GoOrder, EvalMainOrder, WorkMainOrder DEF SwarmNext

(***************************************************************************)
(* Sleeps that end in the same tick end in the order of the closures of a  *)
(* PAR (tests/lua/par.lua:11-29), but in the reverse of the order in which *)
(* they were given to a swarm (op_par.cpp:90, swarm.cpp:118), however deep *)
(* they are nested and whoever has ended or begun since.                   *)
(***************************************************************************)
THEOREM ClosuresWakeInOrder == SwarmSpec => []WakeOrder
<1>1. SwarmInit => OInv /\ TailFirst
  <2> SUFFICES ASSUME SwarmInit PROVE OInv /\ TailFirst
    OBVIOUS
  <2>1. /\ stack = <<>> /\ work = <<>> /\ tail = NoProc /\ \A p \in Proc : op[p] = NoOp
    BY DEF SwarmInit, Init, ProcessInit
  <2>2. WakeOrder /\ VisitedInOrder /\ PushedFirst /\ TailFirst
    BY <2>1 DEF WakeOrder, VisitedInOrder, PushedFirst, TailFirst
  <2>3. OnlySleepsFinish
    BY <2>1 DEF OnlySleepsFinish, NoOp
  <2> QED
    BY <2>2, <2>3 DEF OInv
<1>2. SInv /\ TailFirst /\ [SwarmNext]_allVars => TailFirst'
  BY NextTailFirst
<1>3. SInv /\ SInv' /\ TailFirst /\ OInv /\ [SwarmNext]_allVars => OInv'
  BY SwarmNextOrder
<1>4. OInv => WakeOrder
  BY DEF OInv
<1> QED
  BY <1>1, <1>2, <1>3, <1>4, SwarmInductive, PTL DEF SwarmSpec
=============================================================================
