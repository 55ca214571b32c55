---------------------------- MODULE LuaCSP_wakeup ----------------------------
(***************************************************************************)
(* Nobody is forgotten: for every size and every program, a process that   *)
(* is not on the stack rests where something will push it again, and the   *)
(* processes that exist are those the main process and the operations      *)
(* below it have as closures.                                              *)
(***************************************************************************)
EXTENDS LuaCSP_prompt

(* The Lua code of k has started, and has not ended. *)
Alive(k)      == thread[k] \in {"running", "yield"}
HasStarted(k) == thread[k] \in {"running", "yield", "dead", "error"}

(* Only the process that the host resumed last runs. *)
OnlyRunning == \A k \in Proc : thread[k] = "running" => running = k

(***************************************************************************)
(* A closure that its operation has started knows its parent, so that its  *)
(* end wakes the operation (process.cpp:115-119).                          *)
(***************************************************************************)
Begun ==
  \A p \in Proc :
    /\ op[p].kind \in Spawning =>
         \A i \in DOMAIN op[p].closures :
           /\ parent[op[p].closures[i]] = p
           /\ i <= op[p].closureToRun => HasStarted(op[p].closures[i])
    /\ op[p].kind = "ALT" /\ ~Fresh(op[p]) =>
         parent[Closure(p)] = p /\ HasStarted(Closure(p))

(* The processes that exist are closures of main, or of what is below it. *)
Rooted ==
  \A S \in SUBSET Proc : Children(Main) \subseteq S /\ Closed(S) =>
    \A p \in Proc : thread[p] # "free" => p = Main \/ p \in S

(***************************************************************************)
(* A process that the evaluator has looked at and left: a closure it waits *)
(* for has not ended, and its operation itself is not finished.            *)
(***************************************************************************)
Rests(p) ==
  LET o == op[p] IN
  /\ o.kind \in {"SLEEP", "CPPOUT", "LUA"} => ~o.finished
  /\ o.kind \in ChannelKinds => ~o.argumentsMoved
  /\ o.kind = "PAR" => AllStarted(p) /\ \E k \in Children(p) : Alive(k)
  /\ o.kind = "PARWHILE" => /\ o.closures # <<>> /\ AllStarted(p)
                            /\ Alive(o.closures[1])
  /\ o.kind = "ALT" => IF o.caseTriggered = 0 THEN ~AllCasesClosed(o)
                       ELSE ~o.argumentsMoved /\ Alive(Closure(p))

Awake ==
  failed = "none" =>
    \A p \in Proc : thread[p] = "yield" /\ ~isOnStack[p] => Rests(p)

WInv == OnlyRunning /\ Begun /\ Rooted /\ Awake

----------------------------------------------------------------------------
(***************************************************************************)
(* Steps of one shape preserve the four alike.                             *)
(***************************************************************************)
(* What closures of an operation are. *)
LEMMA ChildFacts ==
  ASSUME IInv, NEW q \in Proc
  PROVE  /\ DOMAIN op[q].closures \subseteq Nat \ {0}
         /\ DOMAIN op[q].closures = 1 .. Len(op[q].closures) /\ Len(op[q].closures) \in Nat
         /\ op[q].closureToRun \in Nat /\ op[q].closureToRun <= Len(op[q].closures)
         /\ \A i \in DOMAIN op[q].closures :
              op[q].closures[i] \in Children(q) /\ op[q].closures[i] \in Proc
         /\ op[q].kind = "ALT" => Closure(q) \in Children(q)
         /\ \A k \in Children(q) : k \in Proc /\ k # Main /\ thread[k] # "free"
         /\ \A k \in Children(q) : \E i \in DOMAIN op[q].closures : k = op[q].closures[i]
         /\ \A k \in Children(q), r \in Proc : k \in Children(r) => r = q
<1>1. /\ DOMAIN op[q].closures = 1 .. Len(op[q].closures) /\ Len(op[q].closures) \in Nat
      /\ \A i \in DOMAIN op[q].closures :
           op[q].closures[i] \in Children(q) /\ op[q].closures[i] \in Proc
      /\ Children(q) \subseteq Proc
  BY TypeFacts DEF IInv
<1>2. op[q].closureToRun \in Nat /\ op[q].closureToRun <= Len(op[q].closures)
  BY DEF IInv, TypeOK, ProcessTypeOK, Operation, Closures
<1>3. op[q].kind = "ALT" => Closure(q) \in Children(q)
  BY FreshClosure
<1>4. \A k \in Children(q) : k \in Proc /\ k # Main /\ thread[k] # "free"
  BY <1>1 DEF IInv, Tree
<1>5. /\ \A k \in Children(q) : \E i \in DOMAIN op[q].closures : k = op[q].closures[i]
      /\ \A k \in Children(q), r \in Proc : k \in Children(r) => r = q
  BY DEF IInv, Tree, Children, Range
<1> QED
  BY <1>1, <1>2, <1>3, <1>4, <1>5

(* A process rests as long as its operation stays and its closures live on. *)
LEMMA RestsKept ==
  ASSUME IInv, NEW q \in Proc, op'[q] = op[q], Rests(q),
         \A k \in Children(q) : Alive(k) => Alive(k)'
  PROVE  Rests(q)'
<1>1. Children(q)' = Children(q) /\ Closure(q)' = Closure(q) /\ AllStarted(q)' = AllStarted(q)
  BY DEF Children, Closure, AllStarted
<1>2. op[q].kind = "PARWHILE" /\ op[q].closures # <<>> => op[q].closures[1] \in Children(q)
  <2>1. op[q].closures # <<>> => 1 \in DOMAIN op[q].closures
    BY TypeFacts, EmptySeq DEF IInv
  <2> QED
    BY <2>1, ChildFacts
<1>3. op[q].kind = "ALT" => Closure(q) \in Children(q)
  BY ChildFacts
<1> QED
  BY <1>1, <1>2, <1>3 DEF Rests, AllCasesClosed

(* The same processes have the same closures. *)
LEMMA RootedKept ==
  ASSUME Rooted,
         \A q \in Proc : /\ op'[q].closures = op[q].closures
                         /\ thread'[q] # "free" => thread[q] # "free"
  PROVE  Rooted'
<1>1. \A q \in Proc : Children(q)' = Children(q)
  BY DEF Children
<1>2. Children(Main)' = Children(Main) /\ \A S \in SUBSET Proc : Closed(S)' = Closed(S)
  BY <1>1, ProcessAssumption DEF Closed
<1> QED
  BY <1>2 DEF Rooted

(* What the closures of an operation know stays as it is. *)
LEMMA BegunKept ==
  ASSUME IInv, Begun, NEW q \in Proc,
         op'[q].kind = op[q].kind, op'[q].closures = op[q].closures,
         op'[q].closureToRun = op[q].closureToRun, Fresh(op[q]) => Fresh(op'[q]),
         \A k \in Children(q) : /\ parent[k] = q => parent'[k] = q
                                /\ HasStarted(k) => HasStarted(k)'
  PROVE  /\ op'[q].kind \in Spawning =>
              \A i \in DOMAIN op'[q].closures :
                /\ parent'[op'[q].closures[i]] = q
                /\ i <= op'[q].closureToRun => HasStarted(op[q].closures[i])'
         /\ op'[q].kind = "ALT" /\ ~Fresh(op'[q]) =>
              parent'[op'[q].closures[1]] = q /\ HasStarted(op[q].closures[1])'
<1>1. \A i \in DOMAIN op[q].closures : op[q].closures[i] \in Children(q)
  BY ChildFacts
<1>2. op[q].kind = "ALT" => op[q].closures[1] \in Children(q)
  BY ChildFacts DEF Closure
<1> QED
  BY <1>1, <1>2 DEF Begun, Closure

(* Begun, spelled out for the next state. *)
LEMMA BegunNext ==
  ASSUME \A q \in Proc :
         /\ op'[q].kind \in Spawning =>
              \A i \in DOMAIN op'[q].closures :
                /\ parent'[op'[q].closures[i]] = q
                /\ i <= op'[q].closureToRun =>
                     thread'[op'[q].closures[i]] \in {"running", "yield", "dead", "error"}
         /\ op'[q].kind = "ALT" /\ ~Fresh(op'[q]) =>
              /\ parent'[op'[q].closures[1]] = q
              /\ thread'[op'[q].closures[1]] \in {"running", "yield", "dead", "error"}
  PROVE  Begun'
<1> QED
  BY DEF Begun, HasStarted, Closure

(* The processes stay, and only fields of operations change. *)
LEMMA FieldWakeup ==
  ASSUME IInv, WInv, UNCHANGED <<thread, parent, running>>,
         \A q \in Proc : /\ op'[q].kind = op[q].kind
                         /\ op'[q].closures = op[q].closures
                         /\ op'[q].closureToRun = op[q].closureToRun
                         /\ Fresh(op[q]) => Fresh(op'[q]),
         failed' = "none" =>
           /\ failed = "none"
           /\ \A q \in Proc : \/ isOnStack'[q]
                              \/ op'[q] = op[q] /\ ~isOnStack[q]
                              \/ Rests(q)'
  PROVE  WInv'
<1>1. OnlyRunning'
  BY DEF WInv, OnlyRunning
<1>2. Begun'
  <2>1. \A k : HasStarted(k)' = HasStarted(k)
    BY DEF HasStarted
  <2> QED
    BY <2>1, BegunKept, BegunNext DEF WInv, HasStarted
<1>3. Rooted'
  BY RootedKept DEF WInv
<1>4. ASSUME failed' = "none", NEW q \in Proc, thread'[q] = "yield", ~isOnStack'[q]
      PROVE  Rests(q)'
  <2>1. CASE op'[q] = op[q] /\ ~isOnStack[q]
    BY <1>4, <2>1, RestsKept DEF WInv, Awake, Alive
  <2> QED
    BY <1>4, <2>1
<1> QED
  BY <1>1, <1>2, <1>3, <1>4 DEF WInv, Awake

(* A process begins an operation. *)
LEMMA CallWakeup ==
  ASSUME IInv, WInv, NEW p \in Proc, NEW o, Begins(p, o)
  PROVE  WInv'
<1>0. /\ running = p /\ failed = "none" /\ thread[p] = "running"
      /\ op[p].kind = "none" /\ op[p].closures = <<>> /\ Children(p) = {}
      /\ running' = NoProc /\ thread'[p] = "yield"
      /\ \A k \in Range(o.closures) : k \in Proc /\ thread[k] = "free" /\ k # p
  BY RunningFacts DEF Begins, Yield, Free, Children, Range
<1>1. /\ op'[p] = o /\ Children(p)' = Range(o.closures)
      /\ \A q \in Proc \ {p} : op'[q] = op[q] /\ Children(q)' = Children(q)
  BY DEF Begins, Yield, IInv, TypeOK, ProcessTypeOK, Children
<1>2. OnlyRunning'
  <2>1. ASSUME NEW k \in Proc, thread'[k] = "running" PROVE FALSE
    BY <1>0, <2>1 DEF Begins, WInv, OnlyRunning
  <2> QED
    BY <2>1 DEF OnlyRunning
<1>3. ASSUME NEW q \in Proc, NEW k \in Children(q)
      PROVE  /\ q # p /\ k \in Proc /\ k \notin Range(o.closures)
             /\ parent'[k] = parent[k]
             /\ HasStarted(k) => HasStarted(k)'
             /\ Alive(k) => Alive(k)'
  <2>1. k \in Proc /\ thread[k] # "free"
    BY ChildFacts
  <2>2. k \notin Range(o.closures) /\ q # p
    BY <1>0, <2>1
  <2> QED
    BY <1>0, <2>1, <2>2 DEF Begins, HasStarted, Alive
<1>4. Begun'
  <2>1. ASSUME NEW q \in Proc
        PROVE  /\ op'[q].kind \in Spawning =>
                    \A i \in DOMAIN op'[q].closures :
                      /\ parent'[op'[q].closures[i]] = q
                      /\ i <= op'[q].closureToRun =>
                           thread'[op'[q].closures[i]] \in {"running", "yield", "dead", "error"}
               /\ op'[q].kind = "ALT" /\ ~Fresh(op'[q]) =>
                    /\ parent'[op'[q].closures[1]] = q
                    /\ thread'[op'[q].closures[1]] \in {"running", "yield", "dead", "error"}
    <3>1. CASE q = p
      <4>1. \A i \in DOMAIN o.closures : o.closures[i] \in Range(o.closures) /\ ~(i <= 0)
        BY DEF Range, Begins
      <4>2. o.kind = "ALT" => Fresh(o)
        BY DEF Begins, Fresh
      <4> QED
        BY <3>1, <4>1, <4>2, <1>0, <1>1 DEF Begins
    <3>2. CASE q # p
      BY <3>2, <1>1, <1>3, BegunKept DEF WInv, HasStarted
    <3> QED
      BY <3>1, <3>2
  <2> QED
    BY <2>1, BegunNext
<1>5. Rooted'
  <2> SUFFICES ASSUME NEW S \in SUBSET Proc, Children(Main)' \subseteq S, Closed(S)',
                      NEW q \in Proc, thread'[q] # "free"
               PROVE  q = Main \/ q \in S
    BY DEF Rooted
  <2>1. \A r \in S : Children(r)' \subseteq S
    BY DEF Closed
  <2>2. Children(Main) \subseteq S /\ Closed(S)
    BY <1>0, <1>1, <2>1, ProcessAssumption DEF Closed
  <2>3. \A r \in Proc : thread[r] # "free" => r = Main \/ r \in S
    BY <2>2 DEF WInv, Rooted
  <2>4. p = Main \/ p \in S
    BY <1>0, <2>3
  <2>5. Range(o.closures) \subseteq S
    BY <1>1, <2>1, <2>4
  <2> QED
    BY <1>0, <2>3, <2>4, <2>5 DEF Begins
<1>6. Awake'
  <2> SUFFICES ASSUME failed' = "none", NEW q \in Proc, thread'[q] = "yield", ~isOnStack'[q]
               PROVE  Rests(q)'
    BY DEF Awake
  <2>1. \A r \in Proc : isOnStack'[r] <=> isOnStack[r] \/ r = p
    <3>1. Range(<<p>>) = {p}
      BY DEF Range
    <3>2. isOnStack' = [r \in Proc |-> isOnStack[r] \/ r \in Range(<<p>>)]
      BY DEF Begins, Yield, PushEvalSteps
    <3> QED
      BY <3>1, <3>2
  <2>2. q # p /\ ~isOnStack[q] /\ thread[q] = "yield"
    BY <1>0, <2>1 DEF Begins
  <2>3. Rests(q)
    BY <1>0, <2>2 DEF WInv, Awake
  <2> QED
    BY <1>1, <1>3, <2>2, <2>3, RestsKept
<1> QED
  BY <1>2, <1>4, <1>5, <1>6 DEF WInv

(* A coroutine ends: the operation it is a closure of is looked at again. *)
LEMMA EndWakeup ==
  ASSUME IInv, WInv, NEW p \in Proc, running = p, failed = "none",
         NEW status \in {"dead", "error"}, End(p, status)
  PROVE  WInv'
<1>0. /\ thread[p] = "running" /\ op[p].kind = "none" /\ running' = NoProc
      /\ thread'[p] = status /\ \A q \in Proc \ {p} : thread'[q] = thread[q]
      /\ UNCHANGED <<parent, op>>
  BY RunningFacts DEF End, IInv, TypeOK, ProcessTypeOK
<1>1. OnlyRunning'
  BY <1>0 DEF WInv, OnlyRunning
<1>2. Begun'
  <2>1. ASSUME NEW q \in Proc, NEW k \in Children(q)
        PROVE  parent'[k] = parent[k] /\ (HasStarted(k) => HasStarted(k)')
    <3>1. k \in Proc
      BY ChildFacts
    <3> QED
      BY <1>0, <3>1 DEF HasStarted
  <2> QED
    BY <1>0, <2>1, BegunKept, BegunNext DEF WInv, HasStarted
<1>3. Rooted'
  BY <1>0, RootedKept DEF WInv
<1>4. Awake'
  <2> SUFFICES ASSUME failed' = "none", NEW q \in Proc, thread'[q] = "yield", ~isOnStack'[q]
               PROVE  Rests(q)'
    BY DEF Awake
  <2>1. isOnStack' = [r \in Proc |-> isOnStack[r] \/ r \in Range(ParentToWake(p))]
    BY DEF End, PushEvalSteps
  <2>2. q # p /\ ~isOnStack[q] /\ thread[q] = "yield"
    BY <1>0, <2>1
  <2>3. p \notin Children(q)
    <3>1. SUFFICES ASSUME p \in Children(q) PROVE FALSE
      OBVIOUS
    <3>2. op[q].kind \in Spawning \cup {"ALT"}
      BY <3>1, NoClosures DEF IInv
    <3>3. parent[p] = q
      <4>1. PICK i \in DOMAIN op[q].closures : p = op[q].closures[i]
        BY <3>1, ChildFacts
      <4>2. CASE op[q].kind \in Spawning
        BY <4>1, <4>2 DEF WInv, Begun
      <4>3. CASE op[q].kind = "ALT"
        <5>1. Children(q) = {Closure(q)} /\ (Fresh(op[q]) => thread[Closure(q)] = "null")
          BY <4>3, FreshClosure
        <5>2. p = Closure(q) /\ ~Fresh(op[q])
          BY <1>0, <3>1, <5>1
        <5> QED
          BY <4>3, <5>2 DEF WInv, Begun
      <4> QED
        BY <3>2, <4>2, <4>3
    <3>4. ParentToWake(p) = <<q>>
      BY <2>2, <3>3, ProcessAssumption DEF ParentToWake
    <3>5. Range(<<q>>) = {q}
      BY DEF Range
    <3> QED
      BY <2>1, <3>4, <3>5
  <2>4. \A k \in Children(q) : Alive(k) => Alive(k)'
    BY <1>0, <2>3, ChildFacts DEF Alive
  <2>5. Rests(q)
    BY <2>2 DEF WInv, Awake
  <2> QED
    BY <1>0, <2>4, <2>5, RestsKept
<1> QED
  BY <1>1, <1>2, <1>3, <1>4 DEF WInv

(***************************************************************************)
(* The operation of p ends, with the processes of gone.  What a method     *)
(* that ends does to the operations of the others, it pushes.              *)
(***************************************************************************)
LEMMA DestroyAndCloseWakeup ==
  ASSUME IInv, WInv, NEW p \in Proc, NEW gone \in SUBSET Proc,
         failed = "none", running = NoProc, p # NoProc,
         thread[p] = "yield",
         \/ running' = p /\ thread'[p] = "running"
         \/ running' = NoProc /\ thread'[p] = "yield",
         \A q \in Proc \ {p} : thread'[q] = IF q \in gone THEN "free" ELSE thread[q],
         parent' = [q \in Proc |-> IF q \in gone THEN NoProc ELSE parent[q]],
         \A q \in Proc : IF q = p \/ q \in gone THEN op'[q] = NoOp
                         ELSE SameShape(q) /\ (Fresh(op[q]) => Fresh(op'[q])),
         failed' = "none" =>
           \A q \in Proc : q # p /\ q \notin gone =>
             isOnStack'[q] \/ (op'[q] = op[q] /\ ~isOnStack[q]),
         Main \notin gone, Children(p) \subseteq gone,
         \A q \in gone : Children(q) \subseteq gone,
         \A q \in Proc, k \in gone : k \in Children(q) => q = p \/ q \in gone
  PROVE  WInv'
<1>0. /\ NoOp.kind = "none" /\ NoOp.closures = <<>>
      /\ \A q \in Proc : q = p \/ q \in gone => op'[q] = NoOp /\ Children(q)' = {}
      /\ \A q \in Proc : q # p /\ q \notin gone =>
           /\ op'[q].kind = op[q].kind /\ op'[q].closures = op[q].closures
           /\ op'[q].closureToRun = op[q].closureToRun
           /\ Fresh(op[q]) => Fresh(op'[q])
           /\ Children(q)' = Children(q)
  <2>1. NoOp.kind = "none" /\ NoOp.closures = <<>>
    BY DEF NoOp
  <2>2. ASSUME NEW q \in Proc, q = p \/ q \in gone
        PROVE  op'[q] = NoOp /\ Children(q)' = {}
    BY <2>1, <2>2 DEF Children, Range
  <2>3. ASSUME NEW q \in Proc, q # p, q \notin gone
        PROVE  SameShape(q) /\ (Fresh(op[q]) => Fresh(op'[q]))
    BY <2>3
  <2> QED
    BY <2>1, <2>2, <2>3 DEF SameShape, Children
<1>1. OnlyRunning'
  <2>1. \A k \in Proc : thread[k] # "running"
    BY ProcessAssumption DEF WInv, OnlyRunning
  <2> QED
    BY <2>1 DEF OnlyRunning
<1>2. ASSUME NEW q \in Proc, q # p, q \notin gone, NEW k \in Children(q)
      PROVE  /\ k \in Proc /\ k \notin gone /\ parent'[k] = parent[k]
             /\ HasStarted(k) => HasStarted(k)'
             /\ Alive(k) => Alive(k)'
  <2>1. k \in Proc /\ k \notin gone
    BY <1>2, ChildFacts
  <2> QED
    BY <2>1 DEF HasStarted, Alive
<1>3. Begun'
  <2>1. ASSUME NEW q \in Proc
        PROVE  /\ op'[q].kind \in Spawning =>
                    \A i \in DOMAIN op'[q].closures :
                      /\ parent'[op'[q].closures[i]] = q
                      /\ i <= op'[q].closureToRun =>
                           thread'[op'[q].closures[i]] \in {"running", "yield", "dead", "error"}
               /\ op'[q].kind = "ALT" /\ ~Fresh(op'[q]) =>
                    /\ parent'[op'[q].closures[1]] = q
                    /\ thread'[op'[q].closures[1]] \in {"running", "yield", "dead", "error"}
    <3>1. CASE q = p \/ q \in gone
      BY <1>0, <3>1 DEF ParKinds, Spawning
    <3>2. CASE q # p /\ q \notin gone
      BY <3>2, <1>0, <1>2, BegunKept DEF WInv, HasStarted
    <3> QED
      BY <3>1, <3>2
  <2> QED
    BY <2>1, BegunNext
<1>4. Rooted'
  <2> SUFFICES ASSUME NEW S \in SUBSET Proc, Children(Main)' \subseteq S, Closed(S)',
                      NEW q \in Proc, thread'[q] # "free"
               PROVE  q = Main \/ q \in S
    BY DEF Rooted
  <2> DEFINE T == S \cup gone
  <2>1. \A r \in S : Children(r)' \subseteq S
    BY DEF Closed
  <2>2. \A r \in T : Children(r) \subseteq T
    BY <1>0, <2>1
  <2>3. Children(Main) \subseteq T
    BY <1>0, ProcessAssumption
  <2>4. T \in SUBSET Proc /\ Closed(T)
    BY <2>2 DEF Closed
  <2> HIDE DEF T
  <2>5. \A r \in Proc : thread[r] # "free" => r = Main \/ r \in T
    BY <2>3, <2>4 DEF WInv, Rooted
  <2>6. p \notin gone
    <3> DEFINE U == Proc \ gone
    <3>1. SUFFICES ASSUME p \in gone PROVE FALSE
      OBVIOUS
    <3>2. Main \in U /\ Children(Main) \subseteq U /\ \A r \in U : Children(r) \subseteq U
      BY <3>1, ProcessAssumption, TypeFacts DEF IInv
    <3>3. U \in SUBSET Proc /\ Closed(U)
      BY <3>2 DEF Closed
    <3> HIDE DEF U
    <3>4. p = Main \/ p \in U
      BY <3>2, <3>3 DEF WInv, Rooted
    <3> QED
      BY <3>1, <3>4 DEF U
  <2>7. q \notin gone /\ thread[q] # "free"
    BY <2>6
  <2> QED
    BY <2>5, <2>7 DEF T
<1>5. Awake'
  <2> SUFFICES ASSUME failed' = "none", NEW q \in Proc, thread'[q] = "yield", ~isOnStack'[q]
               PROVE  Rests(q)'
    BY DEF Awake
  <2>1. CASE q = p
    <3>1. op'[q].kind = "none"
      BY <1>0, <2>1
    <3> QED
      BY <3>1 DEF Rests, ChannelKinds
  <2>2. CASE q # p
    <3>1. q \notin gone /\ thread[q] = "yield" /\ ~isOnStack[q] /\ op'[q] = op[q]
      BY <2>2
    <3>2. Rests(q)
      BY <3>1 DEF WInv, Awake
    <3> QED
      BY <1>0, <1>2, <2>2, <3>1, <3>2, RestsKept
  <2> QED
    BY <2>1, <2>2
<1> QED
  BY <1>1, <1>3, <1>4, <1>5 DEF WInv

(* The same when the others are left alone. *)
LEMMA DestroyWakeup ==
  ASSUME IInv, WInv, NEW p \in Proc, NEW gone \in SUBSET Proc,
         failed = "none", running = NoProc, p # NoProc,
         thread[p] = "yield",
         \/ running' = p /\ thread'[p] = "running"
         \/ running' = NoProc /\ thread'[p] = "yield",
         \A q \in Proc \ {p} : thread'[q] = IF q \in gone THEN "free" ELSE thread[q],
         parent' = [q \in Proc |-> IF q \in gone THEN NoProc ELSE parent[q]],
         op' = [q \in Proc |-> IF q = p \/ q \in gone THEN NoOp ELSE op[q]],
         \A q \in Proc : q # p /\ q \notin gone => isOnStack'[q] = isOnStack[q],
         Main \notin gone, Children(p) \subseteq gone,
         \A q \in gone : Children(q) \subseteq gone,
         \A q \in Proc, k \in gone : k \in Children(q) => q = p \/ q \in gone
  PROVE  WInv'
<1>1. isOnStack \in [Proc -> BOOLEAN]
  BY DEF IInv, TypeOK, ProcessTypeOK
<1>2. \A q \in Proc : IF q = p \/ q \in gone THEN op'[q] = NoOp
                      ELSE SameShape(q) /\ (Fresh(op[q]) => Fresh(op'[q]))
  BY DEF SameShape
<1>3. \A q \in Proc : q # p /\ q \notin gone =>
        isOnStack'[q] \/ (op'[q] = op[q] /\ ~isOnStack[q])
  BY <1>1
<1> QED
  BY <1>2, <1>3, DestroyAndCloseWakeup

(* A closure that has started and is running has not ended. *)
LEMMA StartedIsAlive ==
  ASSUME IInv, NEW k \in Proc, HasStarted(k), IsRunning(k)
  PROVE  Alive(k)
<1> QED
  BY DEF IInv, InOperation, HasStarted, IsRunning, Alive

(* The closure k of p starts. *)
LEMMA StartWakeup ==
  ASSUME IInv, WInv, NEW p \in Proc, Evaluating(p), NEW o, NEW k, NEW args,
         NEW ps, NEW asserted, StartEvaluation(p, o, k, args, ps, asserted),
         k \in Children(p), thread[k] \in {"ready", "null"},
         o.kind = op[p].kind, o.closures = op[p].closures,
         o.kind \in Spawning =>
           /\ o.closureToRun = op[p].closureToRun + 1
           /\ k = op[p].closures[op[p].closureToRun + 1],
         o.kind = "ALT" => ~Fresh(o),
         p \notin Range(ps) => Rests(p)'
  PROVE  WInv'
<1>0. /\ k \in Proc /\ k # p /\ running = NoProc /\ failed = "none" /\ thread[p] = "yield"
      /\ op'[p] = o /\ \A q \in Proc \ {p} : op'[q] = op[q]
      /\ thread'[k] = "running" /\ \A q \in Proc \ {k} : thread'[q] = thread[q]
      /\ parent'[k] = p /\ \A q \in Proc \ {k} : parent'[q] = parent[q]
      /\ running' = k
  <2>1. k \in Proc /\ thread[p] = "yield"
    BY ChildFacts, EvaluatingFacts
  <2> QED
    BY <2>1 DEF StartEvaluation, Evaluating, IInv, TypeOK, ProcessTypeOK
<1>1. OnlyRunning'
  <2>1. \A q \in Proc : thread[q] # "running"
    BY <1>0, ProcessAssumption DEF WInv, OnlyRunning
  <2> QED
    BY <1>0, <2>1 DEF OnlyRunning
<1>2. \A q \in Proc : /\ HasStarted(q) => HasStarted(q)'
                      /\ Alive(q) => Alive(q)'
  BY <1>0 DEF HasStarted, Alive
<1>3. Begun'
  <2>1. ASSUME NEW q \in Proc
        PROVE  /\ op'[q].kind \in Spawning =>
                    \A i \in DOMAIN op'[q].closures :
                      /\ parent'[op'[q].closures[i]] = q
                      /\ i <= op'[q].closureToRun =>
                           thread'[op'[q].closures[i]] \in {"running", "yield", "dead", "error"}
               /\ op'[q].kind = "ALT" /\ ~Fresh(op'[q]) =>
                    /\ parent'[op'[q].closures[1]] = q
                    /\ thread'[op'[q].closures[1]] \in {"running", "yield", "dead", "error"}
    <3>1. CASE q # p
      <4>1. k \notin Children(q)
        BY <3>1, ChildFacts
      <4>2. \A r \in Children(q) : parent'[r] = parent[r]
        BY <1>0, <4>1, ChildFacts
      <4>3. \A r \in Children(q) : HasStarted(r) => HasStarted(r)'
        BY <1>2, ChildFacts
      <4> QED
        BY <3>1, <1>0, <4>2, <4>3, BegunKept DEF WInv, HasStarted
    <3>2. CASE q = p
      <4>2. ASSUME o.kind \in Spawning, NEW i \in DOMAIN op[p].closures
            PROVE  /\ parent'[op[p].closures[i]] = p
                   /\ i <= o.closureToRun =>
                        thread'[op[p].closures[i]] \in {"running", "yield", "dead", "error"}
        <5>1. parent[op[p].closures[i]] = p /\ op[p].closures[i] \in Proc
          BY <4>2, ChildFacts DEF WInv, Begun
        <5>2. PICK r \in Proc : r = op[p].closures[i]
          BY <5>1
        <5>3. i <= op[p].closureToRun => HasStarted(r)
          BY <4>2, <5>2 DEF WInv, Begun
        <5>4. i = op[p].closureToRun + 1 => thread'[r] = "running"
          BY <4>2, <5>2, <1>0
        <5>5. i \in Nat /\ op[p].closureToRun \in Nat
          BY ChildFacts
        <5>6. i <= o.closureToRun =>
                i <= op[p].closureToRun \/ i = op[p].closureToRun + 1
          BY <4>2, <5>5
        <5>7. i <= o.closureToRun => thread'[r] \in {"running", "yield", "dead", "error"}
          BY <5>3, <5>4, <5>6, <1>2 DEF HasStarted
        <5> QED
          BY <1>0, <5>1, <5>2, <5>7
      <4>3. ASSUME o.kind = "ALT"
            PROVE  /\ parent'[op[p].closures[1]] = p
                   /\ thread'[op[p].closures[1]] \in {"running", "yield", "dead", "error"}
        <5>1. Children(p) = {Closure(p)}
          BY <4>3, FreshClosure
        <5>2. k = op[p].closures[1]
          BY <5>1 DEF Closure
        <5> QED
          BY <1>0, <5>2
      <4> QED
        BY <3>2, <1>0, <4>2, <4>3
    <3> QED
      BY <3>1, <3>2
  <2> QED
    BY <2>1, BegunNext
<1>4. Rooted'
  <2>1. thread[k] # "free"
    OBVIOUS
  <2> QED
    BY <1>0, <2>1, RootedKept DEF WInv
<1>5. Awake'
  <2> SUFFICES ASSUME failed' = "none", NEW q \in Proc, thread'[q] = "yield", ~isOnStack'[q]
               PROVE  Rests(q)'
    BY DEF Awake
  <2>1. isOnStack' = [r \in Proc |-> PoppedFlags[r] \/ r \in Range(ps)]
    BY DEF StartEvaluation, PushEvalSteps
  <2>2. CASE q = p
    BY <2>1, <2>2
  <2>3. CASE q # p
    <3>1. op'[q] = op[q] /\ thread[q] = "yield" /\ ~isOnStack[q]
      BY <2>1, <2>3, <1>0 DEF PoppedFlags, Evaluating, IInv, TypeOK, ProcessTypeOK
    <3>2. Rests(q)
      BY <1>0, <3>1 DEF WInv, Awake
    <3> QED
      BY <1>2, <3>1, <3>2, RestsKept, ChildFacts
  <2> QED
    BY <2>2, <2>3
<1> QED
  BY <1>1, <1>3, <1>4, <1>5 DEF WInv

(* PAR and PARWHILE start a closure, and rest when it is the last one. *)
LEMMA StartClosureWakeup ==
  ASSUME IInv, WInv, NEW p \in Proc, Evaluating(p), StartClosure(p),
         \/ op[p].kind = "PAR"
         \/ op[p].kind = "PARWHILE" /\ op[p].closures # <<>> /\ ~FirstEnded(p)
  PROVE  WInv'
<1> DEFINE next == op[p].closureToRun + 1
           o    == [op[p] EXCEPT !.closureToRun = next]
           k    == op[p].closures[next]
           ps   == IF next < Len(op[p].closures) THEN <<p>> ELSE <<>>
<1>1. /\ next \in DOMAIN op[p].closures /\ StartEvaluation(p, o, k, NoArgs, ps, "none")
      /\ op[p].kind \in ParKinds
  BY DEF StartClosure, ParKinds, Spawning
<1>2. o.kind = op[p].kind /\ o.closures = op[p].closures /\ o.closureToRun = next
  BY DEF IInv, TypeOK, ProcessTypeOK, Operation
<1>3. k \in Children(p) /\ k \in Proc /\ thread[k] = "ready" /\ next \in Nat
  BY <1>1, ChildFacts DEF IInv, Closures
<1>4. /\ op'[p] = o /\ thread'[k] = "running"
      /\ \A q \in Proc \ {k} : thread'[q] = thread[q]
  BY <1>1, <1>3 DEF StartEvaluation, IInv, TypeOK, ProcessTypeOK
<1> HIDE DEF o, k
<1>5. ASSUME p \notin Range(ps) PROVE Rests(p)'
  <2>1. next = Len(op[p].closures)
    <3>1. ~(next < Len(op[p].closures))
      BY <1>5 DEF Range
    <3> QED
      BY <1>1, <1>3, <3>1, ChildFacts
  <2>2. AllStarted(p)' /\ Children(p)' = Children(p)
    BY <1>2, <1>4, <2>1 DEF AllStarted, Children
  <2>3. op[p].kind = "PARWHILE" =>
          thread'[op[p].closures[1]] \in {"running", "yield"}
    <3>1. CASE op[p].closureToRun = 0
      BY <3>1, <1>4 DEF k
    <3>2. CASE op[p].closureToRun # 0 /\ op[p].kind = "PARWHILE"
      <4>1. /\ 1 \in DOMAIN op[p].closures /\ op[p].closures[1] \in Proc
            /\ op[p].closureToRun \in Nat /\ 1 <= op[p].closureToRun
        BY <3>2, <1>1, ChildFacts
      <4>2. IsRunning(op[p].closures[1]) /\ HasStarted(op[p].closures[1])
        BY <3>2, <1>1, <4>1 DEF FirstEnded, WInv, Begun, ParKinds, Spawning
      <4>3. Alive(op[p].closures[1])
        BY <4>1, <4>2, StartedIsAlive
      <4> QED
        BY <1>4, <4>1, <4>3 DEF Alive
    <3> QED
      BY <3>1, <3>2
  <2>4. \E r \in Children(p) : Alive(r)'
    BY <1>3, <1>4 DEF Alive
  <2>5. op'[p].kind \in {"PAR", "PARWHILE"} /\ op'[p].closures = op[p].closures
        /\ op[p].closures # <<>> /\ op'[p].kind = op[p].kind
    BY <1>1, <1>2, <1>4 DEF ParKinds, Spawning
  <2>6. \E r \in Children(p)' : Alive(r)'
    BY <2>2, <2>4
  <2> QED
    BY <2>2, <2>3, <2>5, <2>6 DEF Rests, ChannelKinds, Alive
<1> QED
  BY <1>1, <1>2, <1>3, <1>5, StartWakeup DEF k, o, ParKinds, Spawning

(* An ALT starts the closure of the case it has taken, and rests. *)
LEMMA StartTriggeredWakeup ==
  ASSUME IInv, WInv, NEW p \in Proc, Evaluating(p), op[p].kind = "ALT",
         op[p].caseTriggered # 0, op[p].argumentsMoved, StartTriggered(p)
  PROVE  WInv'
<1> DEFINE o == Started(op[p])
           k == Closure(p)
           asserted == IF op[p].cases[op[p].caseTriggered].closure THEN "none" ELSE "no_closure"
<1>1. StartEvaluation(p, o, k, op[p].arguments, <<>>, asserted)
  BY DEF StartTriggered
<1>2. /\ o.kind = "ALT" /\ o.closures = op[p].closures
      /\ o.caseTriggered # 0 /\ ~o.argumentsMoved
  BY DEF IInv, TypeOK, ProcessTypeOK, Operation, Started, Unreferenced
<1>3. k \in Proc /\ k \in Children(p) /\ thread[k] = "null"
  BY FreshClosure DEF Fresh
<1>4. op'[p] = o /\ thread'[k] = "running"
  BY <1>1, <1>3 DEF StartEvaluation, IInv, TypeOK, ProcessTypeOK
<1> HIDE DEF o
<1>5. Rests(p)'
  <2>1. Alive(Closure(p))'
    BY <1>2, <1>4 DEF Alive, Closure
  <2> QED
    BY <1>2, <1>4, <2>1 DEF Rests, ChannelKinds
<1>6. ~Fresh(o) /\ o.kind \notin Spawning
  BY <1>2 DEF Fresh, ParKinds, Spawning
<1> QED
  BY <1>1, <1>2, <1>3, <1>5, <1>6, StartWakeup

----------------------------------------------------------------------------
(***************************************************************************)
(* Every step preserves the four.                                          *)
(***************************************************************************)
(* ch:close() pushes both ends, whatever they wait for. *)
LEMMA CloseWakeup ==
  ASSUME IInv, WInv, NEW p \in Proc, Close(p)
  PROVE  WInv'
<1>1. PICK c \in Chan :
        /\ PushEvalSteps("none", stack, isOnStack,
                         (IF attachIn[c] = NoProc THEN <<>> ELSE <<attachIn[c]>>) \o
                         (IF attachOut[c] = NoProc THEN <<>> ELSE <<attachOut[c]>>))
        /\ op' = [q \in Proc |-> IF q = attachIn[c] THEN CloseInput(op[q], c)
                                 ELSE IF q = attachOut[c] THEN CloseArguments(op[q])
                                 ELSE op[q]]
  BY DEF Close
<1> DEFINE in     == attachIn[c]
           out    == attachOut[c]
           first  == IF in = NoProc THEN <<>> ELSE <<in>>
           second == IF out = NoProc THEN <<>> ELSE <<out>>
<1>2. /\ failed = "none" /\ UNCHANGED <<thread, parent, running>>
      /\ in \in Proc \cup {NoProc} /\ out \in Proc \cup {NoProc}
      /\ in \in Proc => WaitsIn(in, c)
      /\ out \in Proc => OffersOn(out, c)
  BY DEF Close, InLua, IInv, TypeOK, ChannelTypeOK, Attached
<1>3. /\ first \in Seq(Proc) /\ (in \in Proc => in \in Range(first))
      /\ second \in Seq(Proc) /\ (out \in Proc => out \in Range(second))
  BY <1>2, ProcessAssumption DEF Range
<1>4. failed' = "none" => \A q \in Proc : isOnStack'[q] <=> \/ isOnStack[q]
                                                            \/ q \in Range(first \o second)
  BY <1>1 DEF PushEvalSteps
<1> HIDE DEF first, second
<1>5. Range(first \o second) = Range(first) \cup Range(second)
  BY <1>3, RangeConcatenation
<1>6. ASSUME NEW q \in Proc
      PROVE  /\ op'[q].kind = op[q].kind
             /\ op'[q].closures = op[q].closures
             /\ op'[q].closureToRun = op[q].closureToRun
             /\ Fresh(op[q]) => Fresh(op'[q])
  <2>1. CASE q = in
    <3>1. op'[q] = CloseInput(op[q], c)
      BY <2>1, <1>1
    <3>2. op[q].kind = "ALT" => op[q].caseTriggered = 0
      BY <2>1, <1>2 DEF WaitsIn
    <3> QED
      BY <2>1, <3>1, <3>2, CloseInputFacts DEF Fresh
  <2>2. CASE q # in /\ q = out
    <3>1. /\ op'[q] = CloseArguments(op[q]) /\ op[q] \in Operation
          /\ op[q].kind \in {"OUT", "CPPOUT"}
      BY <2>2, <1>1, <1>2 DEF IInv, TypeOK, ProcessTypeOK, OffersOn
    <3> QED
      BY <3>1, CloseArgumentsFacts DEF Fresh
  <2>3. CASE q # in /\ q # out
    BY <2>3, <1>1
  <2> QED
    BY <2>1, <2>2, <2>3
<1>7. ASSUME failed' = "none", NEW q \in Proc, ~isOnStack'[q]
      PROVE  op'[q] = op[q] /\ ~isOnStack[q]
  <2>1. q # in /\ q # out /\ ~isOnStack[q]
    BY <1>3, <1>4, <1>5, <1>7
  <2> QED
    BY <1>1, <2>1
<1> QED
  BY <1>2, <1>6, <1>7, FieldWakeup

(* The Lua code of p makes a call. *)
LEMMA LuaWakeup ==
  ASSUME IInv, WInv, NEW p \in Proc, LuaStep(p)
  PROVE  WInv'
<1>1. failed = "none" /\ running = p
  BY LuaTurn
<1>2. CASE \E o : Begins(p, o)
  BY <1>2, CallWakeup
<1>3. CASE \E status \in {"dead", "error"} : End(p, status)
  BY <1>1, <1>3, EndWakeup
<1>4. CASE Busy(p)
  <2>1. UNCHANGED <<thread, parent, running, op>> /\ failed' # "none"
    BY <1>4 DEF Busy
  <2> QED
    BY <2>1, FieldWakeup
<1>5. CASE Close(p)
  BY <1>5, CloseWakeup
<1> QED
  BY <1>2, <1>3, <1>4, <1>5, CallShape

(* The evaluator leaves an operation that is not finished: it rests. *)
LEMMA StillWaitsRests ==
  ASSUME IInv, WInv, NEW p \in Proc, StillWaits(p)
  PROVE  Rests(p)
<1>1. ASSUME NEW k \in Children(p), HasStarted(k), IsRunning(k)
      PROVE  Alive(k)
  BY <1>1, ChildFacts, StartedIsAlive
<1>2. CASE op[p].kind = "PAR"
  <2>1. AllStarted(p) /\ \E k \in Children(p) : IsRunning(k)
    BY <1>2 DEF StillWaits, CheckFinished
  <2>2. PICK i \in DOMAIN op[p].closures : IsRunning(op[p].closures[i])
    BY <2>1, ChildFacts
  <2>3. HasStarted(op[p].closures[i]) /\ op[p].closures[i] \in Children(p)
    BY <1>2, <2>1, ChildFacts DEF WInv, Begun, ParKinds, Spawning, AllStarted
  <2> QED
    BY <1>1, <1>2, <2>1, <2>2, <2>3 DEF Rests, ChannelKinds
<1>3. CASE op[p].kind = "PARWHILE"
  <2>1. op[p].closures # <<>> /\ ~FirstEnded(p) /\ AllStarted(p)
    BY <1>3 DEF StillWaits
  <2>2. 1 \in DOMAIN op[p].closures /\ 1 <= op[p].closureToRun
    BY <2>1, ChildFacts, EmptySeq, TypeFacts DEF AllStarted, IInv
  <2>3. IsRunning(op[p].closures[1]) /\ HasStarted(op[p].closures[1])
    BY <1>3, <2>1, <2>2, ChildFacts DEF FirstEnded, WInv, Begun, ParKinds, Spawning
  <2> QED
    BY <1>1, <1>3, <2>1, <2>2, <2>3, ChildFacts DEF Rests, ChannelKinds
<1>4. CASE op[p].kind = "ALT"
  <2>1. CASE op[p].caseTriggered = 0
    BY <1>4, <2>1 DEF StillWaits, Rests, ChannelKinds
  <2>2. CASE op[p].caseTriggered # 0
    <3>1. ~op[p].argumentsMoved /\ IsRunning(Closure(p)) /\ HasStarted(Closure(p))
      BY <1>4, <2>2 DEF StillWaits, WInv, Begun, Fresh
    <3> QED
      BY <1>1, <1>4, <2>2, <3>1, ChildFacts DEF Rests, ChannelKinds
  <2> QED
    BY <2>1, <2>2
<1>5. CASE op[p].kind \in {"SLEEP", "IN", "RANGE", "OUT"}
  BY <1>5 DEF StillWaits, Rests, ChannelKinds
<1> QED
  BY <1>2, <1>3, <1>4, <1>5 DEF StillWaits

(* An ALT is triggered by nil or by time, and pushed. *)
LEMMA TriggerWakeup ==
  ASSUME IInv, WInv, NEW p \in Proc, failed = "none", op[p].kind = "ALT",
         NEW stk, NEW flags, \A q \in Proc \ {p} : flags[q] = isOnStack[q],
         NEW i, Trigger(p, i, stk, flags)
  PROVE  WInv'
<1>1. /\ \A q \in Proc \ {p} : op'[q] = op[q]
      /\ op'[p].kind = "ALT" /\ op'[p].argumentsMoved
      /\ op'[p].closures = op[p].closures
      /\ UNCHANGED <<thread, parent, running>>
  BY TriggerFacts
<1>2. op'[p].closureToRun = op[p].closureToRun
  <2>1. /\ op[p] \in Operation
        /\ op'[p] = [op[p] EXCEPT !.caseTriggered = i, !.argumentsMoved = TRUE]
    BY DEF Trigger, IInv, TypeOK, ProcessTypeOK
  <2> QED
    BY <2>1 DEF Operation
<1>3. failed' = "none" => \A q \in Proc : isOnStack'[q] <=> flags[q] \/ q = p
  <2>1. Range(<<p>>) = {p}
    BY DEF Range
  <2>2. failed' = "none" => isOnStack' = [q \in Proc |-> flags[q] \/ q \in Range(<<p>>)]
    BY DEF Trigger, PushEvalSteps
  <2> QED
    BY <2>1, <2>2
<1>4. ASSUME failed' = "none", NEW q \in Proc, ~isOnStack'[q]
      PROVE  op'[q] = op[q] /\ ~isOnStack[q]
  BY <1>1, <1>3, <1>4
<1>5. \A q \in Proc : /\ op'[q].kind = op[q].kind
                      /\ op'[q].closures = op[q].closures
                      /\ op'[q].closureToRun = op[q].closureToRun
                      /\ Fresh(op[q]) => Fresh(op'[q])
  BY <1>1, <1>2 DEF Fresh
<1> QED
  BY <1>1, <1>4, <1>5, FieldWakeup

(* A turn of the evaluator. *)
LEMMA EvaluateWakeup ==
  ASSUME IInv, WInv, Prompt, NEW p \in Proc, EvaluateStep(p)
  PROVE  WInv'
<1>0. /\ Evaluating(p) /\ failed = "none" /\ running = NoProc /\ p # NoProc
      /\ thread[p] = "yield" /\ op[p].kind # "none" /\ op[p] \in Operation
  BY EvaluateTurn, EvaluatingFacts DEF Evaluating, IInv, TypeOK, ProcessTypeOK
<1>1. \A q \in Proc \ {p} : PoppedFlags[q] = isOnStack[q]
  BY <1>0 DEF PoppedFlags, Evaluating, IInv, TypeOK, ProcessTypeOK
<1>2. CASE Nothing(p)
  <2>1. /\ UNCHANGED <<thread, parent, running, op>> /\ failed' = failed
        /\ isOnStack' = PoppedFlags /\ Rests(p)
    BY <1>2, StillWaitsRests DEF Nothing, KeepWaiting
  <2>2. Rests(p)'
    BY <2>1, RestsKept DEF Alive
  <2> QED
    BY <1>1, <2>1, <2>2, FieldWakeup
<1>3. ASSUME NEW results, NEW gone \in SUBSET Proc, NEW stk,
             Resume(p, results, gone, stk, PoppedFlags),
             Main \notin gone, Children(p) \subseteq gone,
             \A q \in gone : Children(q) \subseteq gone,
             \A q \in Proc, k \in gone : k \in Children(q) => q = p \/ q \in gone
      PROVE  WInv'
  <2>1. /\ running' = p /\ thread'[p] = "running"
        /\ \A q \in Proc \ {p} : thread'[q] = IF q \in gone THEN "free" ELSE thread[q]
        /\ parent' = [q \in Proc |-> IF q \in gone THEN NoProc ELSE parent[q]]
        /\ op' = [q \in Proc |-> IF q = p \/ q \in gone THEN NoOp ELSE op[q]]
        /\ \A q \in Proc : q # p /\ q \notin gone => isOnStack'[q] = isOnStack[q]
    BY <1>0, <1>1, <1>3 DEF Resume, IInv, TypeOK, ProcessTypeOK
  <2> QED
    BY <1>0, <1>3, <2>1, DestroyWakeup
<1>4. CASE Ends(p)
  <2>1. PICK results : Resume(p, results, Children(p), Popped, PoppedFlags)
    BY <1>4 DEF Ends, FinishOperation
  <2>2. \A k \in Children(p) : op[k].kind = "none"
    BY <1>4, EndedClosures
  <2>3. \A k \in Children(p) : k \in Proc /\ k # Main /\ Children(k) = {}
    BY <2>2, ChildFacts, NoClosures DEF IInv, ParKinds, Spawning
  <2>4. /\ Children(p) \in SUBSET Proc /\ Main \notin Children(p)
        /\ \A q \in Children(p) : Children(q) \subseteq Children(p)
        /\ \A q \in Proc, k \in Children(p) : k \in Children(q) => q = p
    BY <2>3, ChildFacts
  <2> QED
    BY <1>3, <2>1, <2>4
<1>5. CASE EndParWhile(p)
  BY <1>3, <1>5, DescendantsFacts DEF EndParWhile
<1>6. CASE Communicates(p)
  <2>1. PICK c \in Chan, reader \in Proc : Meets(p, c, reader) /\ Communicate(c, reader)
    BY <1>6 DEF Communicates
  <2>2. UNCHANGED <<thread, parent, running>>
    BY <1>6 DEF Communicates
  <2>3. CASE ~InAttached(c)
    <3>1. UNCHANGED op /\ failed' # "none"
      BY <2>1, <2>3 DEF Communicate, InAttached, PushEvalSteps
    <3> QED
      BY <2>2, <3>1, FieldWakeup
  <2>4. CASE InAttached(c)
    <3>1. PICK in \in Proc, out \in Proc :
            /\ in = attachIn[c] /\ out = attachOut[c]
            /\ p = in \/ p = out
            /\ reader = in
      BY <1>0, <2>1, <2>4, PartnersMeet
    <3>2. /\ in # out /\ WaitsIn(in, c) /\ OffersOn(out, c)
          /\ \A q \in Proc \ {in, out} : op'[q] = op[q]
          /\ op'[in] = MoveChannelArguments(op[in], c, op[out].arguments)
          /\ op'[in].kind = op[in].kind /\ op'[in].argumentsMoved
          /\ op'[in].closures = op[in].closures
          /\ op'[out] = CloseArguments(op[out])
      BY <2>1, <3>1, CommunicateFacts
    <3>3. /\ op'[in].closureToRun = op[in].closureToRun
          /\ Fresh(op[in]) => Fresh(op'[in])
      <4>1. op[in] \in Operation
        BY DEF IInv, TypeOK, ProcessTypeOK
      <4> QED
        BY <3>2, <4>1 DEF MoveChannelArguments, Operation, Fresh
    <3>4. /\ op'[out].closureToRun = op[out].closureToRun
          /\ op'[out].closures = op[out].closures
          /\ op'[out].kind = op[out].kind
          /\ ~Fresh(op[out])
      <4>1. op[out] \in Operation
        BY DEF IInv, TypeOK, ProcessTypeOK
      <4> QED
        BY <3>2, <4>1, CloseArgumentsFacts DEF Fresh, OffersOn
    <3>5. ASSUME failed' = "none"
          PROVE  \A q \in Proc : isOnStack'[q] <=> PoppedFlags[q] \/ q \in {in, out}
      <4>1. Range(<<out, in>>) = {in, out}
        BY DEF Range
      <4>2. isOnStack' = [q \in Proc |-> PoppedFlags[q] \/ q \in Range(<<out, in>>)]
        <5>1. in # NoProc
          BY ProcessAssumption
        <5> QED
          BY <2>1, <3>1, <3>5, <5>1 DEF Communicate, PushEvalSteps, Partners
      <4> QED
        BY <4>1, <4>2
    <3>6. \A q \in Proc : /\ op'[q].kind = op[q].kind
                          /\ op'[q].closures = op[q].closures
                          /\ op'[q].closureToRun = op[q].closureToRun
                          /\ Fresh(op[q]) => Fresh(op'[q])
      BY <3>2, <3>3, <3>4
    <3>7. ASSUME failed' = "none", NEW q \in Proc, ~isOnStack'[q]
          PROVE  op'[q] = op[q] /\ ~isOnStack[q]
      BY <1>1, <3>1, <3>2, <3>5, <3>7
    <3> QED
      BY <1>0, <2>2, <3>6, <3>7, FieldWakeup
  <2> QED
    BY <2>3, <2>4
<1>7. CASE TakesNil(p)
  <2>1. PICK i : Trigger(p, i, Popped, PoppedFlags)
    BY <1>7 DEF TakesNil
  <2>2. op[p].kind = "ALT"
    BY <1>7 DEF TakesNil
  <2> QED
    BY <1>0, <1>1, <2>1, <2>2, TriggerWakeup
<1>8. CASE \/ op[p].kind = "PAR" /\ StartClosure(p)
           \/ /\ op[p].kind = "PARWHILE" /\ op[p].closures # <<>> /\ ~FirstEnded(p)
              /\ StartClosure(p)
  BY <1>0, <1>8, StartClosureWakeup
<1>9. CASE /\ op[p].kind = "ALT" /\ op[p].caseTriggered # 0 /\ op[p].argumentsMoved
           /\ StartTriggered(p)
  BY <1>0, <1>9, StartTriggeredWakeup
<1> QED
  BY <1>2, <1>4, <1>5, <1>6, <1>7, <1>8, <1>9, EvaluateShape

(* A call of Process::Work: a sleep that ends and a time that comes are pushed. *)
LEMMA WorkWakeup ==
  ASSUME IInv, WInv, NEW p \in Proc, WorkStep(p)
  PROVE  WInv'
<1>0. failed = "none" /\ UNCHANGED <<thread, parent, running>> /\ op[p] \in Operation
  BY WorkTurn DEF Working, IInv, TypeOK, ProcessTypeOK
<1>1. CASE WorkSleep(p)
  <2> DEFINE left == op[p].seconds - dt
             done == left <= 0
  <2>1. /\ op[p].kind = "SLEEP"
        /\ op' = [op EXCEPT ![p].seconds = left, ![p].finished = done]
        /\ PushEvalSteps("none", stack, isOnStack, IF done THEN <<p>> ELSE <<>>)
    BY <1>1 DEF WorkSleep
  <2> HIDE DEF left, done
  <2>2. /\ \A q \in Proc \ {p} : op'[q] = op[q]
        /\ op'[p] = [op[p] EXCEPT !.seconds = left, !.finished = done]
    BY <2>1 DEF IInv, TypeOK, ProcessTypeOK
  <2>3. /\ op'[p].kind = "SLEEP" /\ op'[p].finished = done
        /\ op'[p].closures = op[p].closures /\ op'[p].closureToRun = op[p].closureToRun
    <3> SUFFICES ASSUME NEW b, b = done PROVE
          /\ op'[p].kind = "SLEEP" /\ op'[p].finished = b
          /\ op'[p].closures = op[p].closures /\ op'[p].closureToRun = op[p].closureToRun
      OBVIOUS
    <3>1. op'[p] = [op[p] EXCEPT !.seconds = left, !.finished = b]
      BY <2>2
    <3>2. op[p] \in Operation /\ op[p].kind = "SLEEP"
      BY <1>0, <2>1
    <3> QED
      BY <3>1, <3>2 DEF Operation
  <2>4. ASSUME failed' = "none", NEW q \in Proc, ~isOnStack'[q]
        PROVE  (op'[q] = op[q] /\ ~isOnStack[q]) \/ Rests(q)'
    <3> DEFINE pushed == Range(IF done THEN <<p>> ELSE <<>>)
    <3>1. done => p \in pushed
      <4>1. p \in Range(<<p>>)
        BY DEF Range
      <4> QED
        BY <4>1
    <3>2. isOnStack' = [r \in Proc |-> isOnStack[r] \/ r \in pushed]
      BY <2>1, <2>4 DEF PushEvalSteps
    <3> HIDE DEF pushed
    <3>3. ~isOnStack[q] /\ (q = p => ~done)
      BY <2>4, <3>1, <3>2
    <3>4. q = p => Rests(q)'
      BY <2>3, <3>3 DEF Rests, ChannelKinds
    <3> QED
      BY <2>2, <3>3, <3>4
  <2>5. \A q \in Proc : /\ op'[q].kind = op[q].kind
                        /\ op'[q].closures = op[q].closures
                        /\ op'[q].closureToRun = op[q].closureToRun
                        /\ Fresh(op[q]) => Fresh(op'[q])
    BY <2>1, <2>2, <2>3 DEF Fresh
  <2> QED
    BY <1>0, <2>4, <2>5, FieldWakeup
<1>2. CASE op[p].kind = "ALT" /\ \E i : Trigger(p, i, stack, isOnStack)
  BY <1>0, <1>2, TriggerWakeup
<1>3. CASE UNCHANGED <<op, isOnStack, failed>>
  BY <1>0, <1>3, FieldWakeup
<1> QED
  BY <1>1, <1>2, <1>3 DEF WorkStep, ProcessWork, WorkNothing, WorkPar, WorkAlt

(* Main is terminated with all that is below it. *)
LEMMA TerminateWakeup ==
  ASSUME IInv, WInv, TerminateMain
  PROVE  WInv'
<1> DEFINE gone == Descendants(Main)
<1>0. Main \in Proc /\ Main # NoProc
  BY ProcessAssumption
<1>1. /\ failed = "none" /\ running = NoProc /\ running' = NoProc
      /\ thread[Main] = "yield" /\ "terminate" \in Calls
  BY <1>0 DEF TerminateMain, Idle, IInv, InOperation
<1>2. /\ op' = [q \in Proc |-> IF q = Main \/ q \in gone THEN NoOp ELSE op[q]]
      /\ thread' = [q \in Proc |-> IF q \in gone THEN "free" ELSE thread[q]]
      /\ parent' = [q \in Proc |-> IF q \in gone THEN NoProc ELSE parent[q]]
      /\ isOnStack' = [q \in Proc |-> isOnStack[q] /\ q \notin gone]
  BY DEF TerminateMain
<1>3. /\ gone \in SUBSET Proc /\ Main \notin gone /\ Children(Main) \subseteq gone
      /\ \A q \in gone : Children(q) \subseteq gone
      /\ \A q \in Proc, k \in gone : k \in Children(q) => q = Main \/ q \in gone
  BY <1>0, DescendantsFacts
<1> HIDE DEF gone
<1>4. /\ thread'[Main] = "yield"
      /\ \A q \in Proc \ {Main} : thread'[q] = IF q \in gone THEN "free" ELSE thread[q]
      /\ \A q \in Proc : q # Main /\ q \notin gone => isOnStack'[q] = isOnStack[q]
  BY <1>0, <1>1, <1>2, <1>3 DEF IInv, TypeOK, ProcessTypeOK
<1> QED
  BY <1>0, <1>1, <1>2, <1>3, <1>4, DestroyWakeup

(* Host::Main starts the function main. *)
LEMMA MainWakeup ==
  ASSUME IInv, Turns, WInv, HostMain
  PROVE  WInv'
<1>1. /\ Main \in Proc /\ running = NoProc /\ running' = Main
      /\ failed = "none" /\ thread[Main] = "ready" /\ UNCHANGED <<op, parent, isOnStack>>
      /\ thread'[Main] = "running" /\ \A q \in Proc \ {Main} : thread'[q] = thread[q]
  BY ProcessAssumption DEF HostMain, Turns, IInv, TypeOK, ProcessTypeOK
<1>2. \A q \in Proc : \A k \in Children(q) : k \in Proc /\ thread'[k] = thread[k]
  BY <1>1, ChildFacts
<1>3. OnlyRunning'
  BY <1>1, ProcessAssumption DEF WInv, OnlyRunning
<1>4. Begun'
  BY <1>1, <1>2, BegunKept, BegunNext DEF WInv, HasStarted
<1>5. Rooted'
  BY <1>1, RootedKept DEF WInv
<1>6. Awake'
  <2> SUFFICES ASSUME failed' = "none", NEW q \in Proc, thread'[q] = "yield", ~isOnStack'[q]
               PROVE  Rests(q)'
    BY DEF Awake
  <2>1. thread[q] = "yield" /\ ~isOnStack[q]
    BY <1>1
  <2>2. Rests(q)
    BY <1>1, <2>1 DEF WInv, Awake
  <2> QED
    BY <1>1, <1>2, <2>2, RestsKept DEF Alive
<1> QED
  BY <1>3, <1>4, <1>5, <1>6 DEF WInv

LEMMA InitWakeup == Init => WInv
<1> SUFFICES ASSUME Init PROVE WInv
  OBVIOUS
<1>1. \A p \in Proc : /\ op[p] = NoOp /\ op[p].kind = "none"
                      /\ thread[p] = IF p = Main THEN "ready" ELSE "free"
  BY DEF Init, ProcessInit, NoOp
<1> QED
  BY <1>1 DEF WInv, OnlyRunning, Begun, Rooted, Awake, ParKinds, Spawning

LEMMA NextWakeup == IInv /\ Turns /\ Prompt /\ WInv /\ [Next]_vars => WInv'
<1> SUFFICES ASSUME IInv, Turns, Prompt, WInv, [Next]_vars PROVE WInv'
  OBVIOUS
<1>1. CASE HostMain
  BY <1>1, MainWakeup
<1>2. CASE UNCHANGED <<thread, parent, running, op, isOnStack, failed>>
  BY <1>2, FieldWakeup
<1>3. CASE HostWork \/ UNCHANGED vars
  BY <1>2, <1>3 DEF HostWork, vars, procVars
<1>4. CASE TerminateMain
  BY <1>4, TerminateWakeup
<1>5. ASSUME NEW p \in Proc, LuaStep(p) \/ EvaluateStep(p) \/ WorkStep(p) PROVE WInv'
  BY <1>5, LuaWakeup, EvaluateWakeup, WorkWakeup
<1> QED
  BY <1>1, <1>3, <1>4, <1>5 DEF Next

(***************************************************************************)
(* Only a main process whose subtree was terminated stays suspended        *)
(* without an operation.                                                   *)
(***************************************************************************)
Suspended == \A p \in Proc : thread[p] = "yield" /\ op[p].kind = "none" =>
                               p = Main /\ "terminate" \in Calls

LEMMA StepSuspended ==
  ASSUME IInv, [Next]_vars, NEW q \in Proc, thread'[q] = "yield", op'[q].kind = "none"
  PROVE  (thread[q] = "yield" /\ op[q].kind = "none") \/ (q = Main /\ "terminate" \in Calls)
<1>0. thread \in [Proc -> ThreadStatus]
  BY DEF IInv, TypeOK, ProcessTypeOK
<1>1. CASE ~SameKind(q)
  BY <1>1, StepKinds DEF KindStep, Begins, ForeignKinds
<1>2. CASE SameKind(q)
  <2>1. op[q].kind = "none"
    BY <1>2 DEF SameKind
  <2>2. CASE UNCHANGED thread
    BY <2>1, <2>2
  <2>3. CASE HostMain \/ HostWork \/ UNCHANGED vars \/ TerminateMain
    BY <1>0, <2>1, <2>3 DEF HostMain, HostWork, TerminateMain, vars, procVars
  <2>4. ASSUME NEW p \in Proc, LuaStep(p) PROVE thread[q] = "yield"
    <3>1. CASE \E o : Begins(p, o) /\ o.kind \notin ForeignKinds
      BY <1>0, <2>1, <3>1 DEF Begins, Yield, IInv, TypeOK, ProcessTypeOK
    <3>2. CASE \E status \in {"dead", "error"} : End(p, status)
      BY <1>0, <3>2 DEF End
    <3>3. CASE Busy(p) \/ Close(p)
      BY <3>3 DEF Busy, Close
    <3> QED
      BY <2>4, <3>1, <3>2, <3>3, CallShape
  <2>5. ASSUME NEW p \in Proc, EvaluateStep(p) PROVE thread[q] = "yield"
    <3>1. CASE Nothing(p) \/ Communicates(p) \/ TakesNil(p)
      BY <3>1 DEF Nothing, KeepWaiting, Communicates, TakesNil, Trigger
    <3>2. CASE Ends(p) \/ EndParWhile(p)
      BY <1>0, <3>2 DEF Ends, FinishOperation, EndParWhile, Resume
    <3>3. CASE StartClosure(p) \/ StartTriggered(p)
      BY <1>0, <3>3 DEF StartClosure, StartTriggered, StartEvaluation
    <3> QED
      BY <2>5, <3>1, <3>2, <3>3, EvaluateShape
  <2>6. ASSUME NEW p \in Proc, WorkStep(p) PROVE thread[q] = "yield"
    BY <2>6, WorkTurn
  <2> QED
    BY <2>1, <2>2, <2>3, <2>4, <2>5, <2>6 DEF Next
<1> QED
  BY <1>1, <1>2

LEMMA NextSuspended == IInv /\ Suspended /\ [Next]_vars => Suspended'
<1> QED
  BY StepSuspended DEF Suspended

LEMMA WakeupHolds ==
  Spec => [](IInv /\ Turns /\ Prompt /\ WInv /\ NoForeign /\ Suspended)
<1>1. Init => Suspended
  BY DEF Init, ProcessInit, Suspended
<1> QED
  BY <1>1, NoForeignHolds, NextSuspended, InitTurns, NextTurns, InitPrompt, NextPrompt,
     InitWakeup, NextWakeup, PTL DEF Spec

----------------------------------------------------------------------------
(* What the inductive invariant says of the closures, as a tree. *)
LEMMA TreeFacts ==
  ASSUME IInv, WInv
  PROVE  ProcessTree
<1> DEFINE D == Descendants(Main)
<1>0. /\ Main \in Proc /\ D \in SUBSET Proc /\ Children(Main) \subseteq D
      /\ \A q \in D : Children(q) \subseteq D
  BY ProcessAssumption, DescendantsFacts
<1>1. ASSUME NEW p \in Proc, thread[p] # "free" PROVE p = Main \/ p \in D
  <2>1. Closed(D)
    BY <1>0 DEF Closed
  <2> QED
    BY <1>0, <1>1, <2>1 DEF WInv, Rooted
<1>2. ASSUME NEW p \in D PROVE thread[p] # "free"
  <2> DEFINE S == {q \in Proc : thread[q] # "free"}
  <2>1. S \in SUBSET Proc /\ Children(Main) \subseteq S /\ Closed(S)
    BY <1>0, ChildFacts DEF Closed
  <2> QED
    BY <1>2, <2>1 DEF Descendants
<1>3. thread[Main] # "free"
  BY DEF IInv, Tree
<1> QED
  BY <1>1, <1>2, <1>3 DEF ProcessTree, IInv, Tree, Parents

(* Where the evaluator comes to rest, a process that rests can be woken. *)
LEMMA RestingIsBlocked ==
  ASSUME IInv, PointedTo, Prompt, WInv, Idle,
         NEW p \in Proc, thread[p] = "yield", op[p].kind \notin ForeignKinds,
         op[p].kind = "none" => p = Main /\ "terminate" \in Calls
  PROVE  Blocked(p)
<1>1. Rests(p)
  <2>1. ~isOnStack[p]
    BY DEF Idle, Range, IInv, StackConsistent
  <2> QED
    BY <2>1 DEF Idle, WInv, Awake
<1>2. \A k \in Proc : Alive(k) => thread[k] = "yield"
  BY ProcessAssumption DEF Idle, Alive, WInv, OnlyRunning
<1>3. op[p] \in Operation
  BY DEF IInv, TypeOK, ProcessTypeOK
<1>4. CASE op[p].kind \in ChannelKinds
  <2>1. op[p].channel \in Chan /\ ~op[p].argumentsMoved
    BY <1>1, <1>4 DEF IInv, OnChannel, Rests
  <2>2. op[p].kind \in {"IN", "RANGE"} => attachIn[op[p].channel] = p
    BY <2>1 DEF PointedTo, WaitsIn
  <2>3. op[p].kind = "OUT" => attachOut[op[p].channel] = p
    BY <2>1 DEF IInv, Attached, OffersOn
  <2> QED
    BY <1>4, <2>2, <2>3 DEF Blocked, ChannelKinds
<1>5. CASE op[p].kind = "ALT"
  <2>1. CASE op[p].caseTriggered = 0
    <3>1. ~AllCasesClosed(op[p])
      BY <1>1, <1>5, <2>1 DEF Rests
    <3>2. ASSUME NEW i \in Ready(op[p]) PROVE FALSE
      <4>1. i \in DOMAIN op[p].cases /\ op[p].cases[i] \in AltCase
        BY <3>2, ReadyFacts
      <4>2. \A q \in Proc : ~Evaluating(q)
        BY DEF Idle, Evaluating
      <4>3. i # op[p].nilCase
        BY <1>5, <2>1, <4>1, <4>2 DEF Prompt, Idle, NilWaits
      <4>4. PICK c \in Chan : c = op[p].cases[i].channel /\ OutAttached(c)
        BY <3>2, <4>1, <4>3 DEF Ready, AltCase
      <4>5. WaitsIn(p, c)
        BY <1>5, <2>1, <4>1, <4>4 DEF WaitsIn, CasesFor
      <4>6. attachIn[c] = p
        BY <4>5 DEF PointedTo
      <4>7. InAttached(c)
        BY <4>6, ProcessAssumption DEF InAttached
      <4> QED
        BY <4>4, <4>7 DEF Prompt, Idle, Evaluating
    <3> QED
      BY <1>5, <2>1, <3>1, <3>2 DEF Blocked
  <2>2. CASE op[p].caseTriggered # 0
    <3>1. Alive(Closure(p)) /\ Closure(p) \in Proc
      BY <1>1, <1>5, <2>2, FreshClosure DEF Rests
    <3>2. thread[Closure(p)] = "yield"
      BY <1>2, <3>1
    <3> QED
      BY <1>5, <2>2, <3>2 DEF Blocked
  <2> QED
    BY <2>1, <2>2
<1>6. CASE op[p].kind = "PAR"
  <2>1. AllStarted(p) /\ \E k \in Children(p) : Alive(k)
    BY <1>1, <1>6 DEF Rests
  <2>2. \E k \in Children(p) : IsRunning(k)
    BY <1>2, <2>1, ChildFacts DEF IsRunning
  <2> QED
    BY <1>6, <2>1, <2>2 DEF Blocked, CheckFinished
<1>7. CASE op[p].kind = "PARWHILE"
  <2>1. /\ op[p].closures # <<>> /\ AllStarted(p) /\ Alive(op[p].closures[1])
    BY <1>1, <1>7 DEF Rests
  <2>2. op[p].closures[1] \in Proc
    BY <2>1, ChildFacts, TypeFacts, EmptySeq DEF IInv
  <2>3. ~FirstEnded(p)
    BY <1>2, <2>1, <2>2 DEF FirstEnded, IsRunning
  <2> QED
    BY <1>7, <2>1, <2>3 DEF Blocked
<1>8. CASE op[p].kind \in {"SLEEP", "none"}
  BY <1>1, <1>8 DEF Rests, Blocked
<1> QED
  BY <1>3, <1>4, <1>5, <1>6, <1>7, <1>8 DEF ForeignKinds, Operation, OpKinds, ParKinds, Spawning, ChannelKinds

----------------------------------------------------------------------------
(***************************************************************************)
(* The processes form a tree under the main process, which the closures of *)
(* the operations span: whatever the programs and whoever is terminated,   *)
(* no process outlives the operation it was made for.                      *)
(***************************************************************************)
THEOREM ProcessesFormTree == Spec => []ProcessTree
<1> QED
  BY WakeupHolds, TreeFacts, PTL

(***************************************************************************)
(* When the evaluator comes to rest, every suspended process is where      *)
(* something can still wake it.  Without the hypothesis this is false: an  *)
(* ALT with a channel in two of its guards stays, when the channel is      *)
(* closed, with the second of the two cases (op_alt.cpp:376-384), while    *)
(* the channel does not point to it any more; a process that then writes   *)
(* to the channel and the ALT wait for each other.                         *)
(***************************************************************************)
THEOREM NobodyIsForgotten ==
  ASSUME {"ALT", "close"} \subseteq Calls => NoChannelTwice
  PROVE  Spec => []NoLostWakeup
<1>1. Init => PointedTo
  BY InitWaiting
<1>2. IInv /\ PointedTo /\ [Next]_vars => PointedTo'
  BY NextWaiting
<1>3. IInv /\ PointedTo /\ Prompt /\ WInv /\ NoForeign /\ Suspended => NoLostWakeup
  BY RestingIsBlocked DEF NoLostWakeup, NoForeign, Suspended
<1> QED
  BY <1>1, <1>2, <1>3, WakeupHolds, Inductive, PTL DEF Spec
=============================================================================
