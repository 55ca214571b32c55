----------------------------- MODULE Rendezvous -----------------------------
(***************************************************************************)
(* What the channels of LuaCSP promise (LuaCSP.qbk:70-106): communication  *)
(* is synchronous, unbuffered and point to point.  A process waits to      *)
(* output on one channel or to input on one or (ALT) several; a value      *)
(* passes from the one writer to the one reader of a channel when both     *)
(* wait, the reader then waits for no other channel, and a value is never  *)
(* lost, duplicated or invented: it reaches the reader unless the channel  *)
(* is closed or the writer is terminated before the two meet, or the       *)
(* reader after.                                                           *)
(***************************************************************************)
CONSTANTS Proc, Chan, Val, None

VARIABLES
  alive,    \* the processes that exist
  offer,    \* what each process that waits to output offers, else None
  target,   \* the channels each process waits to output on, at most one
  waiting,  \* the channels each process waits to input on
  inbox,    \* what each process has received and not yet looked at
  closed    \* the closed channels

rvars == <<alive, offer, target, waiting, inbox, closed>>

Init ==
  /\ alive \in SUBSET Proc
  /\ offer = [p \in Proc |-> None]
  /\ target = [p \in Proc |-> {}]
  /\ waiting = [p \in Proc |-> {}]
  /\ inbox = [p \in Proc |-> None]
  /\ closed = {}

(* Processes may come into being in any step; they end only in Terminate. *)
Spawning == alive \subseteq alive'

Offer(p, c, v) ==
  /\ p \in alive /\ \A q \in Proc : c \notin target[q]
  /\ offer' = [offer EXCEPT ![p] = v]
  /\ target' = [target EXCEPT ![p] = {c}]
  /\ Spawning /\ UNCHANGED <<waiting, inbox, closed>>

Wait(p, C) ==
  /\ p \in alive /\ C # {} /\ inbox[p] = None
  /\ \A q \in Proc : C \cap waiting[q] = {}
  /\ waiting' = [waiting EXCEPT ![p] = C]
  /\ Spawning /\ UNCHANGED <<offer, target, inbox, closed>>

Meet(w, r, c) ==
  /\ c \in target[w] \cap waiting[r]
  /\ inbox' = [inbox EXCEPT ![r] = offer[w]]
  /\ waiting' = [waiting EXCEPT ![r] = {}]
  /\ offer' = [offer EXCEPT ![w] = None]
  /\ target' = [target EXCEPT ![w] = {}]
  /\ Spawning /\ UNCHANGED closed

Receive(r) ==
  /\ inbox' = [inbox EXCEPT ![r] = None]
  /\ Spawning /\ UNCHANGED <<offer, target, waiting, closed>>

(* An ALT that takes a timeout or its nil case waits no more. *)
GiveUp(r) ==
  /\ waiting' = [waiting EXCEPT ![r] = {}]
  /\ Spawning /\ UNCHANGED <<offer, target, inbox, closed>>

Close(c) ==
  /\ closed' = closed \cup {c}
  /\ offer' = [p \in Proc |-> IF c \in target[p] THEN None ELSE offer[p]]
  /\ target' = [p \in Proc |-> target[p] \ {c}]
  /\ waiting' = [p \in Proc |-> waiting[p] \ {c}]
  /\ UNCHANGED <<alive, inbox>>

Terminate(S) ==
  /\ alive' = alive \ S
  /\ offer' = [p \in Proc |-> IF p \in S THEN None ELSE offer[p]]
  /\ target' = [p \in Proc |-> IF p \in S THEN {} ELSE target[p]]
  /\ waiting' = [p \in Proc |-> IF p \in S THEN {} ELSE waiting[p]]
  /\ inbox' = [p \in Proc |-> IF p \in S THEN None ELSE inbox[p]]
  /\ UNCHANGED closed

Spawn == Spawning /\ UNCHANGED <<offer, target, waiting, inbox, closed>>

Next ==
  \/ \E p \in Proc, c \in Chan, v \in Val : Offer(p, c, v)
  \/ \E p \in Proc, C \in SUBSET Chan : Wait(p, C)
  \/ \E w, r \in Proc, c \in Chan : Meet(w, r, c)
  \/ \E r \in Proc : Receive(r) \/ GiveUp(r)
  \/ \E c \in Chan : Close(c)
  \/ \E S \in SUBSET Proc : Terminate(S)
  \/ Spawn

Spec == Init /\ [][Next]_rvars
============================================================================
