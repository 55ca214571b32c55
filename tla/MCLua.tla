------------------------------- MODULE MCLua -------------------------------
(***************************************************************************)
(* Instances for the Lua interpreter: every program of LuaPrograms is      *)
(* compiled and run.  input is the case being checked.                     *)
(***************************************************************************)
EXTENDS LuaPrograms

VARIABLE input

Init == input = [part |-> "start"]
ChooseFamily ==
  /\ input.part = "start"
  /\ \E n \in DOMAIN Families : input' = [part |-> "family", n |-> n]
ChooseProgram ==
  /\ input.part = "family"
  /\ \E ss \in Families[input.n] : input' = [part |-> "code", ss |-> ss]
Next == ChooseFamily \/ ChooseProgram
Spec == Init /\ [][Next]_input

\* The code that the compiler generates does what the program means: it makes
\* the same calls of C functions with the same arguments in the same order,
\* leaves the same tables, and returns the same values or fails as the program
\* does.  The compiler moves operands between registers, fuses tests with
\* jumps, reuses registers and closures, and overwrites the frame of a tail
\* call (lcode.c, lparser.c, lvm.c, ldo.c).
CodeMeansProgram == input.part = "code" => Accepted(Compile(input.ss), input.ss)

\* The compiler rejects the programs that break the rules of labels, break and
\* goto and no others, and none of its assertions fails: it checks a goto when
\* it meets the label or leaves the block of either (lparser.c).
RejectsIllegal ==
  input.part = "code" =>
    Compile(input.ss).st = (IF IllegalFunction(input.ss) THEN "error" ELSE "ok")

(***************************************************************************)
(* The programs that visit a declaration twice by a goto to a label in     *)
(* front of it.                                                            *)
(***************************************************************************)
ChooseVisit == input.part = "start" /\ \E ss \in Visits : input' = [part |-> "visit", ss |-> Direct(ss)]
VisitsSpec == Init /\ [][ChooseVisit]_input

\* "Otherwise, all variables are initialized with nil" (the manual): a local
\* declared without a value is nil whenever its declaration is executed.
LocalsStartNil == input.part = "visit" => Accepted(Compile(input.ss), input.ss)
=============================================================================
