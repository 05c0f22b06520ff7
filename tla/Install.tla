-------------------------------- MODULE Install --------------------------------
(***************************************************************************)
(* install.sh: the commands of each step, which of their statuses are      *)
(* looked at, and the step all, which runs install.sh once for each of its *)
(* targets.  Each such run is a process of its own, and the one that       *)
(* started it waits for it and ignores its status.                         *)
(***************************************************************************)
EXTENDS Integers, Sequences

CONSTANT MaxDepth      \* bound (at least 1): how many waiting processes are remembered

VARIABLES
  pc,          \* "start", "loop" (in all), "step" or "ended": the innermost process
  step,        \* its STEP
  next,        \* the next command of its step
  loops,       \* the processes in all, the innermost last: the next target of each
  status       \* $? of the process that ended last

vars == <<pc, step, next, loops, status>>

targets == << "binutils", "gcc", "mingw", "finish", "all" >>

\* The commands of each step, a list joined by && being one command; "checked"
\* ends in "|| exit 1".
Checked(what) == [what |-> what, checked |-> TRUE]
Ignored(what) == [what |-> what, checked |-> FALSE]

Commands == [
  binutils |-> << Checked("directory"), Checked("configure, make, install"),
                  Checked("copy ldscript and headers") >>,
  gcc      |-> << Checked("directory"), Ignored("configure, make cc1 and xgcc"),
                  Ignored("configure with -fPIE"), Checked("make elfpe, copy to ovr"),
                  Ignored("make, make install") >>,
  mingw    |-> << Ignored("patch"), Ignored("copy headers"), Ignored("configure headers"),
                  Ignored("copy headers again"), Ignored("configure"), Ignored("sdks"),
                  Ignored("lib32"), Ignored("make install"), Ignored("save libcrtdll.a"),
                  Ignored("save libmsvcrt.a"), Ignored("dlltool crtdll"),
                  Ignored("dlltool msvcrt") >>,
  finish   |-> << Ignored("write rosbe"), Ignored("copy wrappers") >> ]

\* A process enters the loop of all.  Of more than MaxDepth processes the oldest
\* are forgotten: what is left can only end sooner.
Enter(outer) ==
  loops' = IF Len(outer) < MaxDepth THEN Append(outer, 1) ELSE Append(Tail(outer), 1)

Init ==
  /\ pc = "start"
  /\ step \in {"clean", "usage", "none"} \cup {targets[t] : t \in 1..Len(targets)}
  /\ next = 1 /\ loops = <<>> /\ status = 0

\* A process begins: clean ends at once, and so does a call without arguments;
\* without a step it is all.
Begin ==
  /\ pc = "start"
  /\ CASE step \in {"clean", "usage"} -> pc' = "ended" /\ UNCHANGED loops
       [] step \in {"none", "all"}    -> pc' = "loop" /\ Enter(loops)
       [] OTHER                       -> pc' = "step" /\ UNCHANGED loops
  /\ next' = 1
  /\ status' = IF step = "usage" THEN 1 ELSE status
  /\ UNCHANGED step

Target == loops[Len(loops)]

\* The loop of all runs install.sh for its next target and waits.
RunTarget ==
  /\ pc = "loop" /\ Target <= Len(targets)
  /\ step' = targets[Target]
  /\ loops' = [loops EXCEPT ![Len(loops)] = @ + 1]
  /\ pc' = "start"
  /\ UNCHANGED <<next, status>>

\* A process ends: the one that waits for it, if any, goes on with its loop.
Exit(code, waiting) ==
  /\ status' = code
  /\ loops' = waiting
  /\ pc' = IF waiting = <<>> THEN "ended" ELSE "loop"
  /\ UNCHANGED <<step, next>>

\* A command succeeds, or fails and ends the process if it is checked; the last
\* one's status is that of the process.
Run ==
  /\ pc = "step" /\ next <= Len(Commands[step])
  /\ \E code \in {0, 1} :
       IF code = 1 /\ Commands[step][next].checked THEN Exit(1, loops)
       ELSE /\ status' = code
            /\ next' = next + 1
            /\ UNCHANGED <<pc, step, loops>>

StepEnds == pc = "step" /\ next > Len(Commands[step]) /\ Exit(status, loops)

LoopEnds ==
  pc = "loop" /\ Target > Len(targets) /\ Exit(status, SubSeq(loops, 1, Len(loops) - 1))

Next == Begin \/ RunTarget \/ Run \/ StepEnds \/ LoopEnds

\* Every command of every step returns.
Spec == Init /\ [][Next]_vars /\ WF_vars(Next)

-----------------------------------------------------------------------------
\* Running install.sh comes to an end, with whatever status: the result is "a
\* collection of installed software" (README.md), all being the step it takes when
\* it is given none.
InstallEnds == <>(pc = "ended")

=============================================================================
