------------------------------- MODULE Driver -------------------------------
(***************************************************************************)
(* main and execute_command (src/elfpe/elfpe.cpp) seen from outside: elfpe *)
(* is run as powerpcle-unknown-elf-gcc, runs the real gcc, rewrites the    *)
(* ELF file gcc left, writes the image to a second file, renames that over *)
(* the first and exits with a status that make looks at.  gcc may fail, a  *)
(* library call may fail, and elfpe may be killed between any two steps,   *)
(* with gcc or without it: a gcc that survives goes on, and may write its  *)
(* output while make runs elfpe again.                                     *)
(*                                                                         *)
(* What the fixups do to the image is ImageLayout's and Reloc's subject.   *)
(***************************************************************************)
EXTENDS Integers

CONSTANTS
  MaxRuns,     \* bound: how often elfpe is run
  GccCodes,    \* exit codes of a failing gcc
  Signals,     \* signals gcc may die of
  Trouble      \* which of Troubles may happen

\* Calls that fail, elfpe killed, and elfpe killed while its gcc lives on.
Troubles == {"fopen", "fwrite", "rename", "exec", "kill", "orphan"}

ASSUME DriverAssumption ==
  /\ MaxRuns \in Nat
  /\ GccCodes \subseteq 1..255
  /\ Signals \subseteq 1..127
  /\ Trouble \subseteq Troubles

VARIABLES
  pc,          \* where main is; "idle" when no elfpe is running
  run,         \* the number of the run; what it makes carries this number
  mode,        \* "compile" (-c, -E, .gch), "noheader" (-N) or "link"
  output,      \* the file named by -o: [kind, run]
  tmp,         \* output_file.tmp: [kind, run]
  opened,      \* the run whose ELF file elfpe has open
  orphans,     \* the runs whose elfpe is dead and whose gcc is still running
  status,      \* what waitpid stored
  code,        \* what the caller sees: the exit code, or -1 for a killed elfpe
  seen,        \* the kinds of trouble there have been, in any run
  now          \* those that this run has met; "orphan" if it began beside one

files == <<output, tmp, opened, orphans>>
troubles == <<seen, now>>
vars == <<pc, run, mode, files, status, code, troubles>>

Missing == [kind |-> "missing", run |-> 0]
File(kind) == [kind |-> kind, run |-> run]
Image(kind) == [kind |-> kind, run |-> opened]

-----------------------------------------------------------------------------
Init ==
  /\ pc = "idle" /\ run = 0 /\ mode = "link"
  /\ output = Missing /\ tmp = Missing /\ opened = 0 /\ orphans = {}
  /\ status = 1 /\ code = 0 /\ seen = {} /\ now = {}

Had(trouble) ==
  trouble \in Trouble /\ seen' = seen \cup {trouble} /\ now' = now \cup {trouble}

\* make runs the compiler, again or for the first time.
Start ==
  /\ pc = "idle" /\ run < MaxRuns
  /\ run' = run + 1
  /\ mode' \in {"compile", "noheader", "link"}
  /\ status' = 1
  /\ pc' = "gcc"
  /\ now' = IF orphans = {} THEN {} ELSE {"orphan"}
  /\ UNCHANGED <<files, code, seen>>

\* The real gcc writes the file and exits with 0.
GccSucceeds ==
  /\ pc = "gcc"
  /\ output' = File("elf")
  /\ status' = 0
  /\ pc' = IF mode = "link" THEN "open" ELSE "return"
  /\ UNCHANGED <<run, mode, tmp, opened, orphans, code, troubles>>

\* waitpid's status of a child that exited or died: the code is in the second
\* byte, the signal in the first.
ExitStatus(c) == 256 * c

GccFailsRetried ==                                         \* mutated
  /\ pc = "gcc"
  /\ status' \in {ExitStatus(c) : c \in GccCodes} \cup Signals
  /\ output' \in {output, Missing}
  /\ UNCHANGED <<pc, run, mode, tmp, opened, orphans, code, troubles>>

\* gcc fails: it leaves the old file or none.
GccFails ==
  /\ pc = "gcc"
  /\ status' \in {ExitStatus(c) : c \in GccCodes} \cup Signals
  /\ output' \in {output, Missing}
  /\ pc' = "return"
  /\ UNCHANGED <<run, mode, tmp, opened, orphans, code, troubles>>

\* execv fails in the child of vfork, which shares the parent's memory and goes
\* on in main: it returns from main with 1, and the parent finds its stack as
\* the child left it: it reads the child's status or it dies.
ExecFails ==
  /\ pc = "gcc" /\ Had("exec")
  /\ \/ status' = ExitStatus(1) /\ pc' = "return" /\ UNCHANGED code
     \/ pc' = "idle" /\ code' = -1 /\ UNCHANGED status
  /\ UNCHANGED <<run, mode, files>>

\* The file cannot be opened or has no .bss: exit(1).  (An assertion that fails
\* while relocating is a Killed.)
FixupRefused ==
  /\ pc = "open"
  /\ code' = 1
  /\ pc' = "idle"
  /\ UNCHANGED <<run, mode, files, status, troubles>>

\* allocateComdat to the last update: whatever ELF file stands under the output's
\* name is opened, and libelf rewrites it in place, so that "fixed" stands for every
\* stage between the ELF gcc left and the last one.
Fixup ==
  /\ pc = "open" /\ output.kind = "elf"
  /\ opened' = output.run
  /\ output' = [output EXCEPT !.kind = "fixed"]
  /\ pc' = "create"
  /\ UNCHANGED <<run, mode, tmp, orphans, status, code, troubles>>

\* PECoffExecutable: fopen truncates the temporary file or creates it.
CreateTmpKept ==                                           \* mutated
  /\ pc = "create"
  /\ tmp' = IF tmp = Missing THEN Image("partial") ELSE tmp
  /\ pc' = IF tmp = Missing THEN "write" ELSE "rename"
  /\ UNCHANGED <<run, mode, output, opened, orphans, status, code, troubles>>

CreateTmp ==
  /\ pc = "create"
  /\ tmp' = Image("partial")
  /\ pc' = "write"
  /\ UNCHANGED <<run, mode, output, opened, orphans, status, code, troubles>>

\* fopen fails and the constructor returns as if it had written the file.
CreateFails ==
  /\ pc = "create" /\ Had("fopen")
  /\ pc' = "rename"
  /\ UNCHANGED <<run, mode, files, status, code>>

\* The header and the sections are written and the file is closed.
WriteTmp ==
  /\ pc = "write"
  /\ tmp' = Image("pe")
  /\ pc' = "rename"
  /\ UNCHANGED <<run, mode, output, opened, orphans, status, code, troubles>>

\* A short fwrite goes unnoticed.
WriteFallsShort ==
  /\ pc = "write" /\ Had("fwrite")
  /\ pc' = "rename"
  /\ UNCHANGED <<run, mode, files, status, code>>

RenameTmpCopied ==                                         \* mutated
  /\ pc = "rename"
  /\ output' = IF tmp = Missing THEN output ELSE tmp
  /\ pc' = "return"
  /\ UNCHANGED <<run, mode, tmp, opened, orphans, status, code, troubles>>

\* PECoffExecutable::Write.  Without a temporary file there is nothing to rename.
RenameTmp ==
  /\ pc = "rename"
  /\ output' = IF tmp = Missing THEN output ELSE tmp
  /\ tmp' = Missing
  /\ pc' = "return"
  /\ UNCHANGED <<run, mode, opened, orphans, status, code, troubles>>

\* rename fails, unchecked: the ELF file keeps the output's name, and the image is
\* left in the temporary file.
RenameFails ==
  /\ pc = "rename" /\ tmp # Missing /\ Had("rename")
  /\ pc' = "return"
  /\ UNCHANGED <<run, mode, files, status, code>>

\* main returns the status; the caller sees its low byte.
ExitCodeWhole(s) == s                                      \* mutated
ExitCode(s) == s % 256

Return ==
  /\ pc = "return"
  /\ code' = ExitCode(status)
  /\ pc' = "idle"
  /\ UNCHANGED <<run, mode, files, status, troubles>>

\* elfpe is killed, and a gcc that it is waiting for with it.
Killed ==
  /\ pc # "idle" /\ Had("kill")
  /\ code' = -1
  /\ pc' = "idle"
  /\ UNCHANGED <<run, mode, files, status>>

\* elfpe is killed while it waits: the child of vfork is a process of its own, which
\* nobody tells.
KilledAlone ==
  /\ pc = "gcc" /\ Had("orphan")
  /\ orphans' = orphans \cup {run}
  /\ code' = -1
  /\ pc' = "idle"
  /\ UNCHANGED <<run, mode, output, tmp, opened, status>>

\* A gcc without an elfpe comes to its end: it has put its ELF file in the place of
\* what is there, or removed that, or done nothing.
OrphanEnds ==
  /\ \E r \in orphans :
       /\ orphans' = orphans \ {r}
       /\ output' \in {output, Missing, [kind |-> "elf", run |-> r]}
  /\ UNCHANGED <<pc, run, mode, tmp, opened, status, code, troubles>>

Step == \/ GccSucceeds \/ GccFails \/ ExecFails \/ FixupRefused \/ Fixup
        \/ CreateTmp \/ CreateFails \/ WriteTmp \/ WriteFallsShort
        \/ RenameTmp \/ RenameFails \/ Return

Next == Start \/ Step \/ Killed \/ KilledAlone \/ OrphanEnds

\* A process that is running goes on running; make need not start another.
Spec == Init /\ [][Next]_vars /\ WF_vars(Step)

-----------------------------------------------------------------------------
(* Properties.                                                             *)

\* The caller sees an exit code of one byte or a death, and a file never comes
\* from a run that has not been.
TypeOK ==
  /\ pc \in {"idle", "gcc", "open", "create", "write", "rename", "return"}
  /\ run \in 0..MaxRuns
  /\ mode \in {"compile", "noheader", "link"}
  /\ output \in [kind : {"missing", "elf", "fixed", "pe", "partial"}, run : 0..run]
  /\ tmp \in [kind : {"missing", "partial", "pe"}, run : 0..run]
  /\ opened \in 0..run /\ orphans \subseteq 1..run
  /\ status \in Nat
  /\ code \in {-1} \cup 0..255
  /\ seen \subseteq Trouble /\ now \subseteq seen

\* The last run has ended by itself and says that it has linked a program.
Succeeded == pc = "idle" /\ run > 0 /\ mode = "link" /\ status = 0 /\ code = 0

\* Whatever is killed when, whatever an earlier run left behind or could not rename,
\* and whichever gcc goes on without its elfpe, the file that make looks at never
\* holds a half-written image, as long as fopen and fwrite do what they are asked.
\* (With a kill, an fopen that fails is enough: what the killed run left in the
\* temporary file is renamed.)
OutputWhole == seen \cap {"fopen", "fwrite"} = {} => output.kind # "partial"

\* A run that says it succeeded, in which no call failed unnoticed and beside which
\* no gcc of a killed run was at work, has left its own image: one such run repairs
\* whatever kills, failed calls and surviving gccs did to the runs before it.
OutputFresh == Succeeded /\ now = {} => output = [kind |-> "pe", run |-> run]

\* It takes two failures to pass an older file off as this run's: an fopen that fails
\* now, and before it a kill or a rename that failed, which left an image in the
\* temporary file.  (Or the gcc of a killed run, still at work.)
NeverAnOlderImage ==
  /\ Succeeded /\ "orphan" \notin now
  /\ "fopen" \notin now \/ seen \cap {"kill", "rename"} = {}
  => output.run = run

\* Exit code 0 means what it means of the compiler elfpe stands in for: the
\* output has been made.
SuccessMeansOutput ==
  pc = "idle" /\ run > 0 /\ code = 0 =>
    output = [kind |-> IF mode = "link" THEN "pe" ELSE "elf", run |-> run]

\* Every run ends.
RunsEnd == \A r \in 1..MaxRuns : [](run = r => <>(pc = "idle"))

=============================================================================
