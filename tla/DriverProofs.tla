---------------------------- MODULE DriverProofs ----------------------------
(***************************************************************************)
(* What stands under the output's name, for any number of runs, any exit   *)
(* codes and signals of gcc, calls that fail, kills at any point and gccs  *)
(* that outlive their elfpe: theorems about Driver.                        *)
(***************************************************************************)
EXTENDS Driver, TLAPS

\* A status of 0 is gcc's, only a link goes on to the fixups, and there is no orphan
\* that the run does not know of.
Control ==
  /\ pc = "gcc" => status # 0
  /\ pc \in {"open", "create", "write", "rename"} => mode = "link"
  /\ pc # "idle" => run >= 1
  /\ orphans # {} => "orphan" \in now

\* No call of any run has left a file half written behind a step that took it for
\* complete.
Whole ==
  "fopen" \notin seen /\ "fwrite" \notin seen =>
    /\ output.kind # "partial"
    /\ pc = "rename" => tmp.kind = "pe"

\* With no orphan about, the ELF file and what is made of it are this run's.
Own ==
  "orphan" \notin now =>
    /\ pc = "open" => output = File("elf")
    /\ pc \in {"create", "write", "rename"} => opened = run /\ output.run = run

\* What main knows of a run that nothing has befallen: at the rename the temporary
\* file is this run's image, and after it the output is.
Progress ==
  now = {} => /\ pc = "rename" => tmp = File("pe")
              /\ pc = "return" /\ mode = "link" /\ status = 0 => output = File("pe")

\* While nobody has killed an elfpe and each rename has worked, each run has renamed
\* the temporary file it made: there is none but the one of this run.
Swept ==
  "kill" \notin seen /\ "rename" \notin seen =>
    \/ tmp = Missing
    \/ pc \in {"write", "rename"} /\ tmp.run = opened

\* At most one of the two failures it takes to bring back an older image.
OneFailure ==
  /\ "orphan" \notin now
  /\ "fopen" \notin now \/ ("kill" \notin seen /\ "rename" \notin seen)

NotOlder ==
  OneFailure =>
    /\ pc \in {"write", "rename"} => tmp = Missing \/ tmp.run = run
    /\ pc = "return" /\ mode = "link" /\ status = 0 => output.run = run

IInv ==
  /\ TypeOK /\ Control /\ Whole /\ Own /\ Progress /\ Swept /\ NotOlder
  /\ OutputFresh /\ NeverAnOlderImage

\* The low byte of a status is an exit code.
LEMMA ExitCodeType == ASSUME NEW s \in Nat PROVE ExitCode(s) \in 0..255
  BY SMT DEF ExitCode

\* A status of a gcc that failed is a number other than 0.
LEMMA FailureStatus ==
  ASSUME NEW s \in {ExitStatus(c) : c \in GccCodes} \cup Signals
  PROVE  s \in Nat /\ s # 0
<1>1. CASE s \in Signals
  BY <1>1, DriverAssumption
<1>2. CASE s \in {ExitStatus(c) : c \in GccCodes}
  <2>1. PICK c \in GccCodes : s = ExitStatus(c)
    BY <1>2
  <2>2. c \in 1..255
    BY DriverAssumption
  <2> QED
    BY <2>1, <2>2 DEF ExitStatus
<1> QED
  BY <1>1, <1>2

\* Before the first run there is nothing.
LEMMA InitIInv == Init => IInv
  BY DriverAssumption DEF Init, IInv, TypeOK, Control, Whole, Own, Progress, Swept, NotOlder,
                          OneFailure, OutputFresh, NeverAnOlderImage, Missing, File, Succeeded

\* Every step of a run, every start and kill and every orphan keeps the types.
LEMMA NextTypeOK == TypeOK /\ Control /\ [Next]_vars => TypeOK'
<1> SUFFICES ASSUME TypeOK /\ Control, [Next]_vars PROVE TypeOK'
  OBVIOUS
<1> USE DriverAssumption DEF TypeOK, Control, files, troubles, Missing, File, Image, Had
<1>1. CASE Start
  BY <1>1 DEF Start
<1>2. CASE GccSucceeds
  BY <1>2 DEF GccSucceeds
<1>3. CASE GccFails
  BY <1>3, FailureStatus DEF GccFails
<1>4. CASE ExecFails
  BY <1>4 DEF ExecFails, ExitStatus
<1>5. CASE FixupRefused
  BY <1>5 DEF FixupRefused
<1>6. CASE Fixup
  BY <1>6 DEF Fixup
<1>7. CASE CreateTmp
  BY <1>7 DEF CreateTmp
<1>8. CASE CreateFails
  BY <1>8 DEF CreateFails
<1>9. CASE WriteTmp
  BY <1>9 DEF WriteTmp
<1>10. CASE WriteFallsShort
  BY <1>10 DEF WriteFallsShort
<1>11. CASE RenameTmp
  BY <1>11 DEF RenameTmp
<1>12. CASE RenameFails
  BY <1>12 DEF RenameFails
<1>13. CASE Return
  BY <1>13, ExitCodeType DEF Return
<1>14. CASE Killed
  BY <1>14 DEF Killed
<1>15. CASE KilledAlone
  BY <1>15 DEF KilledAlone
<1>16. CASE OrphanEnds
  BY <1>16 DEF OrphanEnds
<1>17. CASE UNCHANGED vars
  BY <1>17 DEF vars
<1> QED
  BY <1>1, <1>2, <1>3, <1>4, <1>5, <1>6, <1>7, <1>8, <1>9,
     <1>10, <1>11, <1>12, <1>13, <1>14, <1>15, <1>16, <1>17 DEF Next, Step

\* A file that is complete stays so until fopen or fwrite fails.
LEMMA NextWhole == IInv /\ [Next]_vars => Control' /\ Whole'
<1> SUFFICES ASSUME IInv, [Next]_vars PROVE Control' /\ Whole'
  OBVIOUS
<1> USE DriverAssumption DEF IInv, Whole, TypeOK, Control, files, troubles, Missing, File, Image, Had
<1>1. CASE Start
  <2>1. pc = "idle" /\ pc' = "gcc" /\ run' = run + 1 /\ status' = 1
    BY <1>1 DEF Start
  <2>2. /\ now' = (IF orphans = {} THEN {} ELSE {"orphan"})
        /\ output' = output /\ orphans' = orphans /\ seen' = seen
    BY <1>1 DEF Start
  <2>3. orphans' # {} => "orphan" \in now'
    BY <2>2, Zenon
  <2>4. run' >= 1 /\ status' # 0
    BY <2>1
  <2>5. Control'
    BY <2>1, <2>3, <2>4
  <2>6. Whole'
    BY <2>1, <2>2
  <2> QED
    BY <2>5, <2>6
<1>2. CASE GccSucceeds
  BY <1>2 DEF GccSucceeds
<1>3. CASE GccFails
  BY <1>3, FailureStatus DEF GccFails
<1>4. CASE ExecFails
  BY <1>4 DEF ExecFails, ExitStatus
<1>5. CASE FixupRefused
  BY <1>5 DEF FixupRefused
<1>6. CASE Fixup
  BY <1>6 DEF Fixup
<1>7. CASE CreateTmp
  BY <1>7 DEF CreateTmp
<1>8. CASE CreateFails
  BY <1>8 DEF CreateFails
<1>9. CASE WriteTmp
  BY <1>9 DEF WriteTmp
<1>10. CASE WriteFallsShort
  BY <1>10 DEF WriteFallsShort
<1>11. CASE RenameTmp
  BY <1>11 DEF RenameTmp
<1>12. CASE RenameFails
  BY <1>12 DEF RenameFails
<1>13. CASE Return
  BY <1>13, ExitCodeType DEF Return
<1>14. CASE Killed
  BY <1>14 DEF Killed
<1>15. CASE KilledAlone
  BY <1>15 DEF KilledAlone
<1>16. CASE OrphanEnds
  BY <1>16 DEF OrphanEnds
<1>17. CASE UNCHANGED vars
  BY <1>17 DEF vars
<1> QED
  BY <1>1, <1>2, <1>3, <1>4, <1>5, <1>6, <1>7, <1>8, <1>9,
     <1>10, <1>11, <1>12, <1>13, <1>14, <1>15, <1>16, <1>17 DEF Next, Step

\* Without an orphan nobody but this run has a file open or puts one in its place.
LEMMA NextOwn == IInv /\ [Next]_vars => Own'
<1> SUFFICES ASSUME IInv, [Next]_vars PROVE Own'
  OBVIOUS
<1> USE DriverAssumption DEF IInv, Own, TypeOK, Control, files, troubles, Missing, File, Image, Had
<1>1. CASE Start
  BY <1>1 DEF Start
<1>2. CASE GccSucceeds
  BY <1>2 DEF GccSucceeds
<1>3. CASE GccFails
  BY <1>3, FailureStatus DEF GccFails
<1>4. CASE ExecFails
  BY <1>4 DEF ExecFails, ExitStatus
<1>5. CASE FixupRefused
  BY <1>5 DEF FixupRefused
<1>6. CASE Fixup
  BY <1>6 DEF Fixup
<1>7. CASE CreateTmp
  BY <1>7 DEF CreateTmp
<1>8. CASE CreateFails
  BY <1>8 DEF CreateFails
<1>9. CASE WriteTmp
  BY <1>9 DEF WriteTmp
<1>10. CASE WriteFallsShort
  BY <1>10 DEF WriteFallsShort
<1>11. CASE RenameTmp
  BY <1>11 DEF RenameTmp
<1>12. CASE RenameFails
  BY <1>12 DEF RenameFails
<1>13. CASE Return
  BY <1>13, ExitCodeType DEF Return
<1>14. CASE Killed
  BY <1>14 DEF Killed
<1>15. CASE KilledAlone
  BY <1>15 DEF KilledAlone
<1>16. CASE OrphanEnds
  BY <1>16 DEF OrphanEnds
<1>17. CASE UNCHANGED vars
  BY <1>17 DEF vars
<1> QED
  BY <1>1, <1>2, <1>3, <1>4, <1>5, <1>6, <1>7, <1>8, <1>9,
     <1>10, <1>11, <1>12, <1>13, <1>14, <1>15, <1>16, <1>17 DEF Next, Step

\* A run that nothing befalls and that returns 0 has renamed what it has written.
LEMMA NextProgress == IInv /\ [Next]_vars => Progress' /\ OutputFresh'
<1> SUFFICES ASSUME IInv, [Next]_vars PROVE Progress' /\ OutputFresh'
  OBVIOUS
<1> USE DriverAssumption DEF IInv, Own, Progress, OutputFresh, Succeeded, TypeOK, Control, files, troubles, Missing, File, Image, Had
<1>1. CASE Start
  BY <1>1 DEF Start
<1>2. CASE GccSucceeds
  BY <1>2 DEF GccSucceeds
<1>3. CASE GccFails
  BY <1>3, FailureStatus DEF GccFails
<1>4. CASE ExecFails
  BY <1>4 DEF ExecFails, ExitStatus
<1>5. CASE FixupRefused
  BY <1>5 DEF FixupRefused
<1>6. CASE Fixup
  BY <1>6 DEF Fixup
<1>7. CASE CreateTmp
  BY <1>7 DEF CreateTmp
<1>8. CASE CreateFails
  BY <1>8 DEF CreateFails
<1>9. CASE WriteTmp
  BY <1>9 DEF WriteTmp
<1>10. CASE WriteFallsShort
  BY <1>10 DEF WriteFallsShort
<1>11. CASE RenameTmp
  BY <1>11 DEF RenameTmp
<1>12. CASE RenameFails
  BY <1>12 DEF RenameFails
<1>13. CASE Return
  BY <1>13, ExitCodeType DEF Return
<1>14. CASE Killed
  BY <1>14 DEF Killed
<1>15. CASE KilledAlone
  BY <1>15 DEF KilledAlone
<1>16. CASE OrphanEnds
  BY <1>16 DEF OrphanEnds
<1>17. CASE UNCHANGED vars
  BY <1>17 DEF vars
<1> QED
  BY <1>1, <1>2, <1>3, <1>4, <1>5, <1>6, <1>7, <1>8, <1>9,
     <1>10, <1>11, <1>12, <1>13, <1>14, <1>15, <1>16, <1>17 DEF Next, Step

\* Without a kill or a failed rename no temporary file outlives its run, and without
\* a failed fopen none that does is renamed.
LEMMA NextSwept == IInv /\ [Next]_vars => Swept' /\ NotOlder' /\ NeverAnOlderImage'
<1> SUFFICES ASSUME IInv, [Next]_vars PROVE Swept' /\ NotOlder' /\ NeverAnOlderImage'
  OBVIOUS
<1> USE DriverAssumption DEF IInv, Own, Swept, NotOlder, OneFailure, NeverAnOlderImage, Succeeded,
           TypeOK, Control, files, troubles, Missing, File, Image, Had
<1>1. CASE Start
  BY <1>1 DEF Start
<1>2. CASE GccSucceeds
  BY <1>2 DEF GccSucceeds
<1>3. CASE GccFails
  BY <1>3, FailureStatus DEF GccFails
<1>4. CASE ExecFails
  BY <1>4 DEF ExecFails, ExitStatus
<1>5. CASE FixupRefused
  BY <1>5 DEF FixupRefused
<1>6. CASE Fixup
  <2>1. /\ pc = "open" /\ pc' = "create" /\ tmp' = tmp
        /\ run' = run /\ seen' = seen /\ now' = now
    BY <1>6 DEF Fixup
  <2>2. Swept'
    BY <2>1
  <2>3. NotOlder'
    BY <2>1
  <2>4. NeverAnOlderImage'
    BY <2>1
  <2> QED
    BY <2>2, <2>3, <2>4
<1>7. CASE CreateTmp
  BY <1>7 DEF CreateTmp
<1>8. CASE CreateFails
  BY <1>8 DEF CreateFails
<1>9. CASE WriteTmp
  BY <1>9 DEF WriteTmp
<1>10. CASE WriteFallsShort
  BY <1>10 DEF WriteFallsShort
<1>11. CASE RenameTmp
  <2>1. /\ pc = "rename" /\ pc' = "return" /\ tmp' = Missing
        /\ output' = (IF tmp = Missing THEN output ELSE tmp)
        /\ run' = run /\ seen' = seen /\ now' = now
    BY <1>11 DEF RenameTmp
  <2>2. Swept'
    BY <2>1
  <2>6. NeverAnOlderImage'
    BY <2>1
  <2>3. OneFailure => output'.run = run
    <3>1. OneFailure => output.run = run /\ (tmp = Missing \/ tmp.run = run)
      BY <2>1
    <3> QED
      BY <2>1, <3>1
  <2>4. OneFailure' = OneFailure
    BY <2>1
  <2>5. NotOlder'
    BY <2>1, <2>3, <2>4
  <2> QED
    BY <2>2, <2>5, <2>6
<1>12. CASE RenameFails
  BY <1>12 DEF RenameFails
<1>13. CASE Return
  BY <1>13, ExitCodeType DEF Return
<1>14. CASE Killed
  BY <1>14 DEF Killed
<1>15. CASE KilledAlone
  BY <1>15 DEF KilledAlone
<1>16. CASE OrphanEnds
  BY <1>16 DEF OrphanEnds
<1>17. CASE UNCHANGED vars
  BY <1>17 DEF vars
<1> QED
  BY <1>1, <1>2, <1>3, <1>4, <1>5, <1>6, <1>7, <1>8, <1>9,
     <1>10, <1>11, <1>12, <1>13, <1>14, <1>15, <1>16, <1>17 DEF Next, Step

\* Every step keeps the inductive invariant.
LEMMA NextIInv == IInv /\ [Next]_vars => IInv'
  BY NextTypeOK, NextWhole, NextOwn, NextProgress, NextSwept DEF IInv

\* The exit code is one byte or a death, and a file never comes from a run that
\* has not been (TypeOK).
THEOREM TypeCorrect == Spec => []TypeOK
<1>1. IInv => TypeOK
  BY DEF IInv
<1> QED
  BY <1>1, InitIInv, NextIInv, PTL DEF Spec

\* However often elfpe is run, wherever it is killed, whatever rename does and
\* whichever gcc outlives its elfpe, the output is never a half-written image while
\* fopen and fwrite work (OutputWhole).
THEOREM NeverHalfWritten == Spec => []OutputWhole
<1>1. IInv => OutputWhole
  BY DEF IInv, Whole, OutputWhole
<1> QED
  BY <1>1, InitIInv, NextIInv, PTL DEF Spec

\* A link that reports success, that nothing befell and beside which no orphan was at
\* work has left the image of that very run, whatever went wrong in the runs before it
\* (OutputFresh).
THEOREM SuccessIsFresh == Spec => []OutputFresh
<1>1. IInv => OutputFresh
  BY DEF IInv
<1> QED
  BY <1>1, InitIInv, NextIInv, PTL DEF Spec

\* With no orphan about, an older file passes for this run's only if fopen fails now
\* and a kill or a failed rename came before (NeverAnOlderImage).
THEOREM NothingStale == Spec => []NeverAnOlderImage
<1>1. IInv => NeverAnOlderImage
  BY DEF IInv
<1> QED
  BY <1>1, InitIInv, NextIInv, PTL DEF Spec

=============================================================================
