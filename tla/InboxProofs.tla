---------------------------- MODULE InboxProofs ----------------------------
(***************************************************************************)
(* Proofs about Inbox, for any number of programs, files, days and runs.   *)
(*                                                                         *)
(* InboxInv says, besides the types, how many files are stored at every    *)
(* point of a delivery, what a program that passed the gate may rely on,   *)
(* who may write the trial file, and when a window may be there.           *)
(***************************************************************************)
EXTENDS Inbox, TLAPS

USE DEF drive, screen, history

\* A program that has chosen no file yet.
AtGate == PC \ (Delivering \cup {"idle"})

\* The files before the one at hand are stored; a delivery that is going to be
\* reported as done has stored all.
StoredAt(p) ==
    LET j == job[p]
    IN  /\ \A i \in DOMAIN j.stored : j.stored[i] = i
        /\ Len(j.stored) = j.next - 1
        /\ pc[p] \in {"check", "update", "append"} =>
            j.next <= j.total /\ j.verdict = "done"
        /\ pc[p] \in {"finish", "wait"} /\ j.verdict = "done" => j.next = j.total + 1
        /\ answer[p] = "done" => j.next = j.total + 1
        /\ pc[p] # "idle" => answer[p] = "none"
        /\ pc[p] \in AtGate => j.next = 1 /\ j.stored = <<>> /\ j.verdict = "done"

\* What a program found on its way through the gate.
GateAt(p) ==
    /\ pc[p] \in {"days", "left"} => first # NoDate
    /\ pc[p] = "keys" \/ pc[p] \in Delivering \/ job[p].stored # <<>> =>
        licensed \/ first # NoDate

\* One program at a time writes the trial file, and only before any date is there.
TrialOK ==
    /\ trial # NoDate => first # NoDate
    /\ ~raced =>
        /\ first # NoDate => trial = first
        /\ \A p, q \in Programs :
            pc[p] \in {"truncate", "date"} /\ pc[q] \in {"truncate", "date"} => p = q
        /\ \A p \in Programs : pc[p] \in {"truncate", "date"} => first = NoDate

WindowAt(p) == pc[p] \notin Delivering /\ ~orphaned[p] => window[p] = "closed"

InboxInv ==
    /\ TypeOK
    /\ TrialOK
    /\ \A p \in Programs : StoredAt(p) /\ GateAt(p) /\ WindowAt(p)

\* What one program and its window do.
ProgramStep(p) ==
    \/ Start(p)
    \/ Gate(p)
    \/ Launch(p)
    \/ LaunchFails(p)
    \/ UpdateFile(p)
    \/ Progress(p)
    \/ Kill(p)
    \/ Screen(p)

-----------------------------------------------------------------------------
(* Jobs                                                                    *)

LEMMA JobFacts ==
    ASSUME NEW j \in Job
    PROVE  /\ j.total \in 0 .. MaxFiles /\ j.next \in 1 .. MaxFiles + 1
           /\ j.stored \in Seq(1 .. MaxFiles) /\ Len(j.stored) \in Nat
           /\ DOMAIN j.stored = 1 .. Len(j.stored)
           /\ j.verdict \in {"done", "cancelled", "failed"}
BY DEF Job

LEMMA NoJobType == NoJob \in Job
BY InboxAssumption DEF NoJob, Job, Day, Text

LEMMA JobEdits ==
    ASSUME NEW j \in Job
    PROVE  /\ \A n \in 1 .. MaxFiles : [j EXCEPT !.total = n] \in Job
           /\ \A d \in Day : [j EXCEPT !.today = d] \in Job
           /\ \A v \in {"cancelled", "failed"} : [j EXCEPT !.verdict = v] \in Job
           /\ j.next <= MaxFiles =>
                [j EXCEPT !.stored = Append(@, j.next), !.next = @ + 1] \in Job
<1>1. j.next <= MaxFiles => Append(j.stored, j.next) \in Seq(1 .. MaxFiles)
  BY InboxAssumption DEF Job
<1>2. \A n \in 1 .. MaxFiles : [j EXCEPT !.total = n] \in Job
  BY DEF Job
<1>3. \A d \in Day : [j EXCEPT !.today = d] \in Job
  BY DEF Job
<1>4. \A v \in {"cancelled", "failed"} : [j EXCEPT !.verdict = v] \in Job
  BY DEF Job
<1>5. ASSUME j.next <= MaxFiles
      PROVE  [j EXCEPT !.stored = Append(@, j.next), !.next = @ + 1] \in Job
  <2>1. PICK k \in Job : k = [j EXCEPT !.stored = Append(@, j.next)]
    BY <1>1, <1>5 DEF Job
  <2>2. j.next + 1 \in 1 .. MaxFiles + 1
    BY <1>5, InboxAssumption DEF Job
  <2>3. [k EXCEPT !.next = j.next + 1] \in Job
    BY <2>2 DEF Job
  <2> QED
    BY <2>1, <2>3, Zenon
<1> QED
  BY <1>2, <1>3, <1>4, <1>5, Zenon

-----------------------------------------------------------------------------
(* Types, and what a step leaves alone                                     *)

LEMMA InboxInit == Init => InboxInv
<1> SUFFICES ASSUME Init PROVE InboxInv
  OBVIOUS
<1>1. TypeOK
  <2>1. job \in [Programs -> Job]
    BY NoJobType DEF Init
  <2>2. day \in Day /\ runs \in 0 .. MaxRuns
    BY InboxAssumption DEF Init, Day
  <2> QED
    BY <2>1, <2>2 DEF Init, TypeOK, PC, Text
<1>2. TrialOK
  BY DEF Init, TrialOK
<1>3. ASSUME NEW p \in Programs
      PROVE  StoredAt(p) /\ GateAt(p) /\ WindowAt(p)
  <2>1. /\ job[p].stored = <<>> /\ job[p].next = 1
        /\ pc[p] = "idle" /\ answer[p] = "none" /\ window[p] = "closed"
    BY DEF Init, NoJob
  <2> QED
    BY <2>1 DEF StoredAt, GateAt, WindowAt, AtGate, Delivering
<1> QED
  BY <1>1, <1>2, <1>3 DEF InboxInv

\* Every step keeps the types.
LEMMA StepType ==
    ASSUME TypeOK, \A q \in Programs : StoredAt(q), NEW p \in Programs, ProgramStep(p)
    PROVE  TypeOK'
<1>f. job[p] \in Job /\ pc[p] \in PC
  BY DEF TypeOK
<1>1. CASE Start(p)
  <2>1. job' \in [Programs -> Job]
    BY <1>1, NoJobType DEF Start, TypeOK
  <2> QED
    BY <2>1, <1>1, <1>f, InboxAssumption DEF Start, GoTo, TypeOK, PC, Delivering, Text
<1>2. CASE CheckLicense(p)
  BY <1>2 DEF CheckLicense, GoTo, TypeOK, PC, Delivering, Text, NoDate
<1>3. CASE CheckTrial(p)
  BY <1>3 DEF CheckTrial, GoTo, TypeOK, PC, Delivering, Text, NoDate
<1>4. CASE CheckDays(p)
  BY <1>4 DEF CheckDays, GoTo, TypeOK, PC, Delivering, Text, NoDate
<1>4r. CASE ReadDays(p)
  BY <1>4r DEF ReadDays, GoTo, InTrial, TypeOK, PC, Delivering, Text, NoDate
<1>5. CASE Choose(p)
  BY <1>5 DEF Choose, Finish, GoTo, TypeOK, PC, Delivering, Text, NoDate
<1>6. CASE CheckStart(p)
  <2>1. job' \in [Programs -> Job]
    BY <1>6, <1>f, JobEdits DEF CheckStart, TypeOK, Day
  <2> QED
    BY <2>1, <1>6, <1>f DEF CheckStart, GoTo, TypeOK, PC, Delivering, Text
<1>7. CASE StartedAlready(p)
  BY <1>7 DEF StartedAlready, Finish, GoTo, TypeOK, PC, Delivering, Text, NoDate
<1>8. CASE Truncate(p)
  BY <1>8 DEF Truncate, GoTo, TypeOK, PC, Delivering, Text, NoDate
<1>9. CASE WriteDate(p)
  <2>0. 0 \in Day
    BY InboxAssumption DEF Day
  <2>1. [job[p] EXCEPT !.today = 0] \in Job
    BY <2>0, <1>f, JobEdits
  <2>2. job' = [job EXCEPT ![p] = [job[p] EXCEPT !.today = 0]]
    BY <1>9 DEF WriteDate
  <2>3. job' \in [Programs -> Job]
    BY <2>1, <2>2 DEF TypeOK
  <2>4. job[p].today \in Day
    BY <1>f DEF Job
  <2> QED
    BY <2>3, <2>4, <1>9 DEF WriteDate, Finish, GoTo, TypeOK, PC, Delivering
<1>10. CASE CodeAccepted(p)
  BY <1>10 DEF CodeAccepted, GoTo, TypeOK, PC, Delivering, Text, NoDate
<1>11. CASE CodeRefused(p)
  BY <1>11 DEF CodeRefused, Finish, GoTo, TypeOK, PC, Delivering, Text, NoDate
<1>12. CASE GateRefused(p)
  BY <1>12 DEF GateRefused, Finish, GoTo, TypeOK, PC, Delivering, Text, NoDate
<1>13. CASE Launch(p)
  <2>1. PICK n \in 1 .. MaxFiles : job' = [job EXCEPT ![p] = [job[p] EXCEPT !.total = n]]
    BY <1>13 DEF Launch
  <2>2. [job[p] EXCEPT !.total = n] \in Job
    BY <1>f, JobEdits
  <2>3. job' \in [Programs -> Job]
    BY <2>1, <2>2 DEF TypeOK
  <2> QED
    BY <2>3, <1>13 DEF Launch, GoTo, TypeOK, PC, Delivering, Text
<1>14. CASE LaunchFails(p)
  BY <1>14 DEF LaunchFails, Finish, GoTo, TypeOK, PC, Delivering, Text, NoDate
<1>15. CASE UpdateFile(p)
  BY <1>15 DEF UpdateFile, Show, CanWrite, TypeOK, PC, Delivering, Text, NoDate
<1>16. CASE Check(p)
  <2>1. CASE Recognised(status[p])
    <3>1. job' = [job EXCEPT ![p] = [job[p] EXCEPT !.verdict = "cancelled"]]
      BY <1>16, <2>1 DEF Check
    <3>2. job' \in [Programs -> Job]
      BY <3>1, <1>f, JobEdits DEF TypeOK
    <3> QED
      BY <3>2, <2>1, <1>16 DEF Check, GoTo, TypeOK, PC, Delivering
  <2>2. CASE ~Recognised(status[p])
    BY <2>2, <1>16 DEF Check, GoTo, TypeOK, PC, Delivering
  <2> QED
    BY <2>1, <2>2
<1>17. CASE Update(p)
  BY <1>17, <1>f DEF Update, GoTo, Show, CanWrite, TypeOK, PC, Delivering, Text
<1>18. CASE UpdateRefused(p)
  <2>1. job' \in [Programs -> Job]
    BY <1>18, <1>f, JobEdits DEF UpdateRefused, Raise, TypeOK
  <2> QED
    BY <2>1, <1>18, <1>f
       DEF UpdateRefused, Raise, CanWrite, GoTo, TypeOK, PC, Delivering, Text
<1>19. CASE AppendRaises(p)
  <2>1. job' \in [Programs -> Job]
    BY <1>19, <1>f, JobEdits DEF AppendRaises, Raise, TypeOK
  <2> QED
    BY <2>1, <1>19, <1>f DEF AppendRaises, Raise, GoTo, TypeOK, PC, Delivering, Text
<1>20. CASE AppendReturns(p)
  <2>1. job[p].next <= MaxFiles
    BY <1>20, <1>f, JobFacts, InboxAssumption DEF AppendReturns, StoredAt
  <2>2. job' = [job EXCEPT ![p] = [job[p] EXCEPT !.stored = Append(@, job[p].next),
                                                 !.next = @ + 1]]
    BY <1>20 DEF AppendReturns
  <2>3. job' \in [Programs -> Job]
    BY <2>1, <2>2, <1>f, JobEdits DEF TypeOK
  <2> QED
    BY <2>3, <1>20 DEF AppendReturns, GoTo, TypeOK, PC, Delivering
<1>21. CASE Close(p)
  BY <1>21 DEF Close, GoTo, Show, CanWrite, TypeOK, PC, Delivering, Text, NoDate
<1>22. CASE CloseRefused(p)
  <2>1. job' \in [Programs -> Job]
    BY <1>22, <1>f, JobEdits DEF CloseRefused, Raise, TypeOK
  <2> QED
    BY <2>1, <1>22, <1>f
       DEF CloseRefused, Raise, CanWrite, GoTo, TypeOK, PC, Delivering, Text
<1>23. CASE CloseFails(p)
  BY <1>23 DEF CloseFails, Finish, CanWrite, GoTo, TypeOK, PC, Delivering, Text, NoDate
<1>24. CASE WaitEnds(p)
  BY <1>24, <1>f, JobFacts DEF WaitEnds, Finish, GoTo, TypeOK, PC, Delivering, Text
<1>25. CASE WaitTimesOut(p)
  BY <1>25, <1>f, JobFacts DEF WaitTimesOut, Finish, GoTo, TypeOK, PC, Delivering, Text
<1>26. CASE Kill(p)
  BY <1>26 DEF Kill, GoTo, TypeOK, PC, Delivering, Text, NoDate
<1>27. CASE Appear(p)
  BY <1>27 DEF Appear, TypeOK, PC, Delivering, Text, NoDate
<1>28. CASE TickReads(p)
  BY <1>28 DEF TickReads, TypeOK, PC, Delivering, Text, NoDate
<1>29. CASE TickEnds(p)
  BY <1>29 DEF TickEnds, Recognised, TypeOK, PC, Delivering, Text, NoDate
<1>30. CASE Click(p)
  BY <1>30 DEF Click, TypeOK, PC, Delivering, Text, NoDate
<1>31. CASE Dismiss(p)
  BY <1>31 DEF Dismiss, TypeOK, PC, Delivering, Text, NoDate
<1> QED
  BY <1>1, <1>2, <1>3, <1>4, <1>4r, <1>5, <1>6, <1>7, <1>8, <1>9, <1>10, <1>11, <1>12,
     <1>13, <1>14, <1>15, <1>16, <1>17, <1>18, <1>19, <1>20, <1>21, <1>22, <1>23,
     <1>24, <1>25, <1>26, <1>27, <1>28, <1>29, <1>30, <1>31
     DEF ProgramStep, Gate, Progress, Screen

\* A step of one program changes nothing of another one, and nothing takes back an
\* activation or the first date of a trial.
LEMMA StepOthers ==
    ASSUME TypeOK, NEW p \in Programs, ProgramStep(p)
    PROVE  /\ \A q \in Programs \ {p} :
                /\ pc'[q] = pc[q] /\ job'[q] = job[q] /\ answer'[q] = answer[q]
                /\ window'[q] = window[q] /\ orphaned'[q] = orphaned[q]
           /\ licensed => licensed'
           /\ first # NoDate => first' = first
<1>1. CASE Start(p)
  BY <1>1 DEF Start, GoTo, TypeOK
<1>2. CASE CheckLicense(p)
  BY <1>2 DEF CheckLicense, GoTo, TypeOK
<1>3. CASE CheckTrial(p)
  BY <1>3 DEF CheckTrial, GoTo, TypeOK
<1>4. CASE CheckDays(p)
  BY <1>4 DEF CheckDays, GoTo, TypeOK
<1>4r. CASE ReadDays(p)
  BY <1>4r DEF ReadDays, GoTo, InTrial, TypeOK
<1>5. CASE Choose(p)
  BY <1>5 DEF Choose, Finish, GoTo, TypeOK
<1>6. CASE CheckStart(p)
  BY <1>6 DEF CheckStart, GoTo, TypeOK
<1>7. CASE StartedAlready(p)
  BY <1>7 DEF StartedAlready, Finish, GoTo, TypeOK
<1>8. CASE Truncate(p)
  BY <1>8 DEF Truncate, GoTo, TypeOK
<1>9. CASE WriteDate(p)
  BY <1>9 DEF WriteDate, Finish, GoTo, TypeOK
<1>10. CASE CodeAccepted(p)
  BY <1>10 DEF CodeAccepted, GoTo, TypeOK
<1>11. CASE CodeRefused(p)
  BY <1>11 DEF CodeRefused, Finish, GoTo, TypeOK
<1>12. CASE GateRefused(p)
  BY <1>12 DEF GateRefused, Finish, GoTo, TypeOK
<1>13. CASE Launch(p)
  BY <1>13 DEF Launch, GoTo, TypeOK
<1>14. CASE LaunchFails(p)
  BY <1>14 DEF LaunchFails, Finish, GoTo, TypeOK
<1>15. CASE UpdateFile(p)
  BY <1>15 DEF UpdateFile, Show, CanWrite, TypeOK
<1>16. CASE Check(p)
  BY <1>16 DEF Check, GoTo, Recognised, TypeOK
<1>17. CASE Update(p)
  BY <1>17 DEF Update, GoTo, Show, CanWrite, TypeOK
<1>18. CASE UpdateRefused(p)
  BY <1>18 DEF UpdateRefused, Raise, CanWrite, GoTo, TypeOK
<1>19. CASE AppendRaises(p)
  BY <1>19 DEF AppendRaises, Raise, GoTo, TypeOK
<1>20. CASE AppendReturns(p)
  BY <1>20 DEF AppendReturns, GoTo, TypeOK
<1>21. CASE Close(p)
  BY <1>21 DEF Close, GoTo, Show, CanWrite, TypeOK
<1>22. CASE CloseRefused(p)
  BY <1>22 DEF CloseRefused, Raise, CanWrite, GoTo, TypeOK
<1>23. CASE CloseFails(p)
  BY <1>23 DEF CloseFails, Finish, CanWrite, GoTo, TypeOK
<1>24. CASE WaitEnds(p)
  BY <1>24 DEF WaitEnds, Finish, GoTo, TypeOK
<1>25. CASE WaitTimesOut(p)
  BY <1>25 DEF WaitTimesOut, Finish, GoTo, TypeOK
<1>26. CASE Kill(p)
  BY <1>26 DEF Kill, GoTo, TypeOK
<1>27. CASE Appear(p)
  BY <1>27 DEF Appear, TypeOK
<1>28. CASE TickReads(p)
  BY <1>28 DEF TickReads, TypeOK
<1>29. CASE TickEnds(p)
  BY <1>29 DEF TickEnds, Recognised, TypeOK
<1>30. CASE Click(p)
  BY <1>30 DEF Click, TypeOK
<1>31. CASE Dismiss(p)
  BY <1>31 DEF Dismiss, TypeOK
<1> QED
  BY <1>1, <1>2, <1>3, <1>4, <1>4r, <1>5, <1>6, <1>7, <1>8, <1>9, <1>10, <1>11, <1>12,
     <1>13, <1>14, <1>15, <1>16, <1>17, <1>18, <1>19, <1>20, <1>21, <1>22, <1>23,
     <1>24, <1>25, <1>26, <1>27, <1>28, <1>29, <1>30, <1>31
     DEF ProgramStep, Gate, Progress, Screen

-----------------------------------------------------------------------------
(* The order of the files                                                  *)

LEMMA StepStored ==
    ASSUME TypeOK, \A q \in Programs : StoredAt(q), NEW p \in Programs, ProgramStep(p)
    PROVE  \A q \in Programs : StoredAt(q)'
<1>f. /\ pc \in [Programs -> PC] /\ job \in [Programs -> Job] /\ job[p] \in Job
      /\ answer \in [Programs -> {"none", "trial", "refused", "done", "cancelled", "failed"}]
      /\ window \in [Programs -> {"closed", "starting", "open", "reading"}]
      /\ StoredAt(p)
  BY DEF TypeOK
<1>o. ASSUME NEW q \in Programs \ {p}
      PROVE  StoredAt(q)'
  BY StepOthers DEF StoredAt
<1>s. SUFFICES StoredAt(p)'
  BY <1>o
<1>1. CASE Start(p)
  BY <1>1, <1>f DEF Start, GoTo, StoredAt, AtGate, Delivering, PC, NoJob
<1>2. CASE CheckLicense(p)
  BY <1>2, <1>f DEF CheckLicense, GoTo, StoredAt, AtGate, Delivering, PC
<1>3. CASE CheckTrial(p)
  BY <1>3, <1>f DEF CheckTrial, GoTo, StoredAt, AtGate, Delivering, PC
<1>4. CASE CheckDays(p)
  BY <1>4, <1>f DEF CheckDays, GoTo, StoredAt, AtGate, Delivering, PC
<1>4r. CASE ReadDays(p)
  BY <1>4r, <1>f DEF ReadDays, GoTo, InTrial, StoredAt, AtGate, Delivering, PC
<1>5. CASE Choose(p)
  BY <1>5, <1>f DEF Choose, Finish, GoTo, StoredAt, AtGate, Delivering, PC
<1>6. CASE CheckStart(p)
  <2>1. /\ job'[p].stored = job[p].stored /\ job'[p].next = job[p].next
        /\ job'[p].total = job[p].total
        /\ job'[p].verdict = job[p].verdict
    BY <1>6, <1>f DEF CheckStart, Job
  <2> QED
    BY <2>1, <1>6, <1>f, JobFacts DEF CheckStart, GoTo, StoredAt, AtGate, Delivering, PC
<1>7. CASE StartedAlready(p)
  BY <1>7, <1>f DEF StartedAlready, Finish, GoTo, StoredAt, AtGate, Delivering, PC
<1>8. CASE Truncate(p)
  BY <1>8, <1>f DEF Truncate, GoTo, StoredAt, AtGate, Delivering, PC
<1>9. CASE WriteDate(p)
  <2>1. /\ job'[p].stored = job[p].stored /\ job'[p].next = job[p].next
        /\ job'[p].total = job[p].total
        /\ job'[p].verdict = job[p].verdict
    BY <1>9, <1>f DEF WriteDate, Job
  <2> QED
    BY <2>1, <1>9, <1>f, JobFacts
       DEF WriteDate, Finish, GoTo, StoredAt, AtGate, Delivering, PC
<1>10. CASE CodeAccepted(p)
  BY <1>10, <1>f DEF CodeAccepted, GoTo, StoredAt, AtGate, Delivering, PC
<1>11. CASE CodeRefused(p)
  BY <1>11, <1>f DEF CodeRefused, Finish, GoTo, StoredAt, AtGate, Delivering, PC
<1>12. CASE GateRefused(p)
  BY <1>12, <1>f DEF GateRefused, Finish, GoTo, StoredAt, AtGate, Delivering, PC
<1>13. CASE Launch(p)
  <2>1. /\ job'[p].stored = job[p].stored /\ job'[p].next = job[p].next
        /\ job'[p].total \in 1 .. MaxFiles
        /\ job'[p].verdict = job[p].verdict
    BY <1>13, <1>f DEF Launch, Job
  <2> QED
    BY <2>1, <1>13, <1>f, JobFacts DEF Launch, GoTo, StoredAt, AtGate, Delivering, PC
<1>14. CASE LaunchFails(p)
  BY <1>14, <1>f DEF LaunchFails, Finish, GoTo, StoredAt, AtGate, Delivering, PC
<1>15. CASE UpdateFile(p)
  BY <1>15, <1>f DEF UpdateFile, Show, CanWrite, StoredAt, AtGate, Delivering, PC
<1>16. CASE Check(p)
  <2>1. /\ job'[p].stored = job[p].stored /\ job'[p].next = job[p].next
        /\ job'[p].total = job[p].total
        /\ \/ pc'[p] = "finish" /\ job'[p].verdict = "cancelled"
           \/ pc'[p] = "update" /\ job'[p].verdict = job[p].verdict
    BY <1>16, <1>f DEF Check, GoTo, Recognised, Job
  <2>2. pc[p] = "check" /\ answer'[p] = answer[p]
    BY <1>16 DEF Check
  <2> QED
    BY <2>1, <2>2, <1>f, JobFacts DEF StoredAt, AtGate, Delivering, PC
<1>17. CASE Update(p)
  <2>1. /\ job'[p].stored = job[p].stored /\ job'[p].next = job[p].next
        /\ job'[p].total = job[p].total
        /\ job'[p].verdict = job[p].verdict
    BY <1>17, <1>f DEF Update, Job
  <2> QED
    BY <2>1, <1>17, <1>f, JobFacts
       DEF Update, GoTo, Show, CanWrite, StoredAt, AtGate, Delivering, PC
<1>18. CASE UpdateRefused(p)
  <2>1. /\ job'[p].stored = job[p].stored /\ job'[p].next = job[p].next
        /\ job'[p].total = job[p].total
        /\ job'[p].verdict = "failed"
    BY <1>18, <1>f DEF UpdateRefused, Raise, Job
  <2> QED
    BY <2>1, <1>18, <1>f, JobFacts
       DEF UpdateRefused, Raise, CanWrite, GoTo, StoredAt, AtGate, Delivering, PC
<1>19. CASE AppendRaises(p)
  <2>1. /\ job'[p].stored = job[p].stored /\ job'[p].next = job[p].next
        /\ job'[p].total = job[p].total
        /\ job'[p].verdict = "failed"
    BY <1>19, <1>f DEF AppendRaises, Raise, Job
  <2> QED
    BY <2>1, <1>19, <1>f, JobFacts
       DEF AppendRaises, Raise, GoTo, StoredAt, AtGate, Delivering, PC
<1>20. CASE AppendReturns(p)
  <2>1. /\ job'[p].stored = Append(job[p].stored, job[p].next)
        /\ job'[p].next = job[p].next + 1
        /\ job'[p].total = job[p].total /\ job'[p].verdict = job[p].verdict
    BY <1>20, <1>f DEF AppendReturns, Job
  <2>2. /\ Len(job'[p].stored) = job[p].next
        /\ DOMAIN job'[p].stored = 1 .. job[p].next
        /\ \A i \in 1 .. job[p].next : job'[p].stored[i] = i
    BY <2>1, <1>f, JobFacts DEF StoredAt
  <2> QED
    BY <2>1, <2>2, <1>20, <1>f, JobFacts
       DEF AppendReturns, GoTo, StoredAt, AtGate, Delivering, PC
<1>21. CASE Close(p)
  BY <1>21, <1>f DEF Close, GoTo, Show, CanWrite, StoredAt, AtGate, Delivering, PC
<1>22. CASE CloseRefused(p)
  <2>1. /\ job'[p].stored = job[p].stored /\ job'[p].next = job[p].next
        /\ job'[p].total = job[p].total
        /\ job'[p].verdict = "failed"
    BY <1>22, <1>f DEF CloseRefused, Raise, Job
  <2> QED
    BY <2>1, <1>22, <1>f, JobFacts
       DEF CloseRefused, Raise, CanWrite, GoTo, StoredAt, AtGate, Delivering, PC
<1>23. CASE CloseFails(p)
  BY <1>23, <1>f
     DEF CloseFails, Finish, CanWrite, GoTo, StoredAt, AtGate, Delivering, PC
<1>24. CASE WaitEnds(p)
  BY <1>24, <1>f DEF WaitEnds, Finish, GoTo, StoredAt, AtGate, Delivering, PC
<1>25. CASE WaitTimesOut(p)
  BY <1>25, <1>f DEF WaitTimesOut, Finish, GoTo, StoredAt, AtGate, Delivering, PC
<1>26. CASE Kill(p)
  BY <1>26, <1>f DEF Kill, GoTo, StoredAt, AtGate, Delivering, PC
<1>27. CASE Appear(p)
  BY <1>27, <1>f DEF Appear, StoredAt, AtGate, Delivering, PC
<1>28. CASE TickReads(p)
  BY <1>28, <1>f DEF TickReads, StoredAt, AtGate, Delivering, PC
<1>29. CASE TickEnds(p)
  BY <1>29, <1>f DEF TickEnds, Recognised, StoredAt, AtGate, Delivering, PC
<1>30. CASE Click(p)
  BY <1>30, <1>f DEF Click, StoredAt, AtGate, Delivering, PC
<1>31. CASE Dismiss(p)
  BY <1>31, <1>f DEF Dismiss, StoredAt, AtGate, Delivering, PC
<1> QED
  BY <1>1, <1>2, <1>3, <1>4, <1>4r, <1>5, <1>6, <1>7, <1>8, <1>9, <1>10, <1>11, <1>12,
     <1>13, <1>14, <1>15, <1>16, <1>17, <1>18, <1>19, <1>20, <1>21, <1>22, <1>23,
     <1>24, <1>25, <1>26, <1>27, <1>28, <1>29, <1>30, <1>31
     DEF ProgramStep, Gate, Progress, Screen

-----------------------------------------------------------------------------
(* The gate, the trial and the windows                                     *)

LEMMA StepGate ==
    ASSUME TypeOK, TrialOK, \A q \in Programs : StoredAt(q) /\ GateAt(q),
           NEW p \in Programs, ProgramStep(p)
    PROVE  \A q \in Programs : GateAt(q)'
<1>f. /\ pc \in [Programs -> PC] /\ job \in [Programs -> Job] /\ job[p] \in Job
      /\ StoredAt(p) /\ GateAt(p)
  BY DEF TypeOK
<1>o. ASSUME NEW q \in Programs \ {p}
      PROVE  GateAt(q)'
  BY StepOthers DEF GateAt
<1>m. (licensed => licensed') /\ (first # NoDate => first' # NoDate)
  BY StepOthers
<1>s. SUFFICES GateAt(p)'
  BY <1>o
<1>1. CASE Start(p)
  BY <1>1, <1>f, <1>m DEF Start, GoTo, GateAt, Delivering, NoJob
<1>2. CASE CheckLicense(p)
  BY <1>2, <1>f, <1>m DEF CheckLicense, GoTo, GateAt, Delivering
<1>3. CASE CheckTrial(p)
  BY <1>3, <1>f, <1>m DEF CheckTrial, GoTo, GateAt, Delivering, TrialOK
<1>4. CASE CheckDays(p)
  BY <1>4, <1>f, <1>m DEF CheckDays, GoTo, GateAt, Delivering
<1>4r. CASE ReadDays(p)
  BY <1>4r, <1>f, <1>m DEF ReadDays, GoTo, InTrial, GateAt, Delivering
<1>5. CASE Choose(p)
  BY <1>5, <1>f, <1>m DEF Choose, Finish, GoTo, GateAt, Delivering
<1>6. CASE CheckStart(p)
  <2>1. job'[p].stored = job[p].stored
    BY <1>6, <1>f DEF CheckStart, Job
  <2> QED
    BY <2>1, <1>6, <1>f, <1>m DEF CheckStart, GoTo, GateAt, Delivering
<1>7. CASE StartedAlready(p)
  BY <1>7, <1>f, <1>m DEF StartedAlready, Finish, GoTo, GateAt, Delivering
<1>8. CASE Truncate(p)
  BY <1>8, <1>f, <1>m DEF Truncate, GoTo, GateAt, Delivering
<1>9. CASE WriteDate(p)
  <2>1. job'[p].stored = job[p].stored
    BY <1>9, <1>f DEF WriteDate, Job
  <2> QED
    BY <2>1, <1>9, <1>f, <1>m DEF WriteDate, Finish, GoTo, GateAt, Delivering
<1>10. CASE CodeAccepted(p)
  BY <1>10, <1>f, <1>m DEF CodeAccepted, GoTo, GateAt, Delivering
<1>11. CASE CodeRefused(p)
  BY <1>11, <1>f, <1>m DEF CodeRefused, Finish, GoTo, GateAt, Delivering
<1>12. CASE GateRefused(p)
  BY <1>12, <1>f, <1>m DEF GateRefused, Finish, GoTo, GateAt, Delivering
<1>13. CASE Launch(p)
  <2>1. job'[p].stored = job[p].stored
    BY <1>13, <1>f DEF Launch, Job
  <2> QED
    BY <2>1, <1>13, <1>f, <1>m DEF Launch, GoTo, GateAt, Delivering
<1>14. CASE LaunchFails(p)
  BY <1>14, <1>f, <1>m DEF LaunchFails, Finish, GoTo, GateAt, Delivering
<1>15. CASE UpdateFile(p)
  BY <1>15, <1>f, <1>m DEF UpdateFile, Show, CanWrite, GateAt, Delivering
<1>16. CASE Check(p)
  <2>1. job'[p].stored = job[p].stored
    BY <1>16, <1>f DEF Check, Recognised, Job
  <2> QED
    BY <2>1, <1>16, <1>f, <1>m DEF Check, GoTo, Recognised, GateAt, Delivering
<1>17. CASE Update(p)
  <2>1. job'[p].stored = job[p].stored
    BY <1>17, <1>f DEF Update, Job
  <2> QED
    BY <2>1, <1>17, <1>f, <1>m DEF Update, GoTo, Show, CanWrite, GateAt, Delivering
<1>18. CASE UpdateRefused(p)
  <2>1. job'[p].stored = job[p].stored
    BY <1>18, <1>f DEF UpdateRefused, Raise, Job
  <2> QED
    BY <2>1, <1>18, <1>f, <1>m
       DEF UpdateRefused, Raise, CanWrite, GoTo, GateAt, Delivering
<1>19. CASE AppendRaises(p)
  <2>1. job'[p].stored = job[p].stored
    BY <1>19, <1>f DEF AppendRaises, Raise, Job
  <2> QED
    BY <2>1, <1>19, <1>f, <1>m DEF AppendRaises, Raise, GoTo, GateAt, Delivering
<1>20. CASE AppendReturns(p)
  BY <1>20, <1>f, <1>m DEF AppendReturns, GoTo, GateAt, Delivering
<1>21. CASE Close(p)
  BY <1>21, <1>f, <1>m DEF Close, GoTo, Show, CanWrite, GateAt, Delivering
<1>22. CASE CloseRefused(p)
  <2>1. job'[p].stored = job[p].stored
    BY <1>22, <1>f DEF CloseRefused, Raise, Job
  <2> QED
    BY <2>1, <1>22, <1>f, <1>m
       DEF CloseRefused, Raise, CanWrite, GoTo, GateAt, Delivering
<1>23. CASE CloseFails(p)
  BY <1>23, <1>f, <1>m DEF CloseFails, Finish, CanWrite, GoTo, GateAt, Delivering
<1>24. CASE WaitEnds(p)
  BY <1>24, <1>f, <1>m DEF WaitEnds, Finish, GoTo, GateAt, Delivering
<1>25. CASE WaitTimesOut(p)
  BY <1>25, <1>f, <1>m DEF WaitTimesOut, Finish, GoTo, GateAt, Delivering
<1>26. CASE Kill(p)
  BY <1>26, <1>f, <1>m DEF Kill, GoTo, GateAt, Delivering
<1>27. CASE Appear(p)
  BY <1>27, <1>f, <1>m DEF Appear, GateAt, Delivering
<1>28. CASE TickReads(p)
  BY <1>28, <1>f, <1>m DEF TickReads, GateAt, Delivering
<1>29. CASE TickEnds(p)
  BY <1>29, <1>f, <1>m DEF TickEnds, Recognised, GateAt, Delivering
<1>30. CASE Click(p)
  BY <1>30, <1>f, <1>m DEF Click, GateAt, Delivering
<1>31. CASE Dismiss(p)
  BY <1>31, <1>f, <1>m DEF Dismiss, GateAt, Delivering
<1> QED
  BY <1>1, <1>2, <1>3, <1>4, <1>4r, <1>5, <1>6, <1>7, <1>8, <1>9, <1>10, <1>11, <1>12,
     <1>13, <1>14, <1>15, <1>16, <1>17, <1>18, <1>19, <1>20, <1>21, <1>22, <1>23,
     <1>24, <1>25, <1>26, <1>27, <1>28, <1>29, <1>30, <1>31
     DEF ProgramStep, Gate, Progress, Screen

\* Every step keeps the date of the trial.
LEMMA StepTrial ==
    ASSUME TypeOK, TypeOK', TrialOK,
           NEW p \in Programs, ProgramStep(p)
    PROVE  TrialOK'
<1>1. CASE Start(p)
  BY <1>1 DEF Start, GoTo, TypeOK, TrialOK, NoDate, Day, Job
<1>2. CASE CheckLicense(p)
  BY <1>2 DEF CheckLicense, GoTo, TypeOK, TrialOK, NoDate, Day, Job
<1>3. CASE CheckTrial(p)
  BY <1>3 DEF CheckTrial, GoTo, TypeOK, TrialOK, NoDate, Day, Job
<1>4. CASE CheckDays(p)
  BY <1>4 DEF CheckDays, GoTo, TypeOK, TrialOK, NoDate, Day, Job
<1>4r. CASE ReadDays(p)
  BY <1>4r DEF ReadDays, GoTo, InTrial, TypeOK, TrialOK, NoDate, Day, Job
<1>5. CASE Choose(p)
  BY <1>5 DEF Choose, Finish, GoTo, TypeOK, TrialOK, NoDate, Day, Job
<1>6. CASE CheckStart(p)
  BY <1>6 DEF CheckStart, GoTo, TypeOK, TrialOK, NoDate, Day, Job
<1>7. CASE StartedAlready(p)
  BY <1>7 DEF StartedAlready, Finish, GoTo, TypeOK, TrialOK, NoDate, Day, Job
<1>8. CASE Truncate(p)
  BY <1>8 DEF Truncate, GoTo, TypeOK, TrialOK, NoDate, Day, Job
<1>9. CASE WriteDate(p)
  BY <1>9 DEF WriteDate, Finish, GoTo, TypeOK, TrialOK, NoDate, Day, Job
<1>10. CASE CodeAccepted(p)
  BY <1>10 DEF CodeAccepted, GoTo, TypeOK, TrialOK, NoDate, Day, Job
<1>11. CASE CodeRefused(p)
  BY <1>11 DEF CodeRefused, Finish, GoTo, TypeOK, TrialOK, NoDate, Day, Job
<1>12. CASE GateRefused(p)
  BY <1>12 DEF GateRefused, Finish, GoTo, TypeOK, TrialOK, NoDate, Day, Job
<1>13. CASE Launch(p)
  BY <1>13 DEF Launch, GoTo, TypeOK, TrialOK, NoDate, Day, Job
<1>14. CASE LaunchFails(p)
  BY <1>14 DEF LaunchFails, Finish, GoTo, TypeOK, TrialOK, NoDate, Day, Job
<1>15. CASE UpdateFile(p)
  BY <1>15 DEF UpdateFile, Show, CanWrite, TypeOK, TrialOK, NoDate, Day, Job
<1>16. CASE Check(p)
  <2>1. \A q \in Programs :
          pc'[q] \in {"truncate", "date"} => pc[q] \in {"truncate", "date"}
    BY <1>16 DEF Check, GoTo, TypeOK
  <2> QED
    BY <2>1, <1>16 DEF Check, TrialOK
<1>17. CASE Update(p)
  BY <1>17 DEF Update, GoTo, Show, CanWrite, TypeOK, TrialOK, NoDate, Day, Job
<1>18. CASE UpdateRefused(p)
  BY <1>18 DEF UpdateRefused, Raise, CanWrite, GoTo, TypeOK, TrialOK, NoDate, Day, Job
<1>19. CASE AppendRaises(p)
  BY <1>19 DEF AppendRaises, Raise, GoTo, TypeOK, TrialOK, NoDate, Day, Job
<1>20. CASE AppendReturns(p)
  BY <1>20 DEF AppendReturns, GoTo, TypeOK, TrialOK, NoDate, Day, Job
<1>21. CASE Close(p)
  BY <1>21 DEF Close, GoTo, Show, CanWrite, TypeOK, TrialOK, NoDate, Day, Job
<1>22. CASE CloseRefused(p)
  BY <1>22 DEF CloseRefused, Raise, CanWrite, GoTo, TypeOK, TrialOK, NoDate, Day, Job
<1>23. CASE CloseFails(p)
  BY <1>23 DEF CloseFails, Finish, CanWrite, GoTo, TypeOK, TrialOK, NoDate, Day, Job
<1>24. CASE WaitEnds(p)
  BY <1>24 DEF WaitEnds, Finish, GoTo, TypeOK, TrialOK, NoDate, Day, Job
<1>25. CASE WaitTimesOut(p)
  BY <1>25 DEF WaitTimesOut, Finish, GoTo, TypeOK, TrialOK, NoDate, Day, Job
<1>26. CASE Kill(p)
  BY <1>26 DEF Kill, GoTo, TypeOK, TrialOK, NoDate, Day, Job
<1>27. CASE Appear(p)
  BY <1>27 DEF Appear, TypeOK, TrialOK, NoDate, Day, Job
<1>28. CASE TickReads(p)
  BY <1>28 DEF TickReads, TypeOK, TrialOK, NoDate, Day, Job
<1>29. CASE TickEnds(p)
  BY <1>29 DEF TickEnds, Recognised, TypeOK, TrialOK, NoDate, Day, Job
<1>30. CASE Click(p)
  BY <1>30 DEF Click, TypeOK, TrialOK, NoDate, Day, Job
<1>31. CASE Dismiss(p)
  BY <1>31 DEF Dismiss, TypeOK, TrialOK, NoDate, Day, Job
<1> QED
  BY <1>1, <1>2, <1>3, <1>4, <1>4r, <1>5, <1>6, <1>7, <1>8, <1>9, <1>10, <1>11, <1>12,
     <1>13, <1>14, <1>15, <1>16, <1>17, <1>18, <1>19, <1>20, <1>21, <1>22, <1>23,
     <1>24, <1>25, <1>26, <1>27, <1>28, <1>29, <1>30, <1>31
     DEF ProgramStep, Gate, Progress, Screen

\* Every step keeps the windows.
LEMMA StepWindow ==
    ASSUME TypeOK, \A q \in Programs : WindowAt(q), NEW p \in Programs, ProgramStep(p)
    PROVE  \A q \in Programs : WindowAt(q)'
<1>f. /\ pc \in [Programs -> PC] /\ orphaned \in [Programs -> BOOLEAN]
      /\ window \in [Programs -> {"closed", "starting", "open", "reading"}]
      /\ WindowAt(p)
  BY DEF TypeOK
<1>o. ASSUME NEW q \in Programs \ {p}
      PROVE  WindowAt(q)'
  BY StepOthers DEF WindowAt
<1>s. SUFFICES WindowAt(p)'
  BY <1>o
<1>1. CASE Start(p)
  BY <1>1, <1>f DEF Start, GoTo, WindowAt, Delivering
<1>2. CASE CheckLicense(p)
  BY <1>2, <1>f DEF CheckLicense, GoTo, WindowAt, Delivering
<1>3. CASE CheckTrial(p)
  BY <1>3, <1>f DEF CheckTrial, GoTo, WindowAt, Delivering
<1>4. CASE CheckDays(p)
  BY <1>4, <1>f DEF CheckDays, GoTo, WindowAt, Delivering
<1>4r. CASE ReadDays(p)
  BY <1>4r, <1>f DEF ReadDays, GoTo, InTrial, WindowAt, Delivering
<1>5. CASE Choose(p)
  BY <1>5, <1>f DEF Choose, Finish, GoTo, WindowAt, Delivering
<1>6. CASE CheckStart(p)
  BY <1>6, <1>f DEF CheckStart, GoTo, WindowAt, Delivering
<1>7. CASE StartedAlready(p)
  BY <1>7, <1>f DEF StartedAlready, Finish, GoTo, WindowAt, Delivering
<1>8. CASE Truncate(p)
  BY <1>8, <1>f DEF Truncate, GoTo, WindowAt, Delivering
<1>9. CASE WriteDate(p)
  BY <1>9, <1>f DEF WriteDate, Finish, GoTo, WindowAt, Delivering
<1>10. CASE CodeAccepted(p)
  BY <1>10, <1>f DEF CodeAccepted, GoTo, WindowAt, Delivering
<1>11. CASE CodeRefused(p)
  BY <1>11, <1>f DEF CodeRefused, Finish, GoTo, WindowAt, Delivering
<1>12. CASE GateRefused(p)
  BY <1>12, <1>f DEF GateRefused, Finish, GoTo, WindowAt, Delivering
<1>13. CASE Launch(p)
  BY <1>13, <1>f DEF Launch, GoTo, WindowAt, Delivering
<1>14. CASE LaunchFails(p)
  BY <1>14, <1>f DEF LaunchFails, Finish, GoTo, WindowAt, Delivering
<1>15. CASE UpdateFile(p)
  BY <1>15, <1>f DEF UpdateFile, Show, CanWrite, WindowAt, Delivering
<1>16. CASE Check(p)
  BY <1>16, <1>f DEF Check, GoTo, Recognised, WindowAt, Delivering
<1>17. CASE Update(p)
  BY <1>17, <1>f DEF Update, GoTo, Show, CanWrite, WindowAt, Delivering
<1>18. CASE UpdateRefused(p)
  BY <1>18, <1>f DEF UpdateRefused, Raise, CanWrite, GoTo, WindowAt, Delivering
<1>19. CASE AppendRaises(p)
  BY <1>19, <1>f DEF AppendRaises, Raise, GoTo, WindowAt, Delivering
<1>20. CASE AppendReturns(p)
  BY <1>20, <1>f DEF AppendReturns, GoTo, WindowAt, Delivering
<1>21. CASE Close(p)
  BY <1>21, <1>f DEF Close, GoTo, Show, CanWrite, WindowAt, Delivering
<1>22. CASE CloseRefused(p)
  BY <1>22, <1>f DEF CloseRefused, Raise, CanWrite, GoTo, WindowAt, Delivering
<1>23. CASE CloseFails(p)
  BY <1>23, <1>f DEF CloseFails, Finish, CanWrite, GoTo, WindowAt, Delivering
<1>24. CASE WaitEnds(p)
  BY <1>24, <1>f DEF WaitEnds, Finish, GoTo, WindowAt, Delivering
<1>25. CASE WaitTimesOut(p)
  BY <1>25, <1>f DEF WaitTimesOut, Finish, GoTo, WindowAt, Delivering
<1>26. CASE Kill(p)
  BY <1>26, <1>f DEF Kill, GoTo, WindowAt, Delivering
<1>27. CASE Appear(p)
  BY <1>27, <1>f DEF Appear, WindowAt, Delivering
<1>28. CASE TickReads(p)
  BY <1>28, <1>f DEF TickReads, WindowAt, Delivering
<1>29. CASE TickEnds(p)
  BY <1>29, <1>f DEF TickEnds, Recognised, WindowAt, Delivering
<1>30. CASE Click(p)
  BY <1>30, <1>f DEF Click, WindowAt, Delivering
<1>31. CASE Dismiss(p)
  BY <1>31, <1>f DEF Dismiss, WindowAt, Delivering
<1> QED
  BY <1>1, <1>2, <1>3, <1>4, <1>4r, <1>5, <1>6, <1>7, <1>8, <1>9, <1>10, <1>11, <1>12,
     <1>13, <1>14, <1>15, <1>16, <1>17, <1>18, <1>19, <1>20, <1>21, <1>22, <1>23,
     <1>24, <1>25, <1>26, <1>27, <1>28, <1>29, <1>30, <1>31
     DEF ProgramStep, Gate, Progress, Screen

LEMMA InboxStep == InboxInv /\ [Next]_vars => InboxInv'
<1> SUFFICES ASSUME InboxInv, [Next]_vars
             PROVE  InboxInv'
  OBVIOUS
<1>1. ASSUME NEW p \in Programs, ProgramStep(p)
      PROVE  InboxInv'
  <2>1. TypeOK'
    BY <1>1, StepType DEF InboxInv
  <2>2. (\A q \in Programs : StoredAt(q)') /\ (\A q \in Programs : GateAt(q)')
    BY <1>1, <2>1, StepStored, StepGate DEF InboxInv
  <2>3. TrialOK' /\ (\A q \in Programs : WindowAt(q)')
    BY <1>1, <2>1, StepTrial, StepWindow DEF InboxInv
  <2> QED
    BY <2>1, <2>2, <2>3 DEF InboxInv
<1>2. CASE DayChanges
  BY <1>2 DEF DayChanges, InboxInv, TypeOK, TrialOK, StoredAt, GateAt, WindowAt
<1>3. CASE UNCHANGED vars
  BY <1>3 DEF vars, InboxInv, TypeOK, TrialOK, StoredAt, GateAt, WindowAt
<1> QED
  BY <1>1, <1>2, <1>3 DEF Next, ProgramStep

LEMMA AlwaysOrderly == Spec => []InboxInv
BY InboxInit, InboxStep, PTL DEF Spec

-----------------------------------------------------------------------------
(* The theorems                                                            *)

\* The drive, the programs and their windows keep their types.
THEOREM TypeCorrect == Spec => []TypeOK
<1>1. InboxInv => TypeOK
  BY DEF InboxInv
<1> QED
  BY <1>1, AlwaysOrderly, PTL

\* Whatever fails and whoever ends the program, the files chosen are stored in their
\* order without a gap, and all of them when the delivery is reported as done.
THEOREM FilesInOrder == Spec => []StoredInOrder
<1>1. InboxInv => StoredInOrder
  <2> SUFFICES ASSUME InboxInv, NEW p \in Programs
               PROVE  /\ \A i \in DOMAIN job[p].stored : job[p].stored[i] = i
                      /\ answer[p] = "done" => Len(job[p].stored) = job[p].total
    BY DEF StoredInOrder
  <2>1. StoredAt(p) /\ job[p] \in Job
    BY DEF InboxInv, TypeOK
  <2> QED
    BY <2>1, JobFacts DEF StoredAt
<1> QED
  BY <1>1, AlwaysOrderly, PTL

\* Nobody delivers on a drive that was neither activated nor has a trial begun.
THEOREM GateIsPassed == Spec => []GateHolds
<1>1. InboxInv => GateHolds
  BY DEF InboxInv, GateHolds, GateAt
<1> QED
  BY <1>1, AlwaysOrderly, PTL

\* A trial begins once, unless two programs write its date at the same moment.
THEOREM TrialBeginsOnce == Spec => []TrialKept
<1>1. InboxInv => TrialKept
  BY DEF InboxInv, TrialKept, TrialOK
<1> QED
  BY <1>1, AlwaysOrderly, PTL

\* A delivery that reports its end leaves no window.
THEOREM LeavesNoWindow == Spec => []WindowGone
<1>1. InboxInv => WindowGone
  BY DEF InboxInv, WindowGone, WindowAt, Delivering
<1> QED
  BY <1>1, AlwaysOrderly, PTL
=============================================================================
