------------------------------- MODULE Inbox -------------------------------
(***************************************************************************)
(* The delivery program (inbox.py) with its gate (activation.py): a drive  *)
(* that is not activated offers a trial of TrialDays days, and the files   *)
(* the user chooses are appended to the store one after the other.         *)
(*                                                                         *)
(* A progress window, a process of its own, shows the text of a status     *)
(* file that the program rewrites; its button writes the same file.  While *)
(* the window reads, the program cannot open the file for writing.         *)
(*                                                                         *)
(* An append either returns or raises: PigeonStore has what it does.       *)
(* first, raced and orphaned are history variables.                        *)
(***************************************************************************)
EXTENDS Integers, Sequences

CONSTANTS
    Programs,       \* running delivery programs
    TrialDays,      \* length of the trial
    MaxDay,         \* bound: the last day
    MaxFiles,       \* bound: files chosen at once
    MaxRuns         \* bound: programs started

ASSUME InboxAssumption ==
    /\ TrialDays \in Nat \ {0}
    /\ MaxDay \in Nat
    /\ MaxFiles \in Nat \ {0}
    /\ MaxRuns \in Nat

VARIABLES
    licensed,       \* the license file carries its code
    trial,          \* the date in the trial file
    day,            \* the date the clock shows
    pc,             \* where each program is
    job,            \* its locals
    status,         \* the text of its status file, up to the first tab
    window,         \* its progress window
    answer,         \* the message it ended with
    runs,           \* programs started
    first,          \* the first date written to the trial file
    raced,          \* two programs were about to write the trial file
    orphaned        \* it ended without telling its window

drive == <<licensed, trial, day, runs>>

screen == <<status, window>>

history == <<first, raced, orphaned>>

vars == <<drive, pc, job, screen, answer, history>>

-----------------------------------------------------------------------------

Day == 0 .. MaxDay

\* No file, or one that holds no date.
NoDate == -1

\* What the button writes: a byte order mark, the word and a line end.
ByButton == "BOM CANCEL CRLF"

\* No file, or nothing read from it.
Blank == "blank"

Text == {Blank, "RUN", "DONE", "ERROR", ByButton}

\* Files chosen, the one at hand, those whose append returned, the date it is about
\* to write and how it will end.
Job == [total : 0 .. MaxFiles, next : 1 .. MaxFiles + 1, stored : Seq(1 .. MaxFiles),
        today : Day, verdict : {"done", "cancelled", "failed"}]

NoJob == [total |-> 0, next |-> 1, stored |-> <<>>, today |-> 0, verdict |-> "done"]

\* Days remain; what is no date has none.
InTrial == trial # NoDate /\ day - trial < TrialDays

\* cancelled compares the text with the bare word.
Recognised(text) == text = "CANCEL"

GoTo(p, label) == pc' = [pc EXCEPT ![p] = label]

Finish(p, message) == GoTo(p, "idle") /\ answer' = [answer EXCEPT ![p] = message]

\* A write of the status file is refused while the window has it open.
CanWrite(p) == window[p] # "reading"

Show(p, text) ==
    /\ CanWrite(p)
    /\ status' = [status EXCEPT ![p] = text]
    /\ UNCHANGED window

\* The exception leaves the loop: close(failed=True) is next.
Raise(p) ==
    /\ job' = [job EXCEPT ![p].verdict = "failed"]
    /\ GoTo(p, "finish")

-----------------------------------------------------------------------------
(* Faults: forms the actions below must not have.  Each breaks a property. *)

\* The trial file is not looked at again after the dialog.
CheckStartBlind(p) ==
    /\ pc[p] = "start"
    /\ job' = [job EXCEPT ![p].today = day]
    /\ GoTo(p, "truncate")
    /\ raced' = (raced \/ \E q \in Programs : pc[q] \in {"truncate", "date"})
    /\ UNCHANGED <<drive, screen, answer, first, orphaned>>

\* A refused code is not the end.
CodeRefusedGoesOn(p) ==
    /\ pc[p] = "code"
    /\ GoTo(p, "keys")
    /\ UNCHANGED <<drive, job, screen, answer, history>>

\* After a file that failed the next one is tried.
AppendRaisesSkips(p) ==
    /\ pc[p] = "append"
    /\ job' = [job EXCEPT ![p].next = @ + 1]
    /\ GoTo(p, IF job[p].next = job[p].total THEN "finish" ELSE "check")
    /\ UNCHANGED <<drive, screen, answer, history>>

\* The loop runs once too often.
AppendReturnsOnceMore(p) ==
    /\ pc[p] = "append"
    /\ job' = [job EXCEPT ![p].stored = Append(@, job[p].next), ![p].next = @ + 1]
    /\ GoTo(p, IF job[p].next > job[p].total THEN "finish" ELSE "check")
    /\ UNCHANGED <<drive, screen, answer, history>>

\* The window is not ended when it does not answer in time.
WaitTimesOutOnly(p) ==
    /\ pc[p] = "wait"
    /\ window[p] # "closed"
    /\ Finish(p, job[p].verdict)
    /\ status' = [status EXCEPT ![p] = Blank]
    /\ UNCHANGED <<drive, job, window, history>>

\* The window is waited for without a limit.
WaitTimesOutNever(p) ==
    /\ pc[p] = "wait"
    /\ window[p] = "closed"
    /\ Finish(p, job[p].verdict)
    /\ UNCHANGED <<drive, job, screen, history>>

-----------------------------------------------------------------------------
(* The gate                                                                *)

Init ==
    /\ licensed = FALSE
    /\ trial = NoDate
    /\ day = 0
    /\ pc = [p \in Programs |-> "idle"]
    /\ job = [p \in Programs |-> NoJob]
    /\ status = [p \in Programs |-> Blank]
    /\ window = [p \in Programs |-> "closed"]
    /\ answer = [p \in Programs |-> "none"]
    /\ runs = 0
    /\ first = NoDate
    /\ raced = FALSE
    /\ orphaned = [p \in Programs |-> FALSE]

\* A new program has a status file and a window of its own.
Start(p) ==
    /\ pc[p] = "idle"
    /\ runs < MaxRuns
    /\ runs' = runs + 1
    /\ job' = [job EXCEPT ![p] = NoJob]
    /\ status' = [status EXCEPT ![p] = Blank]
    /\ window' = [window EXCEPT ![p] = "closed"]
    /\ answer' = [answer EXCEPT ![p] = "none"]
    /\ orphaned' = [orphaned EXCEPT ![p] = FALSE]
    /\ GoTo(p, "license")
    /\ UNCHANGED <<licensed, trial, day, first, raced>>

\* is_activated.
CheckLicense(p) ==
    /\ pc[p] = "license"
    /\ GoTo(p, IF licensed THEN "keys" ELSE "trial")
    /\ UNCHANGED <<drive, job, screen, answer, history>>

\* trial_started.
CheckTrial(p) ==
    /\ pc[p] = "trial"
    /\ GoTo(p, IF trial = NoDate THEN "offer" ELSE "days")
    /\ UNCHANGED <<drive, job, screen, answer, history>>

\* days_remaining looks at the file once more: without a date all days remain.
CheckDays(p) ==
    /\ pc[p] = "days"
    /\ GoTo(p, IF trial = NoDate THEN "keys" ELSE "left")
    /\ UNCHANGED <<drive, job, screen, answer, history>>

\* With one, it reads the file a third time.
ReadDays(p) ==
    /\ pc[p] = "left"
    /\ GoTo(p, IF InTrial THEN "keys" ELSE "code")
    /\ UNCHANGED <<drive, job, screen, answer, history>>

\* The user chooses the trial, chooses to activate, or closes the dialog.
Choose(p) ==
    /\ pc[p] = "offer"
    /\ \/ GoTo(p, "start") /\ UNCHANGED answer
       \/ GoTo(p, "code") /\ UNCHANGED answer
       \/ Finish(p, "none")
    /\ UNCHANGED <<drive, job, screen, history>>

\* start_trial looks at the file again and takes the date ...
CheckStart(p) ==
    /\ pc[p] = "start"
    /\ trial = NoDate
    /\ job' = [job EXCEPT ![p].today = day]
    /\ GoTo(p, "truncate")
    /\ raced' = (raced \/ \E q \in Programs : pc[q] \in {"truncate", "date"})
    /\ UNCHANGED <<drive, screen, answer, first, orphaned>>

\* ... or finds that the trial has been started.
StartedAlready(p) ==
    /\ pc[p] = "start"
    /\ trial # NoDate
    /\ Finish(p, "trial")
    /\ UNCHANGED <<drive, job, screen, history>>

\* Opening the file empties it.
Truncate(p) ==
    /\ pc[p] = "truncate"
    /\ trial' = NoDate
    /\ GoTo(p, "date")
    /\ UNCHANGED <<licensed, day, runs, job, screen, answer, history>>

\* This run ends here: the next one delivers.
WriteDate(p) ==
    /\ pc[p] = "date"
    /\ trial' = job[p].today
    /\ job' = [job EXCEPT ![p].today = 0]
    /\ first' = IF first = NoDate THEN job[p].today ELSE first
    /\ Finish(p, "trial")
    /\ UNCHANGED <<licensed, day, runs, screen, raced, orphaned>>

\* verify_and_save: the right code is written behind the license, in place.
CodeAccepted(p) ==
    /\ pc[p] = "code"
    /\ licensed' = TRUE
    /\ GoTo(p, "keys")
    /\ UNCHANGED <<trial, day, runs, job, screen, answer, history>>

\* The code is wrong or cannot be saved, or none is entered.
CodeRefused(p) ==
    /\ pc[p] = "code"
    /\ Finish(p, "refused")
    /\ UNCHANGED <<drive, job, screen, history>>

\* The keys cannot be read or are not those of the license, inspect_store raises, or
\* no file is chosen.
GateRefused(p) ==
    /\ pc[p] = "keys"
    /\ Finish(p, "refused")
    /\ UNCHANGED <<drive, job, screen, history>>

-----------------------------------------------------------------------------
(* The delivery                                                            *)

\* Files are chosen; the status file is written and the window started.
Launch(p) ==
    /\ pc[p] = "keys"
    /\ \E n \in 1 .. MaxFiles : job' = [job EXCEPT ![p].total = n]
    /\ status' = [status EXCEPT ![p] = "RUN"]
    /\ window' = [window EXCEPT ![p] = "starting"]
    /\ GoTo(p, "check")
    /\ UNCHANGED <<drive, answer, history>>

\* The window cannot be started: the exception ends the program.
LaunchFails(p) ==
    /\ pc[p] = "keys"
    /\ Finish(p, "failed")
    /\ UNCHANGED <<drive, job, screen, history>>

Check(p) ==
    /\ pc[p] = "check"
    /\ IF Recognised(status[p])
       THEN job' = [job EXCEPT ![p].verdict = "cancelled"] /\ GoTo(p, "finish")
       ELSE job' = job /\ GoTo(p, "update")
    /\ UNCHANGED <<drive, screen, answer, history>>

Update(p) ==
    /\ pc[p] = "update"
    /\ Show(p, "RUN")
    /\ GoTo(p, "append")
    /\ UNCHANGED <<drive, job, answer, history>>

\* append_file calls update_file after every chunk.
UpdateFile(p) ==
    /\ pc[p] = "append"
    /\ Show(p, "RUN")
    /\ UNCHANGED <<drive, pc, job, answer, history>>

UpdateRefused(p) ==
    /\ pc[p] \in {"update", "append"}
    /\ ~CanWrite(p)
    /\ Raise(p)
    /\ UNCHANGED <<drive, screen, answer, history>>

AppendRaises(p) ==
    /\ pc[p] = "append"
    /\ Raise(p)
    /\ UNCHANGED <<drive, screen, answer, history>>

AppendReturns(p) ==
    /\ pc[p] = "append"
    /\ job' = [job EXCEPT ![p].stored = Append(@, job[p].next), ![p].next = @ + 1]
    /\ GoTo(p, IF job[p].next = job[p].total THEN "finish" ELSE "check")
    /\ UNCHANGED <<drive, screen, answer, history>>

\* close writes the last text.
Close(p) ==
    /\ pc[p] = "finish"
    /\ Show(p, IF job[p].verdict = "failed" THEN "ERROR" ELSE "DONE")
    /\ GoTo(p, "wait")
    /\ UNCHANGED <<drive, job, answer, history>>

\* It cannot: an exception like any other, which calls close once more.
CloseRefused(p) ==
    /\ pc[p] = "finish"
    /\ job[p].verdict # "failed"
    /\ ~CanWrite(p)
    /\ Raise(p)
    /\ UNCHANGED <<drive, screen, answer, history>>

\* That one cannot either: the exception ends the program.
CloseFails(p) ==
    /\ pc[p] = "finish"
    /\ job[p].verdict = "failed"
    /\ ~CanWrite(p)
    /\ Finish(p, "failed")
    /\ orphaned' = [orphaned EXCEPT ![p] = TRUE]
    /\ UNCHANGED <<drive, job, screen, first, raced>>

\* The window has gone; its file is deleted.
WaitEnds(p) ==
    /\ pc[p] = "wait"
    /\ window[p] = "closed"
    /\ Finish(p, job[p].verdict)
    /\ status' = [status EXCEPT ![p] = Blank]
    /\ UNCHANGED <<drive, job, window, history>>

\* It is ended after three seconds.
WaitTimesOut(p) ==
    /\ pc[p] = "wait"
    /\ window[p] # "closed"
    /\ window' = [window EXCEPT ![p] = "closed"]
    /\ Finish(p, job[p].verdict)
    /\ status' = [status EXCEPT ![p] = Blank]
    /\ UNCHANGED <<drive, job, history>>

\* The program is ended.
Kill(p) ==
    /\ pc[p] # "idle"
    /\ GoTo(p, "idle")
    /\ orphaned' = [orphaned EXCEPT ![p] = TRUE]
    /\ UNCHANGED <<drive, job, screen, answer, first, raced>>

-----------------------------------------------------------------------------
(* The window, its button and the clock                                    *)

Appear(p) ==
    /\ window[p] = "starting"
    /\ window' = [window EXCEPT ![p] = "open"]
    /\ UNCHANGED <<drive, pc, job, status, answer, history>>

\* The timer of the window reads the status file ...
TickReads(p) ==
    /\ window[p] = "open"
    /\ status[p] # Blank
    /\ window' = [window EXCEPT ![p] = "reading"]
    /\ UNCHANGED <<drive, pc, job, status, answer, history>>

\* ... and closes the window at the last text.  What the button wrote is neither the
\* bare word nor has it six parts.
TickEnds(p) ==
    /\ window[p] = "reading"
    /\ window' = [window EXCEPT ![p] =
                    IF status[p] \in {"DONE", "ERROR"} \/ Recognised(status[p])
                    THEN "closed" ELSE "open"]
    /\ UNCHANGED <<drive, pc, job, status, answer, history>>

\* The button "cancel the delivery".
Click(p) ==
    /\ window[p] = "open"
    /\ status' = [status EXCEPT ![p] = ByButton]
    /\ UNCHANGED <<drive, pc, job, window, answer, history>>

\* The window is closed, or never comes up.
Dismiss(p) ==
    /\ window[p] # "closed"
    /\ window' = [window EXCEPT ![p] = "closed"]
    /\ UNCHANGED <<drive, pc, job, status, answer, history>>

DayChanges ==
    /\ day' \in Day \ {day}
    /\ UNCHANGED <<licensed, trial, runs, pc, job, screen, answer, history>>

Gate(p) ==
    \/ CheckLicense(p)
    \/ CheckTrial(p)
    \/ CheckDays(p)
    \/ ReadDays(p)
    \/ Choose(p)
    \/ CheckStart(p)
    \/ StartedAlready(p)
    \/ Truncate(p)
    \/ WriteDate(p)
    \/ CodeAccepted(p)
    \/ CodeRefused(p)
    \/ GateRefused(p)

\* What a delivery does when it is scheduled.
Progress(p) ==
    \/ Check(p)
    \/ Update(p)
    \/ UpdateRefused(p)
    \/ AppendRaises(p)
    \/ AppendReturns(p)
    \/ Close(p)
    \/ CloseRefused(p)
    \/ CloseFails(p)
    \/ WaitEnds(p)
    \/ WaitTimesOut(p)

Screen(p) ==
    \/ Appear(p)
    \/ TickReads(p)
    \/ TickEnds(p)
    \/ Click(p)
    \/ Dismiss(p)

Next ==
    \/ \E p \in Programs :
        \/ Start(p)
        \/ Gate(p)
        \/ Launch(p)
        \/ LaunchFails(p)
        \/ UpdateFile(p)
        \/ Progress(p)
        \/ Kill(p)
        \/ Screen(p)
    \/ DayChanges

Spec == Init /\ [][Next]_vars

\* A program that is scheduled goes on with its delivery and a source file has an end,
\* so an append returns or raises (AppendsEnd of PigeonStore).  Nothing is assumed of
\* the window, and nothing makes a user answer a dialog.
FairSpec == Spec /\ \A p \in Programs : WF_vars(Progress(p))

-----------------------------------------------------------------------------
(* Properties                                                              *)

Delivering == {"check", "update", "append", "finish", "wait"}

PC == Delivering \cup {"idle", "license", "trial", "days", "left", "offer",
                       "start", "truncate", "date", "code", "keys"}

TypeOK ==
    /\ licensed \in BOOLEAN
    /\ trial \in Day \cup {NoDate}
    /\ day \in Day
    /\ pc \in [Programs -> PC]
    /\ job \in [Programs -> Job]
    /\ status \in [Programs -> Text]
    /\ window \in [Programs -> {"closed", "starting", "open", "reading"}]
    /\ answer \in [Programs -> {"none", "trial", "refused", "done", "cancelled", "failed"}]
    /\ runs \in 0 .. MaxRuns
    /\ first \in Day \cup {NoDate}
    /\ raced \in BOOLEAN
    /\ orphaned \in [Programs -> BOOLEAN]

\* The files are stored in the order chosen, without a gap, and all of them when the
\* delivery is reported as done.
StoredInOrder ==
    \A p \in Programs :
        /\ \A i \in DOMAIN job[p].stored : job[p].stored[i] = i
        /\ answer[p] = "done" => Len(job[p].stored) = job[p].total

\* Nothing is delivered on a drive that was neither activated nor has a trial begun on
\* it, however many programs go through the gate together.
GateHolds ==
    \A p \in Programs :
        pc[p] \in Delivering \/ job[p].stored # <<>> => licensed \/ first # NoDate

\* A trial that has begun is not begun again, by whatever dialog was left open,
\* unless two programs are writing its first date at the same moment.
TrialKept == ~raced /\ first # NoDate => trial = first

\* When a delivery has been reported its window is gone, unless the program was ended
\* or could not write its last text.
WindowGone ==
    \A p \in Programs :
        pc[p] = "idle" /\ answer[p] \in {"done", "cancelled", "failed"} /\ ~orphaned[p] =>
            window[p] = "closed"

\* Every delivery comes to an end, whatever its window does.
DeliveriesEnd == \A p \in Programs : pc[p] \in Delivering ~> pc[p] = "idle"
=============================================================================
