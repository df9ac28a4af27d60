-------------------------- MODULE AgentTeamsProofs -------------------------
(***************************************************************************)
(* Proofs about AgentTeams, for any number of programs and any values.     *)
(*                                                                         *)
(* TeamsInv says where the files and the note are at every point of a      *)
(* switch that nobody disturbs, and where the value of the user is: in the *)
(* flag or the note, or, after an undo that failed, in a backup.           *)
(***************************************************************************)
EXTENDS AgentTeams, TLAPS

\* What a program that switches off puts back was read from a note that has it.
TeamsType == TypeOK /\ \A d \in Docks : job[d].owned => job[d].original # "empty"

\* One program switches at a time.
Alone == \A d, e \in Docks : d # e => pc[d] = "idle" \/ pc[e] = "idle"

NoteWhole == registry.managed => registry.original # "empty"

\* When the flag has the Manager's value, the note has the user's.
NoteOK ==
    /\ FlagAccounted
    /\ registry.managed /\ settings = "one" => registry.original = own

\* The files, at every point of a switch.
FilesAt(d) ==
    LET j == job[d]
    IN  /\ pc[d] \in {"mark", "own", "prepare", "settings"} => settings = j.settings
        /\ pc[d] \in {"rules", "restore"} => settings = NewSettings(j)
        /\ pc[d] \in Switching => rules = j.rules
        /\ pc[d] \in {"settings", "rules", "restore"} => j.backup = j.settings
        /\ pc[d] \in {"settings", "rules", "restore"} /\ BacksUp(j) => j.settings \in backups
        /\ pc[d] = "restore" => NewSettings(j) # j.settings

\* The note, at every point of a switch.
NoteAt(d) ==
    LET j == job[d]
    IN  /\ pc[d] # "idle" => ~(j.enable /\ j.owned)
        /\ pc[d] \in {"mark", "own"} => j.enable
        /\ pc[d] \in {"asked", "mark", "own"} => (registry.managed <=> j.owned)
        /\ pc[d] = "own" => registry.original # "empty"
        /\ pc[d] \in {"prepare", "settings", "rules", "restore", "moved", "failed", "unrestored"} =>
            (registry.managed <=> j.owned \/ j.enable)
        /\ j.owned /\ pc[d] \in {"asked", "prepare", "settings", "rules", "restore", "moved"} =>
            j.original = registry.original
        /\ pc[d] = "clear" => ~registry.managed

\* The value of the user, at every point of a switch.
OwnAt(d) ==
    LET j == job[d]
    IN  /\ pc[d] = "own" => registry.original = own
        /\ j.enable /\ pc[d] \in {"prepare", "settings", "rules", "restore"} =>
            registry.original = own
        /\ j.enable /\ pc[d] \in Switching => Flag(j.settings) = own
        /\ j.enable /\ pc[d] \in {"failed", "unrestored"} => Flag(settings) = own
        /\ ~j.enable /\ j.owned /\ pc[d] = "moved" => Flag(settings) = own
        /\ pc[d] = "unmark" => Flag(settings) = own

AtOK(d) == FilesAt(d) /\ NoteAt(d)

\* Where the value of the user is.
ValueOK == IF stranded THEN FlagBackedUp ELSE NoteOK /\ \A d \in Docks : OwnAt(d)

TeamsInv ==
    /\ TeamsType
    /\ ~disturbed => Alone /\ NoteWhole /\ ValueOK /\ \A d \in Docks : AtOK(d)

-----------------------------------------------------------------------------

\* What may be put back is a flag, and has a value of its own.
LEMMA FlagFacts ==
    /\ \A o \in Original : o # "empty" => o \in Settings /\ Flag(o) = o
    /\ \A s \in Settings : s # "broken" => Flag(s) \in Original /\ Flag(s) # "empty"
    /\ \A s \in Settings : Flag(s) \in Settings /\ Flag(Flag(s)) = Flag(s)
BY TeamsAssumption DEF Original, Settings, Flag

LEMMA NewFacts ==
    ASSUME NEW j \in Job, j.owned => j.original # "empty"
    PROVE  NewSettings(j) \in Settings /\ NewRules(j) \in Rules
BY FlagFacts DEF NewSettings, NewRules, Job, Settings, Rules

LEMMA TeamsInit == Init => TeamsInv
<1> SUFFICES ASSUME Init PROVE TeamsInv
  OBVIOUS
<1>1. NoJob \in Job /\ ~NoJob.owned
  BY DEF NoJob, Job, Original, Settings, Rules
<1>2. TeamsType
  <2>1. registry \in Registry /\ pc \in [Docks -> PC] /\ job \in [Docks -> Job]
    BY <1>1 DEF Init, Registry, Original, PC
  <2>2. own \in Settings /\ edits \in 0 .. MaxEdits
    BY FlagFacts, TeamsAssumption DEF Init
  <2> QED
    BY <1>1, <2>1, <2>2 DEF TeamsType, TypeOK, Init
<1>3. Alone /\ NoteWhole /\ ValueOK /\ \A d \in Docks : AtOK(d)
  BY DEF Init, Alone, NoteWhole, ValueOK, NoteOK, FlagAccounted, AtOK, FilesAt, NoteAt, OwnAt, Switching
<1> QED
  BY <1>2, <1>3 DEF TeamsInv

LEMMA StepType == TeamsType /\ [Next]_vars => TeamsType'
<1> SUFFICES ASSUME TeamsType, [Next]_vars PROVE TeamsType'
  OBVIOUS
<1> USE DEF TeamsType, TypeOK
<1>1. ASSUME NEW d \in Docks, Click(d) PROVE TeamsType'
  <2> DEFINE j == [NoJob EXCEPT !.enable = ~(registry.managed \/ Full),
                                !.owned = registry.managed,
                                !.original = registry.original]
  <2>1. j \in Job /\ (j.owned => j.original # "empty")
    BY <1>1 DEF Click, NoJob, Job, Registry, Original, Settings, Rules
  <2>2. job' = [job EXCEPT ![d] = j]
    BY <1>1 DEF Click
  <2> HIDE DEF j
  <2> QED
    BY <1>1, <2>1, <2>2 DEF Click, GoTo, PC, files
<1>2. ASSUME NEW d \in Docks, Decline(d) PROVE TeamsType'
  BY <1>2, FlagFacts, NewFacts DEF Decline, GoTo, PC, Switching, files, history
<1>3. ASSUME NEW d \in Docks, Confirm(d) PROVE TeamsType'
  <2> DEFINE j == [job[d] EXCEPT !.settings = settings, !.rules = rules]
  <2>1. j \in Job /\ (j.owned => j.original # "empty")
    BY <1>3 DEF Confirm, Job
  <2>2. job' = [job EXCEPT ![d] = j]
    BY <1>3 DEF Confirm
  <2> HIDE DEF j
  <2> QED
    BY <1>3, <2>1, <2>2 DEF Confirm, GoTo, PC, Switching, files, history
<1>4. ASSUME NEW d \in Docks, StoreOriginal(d) PROVE TeamsType'
  BY <1>4, FlagFacts, NewFacts DEF StoreOriginal, GoTo, Registry, Original, Job, PC, Switching, files, history
<1>5. ASSUME NEW d \in Docks, StoreMarker(d) PROVE TeamsType'
  BY <1>5, FlagFacts, NewFacts DEF StoreMarker, GoTo, Registry, Original, PC, Switching, files, history
<1>6. ASSUME NEW d \in Docks, StoreFails(d) PROVE TeamsType'
  BY <1>6, FlagFacts, NewFacts DEF StoreFails, GoTo, PC, Switching, files, history
<1>7. ASSUME NEW d \in Docks, Prepare(d) PROVE TeamsType'
  BY <1>7, FlagFacts, NewFacts DEF Prepare, GoTo, Job, NoJob, Registry, PC, Switching, files, history
<1>8. ASSUME NEW d \in Docks, PrepareFails(d) PROVE TeamsType'
  BY <1>8, FlagFacts, NewFacts DEF PrepareFails, GoTo, PC, Switching, files, history
<1>9. ASSUME NEW d \in Docks, MoveSettings(d) PROVE TeamsType'
  BY <1>9, FlagFacts, NewFacts DEF MoveSettings, GoTo, PC, Switching, files, history
<1>10. ASSUME NEW d \in Docks, MoveRules(d) PROVE TeamsType'
  BY <1>10, FlagFacts, NewFacts DEF MoveRules, GoTo, PC, Switching, files, history
<1>11. ASSUME NEW d \in Docks, RulesFail(d) PROVE TeamsType'
  BY <1>11, FlagFacts, NewFacts DEF RulesFail, GoTo, PC, Switching, files, history
<1>12. ASSUME NEW d \in Docks, Restore(d) PROVE TeamsType'
  BY <1>12, FlagFacts, NewFacts DEF Restore, GoTo, Job, NoJob, Registry, PC, Switching, files, history
<1>13. ASSUME NEW d \in Docks, RestoreFails(d) PROVE TeamsType'
  BY <1>13 DEF RestoreFails, Torn, GoTo, Job, Settings, PC, Switching, files, history
<1>22. ASSUME NEW d \in Docks, RestoreEnds(d) PROVE TeamsType'
  BY <1>22 DEF RestoreEnds, Torn, GoTo, Settings, PC, Switching, files, history
<1>14. ASSUME NEW d \in Docks, EndMoved(d) PROVE TeamsType'
  BY <1>14, FlagFacts, NewFacts DEF EndMoved, GoTo, PC, Switching, files, history
<1>15. ASSUME NEW d \in Docks, EndFailed(d) PROVE TeamsType'
  BY <1>15, FlagFacts, NewFacts DEF EndFailed, GoTo, PC, Switching, files, history
<1>16. ASSUME NEW d \in Docks, ClearMarker(d) PROVE TeamsType'
  BY <1>16, FlagFacts, NewFacts DEF ClearMarker, GoTo, Registry, Original, PC, Switching, files, history
<1>17. ASSUME NEW d \in Docks, ClearOriginal(d) PROVE TeamsType'
  BY <1>17, FlagFacts, NewFacts DEF ClearOriginal, GoTo, Registry, Original, PC, Switching, files, history
<1>18. ASSUME NEW d \in Docks, Stop(d) PROVE TeamsType'
  BY <1>18, FlagFacts, NewFacts DEF Stop, GoTo, PC, Switching, files, history
<1>19. ASSUME EditSettings PROVE TeamsType'
  <2>1. settings' \in Settings /\ own' \in Settings /\ edits' \in 0 .. MaxEdits
    BY <1>19, FlagFacts, TeamsAssumption DEF EditSettings
  <2>2. disturbed' \in BOOLEAN /\ stranded' \in BOOLEAN
    BY <1>19 DEF EditSettings
  <2>3. UNCHANGED <<rules, backups, registry, pc, job>>
    BY <1>19 DEF EditSettings
  <2> QED
    BY <2>1, <2>2, <2>3
<1>20. ASSUME EditRules PROVE TeamsType'
  BY <1>20, FlagFacts, TeamsAssumption DEF EditRules
<1>21. CASE UNCHANGED vars
  BY <1>21 DEF vars, files, history
<1> QED
  BY <1>1, <1>2, <1>3, <1>4, <1>5, <1>6, <1>7, <1>8, <1>9, <1>10, <1>11, <1>12, <1>13, <1>14, <1>15, <1>16, <1>17, <1>18, <1>19, <1>20, <1>21, <1>22 DEF Next, DockStep

-----------------------------------------------------------------------------

\* While nothing is disturbed, a step of one program finds the others idle, and leaves
\* them idle.
LEMMA OthersIdle ==
    ASSUME TeamsInv, NEW d \in Docks, DockStep(d), ~disturbed'
    PROVE  ~disturbed /\ \A e \in Docks \ {d} : pc[e] = "idle" /\ pc'[e] = "idle"
<1>1. ~disturbed
  BY DEF DockStep, Click, Decline, Confirm, StoreOriginal, StoreMarker, StoreFails, Prepare, PrepareFails, MoveSettings, MoveRules, RulesFail, Restore, RestoreFails, RestoreEnds, EndMoved, EndFailed, ClearMarker, ClearOriginal, Stop, history
<1>2. \A e \in Docks \ {d} : pc'[e] = pc[e]
  BY DEF TeamsInv, TeamsType, TypeOK, DockStep, Click, Decline, Confirm, StoreOriginal, StoreMarker, StoreFails, Prepare, PrepareFails, MoveSettings, MoveRules, RulesFail, Restore, RestoreFails, RestoreEnds, EndMoved, EndFailed, ClearMarker, ClearOriginal, Stop, GoTo
<1>3. \A e \in Docks \ {d} : pc[e] = "idle"
  <2>1. CASE Click(d)
    BY <2>1 DEF Click
  <2>2. CASE ~Click(d)
    <3>1. pc[d] # "idle"
      BY <2>2 DEF DockStep, Click, Decline, Confirm, StoreOriginal, StoreMarker, StoreFails, Prepare, PrepareFails, MoveSettings, MoveRules, RulesFail, Restore, RestoreFails, RestoreEnds, EndMoved, EndFailed, ClearMarker, ClearOriginal, Stop
    <3> QED
      BY <1>1, <3>1 DEF TeamsInv, Alone
  <2> QED
    BY <2>1, <2>2
<1> QED
  BY <1>1, <1>2, <1>3

\* Switching off, between the two files: the flag is back at the user's value.
LEMMA BackAtOwn ==
    ASSUME TeamsType, NoteWhole, NoteOK, NEW d \in Docks, AtOK(d),
           pc[d] \in {"rules", "restore"}, ~job[d].enable, job[d].owned
    PROVE  Flag(settings) = own /\ (job[d].settings = "one" => registry.original = own)
<1>1. /\ registry.managed /\ registry.original = job[d].original
      /\ settings = NewSettings(job[d])
  BY DEF AtOK, FilesAt, NoteAt
<1>2. registry.original \in Original /\ registry.original # "empty"
  BY <1>1 DEF TeamsType, TypeOK, Registry, NoteWhole
<1>3. CASE job[d].settings = "one"
  <2>1. settings = registry.original
    BY <1>1, <1>3 DEF NewSettings
  <2>2. Flag(settings) = registry.original
    BY <1>2, <2>1, FlagFacts
  <2> QED
    BY <2>1, <2>2 DEF NoteOK, FlagAccounted
<1>4. CASE job[d].settings # "one"
  BY <1>1, <1>4 DEF NewSettings, NoteOK, FlagAccounted, TeamsType, TypeOK, Job
<1> QED
  BY <1>3, <1>4

\* What the files and the note are does not depend on the value of the user.
LEMMA StepFiles ==
    ASSUME TeamsInv, TeamsType', ~disturbed, NEW d \in Docks, DockStep(d)
    PROVE  NoteWhole' /\ AtOK(d)'
<1>0. TeamsType /\ NoteWhole /\ AtOK(d)
  BY DEF TeamsInv
<1> USE <1>0, FlagFacts DEF NoteWhole, AtOK, FilesAt, NoteAt, TeamsType, TypeOK, GoTo
<1>1. CASE Click(d)
  BY <1>1 DEF Click, BacksUp, Switching, files, history
<1>2. CASE Decline(d)
  BY <1>2 DEF Decline, BacksUp, Switching, files, history
<1>3. CASE Confirm(d)
  <2>1. /\ job'[d] = [job[d] EXCEPT !.settings = settings, !.rules = rules]
        /\ pc'[d] = IF job[d].enable /\ ~job[d].owned THEN "mark" ELSE "prepare"
        /\ pc[d] = "asked"
        /\ UNCHANGED <<settings, rules, registry, own>>
    BY <1>3 DEF Confirm, Marks, files, history
  <2>2. /\ job'[d].settings = settings /\ job'[d].rules = rules
        /\ job'[d].enable = job[d].enable /\ job'[d].owned = job[d].owned
        /\ job'[d].original = job[d].original
    BY <2>1 DEF Job
  <2>3. FilesAt(d)'
    BY <2>1, <2>2 DEF Switching
  <2>4. NoteAt(d)'
    BY <2>1, <2>2
  <2> QED
    BY <2>1, <2>3, <2>4
<1>4. CASE StoreOriginal(d)
  BY <1>4 DEF StoreOriginal, Registry, Job, BacksUp, Switching, files, history
<1>5. CASE StoreMarker(d)
  BY <1>5 DEF StoreMarker, Registry, Job, BacksUp, Switching, files, history
<1>6. CASE StoreFails(d)
  BY <1>6 DEF StoreFails, BacksUp, Switching, files, history
<1>7. CASE Prepare(d)
  <2>1. /\ UNCHANGED <<settings, rules, registry>> /\ pc[d] = "prepare" /\ pc'[d] = "settings"
        /\ job'[d] = [job[d] EXCEPT !.backup = settings] /\ job[d] \in Job
        /\ settings = job[d].settings
        /\ BacksUp(job[d]) => settings \in backups'
    BY <1>7 DEF Prepare, Switching
  <2>2. /\ job'[d].settings = job[d].settings /\ job'[d].rules = job[d].rules
        /\ job'[d].enable = job[d].enable /\ job'[d].owned = job[d].owned
        /\ job'[d].original = job[d].original /\ job'[d].backup = settings
    BY <2>1 DEF Job
  <2>3. BacksUp(job'[d]) <=> BacksUp(job[d])
    BY <2>2 DEF BacksUp, NewSettings
  <2> QED
    BY <2>1, <2>2, <2>3 DEF Switching
<1>8. CASE PrepareFails(d)
  BY <1>8 DEF PrepareFails, BacksUp, Switching, files, history
<1>9. CASE MoveSettings(d)
  BY <1>9 DEF MoveSettings, BacksUp, Switching, files, history
<1>10. CASE MoveRules(d)
  BY <1>10 DEF MoveRules, BacksUp, Switching, files, history
<1>11. CASE RulesFail(d)
  BY <1>11 DEF RulesFail, BacksUp, Switching, files, history
<1>12. CASE Restore(d)
  BY <1>12 DEF Restore, BacksUp, Switching, files, history
<1>13. CASE RestoreFails(d)
  BY <1>13 DEF RestoreFails, Torn, BacksUp, Switching, files, history
<1>14. CASE RestoreEnds(d)
  BY <1>14 DEF RestoreEnds, Torn, BacksUp, Switching, files, history
<1>15. CASE EndMoved(d)
  BY <1>15 DEF EndMoved, BacksUp, Switching, files, history
<1>16. CASE EndFailed(d)
  BY <1>16 DEF EndFailed, Marks, BacksUp, Switching, files, history
<1>17. CASE ClearMarker(d)
  BY <1>17 DEF ClearMarker, BacksUp, Switching, files, history
<1>18. CASE ClearOriginal(d)
  BY <1>18 DEF ClearOriginal, BacksUp, Switching, files, history
<1>19. CASE Stop(d)
  BY <1>19 DEF Stop, BacksUp, Switching, files, history
<1> QED
  BY <1>1, <1>2, <1>3, <1>4, <1>5, <1>6, <1>7, <1>8, <1>9, <1>10, <1>11, <1>12, <1>13, <1>14, <1>15, <1>16, <1>17, <1>18, <1>19 DEF DockStep

LEMMA StepSound ==
    ASSUME TeamsInv, TeamsType', ~disturbed, ~stranded, ~stranded', NEW d \in Docks, DockStep(d)
    PROVE  NoteOK' /\ OwnAt(d)'
<1>0. TeamsType /\ NoteWhole /\ NoteOK /\ AtOK(d) /\ OwnAt(d)
  BY DEF TeamsInv, ValueOK
<1> USE <1>0, FlagFacts DEF NoteOK, FlagAccounted, AtOK, FilesAt, NoteAt, OwnAt, TeamsType, TypeOK, GoTo
<1>1. CASE Click(d)
  BY <1>1 DEF Click, Switching, files, history
<1>2. CASE Decline(d)
  BY <1>2 DEF Decline, Switching, files, history
<1>3. CASE Confirm(d)
  <2>1. /\ job'[d] = [job[d] EXCEPT !.settings = settings, !.rules = rules]
        /\ pc'[d] = IF job[d].enable /\ ~job[d].owned THEN "mark" ELSE "prepare"
        /\ pc[d] = "asked"
        /\ UNCHANGED <<settings, rules, registry, own>>
    BY <1>3 DEF Confirm, Marks, files, history
  <2>2. job[d] \in Job
    OBVIOUS
  <2>3. /\ job'[d].settings = settings /\ job'[d].rules = rules
        /\ job'[d].enable = job[d].enable /\ job'[d].owned = job[d].owned
        /\ job'[d].original = job[d].original
    BY <2>1, <2>2 DEF Job
  <2>4. NoteOK'
    BY <2>1
  <2>5. OwnAt(d)'
    BY <2>1, <2>3 DEF Switching
  <2> QED
    BY <2>4, <2>5
<1>4. CASE StoreOriginal(d)
  BY <1>4 DEF StoreOriginal, Registry, Job, Switching, files, history
<1>5. CASE StoreMarker(d)
  BY <1>5 DEF StoreMarker, Registry, Job, Switching, files, history
<1>6. CASE StoreFails(d)
  BY <1>6 DEF StoreFails, Switching, files, history
<1>7. CASE Prepare(d)
  BY <1>7 DEF Prepare, Switching, files, history
<1>8. CASE PrepareFails(d)
  BY <1>8 DEF PrepareFails, Switching, files, history
<1>9. CASE MoveSettings(d)
  <2>1. /\ UNCHANGED <<rules, registry, job, own>> /\ pc[d] = "settings" /\ pc'[d] = "rules"
        /\ settings' = NewSettings(job[d]) /\ settings = job[d].settings
    BY <1>9 DEF MoveSettings, history
  <2>2. NoteOK'
    BY <2>1 DEF NewSettings, Registry, Switching
  <2> QED
    BY <2>1, <2>2 DEF Switching
<1>10. CASE MoveRules(d)
  <2>1. UNCHANGED <<settings, registry, job, own>> /\ pc[d] = "rules" /\ pc'[d] = "moved"
    BY <1>10 DEF MoveRules, history
  <2>2. ~job[d].enable /\ job[d].owned => Flag(settings) = own
    BY <2>1, BackAtOwn
  <2> QED
    BY <2>1, <2>2 DEF Switching
<1>11. CASE RulesFail(d)
  BY <1>11 DEF RulesFail, Switching, files, history
<1>12. CASE Restore(d)
  <2>1. /\ UNCHANGED <<registry, job, own>> /\ pc[d] = "restore" /\ pc'[d] = "failed"
        /\ settings' = job[d].settings
    BY <1>12 DEF Restore, history, Switching
  <2>2. job[d].enable => Flag(job[d].settings) = own
    BY <2>1 DEF Switching
  <2>3. job[d].enable => registry.managed /\ registry.original = own
    BY <2>1
  <2>4. ~job[d].enable /\ job[d].settings # settings =>
            job[d].settings = "one" /\ registry.managed /\ registry.original = own
    BY <2>1, BackAtOwn DEF NewSettings
  <2>5. NoteOK'
    BY <2>1, <2>2, <2>3, <2>4 DEF Registry
  <2>6. OwnAt(d)'
    BY <2>1, <2>2 DEF Switching
  <2> QED
    BY <2>5, <2>6
<1>13. CASE RestoreFails(d)
  <2>1. /\ UNCHANGED <<registry, job, own>> /\ pc[d] = "restore" /\ pc'[d] = "unrestored"
        /\ ~job[d].enable /\ settings' \in {settings, "broken"}
    BY <1>13 DEF RestoreFails, Torn
  <2>2. job[d].owned /\ job[d].settings = "one" /\ registry.managed
    BY <2>1 DEF NewSettings
  <2>3. Flag(settings) = own /\ registry.original = own
    BY <2>1, <2>2, BackAtOwn
  <2>4. NoteOK'
    BY <2>1, <2>2, <2>3 DEF Registry
  <2> QED
    BY <2>1, <2>4 DEF Switching
<1>19. CASE RestoreEnds(d)
  <2>1. /\ UNCHANGED <<registry, job, own>> /\ pc[d] = "restore" /\ pc'[d] = "idle"
        /\ settings' = "broken"
    BY <1>19 DEF RestoreEnds, Torn, history
  <2>2. job[d].enable => registry.managed /\ registry.original = own
    BY <2>1
  <2>3. ~job[d].enable => job[d].owned /\ job[d].settings = "one" /\ registry.managed
    BY <2>1 DEF NewSettings
  <2>4. ~job[d].enable => registry.original = own
    BY <2>1, <2>3, BackAtOwn
  <2>5. NoteOK'
    BY <2>1, <2>2, <2>3, <2>4 DEF Registry
  <2> QED
    BY <2>1, <2>5 DEF Switching
<1>14. CASE EndMoved(d)
  BY <1>14 DEF EndMoved, Switching, files, history
<1>15. CASE EndFailed(d)
  BY <1>15 DEF EndFailed, Marks, Switching, files, history
<1>16. CASE ClearMarker(d)
  BY <1>16 DEF ClearMarker, Switching, files, history
<1>17. CASE ClearOriginal(d)
  BY <1>17 DEF ClearOriginal, Switching, files, history
<1>18. CASE Stop(d)
  BY <1>18 DEF Stop, Switching, files, history
<1> QED
  BY <1>1, <1>2, <1>3, <1>4, <1>5, <1>6, <1>7, <1>8, <1>9, <1>10, <1>11, <1>12, <1>13, <1>14, <1>15, <1>16, <1>17, <1>18, <1>19 DEF DockStep

\* A failed undo leaves the value of the user in a backup, where it stays.
LEMMA StepBackedUp ==
    ASSUME TeamsInv, ~disturbed, stranded', NEW d \in Docks, DockStep(d)
    PROVE  FlagBackedUp'
<1>0. TeamsType /\ AtOK(d) /\ ValueOK /\ backups \subseteq backups' /\ own' = own
  BY DEF TeamsInv, DockStep, Click, Decline, Confirm, StoreOriginal, StoreMarker, StoreFails,
         Prepare, PrepareFails, MoveSettings, MoveRules, RulesFail, Restore, RestoreFails,
         RestoreEnds, EndMoved, EndFailed, ClearMarker, ClearOriginal, Stop, files, history
<1>1. CASE stranded
  BY <1>0, <1>1 DEF ValueOK, FlagBackedUp
<1>2. CASE ~stranded
  <2>1. RestoreFails(d) /\ job[d].enable /\ UNCHANGED backups
    BY <1>2 DEF DockStep, Click, Decline, Confirm, StoreOriginal, StoreMarker, StoreFails,
         Prepare, PrepareFails, MoveSettings, MoveRules, RulesFail, Restore, RestoreFails,
         RestoreEnds, EndMoved, EndFailed, ClearMarker, ClearOriginal, Stop, files, history
  <2>2. Flag(job[d].settings) = own
    BY <1>0, <1>2, <2>1 DEF ValueOK, OwnAt, RestoreFails, Switching
  <2>3. job[d].settings = "none" \/ job[d].settings \in backups
    BY <1>0, <2>1 DEF AtOK, FilesAt, BacksUp, RestoreFails
  <2> QED
    BY <1>0, <2>1, <2>2, <2>3 DEF FlagBackedUp, Flag
<1> QED
  BY <1>1, <1>2

LEMMA EditSound ==
    ASSUME TeamsInv, TeamsType', ~disturbed', EditSettings \/ EditRules
    PROVE  ~disturbed /\ Alone' /\ NoteWhole' /\ ValueOK' /\ \A d \in Docks : AtOK(d)'
<1>1. /\ ~disturbed /\ \A d \in Docks : pc[d] \notin Switching
      /\ UNCHANGED <<registry, pc, job, backups>>
  BY DEF EditSettings, EditRules
<1>2. TeamsType /\ Alone /\ NoteWhole /\ ValueOK /\ \A d \in Docks : AtOK(d)
  BY <1>1 DEF TeamsInv
<1>3. Alone' /\ NoteWhole'
  BY <1>1, <1>2 DEF Alone, NoteWhole
<1>4. \A d \in Docks : AtOK(d)'
  BY <1>1, <1>2 DEF AtOK, FilesAt, NoteAt, Switching
<1>5. CASE EditSettings
  <2>1. ~stranded' /\ Flag(settings') = own' /\ ~(settings' = "one" /\ registry.managed)
    BY <1>5 DEF EditSettings
  <2>2. NoteOK'
    BY <1>1, <2>1 DEF NoteOK, FlagAccounted
  <2>3. \A d \in Docks : OwnAt(d)'
    BY <1>1, <2>1 DEF OwnAt, Switching
  <2> QED
    BY <1>1, <1>3, <1>4, <2>1, <2>2, <2>3 DEF ValueOK
<1>6. CASE EditRules
  <2>1. UNCHANGED <<settings, own, stranded, backups>>
    BY <1>6 DEF EditRules
  <2>2. ValueOK'
    BY <1>1, <1>2, <2>1 DEF ValueOK, FlagBackedUp, NoteOK, FlagAccounted, OwnAt, Switching
  <2> QED
    BY <1>1, <1>3, <1>4, <2>2
<1> QED
  BY <1>5, <1>6

LEMMA TeamsStep == TeamsInv /\ [Next]_vars => TeamsInv'
<1> SUFFICES ASSUME TeamsInv, [Next]_vars PROVE TeamsInv'
  OBVIOUS
<1>1. TeamsType'
  BY StepType DEF TeamsInv
<1>2. ASSUME NEW d \in Docks, DockStep(d), ~disturbed'
      PROVE  Alone' /\ NoteWhole' /\ ValueOK' /\ \A e \in Docks : AtOK(e)'
  <2>1. ~disturbed /\ \A e \in Docks \ {d} : pc[e] = "idle" /\ pc'[e] = "idle"
    BY <1>2, OthersIdle
  <2>2. NoteWhole' /\ AtOK(d)'
    BY <1>1, <1>2, <2>1, StepFiles
  <2>3. Alone'
    BY <2>1 DEF Alone
  <2>4. \A e \in Docks \ {d} : AtOK(e)' /\ OwnAt(e)'
    BY <2>1 DEF AtOK, FilesAt, NoteAt, OwnAt, Switching
  <2>5. ValueOK'
    <3>1. CASE stranded'
      BY <1>2, <2>1, <3>1, StepBackedUp DEF ValueOK
    <3>2. CASE ~stranded'
      <4>1. ~stranded
        BY <1>2, <3>2 DEF DockStep, Click, Decline, Confirm, StoreOriginal, StoreMarker,
          StoreFails, Prepare, PrepareFails, MoveSettings, MoveRules, RulesFail, Restore,
          RestoreFails, RestoreEnds, EndMoved, EndFailed, ClearMarker, ClearOriginal, Stop, history
      <4>2. NoteOK' /\ OwnAt(d)'
        BY <1>1, <1>2, <2>1, <3>2, <4>1, StepSound
      <4> QED
        BY <2>4, <3>2, <4>2 DEF ValueOK
    <3> QED
      BY <3>1, <3>2
  <2> QED
    BY <2>2, <2>3, <2>4, <2>5
<1>3. ASSUME EditSettings \/ EditRules, ~disturbed'
      PROVE  Alone' /\ NoteWhole' /\ ValueOK' /\ \A e \in Docks : AtOK(e)'
  BY <1>1, <1>3, EditSound
<1>4. ASSUME UNCHANGED vars, ~disturbed'
      PROVE  Alone' /\ NoteWhole' /\ ValueOK' /\ \A e \in Docks : AtOK(e)'
  BY <1>4 DEF TeamsInv, vars, files, history, Alone, NoteWhole, ValueOK, FlagBackedUp, NoteOK,
              FlagAccounted, AtOK, FilesAt, NoteAt, OwnAt
<1> QED
  BY <1>1, <1>2, <1>3, <1>4 DEF Next, TeamsInv

\* A program that reports a failure, and not that of the undo, has the files as it read
\* them.
LEMMA FailureStep ==
    ASSUME TeamsInv, TeamsInv', [Next]_vars, ~disturbed', NEW d \in Docks,
           pc[d] # "failed", pc'[d] = "failed"
    PROVE  settings' = job[d].settings /\ rules' = job[d].rules
<1>1. PrepareFails(d) \/ RulesFail(d) \/ Restore(d)
  <2>1. PICK e \in Docks : DockStep(e)
    BY DEF Next, vars, EditSettings, EditRules
  <2>2. e = d
    BY <2>1, OthersIdle
  <2> QED
    BY <2>1, <2>2
    DEF DockStep, TeamsInv, TeamsType, TypeOK, GoTo, Click, Decline, Confirm, StoreOriginal,
        StoreMarker, StoreFails, Prepare, MoveSettings, MoveRules, RestoreFails, RestoreEnds, EndMoved, EndFailed,
        ClearMarker, ClearOriginal, Stop
<1>2. ~disturbed /\ AtOK(d)
  BY <1>1, OthersIdle DEF DockStep, TeamsInv
<1>3. CASE PrepareFails(d)
  BY <1>2, <1>3 DEF PrepareFails, files, AtOK, FilesAt, Switching
<1>4. CASE RulesFail(d)
  BY <1>2, <1>4 DEF RulesFail, TeamsInv, TeamsType, TypeOK, GoTo, files, AtOK, FilesAt, Switching
<1>5. CASE Restore(d)
  BY <1>2, <1>5 DEF Restore, AtOK, FilesAt, Switching
<1> QED
  BY <1>1, <1>3, <1>4, <1>5

-----------------------------------------------------------------------------

\* TeamsInv holds in every state.
THEOREM AlwaysSound == Spec => []TeamsInv
BY TeamsInit, TeamsStep, PTL DEF Spec

\* The files, the note and the programs keep their types.
THEOREM TypeCorrect == Spec => []TypeOK
<1>1. TeamsInv => TypeOK
  BY DEF TeamsInv, TeamsType
<1> QED
  BY <1>1, AlwaysSound, PTL

\* No failure of a switch and no end of the program between its writes makes the
\* Manager forget the user's value of the flag or replace a newer one, but for a switch
\* on whose undo fails too: after that one the value is in a backup.
THEOREM KeepsFlag == Spec => []FlagKept
<1>1. TeamsInv => FlagKept
  BY DEF TeamsInv, ValueOK, NoteOK, FlagKept
<1> QED
  BY <1>1, AlwaysSound, PTL

\* Whenever the program ends, its note can be read the next time.
THEOREM NoteCanBeRead == Spec => []RegistryWhole
<1>1. TeamsInv => RegistryWhole
  BY DEF TeamsInv, NoteWhole, RegistryWhole
<1> QED
  BY <1>1, AlwaysSound, PTL

\* A switch that reports that the files were kept or rolled back has left both as it
\* found them.
THEOREM FailuresRestore == Spec => FailureRestores
<1>1. TeamsInv /\ TeamsInv' /\ [Next]_vars =>
        [\A d \in Docks : pc[d] # "failed" /\ pc'[d] = "failed" /\ ~disturbed' =>
            settings' = job[d].settings /\ rules' = job[d].rules]_vars
  BY FailureStep
<1> QED
  BY <1>1, AlwaysSound, PTL DEF Spec, FailureRestores

=============================================================================
