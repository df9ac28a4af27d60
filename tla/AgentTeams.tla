---------------------------- MODULE AgentTeams -----------------------------
(***************************************************************************)
(* The switch of the multi-agent mode (manage_global_agent_teams of        *)
(* AgentDock.c) and what it keeps in step: a flag in the settings.json of  *)
(* the user, a block of rules in the CLAUDE.md of the user, and a note in  *)
(* the registry of the value the flag had before.                          *)
(*                                                                         *)
(* The files also belong to the user and to Claude Code, who edit them at  *)
(* any time.  Nothing keeps a second AgentDock from running.  Every write  *)
(* of a file or of a registry value is a step of its own; each may fail,   *)
(* and the program may end between any two.                                *)
(*                                                                         *)
(* own, stranded and disturbed are history variables.                      *)
(***************************************************************************)
EXTENDS Integers

CONSTANTS
    Docks,          \* running AgentDock programs
    Values,         \* values of the flag other than "1"
    MaxEdits        \* bound: edits by the user

ASSUME TeamsAssumption ==
    /\ Values \cap {"one", "absent", "none", "broken", "empty"} = {}
    /\ MaxEdits \in Nat

VARIABLES
    settings,       \* the flag in settings.json
    rules,          \* the block in CLAUDE.md
    backups,        \* the flags of the backups of settings.json beside it
    registry,       \* AgentTeamsManaged and AgentTeamsOriginalJson
    pc,             \* where each program is
    job,            \* the locals of its manage_global_agent_teams
    edits,          \* edits made
    own,            \* the value the user gave the flag last
    stranded,       \* since then an undo has failed while switching on (27)
    disturbed       \* something came between the steps of a switch

files == <<settings, rules, backups>>

history == <<own, stranded, disturbed>>

vars == <<files, registry, pc, job, edits, history>>

-----------------------------------------------------------------------------

\* "absent": the file has no flag; "none": there is no file; "broken": no valid JSON,
\* or the flag twice.
Settings == Values \cup {"one", "absent", "none", "broken"}

\* "broken": the markers of the block do not match.
Rules == {"none", "plain", "ruled", "broken"}

Original == Values \cup {"one", "absent", "empty"}

Registry == [managed : BOOLEAN, original : Original]

\* What the user decided on, the registry as it was read then, the files as they
\* were read after that, and the backup of settings.json.
Job == [enable : BOOLEAN, owned : BOOLEAN, original : Original,
        settings : Settings \ {"broken"}, rules : Rules \ {"broken"},
        backup : Settings]

NoJob == [enable |-> FALSE, owned |-> FALSE, original |-> "empty",
          settings |-> "none", rules |-> "none", backup |-> "none"]

\* A fault: a file that is not there has another flag than a file without it.
FlagRaw(s) == s

Flag(s) == IF s = "none" THEN "absent" ELSE s

\* agent_global_full_state.
Full == settings = "one" /\ rules = "ruled"

\* A fault: a flag the user has changed is restored like any other.
NewSettingsForced(j) ==
    IF j.enable THEN "one"
    ELSE IF j.owned THEN j.original ELSE j.settings

\* agent_settings_transform: only a flag that still has the Manager's value goes back
\* to the original one.
NewSettings(j) ==
    IF j.enable THEN "one"
    ELSE IF j.owned /\ j.settings = "one" THEN j.original ELSE j.settings

\* agent_rules_transform.
NewRules(j) ==
    IF j.enable THEN "ruled"
    ELSE IF j.rules = "ruled" THEN "plain" ELSE j.rules

\* This switch took the registry note itself.
Marks(j) == j.enable /\ ~j.owned

GoTo(d, label) == pc' = [pc EXCEPT ![d] = label]

\* The program has read the files and has not finished replacing them.
Switching == {"mark", "own", "prepare", "settings", "rules", "restore"}

\* agent_commit_files makes a backup of a file it is going to replace.
BacksUp(j) == NewSettings(j) # j.settings /\ j.settings # "none"

-----------------------------------------------------------------------------
(* Faults: forms the actions below must not have.  Each breaks a property. *)

\* The commit marker goes first.
StoreMarkerFirst(d) ==
    /\ pc[d] = "mark"
    /\ registry' = [registry EXCEPT !.managed = TRUE]
    /\ GoTo(d, "own")
    /\ UNCHANGED <<files, job, edits, history>>

\* The failure of the second file leaves the first one replaced.
RulesFailNoRestore(d) ==
    /\ pc[d] = "rules"
    /\ NewRules(job[d]) # job[d].rules
    /\ GoTo(d, "failed")
    /\ UNCHANGED <<files, registry, job, edits, history>>

-----------------------------------------------------------------------------
(* The code                                                                *)

Init ==
    /\ settings \in Settings
    /\ rules \in Rules
    /\ registry = [managed |-> FALSE, original |-> "empty"]
    /\ pc = [d \in Docks |-> "idle"]
    /\ job = [d \in Docks |-> NoJob]
    /\ edits = 0
    /\ backups = {}
    /\ own = Flag(settings)
    /\ stranded = FALSE
    /\ disturbed = FALSE

\* The button.  A managed note without an original is damaged: nothing is done.
Click(d) ==
    /\ pc[d] = "idle"
    /\ ~(registry.managed /\ registry.original = "empty")
    /\ job' = [job EXCEPT ![d] =
                [NoJob EXCEPT !.enable = ~(registry.managed \/ Full),
                              !.owned = registry.managed,
                              !.original = registry.original]]
    /\ disturbed' = (disturbed \/ \E e \in Docks \ {d} : pc[e] # "idle")
    /\ GoTo(d, "asked")
    /\ UNCHANGED <<files, registry, edits, own, stranded>>

\* The user says no, or a file cannot be read or transformed.
Decline(d) ==
    /\ pc[d] = "asked"
    /\ GoTo(d, "idle")
    /\ UNCHANGED <<files, registry, job, edits, history>>

\* The user says yes; both files are read and transformed.
Confirm(d) ==
    /\ pc[d] = "asked"
    /\ settings # "broken"
    /\ rules # "broken"
    /\ LET j == [job[d] EXCEPT !.settings = settings, !.rules = rules]
       IN  /\ job' = [job EXCEPT ![d] = j]
           /\ GoTo(d, IF Marks(j) THEN "mark" ELSE "prepare")
    /\ UNCHANGED <<files, registry, edits, history>>

\* agent_registry_store(TRUE): the original is the prepare record ...
StoreOriginal(d) ==
    /\ pc[d] = "mark"
    /\ registry' = [registry EXCEPT !.original = Flag(job[d].settings)]
    /\ GoTo(d, "own")
    /\ UNCHANGED <<files, job, edits, history>>

\* ... and the mark the commit.
StoreMarker(d) ==
    /\ pc[d] = "own"
    /\ registry' = [registry EXCEPT !.managed = TRUE]
    /\ GoTo(d, "prepare")
    /\ UNCHANGED <<files, job, edits, history>>

\* One of the two cannot be stored: nothing else was done.
StoreFails(d) ==
    /\ pc[d] \in {"mark", "own"}
    /\ GoTo(d, "idle")
    /\ UNCHANGED <<files, registry, job, edits, history>>

\* agent_commit_files: settings.json is backed up, the temporary files are written.
Prepare(d) ==
    /\ pc[d] = "prepare"
    /\ BacksUp(job[d]) => settings # "none"
    /\ job' = [job EXCEPT ![d].backup = settings]
    /\ backups' = IF BacksUp(job[d]) THEN backups \cup {settings} ELSE backups
    /\ GoTo(d, "settings")
    /\ UNCHANGED <<settings, rules, registry, edits, history>>

\* One of them cannot be (20 to 24), or settings.json cannot be replaced (25).
PrepareFails(d) ==
    /\ \/ pc[d] \in {"prepare", "settings"} /\ NewSettings(job[d]) # job[d].settings
       \/ pc[d] = "prepare" /\ NewRules(job[d]) # job[d].rules
    /\ GoTo(d, "failed")
    /\ UNCHANGED <<files, registry, job, edits, history>>

MoveSettings(d) ==
    /\ pc[d] = "settings"
    /\ settings' = IF NewSettings(job[d]) = job[d].settings
                   THEN settings ELSE NewSettings(job[d])
    /\ GoTo(d, "rules")
    /\ UNCHANGED <<rules, backups, registry, job, edits, history>>

MoveRules(d) ==
    /\ pc[d] = "rules"
    /\ rules' = IF NewRules(job[d]) = job[d].rules THEN rules ELSE NewRules(job[d])
    /\ GoTo(d, "moved")
    /\ UNCHANGED <<settings, backups, registry, job, edits, history>>

\* CLAUDE.md cannot be replaced.
RulesFail(d) ==
    /\ pc[d] = "rules"
    /\ NewRules(job[d]) # job[d].rules
    /\ GoTo(d, IF NewSettings(job[d]) = job[d].settings THEN "failed" ELSE "restore")
    /\ UNCHANGED <<files, registry, job, edits, history>>

\* What CopyFileW may leave of the file it was writing.
Torn(j) == IF j.settings = "none" THEN {} ELSE {"broken"}

\* agent_restore_file, from the backup; without one the file is deleted.
Restore(d) ==
    /\ pc[d] = "restore"
    /\ settings' = IF job[d].settings = "none" THEN "none" ELSE job[d].backup
    /\ GoTo(d, "failed")
    /\ UNCHANGED <<rules, backups, registry, job, edits, history>>

\* Restoring fails too (27), perhaps with half the file written: the user is told to
\* take the backup.
RestoreFails(d) ==
    /\ pc[d] = "restore"
    /\ settings' \in {settings} \cup Torn(job[d])
    /\ stranded' = (stranded \/ job[d].enable)
    /\ GoTo(d, "unrestored")
    /\ UNCHANGED <<rules, backups, registry, job, edits, own, disturbed>>

\* The program ends in the middle of it.
RestoreEnds(d) ==
    /\ pc[d] = "restore"
    /\ settings' \in Torn(job[d])
    /\ GoTo(d, "idle")
    /\ UNCHANGED <<rules, backups, registry, job, edits, history>>

\* The files are done: a note that is no longer needed is cleared, the mark first.
EndMoved(d) ==
    /\ pc[d] = "moved"
    /\ GoTo(d, IF ~job[d].enable /\ job[d].owned THEN "unmark" ELSE "idle")
    /\ UNCHANGED <<files, registry, job, edits, history>>

\* A failure is reported; a note this switch has taken is cleared first, whatever
\* became of the undo.
EndFailed(d) ==
    /\ pc[d] \in {"failed", "unrestored"}
    /\ GoTo(d, IF Marks(job[d]) THEN "unmark" ELSE "idle")
    /\ UNCHANGED <<files, registry, job, edits, history>>

\* agent_registry_store(FALSE).
ClearMarker(d) ==
    /\ pc[d] = "unmark"
    /\ registry' = [registry EXCEPT !.managed = FALSE]
    /\ GoTo(d, "clear")
    /\ UNCHANGED <<files, job, edits, history>>

ClearOriginal(d) ==
    /\ pc[d] = "clear"
    /\ registry' = [registry EXCEPT !.original = "empty"]
    /\ GoTo(d, "idle")
    /\ UNCHANGED <<files, job, edits, history>>

\* A value cannot be stored, or the program is ended.
Stop(d) ==
    /\ pc[d] # "idle"
    /\ GoTo(d, "idle")
    /\ UNCHANGED <<files, registry, job, edits, history>>

\* The user, or Claude Code, changes settings.json.  Between the steps of a switch,
\* or to the very value the Manager wrote, this is something it cannot see.
EditSettings ==
    /\ edits < MaxEdits
    /\ edits' = edits + 1
    /\ settings' \in Settings \ {settings}
    /\ own' = Flag(settings')
    /\ stranded' = FALSE
    /\ disturbed' = \/ disturbed
                    \/ \E d \in Docks : pc[d] \in Switching
                    \/ settings' = "one" /\ registry.managed
    /\ UNCHANGED <<rules, backups, registry, pc, job>>

EditRules ==
    /\ edits < MaxEdits
    /\ edits' = edits + 1
    /\ rules' \in Rules \ {rules}
    /\ disturbed' = (disturbed \/ \E d \in Docks : pc[d] \in Switching)
    /\ UNCHANGED <<settings, backups, registry, pc, job, own, stranded>>

DockStep(d) ==
    \/ Click(d)
    \/ Decline(d)
    \/ Confirm(d)
    \/ StoreOriginal(d)
    \/ StoreMarker(d)
    \/ StoreFails(d)
    \/ Prepare(d)
    \/ PrepareFails(d)
    \/ MoveSettings(d)
    \/ MoveRules(d)
    \/ RulesFail(d)
    \/ Restore(d)
    \/ RestoreFails(d)
    \/ RestoreEnds(d)
    \/ EndMoved(d)
    \/ EndFailed(d)
    \/ ClearMarker(d)
    \/ ClearOriginal(d)
    \/ Stop(d)

Next == (\E d \in Docks : DockStep(d)) \/ EditSettings \/ EditRules

Spec == Init /\ [][Next]_vars

-----------------------------------------------------------------------------
(* Properties                                                              *)

PC == Switching \cup {"idle", "asked", "failed", "unrestored", "moved", "unmark", "clear"}

TypeOK ==
    /\ settings \in Settings
    /\ rules \in Rules
    /\ backups \in SUBSET Settings
    /\ registry \in Registry
    /\ pc \in [Docks -> PC]
    /\ job \in [Docks -> Job]
    /\ edits \in 0 .. MaxEdits
    /\ own \in Settings
    /\ stranded \in BOOLEAN
    /\ disturbed \in BOOLEAN

\* The flag has the value the user gave it, or the Manager's, or an undo that was cut
\* short has left nothing readable, with the user's value in the registry, marked, so
\* that switching off brings it back.
FlagAccounted ==
    \/ Flag(settings) = own
    \/ settings \in {"one", "broken"} /\ registry = [managed |-> TRUE, original |-> own]

\* The value is in a backup beside the file, or there was none to keep.
FlagBackedUp == own = "absent" \/ own \in {Flag(b) : b \in backups}

\* Unless somebody comes between the steps of a switch, no failure and no end of the
\* program at any point makes the Manager forget the user's value or replace a newer
\* one.  The exception is a switch on whose undo fails too (27): it clears the note all
\* the same, so that the Manager no longer gives the value back; the value is then
\* still in a backup, to which the message sends the user.
FlagKept == ~disturbed => IF stranded THEN FlagBackedUp ELSE FlagAccounted

\* "Original is the prepare record; Managed=1 is the commit marker": whenever the
\* program ends, the note can be read the next time.
RegistryWhole == ~disturbed => (registry.managed => registry.original # "empty")

\* A switch that reports that the files were kept or rolled back (any failure but 27)
\* has left both as it found them: the first is put back when the second cannot be
\* replaced.
FailureRestores ==
    [][\A d \in Docks : pc[d] # "failed" /\ pc'[d] = "failed" /\ ~disturbed' =>
            settings' = job[d].settings /\ rules' = job[d].rules]_vars
=============================================================================
