----------------------------- MODULE ConfigSave ----------------------------
(***************************************************************************)
(* Saving a configuration in AgentDock (AgentDock.c): the wizard hands the *)
(* form to a thread, import_thread for Claude Code or codex_save_thread    *)
(* for Codex, which stores the key in the credential manager, adds its     *)
(* name to the list of names in the registry, replaces the configuration   *)
(* file through a temporary one and writes which credentials are active.   *)
(* Claude's thread stores the key before the file, Codex's after it.       *)
(* Importing a file is Claude's thread without the last write.             *)
(*                                                                         *)
(* What Claude's wizard saves is merged into the file as it was read, so a *)
(* save without an address keeps the one that is there; Codex's removes    *)
(* it.  The provider chooses the name of the key, not the address: with    *)
(* the official one, Claude's wizard saves whatever address was left in    *)
(* the form, and the key of the official API with it.                      *)
(*                                                                         *)
(* Any write may fail, a program may be ended at any point, and more than  *)
(* one program may run: they share the registry, the credentials, the      *)
(* files and the name of the temporary file.  There is one list of active  *)
(* credentials for both agents, and every launch takes the keys it names.  *)
(*                                                                         *)
(* done, launch, crossed and broken are history variables.                 *)
(***************************************************************************)
EXTENDS Integers

CONSTANTS
    Managers,       \* running programs
    Claude, Codex,
    Gateways,       \* addresses
    Official,       \* no address: the official API or login
    Keys,
    None,           \* no file, no key, no active credentials ("-")
    Unset,          \* ActiveCredentialNames was never written
    MaxSaves        \* bound: saves begun

ASSUME SaveAssumption ==
    /\ MaxSaves \in Nat
    /\ Claude # Codex
    /\ Official \notin Gateways
    /\ None \notin Gateways \cup Keys \cup {Claude, Codex, Official, Unset}

VARIABLES
    config,         \* the gateway in each agent's configuration file
    temp,           \* the temporary file beside it
    cred,           \* the keys in the credential manager
    names,          \* CredentialNames
    active,         \* ActiveCredentialNames
    pc,             \* where each program's thread is
    job,            \* what it saves
    busy,           \* g_import_busy of each program
    saves,          \* saves begun
    done,           \* what each agent's last complete save left
    launch,         \* what a launch takes since a complete save last chose it
    crossed,        \* programs whose save another one's overlaps
    broken          \* files, by agent, and credentials, by name, that were written by
                    \* a save which did not complete, or was crossed

files == <<config, temp>>

registry == <<cred, names, active>>

window == <<job, busy, saves>>

history == <<done, launch, crossed, broken>>

vars == <<files, registry, pc, window, history>>

-----------------------------------------------------------------------------

Apps == {Claude, Codex}

Address == Gateways \cup {Official}

\* The names of the credentials; their values come with the launch's environment.
AuthToken == "ANTHROPIC_AUTH_TOKEN"
ApiKey == "ANTHROPIC_API_KEY"
CodexKey == "CODEX_API_KEY"

Name == {AuthToken, ApiKey, CodexKey}

ASSUME NameAssumption == (Apps \cup {None, Unset}) \cap Name = {}

Save == [base : Address, name : Name \cup {None}, key : Keys \cup {None}]

Nothing == [base |-> Official, name |-> None, key |-> None]

\* No file yet.
NoSave == [Nothing EXCEPT !.base = None]

\* From the wizard, or a file that is imported, merged or replacing.
Kind == {"wizard", "merge", "replace"}

\* What the forms offer.  Claude's gateways have bearer tokens, its official API has
\* keys; a file to import may name anything.  Codex has a gateway, with a key or without
\* one, or its own login.
Offered(a, kind) ==
    {s \in Save :
        /\ s.name = None <=> s.key = None
        /\ IF a = Codex
           THEN /\ kind = "wizard"
                /\ s.name \in {CodexKey, None}
                /\ s.base = Official => s.key = None
           ELSE /\ s.name # CodexKey
                /\ kind = "wizard" /\ s.name = AuthToken => s.base # Official}

\* "names" and "text" are what the thread has read and is about to write.
Job == [app : Apps, save : Save, kind : Kind, names : SUBSET Name,
        text : Address \cup {None}]

Idle == [app |-> Claude, save |-> Nothing, kind |-> "wizard", names |-> {}, text |-> None]

Label == {"idle", "check", "key", "list", "name", "temp", "move", "active", "end"}

App(m) == job[m].app

Base(m) == job[m].save.base

Keyed(m) == job[m].save.key # None

CredentialName(m) == job[m].save.name

\* A merged save without an address.
Keeps(m) == App(m) = Claude /\ Base(m) = Official /\ job[m].kind # "replace"

\* The address in the new file, made of the present one.
NewText(m, old) == IF Keeps(m) /\ old # None THEN old ELSE Base(m)

GoTo(m, label) == pc' = [pc EXCEPT ![m] = label]

First(m) == IF App(m) = Claude /\ Keyed(m) THEN "key" ELSE "temp"

AfterKey(m) == IF App(m) = Claude THEN "temp" ELSE "active"

\* Codex's active credentials are written only with a key.
AfterMove(m) ==
    IF App(m) = Claude THEN IF job[m].kind = "wizard" THEN "active" ELSE "end"
    ELSE IF Keyed(m) THEN "key" ELSE "end"

\* What m's save is about: its agent's file and, with a key, its credential.
Saved(m) == {App(m)} \cup IF Keyed(m) THEN {CredentialName(m)} ELSE {}

PastMove(a) == IF a = Claude THEN {"active"} ELSE {"key", "list", "name", "active"}

PastKey(a) ==
    IF a = Claude THEN {"list", "name", "temp", "move", "active"}
    ELSE {"list", "name", "active"}

\* What of it is written already.
Touched(m) ==
    {x \in Saved(m) : pc[m] \in IF x \in Apps THEN PastMove(x) ELSE PastKey(App(m))}

\* The last write of m's save is done; it has written the active credentials or not.
\* If not, a launch takes what it took, but for a key under the very name it takes.
Completes(m, activates) ==
    /\ done' = [done EXCEPT ![App(m)] =
                    [job[m].save EXCEPT !.base = NewText(m, done[App(m)].base)]]
    /\ launch' = IF activates \/ (Keyed(m) /\ launch.name = CredentialName(m))
                 THEN [name |-> CredentialName(m), key |-> job[m].save.key] ELSE launch
    /\ broken' = IF m \in crossed THEN broken \cup Saved(m)
                 ELSE broken \ {x \in Saved(m) : x \in Apps => ~Keeps(m)}
    /\ UNCHANGED crossed

\* m's save ends with an error.
Fails(m) ==
    /\ GoTo(m, "end")
    /\ broken' = broken \cup Touched(m)
    /\ UNCHANGED <<done, launch, crossed>>

-----------------------------------------------------------------------------
(* Faults: forms the properties below would catch                          *)

\* An error returns from the thread, not through its end.
StoreKeyReturning(m) ==
    /\ pc[m] = "key"
    /\ \/ /\ cred' = [cred EXCEPT ![CredentialName(m)] = job[m].save.key]
          /\ GoTo(m, "list")
          /\ UNCHANGED history
       \/ /\ cred' = cred
          /\ GoTo(m, "idle")
          /\ UNCHANGED history
    /\ UNCHANGED <<files, names, active, window>>

\* The file that could not be replaced is not told from one that was.
MoveUnchecked(m) ==
    /\ pc[m] = "move"
    /\ temp[App(m)] # None
    /\ config' \in {config, [config EXCEPT ![App(m)] = temp[App(m)]]}
    /\ temp' = [temp EXCEPT ![App(m)] = None]
    /\ GoTo(m, AfterMove(m))
    /\ IF AfterMove(m) = "end" THEN Completes(m, FALSE) ELSE UNCHANGED history
    /\ UNCHANGED <<registry, window>>

\* The window is not kept from a second save while the first one runs.
BeginBusy(m, a, s, kind) ==
    /\ saves < MaxSaves
    /\ saves' = saves + 1
    /\ busy' = [busy EXCEPT ![m] = ~@]
    /\ job' = [job EXCEPT ![m] = [Idle EXCEPT !.app = a, !.save = s, !.kind = kind]]
    /\ GoTo(m, "check")
    /\ crossed' = IF \E n \in Managers \ {m} : busy[n]
                  THEN crossed \cup {m} \cup {n \in Managers : busy[n]} ELSE crossed \ {m}
    /\ UNCHANGED <<files, registry, done, launch, broken>>

-----------------------------------------------------------------------------
(* The window                                                              *)

Init ==
    /\ config = [a \in Apps |-> None]
    /\ temp = [a \in Apps |-> None]
    /\ cred = [n \in Name |-> None]
    /\ names = {}
    /\ active = Unset
    /\ pc = [m \in Managers |-> "idle"]
    /\ job = [m \in Managers |-> Idle]
    /\ busy = [m \in Managers |-> FALSE]
    /\ saves = 0
    /\ done = [a \in Apps |-> NoSave]
    /\ launch = [name |-> Unset, key |-> None]
    /\ crossed = {}
    /\ broken = {}

\* The wizard's save, or the import of a file, for Claude Code only.
Begin(m, a, s, kind) ==
    /\ ~busy[m]
    /\ saves < MaxSaves
    /\ saves' = saves + 1
    /\ busy' = [busy EXCEPT ![m] = TRUE]
    /\ job' = [job EXCEPT ![m] = [Idle EXCEPT !.app = a, !.save = s, !.kind = kind]]
    /\ GoTo(m, "check")
    /\ crossed' = IF \E n \in Managers \ {m} : busy[n]
                  THEN crossed \cup {m} \cup {n \in Managers : busy[n]} ELSE crossed \ {m}
    /\ UNCHANGED <<files, registry, done, launch, broken>>

\* The program is ended.
Kill(m) ==
    /\ busy[m]
    /\ GoTo(m, "idle")
    /\ busy' = [busy EXCEPT ![m] = FALSE]
    /\ job' = [job EXCEPT ![m] = Idle]
    /\ broken' = broken \cup Touched(m)
    /\ UNCHANGED <<files, registry, saves, done, launch, crossed>>

-----------------------------------------------------------------------------
(* The thread                                                              *)

\* Reading the form, the file and what it becomes, the backup: nothing is changed yet.
Check(m) ==
    /\ pc[m] = "check"
    /\ \/ GoTo(m, First(m)) /\ job' = [job EXCEPT ![m].text = NewText(m, config[App(m)])]
       \/ GoTo(m, "end") /\ job' = job
    /\ UNCHANGED <<files, registry, busy, saves, history>>

StoreKey(m) ==
    /\ pc[m] = "key"
    /\ \/ /\ cred' = [cred EXCEPT ![CredentialName(m)] = job[m].save.key]
          /\ GoTo(m, "list")
          /\ UNCHANGED history
       \/ /\ cred' = cred
          /\ Fails(m)
    /\ UNCHANGED <<files, names, active, window>>

\* register_credential_name_native reads the list of names.
ReadNames(m) ==
    /\ pc[m] = "list"
    /\ \/ /\ CredentialName(m) \in names
          /\ GoTo(m, AfterKey(m))
          /\ job' = job
          /\ UNCHANGED history
       \/ /\ CredentialName(m) \notin names
          /\ GoTo(m, "name")
          /\ job' = [job EXCEPT ![m].names = names \cup {CredentialName(m)}]
          /\ UNCHANGED history
       \/ /\ Fails(m)
          /\ job' = job
    /\ UNCHANGED <<files, registry, busy, saves>>

WriteNames(m) ==
    /\ pc[m] = "name"
    /\ job' = [job EXCEPT ![m].names = {}]
    /\ \/ /\ names' = job[m].names
          /\ GoTo(m, AfterKey(m))
          /\ UNCHANGED history
       \/ /\ names' = names
          /\ Fails(m)
    /\ UNCHANGED <<files, cred, active, busy, saves>>

WriteTemp(m) ==
    /\ pc[m] = "temp"
    /\ \/ /\ temp' = [temp EXCEPT ![App(m)] = job[m].text]
          /\ GoTo(m, "move")
          /\ UNCHANGED history
       \/ /\ temp' = temp
          /\ Fails(m)
    /\ UNCHANGED <<config, registry, window>>

\* The temporary file, whoever wrote it, becomes the configuration, or is deleted.
Move(m) ==
    /\ pc[m] = "move"
    /\ temp' = [temp EXCEPT ![App(m)] = None]
    /\ \/ /\ temp[App(m)] # None
          /\ config' = [config EXCEPT ![App(m)] = temp[App(m)]]
          /\ GoTo(m, AfterMove(m))
          /\ IF AfterMove(m) = "end" THEN Completes(m, FALSE) ELSE UNCHANGED history
       \/ /\ config' = config
          /\ Fails(m)
    /\ UNCHANGED <<registry, window>>

\* Failing here is only a warning.
Activate(m) ==
    /\ pc[m] = "active"
    /\ \/ /\ active' = CredentialName(m)
          /\ Completes(m, TRUE)
       \/ /\ active' = active
          /\ Completes(m, FALSE)
    /\ GoTo(m, "end")
    /\ UNCHANGED <<files, cred, names, window>>

End(m) ==
    /\ pc[m] = "end"
    /\ GoTo(m, "idle")
    /\ busy' = [busy EXCEPT ![m] = FALSE]
    /\ job' = [job EXCEPT ![m] = Idle]
    /\ UNCHANGED <<files, registry, saves, history>>

ThreadStep(m) ==
    \/ Check(m) \/ StoreKey(m) \/ ReadNames(m) \/ WriteNames(m)
    \/ WriteTemp(m) \/ Move(m) \/ Activate(m) \/ End(m)

-----------------------------------------------------------------------------

Next ==
    \E m \in Managers :
        \/ \E a \in Apps, kind \in Kind : \E s \in Offered(a, kind) : Begin(m, a, s, kind)
        \/ Kill(m)
        \/ ThreadStep(m)

Spec == Init /\ [][Next]_vars

\* The scheduler runs the threads.
FairSpec == Spec /\ \A m \in Managers : WF_vars(ThreadStep(m))

-----------------------------------------------------------------------------
(* Properties                                                              *)

\* Every variable has its type, and a program is busy exactly while its thread runs.
TypeOK ==
    /\ config \in [Apps -> Address \cup {None}]
    /\ temp \in [Apps -> Address \cup {None}]
    /\ cred \in [Name -> Keys \cup {None}]
    /\ names \subseteq Name
    /\ active \in Name \cup {None, Unset}
    /\ pc \in [Managers -> Label]
    /\ job \in [Managers -> Job]
    /\ busy = [m \in Managers |-> pc[m] # "idle"]
    /\ saves \in 0 .. MaxSaves
    /\ done \in [Apps -> Save \cup {NoSave}]
    /\ launch \in [name : Name \cup {None, Unset}, key : Keys \cup {None}]
    /\ crossed \subseteq Managers
    /\ broken \subseteq Apps \cup Name

\* The keys that a launch puts into its environment.
Injected ==
    LET wanted == IF active = Unset THEN names ELSE {active} \cap Name
    IN  {cred[n] : n \in wanted} \ {None}

\* Nothing but complete saves has written the file or credential x, and none has got
\* as far as that by now.
Sound(x) == x \notin broken \cup UNION {Touched(m) : m \in Managers}

\* The file of an agent names the address of its last complete save (or, if that one
\* merged no address into it, of those before); the key of that save is the one under
\* its name, which is registered; and a launch injects the key that was chosen last and
\* no other.  Whoever saves without choosing (an import, Codex without a key or back at
\* its login, a save that cannot write the list) leaves the earlier key in every launch.
\* All this of files and credentials that were not written by a save that failed after
\* it or was ended, nor by saves of two programs that overlap: after those the file may
\* name one gateway and the credential be the key of another.
SavedTogether ==
    /\ \A a \in Apps :
        /\ Sound(a) => config[a] = done[a].base
        /\ done[a].key # None /\ Sound(done[a].name) =>
                done[a].name \in names /\ cred[done[a].name] = done[a].key
    /\ launch.name # Unset /\ Sound(launch.name) => Injected = {launch.key} \ {None}

\* Every save ends, and the wizard can be opened again (AgentDock.c:4942).
SaveEnds == \A m \in Managers : busy[m] ~> ~busy[m]
=============================================================================
