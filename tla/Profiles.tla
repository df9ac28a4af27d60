------------------------------ MODULE Profiles -----------------------------
(***************************************************************************)
(* The profiles of AgentDock's configuration wizard (AgentDock.c).  Each   *)
(* agent has a list of profiles in the registry; the key of a profile is   *)
(* in a slot of the credential manager whose name is made of the profile's *)
(* id alone.  The ids of every agent begin at 1, so agents share slots.    *)
(*                                                                         *)
(* One wizard edits a copy of one list.  Its handlers are steps; a write   *)
(* may fail and the program may end between the two writes of a handler.   *)
(* A slot is never deleted: it is overwritten with a single space (Blank), *)
(* which is read back as a key.                                            *)
(*                                                                         *)
(* The array of the wizard has room for MaxProfiles and is not checked     *)
(* when a profile is added: the model writes one entry behind its end, and *)
(* says nothing of what else is there.                                     *)
(*                                                                         *)
(* given, users, spoiled and overrun are history variables.                *)
(***************************************************************************)
EXTENDS Integers, Sequences, FiniteSetsExt, SequencesExt

CONSTANTS
    Agents,         \* Claude Code, Codex
    Keys,           \* keys a user may type
    None,           \* no key, an empty field
    Blank,          \* a single space
    MaxProfiles,    \* CCM_PROFILE_MAX
    MaxId           \* bound: ids in use

ASSUME ProfilesAssumption ==
    /\ MaxProfiles \in Nat \ {0}
    /\ MaxId \in Nat
    /\ None \notin Keys /\ Blank \notin Keys /\ None # Blank

VARIABLES
    stored,         \* the lists in the registry, of ids
    slot,           \* the slots of the credential manager
    app,            \* the agent the wizard is at
    list,           \* its copy of that agent's list
    sel,            \* the profile selected there, or 0
    key,            \* the key in the form
    given,          \* the key a profile was last saved with
    users,          \* the agents whose profiles have used an id
    spoiled,        \* ids with a write that failed or was cut off
    overrun         \* a list grew past MaxProfiles

wizard == <<app, list, sel, key>>

history == <<given, users, spoiled, overrun>>

profilesVars == <<stored, slot, wizard, history>>

-----------------------------------------------------------------------------

Id == 1 .. MaxId

Lists == {l \in BoundedSeq(Id, MaxProfiles + 1) : IsInjective(l)}

Load(a) == SubSeq(stored[a], 1, Min({Len(stored[a]), MaxProfiles}))

\* A fault: the id of a new profile is its place in the list.
NextIdByCount == 1 + Len(list)

NextId == 1 + Max(ToSet(list) \cup {0})

\* The entry that save writes: the selected one, or a new one.
Target == IF sel = 0 THEN NextId ELSE list[sel]

Listed(a, i) == i \in ToSet(stored[a])

\* A handler that has written all of profile i makes up for what failed before, unless
\* it was another agent's.
Spoil(i, whole) ==
    IF ~whole THEN spoiled \cup {i}
    ELSE IF users[i] \subseteq {app} THEN spoiled \ {i} ELSE spoiled

\* What the slot of i holds after a write of k that may fail.
Written(i, k) == {[slot EXCEPT ![i] = k], slot}

-----------------------------------------------------------------------------
(* A fault: a profile is deleted and its slot stays                        *)

DeleteKeepingKey ==
    LET i == list[sel]
    IN  /\ sel # 0
        /\ list' = RemoveAt(list, sel)
        /\ sel' = 0
        /\ stored' \in {[stored EXCEPT ![app] = list'], stored}
        /\ given' = [given EXCEPT ![app][i] = None]
        /\ spoiled' = Spoil(i, stored'[app] = list')
        /\ UNCHANGED <<slot, app, key, users, overrun>>

-----------------------------------------------------------------------------
(* The wizard                                                              *)

ProfilesInit ==
    /\ stored = [a \in Agents |-> <<>>]
    /\ slot = [i \in Id |-> None]
    /\ app \in Agents
    /\ list = <<>> /\ sel = 0 /\ key = None
    /\ given = [a \in Agents |-> [i \in Id |-> None]]
    /\ users = [i \in Id |-> {}]
    /\ spoiled = {}
    /\ overrun = FALSE

\* The user types a key, or clears it.
Type(k) ==
    /\ key' = k
    /\ UNCHANGED <<stored, slot, app, list, sel, history>>

\* An agent without profiles gets the key of its present configuration, if any.
SelectApp(a) ==
    /\ app' = a
    /\ list' = Load(a)
    /\ sel' = 0
    /\ \/ key' = key
       \/ list' = <<>> /\ key' \in Keys
    /\ UNCHANGED <<stored, slot, history>>

SelectProfile(n) ==
    /\ n \in DOMAIN list
    /\ sel' = n
    /\ key' = slot[list[n]]
    /\ UNCHANGED <<stored, slot, app, list, history>>

\* The key cannot be stored, or stored and not registered: the handler returns.
SaveRefused ==
    /\ key # None
    /\ Target \in Id
    /\ slot' \in Written(Target, key)
    /\ spoiled' = IF slot' = slot THEN spoiled ELSE spoiled \cup {Target}
    /\ UNCHANGED <<stored, wizard, given, users, overrun>>

\* Slot first, then the list; without a key the slot is blanked, and a failure of
\* that, or of the list, is ignored.
SaveAs ==
    LET i == Target
        k == IF key = None THEN Blank ELSE key
    IN  /\ i \in Id
        /\ slot' \in (IF key = None THEN Written(i, k) ELSE {[slot EXCEPT ![i] = k]})
        /\ list' = IF sel = 0 THEN Append(list, i) ELSE list
        /\ sel' = IF sel = 0 THEN Len(list) + 1 ELSE sel
        /\ key' = None
        /\ stored' \in {[stored EXCEPT ![app] = list'], stored}
        /\ given' = [given EXCEPT ![app][i] = IF key \in Keys THEN key ELSE None]
        /\ users' = [users EXCEPT ![i] = @ \cup {app}]
        /\ spoiled' = Spoil(i, slot'[i] = k /\ stored'[app] = list')
        /\ overrun' = (overrun \/ Len(list') > MaxProfiles)
        /\ Len(list') <= MaxProfiles + 1
        /\ UNCHANGED app

\* A failure to blank the slot or to store the list is ignored here too.
Delete ==
    LET i == list[sel]
    IN  /\ sel # 0
        /\ slot' \in Written(i, Blank)
        /\ list' = RemoveAt(list, sel)
        /\ sel' = 0
        /\ stored' \in {[stored EXCEPT ![app] = list'], stored}
        /\ given' = [given EXCEPT ![app][i] = None]
        /\ spoiled' = Spoil(i, slot'[i] = Blank /\ stored'[app] = list')
        /\ UNCHANGED <<app, key, users, overrun>>

\* The program ends, perhaps between the slot and the list, and is started again.
Restart ==
    /\ \/ UNCHANGED <<slot, spoiled>>
       \/ /\ Target \in Id
          /\ slot' \in {[slot EXCEPT ![Target] = k] : k \in {key, Blank} \ {None}}
          /\ spoiled' = spoiled \cup {Target}
    /\ app' \in Agents
    /\ list' = Load(app')
    /\ sel' = 0
    /\ key' = None
    /\ UNCHANGED <<stored, given, users, overrun>>

ProfilesNext ==
    \/ \E k \in Keys \cup {None} : Type(k)
    \/ \E a \in Agents : SelectApp(a)
    \/ \E n \in 1 .. MaxProfiles + 1 : SelectProfile(n)
    \/ SaveRefused \/ SaveAs \/ Delete \/ Restart

ProfilesSpec == ProfilesInit /\ [][ProfilesNext]_profilesVars

-----------------------------------------------------------------------------
(* Properties                                                              *)

\* Every variable has its type.
ProfilesTypeOK ==
    /\ stored \in [Agents -> Lists]
    /\ slot \in [Id -> Keys \cup {None, Blank}]
    /\ app \in Agents
    /\ list \in Lists
    /\ sel \in 0 .. Len(list)
    /\ key \in Keys \cup {None, Blank}
    /\ given \in [Agents -> [Id -> Keys \cup {None}]]
    /\ users \in [Id -> SUBSET Agents]
    /\ spoiled \subseteq Id
    /\ overrun \in BOOLEAN

\* The slot i has the key that a's profile i was saved with.
Holds(a, i) ==
    IF given[a][i] = None THEN slot[i] \in {None, Blank} ELSE slot[i] = given[a][i]

\* Unless a write failed: a profile whose id only its own agent has used is read back
\* with its own key, and a key is in no slot without a profile (AgentDock.c:4532-4594),
\* as long as no list grew past its end.
SlotsMatchLists ==
    \A i \in Id \ spoiled :
        /\ \A a \in Agents : Listed(a, i) /\ users[i] = {a} => Holds(a, i)
        /\ slot[i] \in Keys => overrun \/ \E a \in Agents : Listed(a, i)

\* Each agent has profiles of its own: one that is selected fills in the key it was
\* saved with, unless a write failed.
ProfileRefills ==
    \A a \in Agents, i \in Id \ spoiled : Listed(a, i) => Holds(a, i)
=============================================================================
