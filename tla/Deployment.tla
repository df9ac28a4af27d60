----------------------------- MODULE Deployment ----------------------------
(***************************************************************************)
(* The deployment program (initialize_usb.py): it clears a drive, makes    *)
(* the keys of a mailbox and writes what the author keeps into a folder    *)
(* (the kit) and everything else onto the drive, the store last.           *)
(*                                                                         *)
(* Every file is a step of its own; each may fail, and the program may end *)
(* after it.  Drives are deployed again over what an earlier deployment    *)
(* left, several programs may run, and a delivery program may be at work.  *)
(*                                                                         *)
(* A key is the number of the deployment that made it; the two key pairs   *)
(* of a deployment have one number.  The last phase never succeeds:        *)
(* run_icacls unpacks its one string argument character by character.      *)
(*                                                                         *)
(* home, shared and contended are history variables.                       *)
(***************************************************************************)
EXTENDS Integers, Sequences

CONSTANTS
    Deployers,      \* running deployment programs
    Inboxes,        \* running delivery programs
    Drives,
    Kits,           \* folders of the author
    MaxKeys         \* bound: deployments that get to make keys

ASSUME DeploymentAssumption == MaxKeys \in Nat

VARIABLES
    drive,          \* the files of each drive
    kit,            \* the files of each kit
    pc,             \* where each deployment program is
    job,            \* its locals
    inbox,          \* the delivery programs
    home,           \* for each key, the kit its private half was written to
    shared,         \* kits that two programs found empty before either wrote to it
    contended       \* drives that two programs were deploying at a time

history == <<home, shared, contended>>

vars == <<drive, kit, pc, job, inbox, history>>

-----------------------------------------------------------------------------

None == 0

\* A file cut short.
Torn == -1

Key == 1 .. MaxKeys

NoPair == [author |-> None, temp |-> None]

Pair == [author : Key, temp : Key]

\* "broken": the folder of the delivery program was deleted in part.
Drive == [public : Key \cup {None}, temp : Key \cup {None}, access : Key \cup {None},
          license : Pair \cup {NoPair}, inbox : {"none", "broken", "whole"},
          store : Pair \cup {NoPair}, records : SUBSET Pair]

Blank == [public |-> None, temp |-> None, access |-> None, license |-> NoPair,
          inbox |-> "none", store |-> NoPair, records |-> {}]

Kit == [private : Key \cup {None, Torn}, qr : Key \cup {None},
        master : [Drives -> Key \cup {None}]]

Part == {"public", "temp", "access", "license", "inbox", "store"}

Present(d) == {f \in Part : drive[d][f] # Blank[f]}

\* What clearing the file f leaves: the records are in the store.
Without(files, f) ==
    [files EXCEPT ![f] = Blank[f], !.records = IF f = "store" THEN {} ELSE @]

Job == [drive : Drives, kit : Kits, existing : SUBSET Part, key : Key \cup {None}]

Writing == {"private", "public", "temp", "access", "qr", "license", "master",
            "programs", "store", "lock"}

Label == {"idle", "ask", "confirm", "clear"} \cup Writing

Inbox == [pc : {"idle", "loaded", "checked"}, drive : Drives,
          keys : Pair \cup {NoPair}]

\* A fault: the program runs from a copy that it unpacks elsewhere.
InUseNever(d) == FALSE

\* A program that runs from the drive keeps its files from being deleted.
InUse(d) == \E i \in Inboxes : inbox[i].pc # "idle" /\ inbox[i].drive = d

\* Past the check of the kit, its private key not yet written.
MayWrite(p, k) == pc[p] \in {"ask", "confirm", "clear", "private"} /\ job[p].kit = k

\* Past the listing of the drive.
At(p, d) == pc[p] \notin {"idle", "ask"} /\ job[p].drive = d

GoTo(p, label) == pc' = [pc EXCEPT ![p] = label]

Here(p) == drive[job[p].drive]

WriteDrive(p, f, value) == drive' = [drive EXCEPT ![job[p].drive][f] = value]

-----------------------------------------------------------------------------
(* Faults: forms the properties below would catch                          *)

\* The folder of the kit is taken whatever it holds.
ChooseAnyFolder(p, d, k) ==
    /\ pc[p] = "idle"
    /\ Len(home) < MaxKeys
    /\ job' = [job EXCEPT ![p] = [drive |-> d, kit |-> k, existing |-> {}, key |-> None]]
    /\ GoTo(p, "ask")
    /\ shared' = IF \E q \in Deployers \ {p} : MayWrite(q, k)
                 THEN shared \cup {k} ELSE shared
    /\ UNCHANGED <<drive, kit, inbox, home, contended>>

\* Errors of the deletion are ignored.
ClearedInPart(p) ==
    /\ pc[p] = "clear"
    /\ GoTo(p, "private")
    /\ UNCHANGED <<drive, kit, job, inbox, history>>

\* The license is made without reading the author's key back from the drive.
WriteLicenseUnread(p) ==
    /\ pc[p] = "license"
    /\ WriteDrive(p, "license", [author |-> Here(p).public, temp |-> job[p].key])
    /\ GoTo(p, "master")
    /\ UNCHANGED <<kit, job, inbox, history>>

-----------------------------------------------------------------------------
(* Deployment                                                              *)

Init ==
    /\ drive = [d \in Drives |-> Blank]
    /\ kit = [k \in Kits |-> [private |-> None, qr |-> None,
                              master |-> [d \in Drives |-> None]]]
    /\ pc = [p \in Deployers |-> "idle"]
    /\ job \in [Deployers -> {j \in Job : j.existing = {} /\ j.key = None}]
    /\ inbox \in [Inboxes -> {i \in Inbox : i.pc = "idle" /\ i.keys = NoPair}]
    /\ home = <<>>
    /\ shared = {}
    /\ contended = {}

\* The user chooses a drive and a folder that holds no private key.
Choose(p, d, k) ==
    /\ pc[p] = "idle"
    /\ Len(home) < MaxKeys
    /\ kit[k].private = None
    /\ job' = [job EXCEPT ![p] = [drive |-> d, kit |-> k, existing |-> {}, key |-> None]]
    /\ GoTo(p, "ask")
    /\ shared' = IF \E q \in Deployers \ {p} : MayWrite(q, k)
                 THEN shared \cup {k} ELSE shared
    /\ UNCHANGED <<drive, kit, inbox, home, contended>>

\* After the password dialogs the files on the drive are listed.
List(p) ==
    /\ pc[p] = "ask"
    /\ job' = [job EXCEPT ![p].existing = Present(job[p].drive)]
    /\ GoTo(p, "confirm")
    /\ contended' = IF \E q \in Deployers \ {p} : At(q, job[p].drive)
                    THEN contended \cup {job[p].drive} ELSE contended
    /\ UNCHANGED <<drive, kit, inbox, home, shared>>

\* The user types DEPLOY; the permissions are reset.
Confirm(p) ==
    /\ pc[p] = "confirm"
    /\ GoTo(p, "clear")
    /\ UNCHANGED <<drive, kit, job, inbox, history>>

\* One of the listed files is deleted; one that is gone by now raises (Stop).
ClearFile(p, f) ==
    /\ pc[p] = "clear"
    /\ f \in job[p].existing \cap Present(job[p].drive)
    /\ f = "inbox" => ~InUse(job[p].drive)
    /\ drive' = [drive EXCEPT ![job[p].drive] = Without(@, f)]
    /\ job' = [job EXCEPT ![p].existing = @ \ {f}]
    /\ UNCHANGED <<kit, pc, inbox, history>>

\* Deleting the folder of the delivery program ends at a file in use.
ClearInboxFails(p) ==
    /\ pc[p] = "clear"
    /\ "inbox" \in job[p].existing \cap Present(job[p].drive)
    /\ WriteDrive(p, "inbox", "broken")
    /\ GoTo(p, "idle")
    /\ UNCHANGED <<kit, job, inbox, history>>

Cleared(p) ==
    /\ pc[p] = "clear"
    /\ job[p].existing = {}
    /\ GoTo(p, "private")
    /\ UNCHANGED <<drive, kit, job, inbox, history>>

\* The private key is written whatever the folder holds by now.
WritePrivate(p) ==
    /\ pc[p] = "private"
    /\ Len(home) < MaxKeys
    /\ kit' = [kit EXCEPT ![job[p].kit].private = Len(home) + 1]
    /\ job' = [job EXCEPT ![p].key = Len(home) + 1]
    /\ home' = Append(home, job[p].kit)
    /\ GoTo(p, "public")
    /\ UNCHANGED <<drive, inbox, shared, contended>>

WritePublic(p) ==
    /\ pc[p] = "public"
    /\ WriteDrive(p, "public", job[p].key)
    /\ GoTo(p, "temp")
    /\ UNCHANGED <<kit, job, inbox, history>>

WriteTemp(p) ==
    /\ pc[p] = "temp"
    /\ WriteDrive(p, "temp", job[p].key)
    /\ GoTo(p, "access")
    /\ UNCHANGED <<kit, job, inbox, history>>

WriteAccess(p) ==
    /\ pc[p] = "access"
    /\ WriteDrive(p, "access", job[p].key)
    /\ GoTo(p, "qr")
    /\ UNCHANGED <<kit, job, inbox, history>>

WriteQr(p) ==
    /\ pc[p] = "qr"
    /\ kit' = [kit EXCEPT ![job[p].kit].qr = job[p].key]
    /\ GoTo(p, "license")
    /\ UNCHANGED <<drive, job, inbox, history>>

\* The license pins the author's key as the drive has it, and the temporary key.
WriteLicense(p) ==
    /\ pc[p] = "license"
    /\ Here(p).public # None
    /\ WriteDrive(p, "license", [author |-> Here(p).public, temp |-> job[p].key])
    /\ GoTo(p, "master")
    /\ UNCHANGED <<kit, job, inbox, history>>

WriteMaster(p) ==
    /\ pc[p] = "master"
    /\ kit' = [kit EXCEPT ![job[p].kit].master[job[p].drive] = job[p].key]
    /\ GoTo(p, "programs")
    /\ UNCHANGED <<drive, job, inbox, history>>

\* Instructions, the mark of the trial, both programs and their shortcuts.
CopyPrograms(p) ==
    /\ pc[p] = "programs"
    /\ ~InUse(job[p].drive)
    /\ WriteDrive(p, "inbox", "whole")
    /\ GoTo(p, "store")
    /\ UNCHANGED <<kit, job, inbox, history>>

\* initialize_store, with the keys as the drive has them; it truncates.
WriteStore(p) ==
    /\ pc[p] = "store"
    /\ Here(p).public # None
    /\ Here(p).temp # None
    /\ drive' = [drive EXCEPT ![job[p].drive] =
                    [@ EXCEPT !.store = [author |-> Here(p).public, temp |-> Here(p).temp],
                              !.records = {}]]
    /\ GoTo(p, "lock")
    /\ UNCHANGED <<kit, job, inbox, history>>

\* Any step raises, or the program ends; lock_folder always raises.
Stop(p) ==
    /\ pc[p] # "idle"
    /\ GoTo(p, "idle")
    /\ UNCHANGED <<drive, kit, job, inbox, history>>

\* The private key is cut short.
TearPrivate(p) ==
    /\ pc[p] = "private"
    /\ kit' = [kit EXCEPT ![job[p].kit].private = Torn]
    /\ GoTo(p, "idle")
    /\ UNCHANGED <<drive, job, inbox, history>>

-----------------------------------------------------------------------------
(* Delivery, as far as it concerns the deployment                          *)

\* The public keys agree with the license, if there is one, and with the store.
Matches(d) ==
    LET keys == [author |-> drive[d].public, temp |-> drive[d].temp]
    IN  keys \in Pair /\ drive[d].license \in {keys, NoPair} /\ drive[d].store = keys

StartInbox(i, d) ==
    /\ inbox[i].pc = "idle"
    /\ drive[d].inbox = "whole"
    /\ Matches(d)
    /\ inbox' = [inbox EXCEPT ![i] = [pc |-> "loaded", drive |-> d, keys |-> drive[d].store]]
    /\ UNCHANGED <<drive, kit, pc, job, history>>

\* append_file compares its keys with the header before it opens the store to write.
CheckHeader(i) ==
    /\ inbox[i].pc = "loaded"
    /\ drive[inbox[i].drive].store = inbox[i].keys
    /\ inbox' = [inbox EXCEPT ![i].pc = "checked"]
    /\ UNCHANGED <<drive, kit, pc, job, history>>

Deliver(i) ==
    /\ inbox[i].pc = "checked"
    /\ drive[inbox[i].drive].store # NoPair
    /\ drive' = [drive EXCEPT ![inbox[i].drive].records = @ \cup {inbox[i].keys}]
    /\ inbox' = [inbox EXCEPT ![i].pc = "loaded"]
    /\ UNCHANGED <<kit, pc, job, history>>

\* No more files, or an error.
EndInbox(i) ==
    /\ inbox[i].pc # "idle"
    /\ inbox' = [inbox EXCEPT ![i].pc = "idle", ![i].keys = NoPair]
    /\ UNCHANGED <<drive, kit, pc, job, history>>

-----------------------------------------------------------------------------

DeployStep(p) ==
    \/ \E d \in Drives, k \in Kits : Choose(p, d, k)
    \/ List(p) \/ Confirm(p)
    \/ \E f \in Part : ClearFile(p, f)
    \/ ClearInboxFails(p) \/ Cleared(p)
    \/ WritePrivate(p) \/ WritePublic(p) \/ WriteTemp(p) \/ WriteAccess(p)
    \/ WriteQr(p) \/ WriteLicense(p) \/ WriteMaster(p) \/ CopyPrograms(p)
    \/ WriteStore(p)
    \/ Stop(p) \/ TearPrivate(p)

InboxStep(i) ==
    \/ \E d \in Drives : StartInbox(i, d)
    \/ CheckHeader(i) \/ Deliver(i) \/ EndInbox(i)

Next ==
    \/ \E p \in Deployers : DeployStep(p)
    \/ \E i \in Inboxes : InboxStep(i)

Spec == Init /\ [][Next]_vars

-----------------------------------------------------------------------------
(* Properties                                                              *)

\* Every variable has its type.
TypeOK ==
    /\ drive \in [Drives -> Drive]
    /\ kit \in [Kits -> Kit]
    /\ pc \in [Deployers -> Label]
    /\ job \in [Deployers -> Job]
    /\ inbox \in [Inboxes -> Inbox]
    /\ home \in Seq(Kits) /\ Len(home) <= MaxKeys
    /\ shared \subseteq Kits
    /\ contended \subseteq Drives

\* Whatever a delivery put on a drive can be read with a private key some kit holds,
\* through ended and failed deployments and new ones over them, unless two programs had
\* found one folder empty (initialize_usb.py:538 and 595).
AuthorKept ==
    \A d \in Drives : \A r \in drive[d].records :
        \/ kit[home[r.author]].private = r.author
        \/ home[r.author] \in shared

\* The parts of one drive never come from two deployments, and a drive with a store
\* has everything the author needs in the kit, the store being the last file written,
\* unless two programs deployed the drive at the same time.
OneDeployment ==
    \A d \in Drives \ contended :
        LET files == drive[d]
            made == {files.public, files.temp, files.access, files.license.author,
                     files.license.temp, files.store.author, files.store.temp} \ {None}
            n == files.store.author
        IN  /\ \A k, l \in made : k = l
            /\ n # None /\ home[n] \notin shared =>
                /\ kit[home[n]].private = n
                /\ kit[home[n]].qr = n
                /\ kit[home[n]].master[d] = n

\* No record is encrypted to keys other than those of its store: a program that runs
\* from the drive, with the keys it has loaded, keeps a new deployment from beginning.
RecordsMatch ==
    \A d \in Drives \ contended : \A r \in drive[d].records : r = drive[d].store
=============================================================================
