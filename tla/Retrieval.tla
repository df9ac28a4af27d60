----------------------------- MODULE Retrieval -----------------------------
(***************************************************************************)
(* The retrieval programs: main of retrieve.py and extract_all of          *)
(* pigeon_store.py, which copies every record of the mailbox into a folder.*)
(*                                                                         *)
(* The mailbox is a sequence of records, as MailboxLog promises it;        *)
(* deliveries may go on while it is read, and the medium may damage the    *)
(* header of a record.  A body that cannot be decrypted is one of the      *)
(* errors any record may meet (Skip).  A program finds the end of the      *)
(* records, counts them in a first pass and copies them in a second one.   *)
(* Every copy goes to a temporary file, which is then renamed to a name    *)
(* found free before the copying began.  No lock is taken on the store or  *)
(* on the folder.                                                          *)
(*                                                                         *)
(* placed and overlapped are history variables.                            *)
(***************************************************************************)
EXTENDS Integers, Sequences, FiniteSets

CONSTANTS
    Readers,        \* running retrieval programs, all with the same folder
    Names,          \* names of delivered files
    MaxRecords,     \* bound: records delivered
    MaxStarts       \* bound: retrievals started

ASSUME RetrievalAssumption == MaxRecords \in Nat /\ MaxStarts \in Nat

VARIABLES
    records,        \* the records of the mailbox
    folder,         \* the files in the folder: what each is a copy of
    plugged,        \* the drive is in
    pc,             \* where each program is
    run,            \* the locals of its main and extract_all
    answer,         \* the window it ended with
    starts,         \* retrievals started
    placed,         \* every file that has been in the folder, with its content
    overlapped      \* two programs used the folder at the same time

world == <<records, plugged, starts>>

history == <<placed, overlapped>>

vars == <<world, folder, pc, run, answer, history>>

-----------------------------------------------------------------------------

Record == [name : Names, head : BOOLEAN]

\* A name and the number _next_output_name adds to it, 0 for none.
Output == Names \X Nat

\* A file is the copy of a record, or something else: 0.
Text == 0 .. MaxRecords

\* seen: records in the mailbox when the program started; size: end of the records
\* it works with; count: result of the first pass; pos: record it is at; number: of
\* the free name; tmp: its temporary file; files, skipped: what it reports.
Run == [mode : {"author", "temporary"}, seen : Text,
        size : Text, count : Text, pos : 1 .. MaxRecords + 1, number : Nat,
        tmp : {"none", "open", "closed"},
        files : SUBSET (Output \X Text), skipped : Text]

Fresh(mode, n) ==
    [mode |-> mode, seen |-> n,
     size |-> 0, count |-> 0, pos |-> 1, number |-> 0,
     tmp |-> "none", files |-> {}, skipped |-> 0]

\* A pass over the first limit records sees n: it stops at an invalid header.
Scans(limit, n) ==
    /\ \A i \in 1 .. n : records[i].head
    /\ n < limit => ~records[n + 1].head

\* k is the least number that makes the name free.
Free(name, k) ==
    /\ <<name, k>> \notin DOMAIN folder
    /\ \A i \in 0 .. k - 1 : <<name, i>> \in DOMAIN folder

Target(r) == <<records[run[r].pos].name, run[r].number>>

\* The second pass is at a record whose header is valid.
AtRecord(r) ==
    /\ pc[r] = "head"
    /\ run[r].pos <= run[r].size
    /\ records[run[r].pos].head

GoTo(r, label) == pc' = [pc EXCEPT ![r] = label]

Finish(r, window) == GoTo(r, "idle") /\ answer' = [answer EXCEPT ![r] = window]

Begin(r, mode, label) ==
    /\ pc[r] = "idle"
    /\ plugged
    /\ starts < MaxStarts
    /\ starts' = starts + 1
    /\ run' = [run EXCEPT ![r] = Fresh(mode, Len(records))]
    /\ answer' = [answer EXCEPT ![r] = "none"]
    /\ overlapped' = (overlapped \/ \E q \in Readers \ {r} : pc[q] # "idle")
    /\ GoTo(r, label)
    /\ UNCHANGED <<records, plugged, folder, placed>>

-----------------------------------------------------------------------------
(* Faults: forms the actions below must not have.  Each breaks a property. *)

\* The name is taken as it is.
ChooseAnyName(r) ==
    /\ AtRecord(r)
    /\ plugged
    /\ run' = [run EXCEPT ![r].tmp = "open"]
    /\ GoTo(r, "copy")
    /\ UNCHANGED <<world, folder, answer, history>>

\* The damaged record is stepped over twice.
SkipTwo(r) ==
    /\ AtRecord(r) \/ pc[r] \in {"copy", "replace"}
    /\ run' = [run EXCEPT ![r].tmp = "none", ![r].skipped = @ + 1, ![r].pos = @ + 2]
    /\ GoTo(r, "head")
    /\ UNCHANGED <<world, folder, answer, history>>

\* The records after an invalid header are not counted.
LoseTrackUncounted(r) ==
    /\ pc[r] = "head"
    /\ run[r].pos <= run[r].size
    /\ plugged
    /\ ~records[run[r].pos].head
    /\ Finish(r, "exported")
    /\ UNCHANGED <<world, folder, run, history>>

\* The last record is taken for the end of the records.
FindEndShort(r) ==
    /\ pc[r] = "inspect"
    /\ plugged
    /\ \E n \in 0 .. Len(records) :
        /\ Scans(Len(records), n)
        /\ run' = [run EXCEPT ![r].size = IF n > 0 THEN n - 1 ELSE 0]
    /\ GoTo(r, "sweep")
    /\ UNCHANGED <<world, folder, answer, history>>

-----------------------------------------------------------------------------
(* The code                                                                *)

Init ==
    /\ records = <<>>
    /\ folder \in {<<>>} \cup [{<<n, 0>> : n \in Names} -> {0}]
    /\ plugged = TRUE
    /\ pc = [r \in Readers |-> "idle"]
    /\ run = [r \in Readers |-> Fresh("author", 0)]
    /\ answer = [r \in Readers |-> "none"]
    /\ starts = 0
    /\ placed = {<<o, folder[o]>> : o \in DOMAIN folder}
    /\ overlapped = FALSE

\* The form is submitted with a key file and its password, and the key is loaded.
SubmitKey(r) == Begin(r, "author", "inspect")

\* The form is submitted with a temporary code.
SubmitCode(r) == Begin(r, "temporary", "verify")

\* verify_and_consume accepts the code.
Granted(r) ==
    /\ pc[r] = "verify"
    /\ plugged
    /\ GoTo(r, "call")
    /\ UNCHANGED <<world, folder, run, answer, history>>

\* It refuses the code, or the record cannot be read.
Refused(r) ==
    /\ pc[r] = "verify"
    /\ Finish(r, "refused")
    /\ UNCHANGED <<world, folder, run, history>>

\* The second look at the drive.
DriveGone(r) ==
    /\ pc[r] = "call"
    /\ ~plugged
    /\ Finish(r, "refused")
    /\ UNCHANGED <<world, folder, run, history>>

\* extract_all takes three positional arguments and gets four: the TypeError is
\* not one of the errors main expects.
CallFails(r) ==
    /\ pc[r] = "call"
    /\ plugged
    /\ Finish(r, "unexpected")
    /\ UNCHANGED <<world, folder, run, history>>

\* inspect_store finds the end of the records.
FindEnd(r) ==
    /\ pc[r] = "inspect"
    /\ plugged
    /\ \E n \in 0 .. Len(records) :
        /\ Scans(Len(records), n)
        /\ run' = [run EXCEPT ![r].size = n]
    /\ GoTo(r, "sweep")
    /\ UNCHANGED <<world, folder, answer, history>>

\* Temporary files in the folder are deleted, except those a program holds open.
Sweep(r) ==
    /\ pc[r] = "sweep"
    /\ run' = [q \in Readers |->
                IF run[q].tmp = "closed" THEN [run[q] EXCEPT !.tmp = "none"] ELSE run[q]]
    /\ GoTo(r, "count")
    /\ UNCHANGED <<world, folder, answer, history>>

\* The first pass.
CountRecords(r) ==
    /\ pc[r] = "count"
    /\ plugged
    /\ \E n \in 0 .. run[r].size :
        /\ Scans(run[r].size, n)
        /\ run' = [run EXCEPT ![r].count = n]
    /\ GoTo(r, "head")
    /\ UNCHANGED <<world, folder, answer, history>>

\* The second pass reads an invalid header: the rest of the records counted is
\* reported as damaged.
LoseTrack(r) ==
    /\ pc[r] = "head"
    /\ run[r].pos <= run[r].size
    /\ plugged
    /\ ~records[run[r].pos].head
    /\ LET done == run[r].pos - 1
           rest == IF run[r].count > done THEN run[r].count - done ELSE 0
       IN  run' = [run EXCEPT ![r].skipped = @ + rest]
    /\ Finish(r, "exported")
    /\ UNCHANGED <<world, folder, history>>

\* It reads a valid one and decrypts the metadata; a free name is found and the
\* temporary file is created.
ChooseName(r) ==
    /\ AtRecord(r)
    /\ plugged
    /\ \E k \in 0 .. Cardinality(DOMAIN folder) :
        /\ Free(records[run[r].pos].name, k)
        /\ run' = [run EXCEPT ![r].tmp = "open", ![r].number = k]
    /\ GoTo(r, "copy")
    /\ UNCHANGED <<world, folder, answer, history>>

\* All of the body is decrypted into the temporary file, which is closed.
CopyBody(r) ==
    /\ pc[r] = "copy"
    /\ plugged
    /\ run' = [run EXCEPT ![r].tmp = "closed"]
    /\ GoTo(r, "replace")
    /\ UNCHANGED <<world, folder, answer, history>>

\* os.replace: whatever has the name by now is replaced.
Replace(r) ==
    /\ pc[r] = "replace"
    /\ run[r].tmp = "closed"
    /\ LET file == <<Target(r), run[r].pos>>
       IN  /\ folder' = [o \in DOMAIN folder \cup {Target(r)} |->
                            IF o = Target(r) THEN run[r].pos ELSE folder[o]]
           /\ run' = [run EXCEPT ![r].tmp = "none", ![r].pos = @ + 1,
                                 ![r].files = @ \cup {file}]
           /\ placed' = placed \cup {file}
    /\ GoTo(r, "head")
    /\ UNCHANGED <<world, answer, overlapped>>

\* Any error between the header and the rename (the body cannot be decrypted, the
\* drive is gone, the folder's disk is full, the temporary file is gone) counts as a
\* damaged record.
Skip(r) ==
    /\ AtRecord(r) \/ pc[r] \in {"copy", "replace"}
    /\ run' = [run EXCEPT ![r].tmp = "none", ![r].skipped = @ + 1, ![r].pos = @ + 1]
    /\ GoTo(r, "head")
    /\ UNCHANGED <<world, folder, answer, history>>

\* The second pass is over.
Report(r) ==
    /\ pc[r] = "head"
    /\ run[r].pos > run[r].size
    /\ Finish(r, "exported")
    /\ UNCHANGED <<world, folder, run, history>>

\* Reading the store, making the folder or reporting progress raises OSError, outside
\* the loop's try.
ReadFails(r) ==
    /\ pc[r] \in {"inspect", "count", "head"}
    /\ Finish(r, "failed")
    /\ UNCHANGED <<world, folder, run, history>>

\* The program is ended; its temporary file stays until a sweep.
Crash(r) ==
    /\ pc[r] # "idle"
    /\ run' = [run EXCEPT ![r] = Fresh("author", 0)]
    /\ Finish(r, "none")
    /\ UNCHANGED <<world, folder, history>>

\* A delivery puts a record at the end.
Deliver ==
    /\ Len(records) < MaxRecords
    /\ \A i \in DOMAIN records : records[i].head
    /\ \E name \in Names : records' = Append(records, [name |-> name, head |-> TRUE])
    /\ UNCHANGED <<plugged, starts, folder, pc, run, answer, history>>

\* The medium, or a delivery that raced another one, damages a header.
Damage ==
    /\ \E i \in DOMAIN records :
        /\ records[i].head
        /\ records' = [records EXCEPT ![i].head = FALSE]
    /\ UNCHANGED <<plugged, starts, folder, pc, run, answer, history>>

\* The drive is pulled and stays out.
Pull ==
    /\ plugged
    /\ plugged' = FALSE
    /\ UNCHANGED <<records, starts, folder, pc, run, answer, history>>

ReaderStep(r) ==
    \/ SubmitKey(r)
    \/ SubmitCode(r)
    \/ Granted(r)
    \/ Refused(r)
    \/ DriveGone(r)
    \/ CallFails(r)
    \/ FindEnd(r)
    \/ Sweep(r)
    \/ CountRecords(r)
    \/ LoseTrack(r)
    \/ ChooseName(r)
    \/ CopyBody(r)
    \/ Replace(r)
    \/ Skip(r)
    \/ Report(r)
    \/ ReadFails(r)
    \/ Crash(r)

Next ==
    \/ \E r \in Readers : ReaderStep(r)
    \/ Deliver
    \/ Damage
    \/ Pull

Spec == Init /\ [][Next]_vars

-----------------------------------------------------------------------------
(* Properties                                                              *)

PC == {"idle", "verify", "call", "inspect", "sweep", "count",
       "head", "copy", "replace"}

Windows == {"none", "exported", "refused", "failed", "unexpected"}

TypeOK ==
    /\ records \in Seq(Record) /\ Len(records) <= MaxRecords
    /\ DOMAIN folder \subseteq Output
    /\ \A o \in DOMAIN folder : folder[o] \in Text
    /\ plugged \in BOOLEAN
    /\ pc \in [Readers -> PC]
    /\ run \in [Readers -> Run]
    /\ answer \in [Readers -> Windows]
    /\ starts \in 0 .. MaxStarts
    /\ placed \subseteq Output \X Text
    /\ overlapped \in BOOLEAN

\* The two numbers of the last window add up to the records the first pass counted,
\* whatever is damaged or delivered between the passes and wherever copying fails.
Accounted ==
    \A r \in Readers : answer[r] = "exported" =>
        Cardinality(run[r].files) + run[r].skipped = run[r].count

\* A program that is alone with the folder overwrites nothing in it: neither what was
\* there nor what an earlier retrieval, ended in whatever way, has put there.
FilesKept ==
    ~overlapped => \A f \in placed : f[1] \in DOMAIN folder /\ folder[f[1]] = f[2]

\* When the last window reports no damaged record, every record that was in the
\* mailbox when the program started has its copy, unless a header is damaged.
Complete ==
    \A r \in Readers :
        /\ answer[r] = "exported"
        /\ run[r].skipped = 0
        /\ \A i \in DOMAIN records : records[i].head
        => \A i \in 1 .. run[r].seen : \E f \in run[r].files : f[2] = i
=============================================================================
