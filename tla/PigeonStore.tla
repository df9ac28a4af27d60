---------------------------- MODULE PigeonStore ----------------------------
(***************************************************************************)
(* The mailbox file (.pigeon.store) and the processes that append to it:   *)
(* pigeon_store.py, as the inbox drives it.                                *)
(*                                                                         *)
(* The data area is a row of cells numbered from 0.  A record takes one    *)
(* cell for its header (RECORD_SIZE bytes) and one for every piece of its  *)
(* body: the two wrapped keys with the metadata, then the encrypted        *)
(* chunks.  Cell number Capacity stands for whatever lies past the end of  *)
(* the store: it is zero as long as the file has the size its own header   *)
(* declares.                                                               *)
(*                                                                         *)
(* A writer is one delivery process.  It scans the store for the end of    *)
(* the records, and for every file it delivers checks the space, takes the *)
(* byte lock, writes the body, syncs, writes the header, syncs and unlocks.*)
(* The offset is read before the lock is taken and is not read again.      *)
(*                                                                         *)
(* file is what a read of the store returns, disk what survives a power    *)
(* loss.  begun, delivered, seen and raced are history variables.          *)
(***************************************************************************)
EXTENDS Integers, FiniteSets

CONSTANTS
    Writers,        \* the delivery processes
    NoOne,          \* the owner of the byte lock when it is free
    Capacity,       \* cells of the data area
    BodySizes,      \* body sizes, in cells, a source file can have
    MaxAppends      \* bound: appends begun in one behaviour

ASSUME StoreAssumption ==
    /\ NoOne \notin Writers
    /\ Capacity \in Nat \ {0}
    /\ BodySizes \subseteq Nat \ {0}
    /\ MaxAppends \in Nat

VARIABLES
    file,           \* the store as processes read it
    disk,           \* the store as a power loss leaves it
    lock,           \* owner of the byte lock
    pc,             \* where each process is
    used,           \* end of the records as each process knows it (the hint)
    job,            \* the append each process is working on
    cursor,         \* body cells of it already written
    begun,          \* every append begun
    delivered,      \* the appends that returned
    seen,           \* records committed when each process read its offset
    raced           \* a process took the lock with an offset that was stale

history == <<begun, delivered, seen, raced>>

vars == <<file, disk, lock, pc, used, job, cursor, history>>

-----------------------------------------------------------------------------
(* Cells, records and jobs                                                 *)

Pos == 0 .. Capacity

\* What n holds: of a header the cells of its whole record, of a body cell its
\* rank in the body.  "extra" is a body cell past the length the header gives.
Cell == [kind : {"zero", "head", "body", "extra"}, id : Nat, n : Nat]

Zero == [kind |-> "zero", id |-> 0, n |-> 0]

\* One call of append_file: where it will write, the body size stat gave it and
\* the body size it will read from the source.
Job == [id : Nat, pos : Pos, len : Nat, real : Nat]

NoJob == [id |-> 0, pos |-> 0, len |-> 0, real |-> 0]

Total(j) == 1 + j.len

End(j) == j.pos + Total(j)

Head(j) == [kind |-> "head", id |-> j.id, n |-> Total(j)]

Body(j, i) == [kind |-> IF i <= j.len THEN "body" ELSE "extra", id |-> j.id, n |-> i]

\* Everything at or past Capacity is cell Capacity.
Slot(p) == IF p < Capacity THEN p ELSE Capacity

\* The header says one size, the file has another.
Grown(f) == f[Capacity].kind # "zero"

\* A header the scan of _record_end accepts and steps over.
HeaderAt(f, p) ==
    /\ p < Capacity
    /\ f[p].kind = "head"
    /\ p + f[p].n <= Capacity

\* The body cells of job j that it really wrote and its header declares.
BodyStands(f, j) ==
    \A i \in 1 .. j.len : i <= j.real => f[j.pos + i] = Body(j, i)

Committed(f, j) == f[j.pos] = Head(j)

CommittedJobs(f) == {j \in begun : Committed(f, j)}

\* The reader can decrypt j: header and all of the body, of the declared size.
Readable(f, j) == Committed(f, j) /\ BodyStands(f, j) /\ j.real = j.len

GoTo(w, label) == pc' = [pc EXCEPT ![w] = label]

Release(w) == IF lock = w THEN NoOne ELSE lock

-----------------------------------------------------------------------------
(* Faults: forms the actions below must not have.  Each breaks a property. *)

\* The space check forgets the cell of the header.
BeginAppendForgetsHeader(w) ==
    /\ pc[w] = "ready"
    /\ job[w] # NoJob => ~Grown(file)
    /\ Cardinality(begun) < MaxAppends
    /\ \E len, real \in BodySizes :
        LET j == [id |-> Cardinality(begun) + 1, pos |-> used[w],
                  len |-> len, real |-> real]
        IN  /\ j.pos + j.len <= Capacity
            /\ job' = [job EXCEPT ![w] = j]
            /\ begun' = begun \cup {j}
    /\ cursor' = [cursor EXCEPT ![w] = 0]
    /\ GoTo(w, "locking")
    /\ UNCHANGED <<file, disk, lock, used, delivered, seen, raced>>

\* The body is not synced before the header.
SyncBodyLate(w) ==
    /\ pc[w] = "body"
    /\ cursor[w] = job[w].real
    /\ GoTo(w, "header")
    /\ UNCHANGED <<file, disk, lock, used, job, cursor, history>>

\* The body ends when as much was read as stat announced.
SyncBodyByStat(w) ==
    /\ pc[w] = "body"
    /\ cursor[w] = job[w].len
    /\ disk' = file
    /\ GoTo(w, "header")
    /\ UNCHANGED <<file, lock, used, job, cursor, history>>

\* The header is not synced before the return.
SyncHeaderNever(w) ==
    /\ pc[w] = "sync"
    /\ GoTo(w, "unlock")
    /\ UNCHANGED <<file, disk, lock, used, job, cursor, history>>

\* The hint forgets the cell of the header.
ReturnShortHint(w) ==
    /\ pc[w] = "unlock"
    /\ lock' = NoOne
    /\ used' = [used EXCEPT ![w] = job[w].pos + job[w].len]
    /\ delivered' = delivered \cup {job[w]}
    /\ seen' = [seen EXCEPT ![w] = CommittedJobs(file)]
    /\ GoTo(w, "ready")
    /\ UNCHANGED <<file, disk, job, cursor, begun, raced>>

\* A failed append keeps the lock.
CloseKeepsLock(w) ==
    /\ pc[w] # "closed"
    /\ GoTo(w, "closed")
    /\ UNCHANGED <<file, disk, lock, used, job, cursor, history>>

-----------------------------------------------------------------------------
(* The code                                                                *)

Init ==
    /\ file = [p \in Pos |-> Zero]
    /\ disk = [p \in Pos |-> Zero]
    /\ lock = NoOne
    /\ pc = [w \in Writers |-> "closed"]
    /\ used = [w \in Writers |-> 0]
    /\ job = [w \in Writers |-> NoJob]
    /\ cursor = [w \in Writers |-> 0]
    /\ begun = {}
    /\ delivered = {}
    /\ seen = [w \in Writers |-> {}]
    /\ raced = FALSE

\* A process starts a delivery without a hint: append_file inspects the store,
\* which refuses it unless the file has the declared size.
Open(w) ==
    /\ pc[w] = "closed"
    /\ ~Grown(file)
    /\ used' = [used EXCEPT ![w] = 0]
    /\ job' = [job EXCEPT ![w] = NoJob]
    /\ GoTo(w, "scan")
    /\ UNCHANGED <<file, disk, lock, cursor, history>>

\* One turn of the loop of _record_end: step over a valid record.
ScanRecord(w) ==
    /\ pc[w] = "scan"
    /\ HeaderAt(file, used[w])
    /\ used' = [used EXCEPT ![w] = @ + file[used[w]].n]
    /\ UNCHANGED <<file, disk, lock, pc, job, cursor, history>>

\* A zero slot, an invalid header or one that does not fit ends the scan.
ScanEnd(w) ==
    /\ pc[w] = "scan"
    /\ ~HeaderAt(file, used[w])
    /\ seen' = [seen EXCEPT ![w] = CommittedJobs(file)]
    /\ GoTo(w, "ready")
    /\ UNCHANGED <<file, disk, lock, used, job, cursor, begun, delivered, raced>>

\* append_file up to the lock: with a hint the size check of the store, stat of the
\* source, space check with the stat size.  The source may have another size when it is
\* read.
BeginAppend(w) ==
    /\ pc[w] = "ready"
    /\ job[w] # NoJob => ~Grown(file)
    /\ Cardinality(begun) < MaxAppends
    /\ \E len, real \in BodySizes :
        LET j == [id |-> Cardinality(begun) + 1, pos |-> used[w],
                  len |-> len, real |-> real]
        IN  /\ End(j) <= Capacity
            /\ job' = [job EXCEPT ![w] = j]
            /\ begun' = begun \cup {j}
    /\ cursor' = [cursor EXCEPT ![w] = 0]
    /\ GoTo(w, "locking")
    /\ UNCHANGED <<file, disk, lock, used, delivered, seen, raced>>

\* LK_LOCK on the last byte of the store.
AcquireLock(w) ==
    /\ pc[w] = "locking"
    /\ lock = NoOne
    /\ lock' = w
    /\ raced' = (raced \/ CommittedJobs(file) # seen[w])
    /\ GoTo(w, "body")
    /\ UNCHANGED <<file, disk, used, job, cursor, begun, delivered, seen>>

\* LK_LOCK gives up after its ten attempts: "in use by another program".
LockTimeout(w) ==
    /\ pc[w] = "locking"
    /\ lock # NoOne
    /\ GoTo(w, "closed")
    /\ UNCHANGED <<file, disk, lock, used, job, cursor, history>>

\* The body follows the place of the header and is read until the source ends.
WriteBody(w) ==
    /\ pc[w] = "body"
    /\ cursor[w] < job[w].real
    /\ LET i == cursor[w] + 1
       IN  /\ file' = [file EXCEPT ![Slot(job[w].pos + i)] = Body(job[w], i)]
           /\ cursor' = [cursor EXCEPT ![w] = i]
    /\ UNCHANGED <<disk, lock, pc, used, job, history>>

\* flush and fsync of the body: every dirty cell of the file reaches the disk.
SyncBody(w) ==
    /\ pc[w] = "body"
    /\ cursor[w] = job[w].real
    /\ disk' = file
    /\ GoTo(w, "header")
    /\ UNCHANGED <<file, lock, used, job, cursor, history>>

\* The header goes last.
WriteHeader(w) ==
    /\ pc[w] = "header"
    /\ file' = [file EXCEPT ![job[w].pos] = Head(job[w])]
    /\ GoTo(w, "sync")
    /\ UNCHANGED <<disk, lock, used, job, cursor, history>>

SyncHeader(w) ==
    /\ pc[w] = "sync"
    /\ disk' = file
    /\ GoTo(w, "unlock")
    /\ UNCHANGED <<file, lock, used, job, cursor, history>>

\* The unlock of the finally clause, and the return whose third value the inbox
\* passes as the hint of its next file.
Return(w) ==
    /\ pc[w] = "unlock"
    /\ lock' = NoOne
    /\ used' = [used EXCEPT ![w] = End(job[w])]
    /\ delivered' = delivered \cup {job[w]}
    /\ seen' = [seen EXCEPT ![w] = CommittedJobs(file)]
    /\ GoTo(w, "ready")
    /\ UNCHANGED <<file, disk, job, cursor, begun, raced>>

\* No more files, no room (MailboxError), a read or write that raises OSError (the
\* finally clause unlocks), or the end of the process (Windows drops its locks).
Close(w) ==
    /\ pc[w] # "closed"
    /\ lock' = Release(w)
    /\ GoTo(w, "closed")
    /\ UNCHANGED <<file, disk, used, job, cursor, history>>

\* The drive is pulled or the machine stops.  Of what was not synced any part may
\* have reached the medium.
PowerLoss ==
    /\ \E kept \in SUBSET {p \in Pos : file[p] # disk[p]} :
        /\ file' = [p \in Pos |-> IF p \in kept THEN file[p] ELSE disk[p]]
        /\ disk' = file'
    /\ lock' = NoOne
    /\ pc' = [w \in Writers |-> "closed"]
    /\ UNCHANGED <<used, job, cursor, history>>

WriterStep(w) ==
    \/ Open(w)
    \/ ScanRecord(w)
    \/ ScanEnd(w)
    \/ BeginAppend(w)
    \/ AcquireLock(w)
    \/ LockTimeout(w)
    \/ WriteBody(w)
    \/ SyncBody(w)
    \/ WriteHeader(w)
    \/ SyncHeader(w)
    \/ Return(w)
    \/ Close(w)

Next == (\E w \in Writers : WriterStep(w)) \/ PowerLoss

Spec == Init /\ [][Next]_vars

-----------------------------------------------------------------------------
(* Fairness: a process that is scheduled goes on with a delivery it has    *)
(* begun; LK_LOCK retries ten times and then raises.  Nothing makes a user *)
(* start a delivery, and no failure has to happen.                         *)

Progress(w) ==
    \/ ScanRecord(w)
    \/ ScanEnd(w)
    \/ AcquireLock(w)
    \/ LockTimeout(w)
    \/ WriteBody(w)
    \/ SyncBody(w)
    \/ WriteHeader(w)
    \/ SyncHeader(w)
    \/ Return(w)

FairSpec == Spec /\ \A w \in Writers : WF_vars(Progress(w))

-----------------------------------------------------------------------------
(* Properties                                                              *)

PC == {"closed", "scan", "ready", "locking", "body", "header", "sync", "unlock"}

Holding == {"body", "header", "sync", "unlock"}

Busy == Holding \cup {"locking"}

TypeOK ==
    /\ file \in [Pos -> Cell]
    /\ disk \in [Pos -> Cell]
    /\ lock \in Writers \cup {NoOne}
    /\ pc \in [Writers -> PC]
    /\ used \in [Writers -> Pos]
    /\ job \in [Writers -> Job]
    /\ cursor \in [Writers -> Nat]
    /\ begun \subseteq Job
    /\ delivered \subseteq begun
    /\ seen \in [Writers -> SUBSET begun]
    /\ raced \in BOOLEAN

\* The byte lock belongs to exactly the process that is between its acquisition
\* and its release, on every path out of append_file, failures included.
LockDiscipline == \A w \in Writers : pc[w] \in Holding <=> lock = w

\* "Data first, header last": whenever the header of a record appears in the
\* file, the body it declares is already on the disk, whoever else is running.
HeaderLast ==
    [][\A w \in Writers :
        Committed(file', job[w]) /\ ~Committed(file, job[w]) /\ pc[w] \in Holding
            => BodyStands(disk, job[w])]_vars

\* No record that the scan could reach runs past the end of the store, and the
\* file only ever grows by a source that grew between its stat and its reading.
StaysInStore ==
    /\ \A p \in Pos : file[p].kind = "head" => p + file[p].n <= Capacity
    /\ file[Capacity].kind \in {"zero", "extra"}

\* What append_file has returned as delivered stays readable, on the disk and in
\* the file, through failures and power losses (a source that changed while it
\* was read is excepted).
DeliveredKept ==
    \A j \in delivered : j.real = j.len => Readable(file, j) /\ Readable(disk, j)

\* Every committed record starts at the start of the store or where another one
\* ends, so the scan from the start reaches it.
Chained ==
    \A j \in begun : Committed(file, j) =>
        \/ j.pos = 0
        \/ \E k \in begun : Committed(file, k) /\ End(k) = j.pos

\* A delivered record is lost only after some process took the lock with an offset
\* read before another process committed: reading the offset again under the lock
\* would be enough.
LossNeedsRace == ~raced => DeliveredKept /\ Chained

\* Every process that has begun an append stops holding the lock or waiting for
\* it: delivered, refused or failed.
AppendsEnd == \A w \in Writers : pc[w] \in Busy ~> pc[w] \notin Busy

Extent(j) == [id |-> j.id, pos |-> j.pos, total |-> Total(j)]

Log == INSTANCE MailboxLog WITH
    Ids <- 1 .. MaxAppends,
    Totals <- {1 + len : len \in BodySizes},
    records <- {Extent(j) : j \in CommittedJobs(disk)},
    acked <- {Extent(j) : j \in delivered}

\* The bytes on the medium and the returns of append_file are an append-only log,
\* whatever fails between its steps.
ImplementsLog == Log!LogSpec
=============================================================================
