-------------------------- MODULE TemporaryAccess --------------------------
(***************************************************************************)
(* The temporary access record (.pigeon.temp.access) and the programs that *)
(* check a code against it: verify_and_consume of temporary_access.py.     *)
(*                                                                         *)
(* Time is a number of 30-second slices.  A program reads the clock, locks *)
(* the record, reads it, compares the code with those of the slices around *)
(* the one it read, writes the counters back in place, syncs and unlocks.  *)
(* The two counters lie side by side in one sector and are written by one  *)
(* flush, so a power loss keeps both or neither.  The clock of a machine   *)
(* can be set, so now may move to any slice.                               *)
(*                                                                         *)
(* record is what a read of the file returns, disk what survives a power   *)
(* loss.  grants, refusals and attempts are history variables.             *)
(***************************************************************************)
EXTENDS Integers

CONSTANTS
    Clients,        \* running retrieval programs
    NoOne,          \* the owner of the lock when it is free
    MaxSlice,       \* bound: the last slice
    Codes,          \* the codes of six digits, each the set of slices it is for
    FailThreshold,  \* refusals after which the current slice is spent
    MaxAttempts     \* bound: codes entered in one behaviour

Slice == 0 .. MaxSlice

\* Every slice has one code (code_for_counter); several slices may have the same
\* one, and some codes are for no slice.
ASSUME AccessAssumption ==
    /\ NoOne \notin Clients
    /\ MaxSlice \in Nat
    /\ Codes \subseteq SUBSET Slice
    /\ \A s \in Slice : \E c \in Codes : s \in c
    /\ \A c, d \in Codes : c # d => c \cap d = {}
    /\ FailThreshold \in Nat \ {0}
    /\ MaxAttempts \in Nat

VARIABLES
    record,         \* the counters as programs read them
    disk,           \* the counters as a power loss leaves them
    lock,           \* owner of the lock on the first byte
    now,            \* the slice the clock shows
    pc,             \* where each program is
    call,           \* the locals of its call of verify_and_consume
    grants,         \* how often access was granted for each slice
    refusals,       \* refusals synced since the count was last cleared
    attempts        \* codes entered

vars == <<record, disk, lock, now, pc, call, grants, refusals, attempts>>

Record == [fail : Nat, last : Slice]

Fresh == [fail |-> 0, last |-> 0]

\* The code entered, the slice read from the clock, the counters read under the
\* lock and the slice the code turned out to be for (0 if none).
Call == [code : SUBSET Slice, counter : Slice, copy : Record, matched : Slice]

NoCall == [code |-> {}, counter |-> 0, copy |-> Fresh, matched |-> 0]

\* A fault: a spent slice is still compared.
WindowIncludingLast(counter, last) ==
    {s \in Slice : counter - 3 <= s /\ s <= counter + 1 /\ s >= last}

\* The slices a code may be for: three before, the current one and the next, if
\* they are not spent.
WindowCandidates(counter, last) ==
    {s \in Slice : counter - 3 <= s /\ s <= counter + 1 /\ s > last}

Matches(c) == c.code \cap WindowCandidates(c.counter, c.copy.last)

\* This refusal spends the current slice.
AtThreshold(c) == c.copy.fail + 1 >= FailThreshold /\ c.counter > c.copy.last

GoTo(w, label) == pc' = [pc EXCEPT ![w] = label]

Leave(w) == GoTo(w, "idle") /\ call' = [call EXCEPT ![w] = NoCall]

-----------------------------------------------------------------------------
(* Faults: forms the actions below must not have.  Each breaks a property. *)

\* The lock is no lock.
AcquireLockShared(w) ==
    /\ pc[w] = "locking"
    /\ lock' = w
    /\ GoTo(w, "read")
    /\ UNCHANGED <<record, disk, now, call, grants, refusals, attempts>>

\* The slice after the one the code is for is spent.
AcceptSpendsNext(w) ==
    /\ pc[w] = "write"
    /\ \E s \in Matches(call[w]) :
        /\ \A t \in Matches(call[w]) : s <= t
        /\ call' = [call EXCEPT ![w].matched = s]
        /\ record' = [fail |-> 0, last |-> s + 1]
    /\ refusals' = 0
    /\ GoTo(w, "sync")
    /\ UNCHANGED <<disk, lock, now, grants, attempts>>

\* A code that is for two slices of the window is neither accepted nor refused.
AcceptUniqueOnly(w) ==
    /\ pc[w] = "write"
    /\ \E s \in Matches(call[w]) :
        /\ Matches(call[w]) = {s}
        /\ call' = [call EXCEPT ![w].matched = s]
        /\ record' = [fail |-> 0, last |-> s]
    /\ refusals' = 0
    /\ GoTo(w, "sync")
    /\ UNCHANGED <<disk, lock, now, grants, attempts>>

-----------------------------------------------------------------------------
(* The code                                                                *)

\* The record as provision writes it.
Init ==
    /\ record = Fresh
    /\ disk = Fresh
    /\ lock = NoOne
    /\ now \in 1 .. MaxSlice - 1
    /\ pc = [w \in Clients |-> "idle"]
    /\ call = [w \in Clients |-> NoCall]
    /\ grants = [s \in Slice |-> 0]
    /\ refusals = 0
    /\ attempts = 0

\* A code of six digits is entered; the clock is read before the lock is taken.
Enter(w) ==
    /\ pc[w] = "idle"
    /\ attempts < MaxAttempts
    /\ \E c \in Codes :
        call' = [call EXCEPT ![w] = [NoCall EXCEPT !.code = c, !.counter = now]]
    /\ attempts' = attempts + 1
    /\ GoTo(w, "locking")
    /\ UNCHANGED <<record, disk, lock, now, grants, refusals>>

AcquireLock(w) ==
    /\ pc[w] = "locking"
    /\ lock = NoOne
    /\ lock' = w
    /\ GoTo(w, "read")
    /\ UNCHANGED <<record, disk, now, call, grants, refusals, attempts>>

\* LK_LOCK gives up after ten attempts.
LockTimeout(w) ==
    /\ pc[w] = "locking"
    /\ lock # NoOne
    /\ Leave(w)
    /\ UNCHANGED <<record, disk, lock, now, grants, refusals, attempts>>

ReadRecord(w) ==
    /\ pc[w] = "read"
    /\ call' = [call EXCEPT ![w].copy = record]
    /\ GoTo(w, "write")
    /\ UNCHANGED <<record, disk, lock, now, grants, refusals, attempts>>

\* The code is for an unspent slice, the earliest if it is for several: the slice
\* is spent and the failures are forgotten.
Accept(w) ==
    /\ pc[w] = "write"
    /\ \E s \in Matches(call[w]) :
        /\ \A t \in Matches(call[w]) : s <= t
        /\ call' = [call EXCEPT ![w].matched = s]
        /\ record' = [fail |-> 0, last |-> s]
    /\ refusals' = 0
    /\ GoTo(w, "sync")
    /\ UNCHANGED <<disk, lock, now, grants, attempts>>

\* One more failure.
Refuse(w) ==
    /\ pc[w] = "write"
    /\ Matches(call[w]) = {}
    /\ ~AtThreshold(call[w])
    /\ record' = [record EXCEPT !.fail = call[w].copy.fail + 1]
    /\ GoTo(w, "sync")
    /\ UNCHANGED <<disk, lock, now, call, grants, refusals, attempts>>

\* The failure that spends the current slice and starts the count again.
Burn(w) ==
    /\ pc[w] = "write"
    /\ Matches(call[w]) = {}
    /\ AtThreshold(call[w])
    /\ record' = [fail |-> 0, last |-> call[w].counter]
    /\ refusals' = 0
    /\ GoTo(w, "sync")
    /\ UNCHANGED <<disk, lock, now, call, grants, attempts>>

\* flush and fsync.
Sync(w) ==
    /\ pc[w] = "sync"
    /\ disk' = record
    /\ refusals' = IF record.fail = 0 THEN refusals ELSE refusals + 1
    /\ GoTo(w, "unlock")
    /\ UNCHANGED <<record, lock, now, call, grants, attempts>>

Unlock(w) ==
    /\ pc[w] = "unlock"
    /\ lock' = NoOne
    /\ GoTo(w, "return")
    /\ UNCHANGED <<record, disk, now, call, grants, refusals, attempts>>

\* The private key is returned, or the refusal is raised.
Return(w) ==
    /\ pc[w] = "return"
    /\ grants' = IF call[w].matched = 0 THEN grants
                 ELSE [grants EXCEPT ![call[w].matched] = @ + 1]
    /\ Leave(w)
    /\ UNCHANGED <<record, disk, lock, now, refusals, attempts>>

\* An OSError (the finally clauses unlock and close) or the end of the program.
Abort(w) ==
    /\ pc[w] # "idle"
    /\ lock' = IF lock = w THEN NoOne ELSE lock
    /\ Leave(w)
    /\ UNCHANGED <<record, disk, now, grants, refusals, attempts>>

\* The drive is pulled or the machine stops.
PowerLoss ==
    /\ record' \in {record, disk}
    /\ disk' = record'
    /\ lock' = NoOne
    /\ pc' = [w \in Clients |-> "idle"]
    /\ call' = [w \in Clients |-> NoCall]
    /\ UNCHANGED <<now, grants, refusals, attempts>>

ClockMoves ==
    /\ now' \in 1 .. MaxSlice - 1
    /\ UNCHANGED <<record, disk, lock, pc, call, grants, refusals, attempts>>

Progress(w) ==
    \/ AcquireLock(w)
    \/ LockTimeout(w)
    \/ ReadRecord(w)
    \/ Accept(w)
    \/ Refuse(w)
    \/ Burn(w)
    \/ Sync(w)
    \/ Unlock(w)
    \/ Return(w)

Next ==
    \/ \E w \in Clients : Progress(w) \/ Enter(w) \/ Abort(w)
    \/ PowerLoss
    \/ ClockMoves

Spec == Init /\ [][Next]_vars

\* A program that is scheduled goes on with the code it was given; nothing makes a
\* user enter one, and no failure has to happen.
FairSpec == Spec /\ \A w \in Clients : WF_vars(Progress(w))

-----------------------------------------------------------------------------
(* Properties                                                              *)

PC == {"idle", "locking", "read", "write", "sync", "unlock", "return"}

Holding == {"read", "write", "sync", "unlock"}

TypeOK ==
    /\ record \in Record
    /\ disk \in Record
    /\ lock \in Clients \cup {NoOne}
    /\ now \in 1 .. MaxSlice - 1
    /\ pc \in [Clients -> PC]
    /\ call \in [Clients -> Call]
    /\ grants \in [Slice -> Nat]
    /\ refusals \in Nat
    /\ attempts \in 0 .. MaxAttempts

\* No refusal is forgotten: whatever other programs do at the same time and
\* whenever the power goes, the count on the medium is at least the number of
\* refusals since a grant or a spent slice cleared it.
RefusalsCounted == refusals <= record.fail /\ refusals <= disk.fail

\* Every code entered comes to an answer.
AttemptsEnd == \A w \in Clients : pc[w] # "idle" ~> pc[w] = "idle"

Gate == INSTANCE OneTimeGate WITH Last <- MaxSlice, spent <- disk.last

\* The record and the answers are a one-time gate, whatever programs run together,
\* fail or lose power, and however the clock is set.
ImplementsGate == Gate!GateSpec
=============================================================================
