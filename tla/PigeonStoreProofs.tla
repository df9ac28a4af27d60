------------------------- MODULE PigeonStoreProofs -------------------------
(***************************************************************************)
(* Proofs about PigeonStore, for every set of writers and every capacity.  *)
(*                                                                         *)
(* BaseInv holds the types, the lock and the headers of what was begun;    *)
(* WorkInv adds what the process at work has written so far.  StoreInv     *)
(* adds that committed records lie end to end, and survive failures and    *)
(* power losses, as long as no process took the lock with a stale offset;  *)
(* SoleInv that a single writer never does.                                *)
(***************************************************************************)
EXTENDS PigeonStore, FiniteSetTheorems, TLAPS

USE DEF history

(* What a job and its cells are. *)
LEMMA JobFacts ==
    ASSUME NEW j \in Job
    PROVE  /\ j.id \in Nat /\ j.pos \in Nat /\ j.len \in Nat /\ j.real \in Nat
           /\ j.pos \in Pos
           /\ Total(j) \in Nat /\ Total(j) > 0
           /\ End(j) \in Nat /\ j.pos < End(j) /\ End(j) = j.pos + 1 + j.len
           /\ Head(j) \in Cell /\ Head(j).kind = "head"
           /\ Head(j).id = j.id /\ Head(j).n = Total(j)
BY StoreAssumption DEF Job, Pos, Total, End, Head, Cell

LEMMA BodyFacts ==
    ASSUME NEW j \in Job, NEW i \in Nat
    PROVE  /\ Body(j, i) \in Cell
           /\ Body(j, i).kind # "head"
           /\ i > j.len => Body(j, i).kind = "extra"
BY DEF Job, Body, Cell

LEMMA SlotFacts ==
    ASSUME NEW p \in Nat
    PROVE  /\ Slot(p) \in Pos
           /\ p < Capacity => Slot(p) = p
           /\ p >= Capacity => Slot(p) = Capacity
BY StoreAssumption DEF Slot, Pos

-----------------------------------------------------------------------------
(* Types                                                                   *)

(***************************************************************************)
(* Besides the types: the appends begun are finitely many, have different  *)
(* names, fit in the store, and a busy process works on one of them that   *)
(* no other process works on.                                              *)
(***************************************************************************)
JobsOK ==
    /\ IsFiniteSet(begun)
    /\ \A j \in begun :
        /\ j.id \in 1 .. Cardinality(begun)
        /\ j.id <= MaxAppends
        /\ j.len \in BodySizes
        /\ j.real \in BodySizes
        /\ End(j) <= Capacity
    /\ \A j, k \in begun : j.id = k.id => j = k
    /\ \A w \in Writers : pc[w] \in Busy => job[w] \in begun /\ job[w].pos = used[w]
    /\ \A v, w \in Writers : pc[v] \in Busy /\ pc[w] \in Busy /\ v # w => job[v] # job[w]

\* Every header in a store is the header of an append begun at that place.
HeadsOf(f, jobs) ==
    \A p \in Pos : f[p].kind = "head" => \E j \in jobs : j.pos = p /\ f[p] = Head(j)

HeadsOK(f) == HeadsOf(f, begun)

BaseInv ==
    /\ TypeOK
    /\ LockDiscipline
    /\ JobsOK
    /\ HeadsOK(file)
    /\ HeadsOK(disk)

LEMMA NoJobType == NoJob \in Job
BY StoreAssumption DEF NoJob, Job, Pos

LEMMA BaseInit == Init => BaseInv
<1> SUFFICES ASSUME Init PROVE BaseInv
  OBVIOUS
<1> USE DEF Init
<1>1. TypeOK
  <2>1. 0 \in Pos
    BY StoreAssumption DEF Pos
  <2>2. Zero \in Cell
    BY DEF Zero, Cell
  <2> QED
    BY <2>1, <2>2, NoJobType DEF TypeOK, PC
<1>2. LockDiscipline
  BY StoreAssumption DEF LockDiscipline, Holding
<1>3. JobsOK
  BY FS_EmptySet DEF JobsOK, Busy, Holding
<1>4. HeadsOK(file) /\ HeadsOK(disk)
  BY DEF HeadsOK, HeadsOf, Zero
<1> QED
  BY <1>1, <1>2, <1>3, <1>4 DEF BaseInv

(***************************************************************************)
(* Steps that leave the appends begun alone keep JobsOK if they start no   *)
(* new work.                                                               *)
(***************************************************************************)
LEMMA JobsKept ==
    ASSUME JobsOK, begun' = begun,
           \A w \in Writers : pc'[w] \in Busy =>
                pc[w] \in Busy /\ used'[w] = used[w] /\ job'[w] = job[w]
    PROVE  JobsOK'
BY DEF JobsOK, End, Total

\* A store every header of which is already accounted for is accounted for.
LEMMA HeadsKept ==
    ASSUME NEW f, NEW g, NEW h, NEW B, NEW C, B \subseteq C,
           HeadsOf(f, B), HeadsOf(h, B),
           \A p \in Pos : g[p].kind = "head" => g[p] = f[p] \/ g[p] = h[p]
    PROVE  HeadsOf(g, C)
<1> SUFFICES ASSUME NEW p \in Pos, g[p].kind = "head"
             PROVE  \E j \in C : j.pos = p /\ g[p] = Head(j)
  BY DEF HeadsOf
<1> CASE g[p] = f[p]
  BY DEF HeadsOf
<1> CASE g[p] = h[p]
  BY DEF HeadsOf
<1> QED
  OBVIOUS

LEMMA BaseStep == BaseInv /\ [Next]_vars => BaseInv'
<1> SUFFICES ASSUME BaseInv, [Next]_vars
             PROVE  BaseInv'
  OBVIOUS
<1> USE DEF BaseInv, HeadsOK
<1>0. ASSUME NEW w \in Writers
      PROVE  /\ job[w] \in Job
             /\ pc[w] \in Holding => lock = w
             /\ pc[w] \in Busy => job[w] \in begun /\ End(job[w]) <= Capacity
  BY DEF TypeOK, LockDiscipline, JobsOK
<1>1. ASSUME NEW w \in Writers, Open(w)
      PROVE  BaseInv'
  <2> USE <1>1 DEF Open, GoTo
  <2>1. TypeOK'
    BY StoreAssumption, NoJobType DEF TypeOK, PC, Pos
  <2>2. LockDiscipline'
    BY DEF TypeOK, LockDiscipline, Holding
  <2>3. JobsOK'
    BY JobsKept DEF TypeOK, Busy, Holding
  <2> QED
    BY <2>1, <2>2, <2>3 DEF HeadsOK
<1>2. ASSUME NEW w \in Writers, ScanRecord(w)
      PROVE  BaseInv'
  <2> USE <1>2 DEF ScanRecord
  <2>1. TypeOK'
    <3>1. used[w] \in Pos /\ file[used[w]].n \in Nat
      BY DEF TypeOK, Cell
    <3>2. used[w] + file[used[w]].n \in Pos
      BY <3>1, StoreAssumption DEF HeaderAt, Pos
    <3> QED
      BY <3>2 DEF TypeOK
  <2>2. LockDiscipline'
    BY DEF LockDiscipline
  <2>3. JobsOK'
    BY JobsKept DEF TypeOK, Busy, Holding
  <2> QED
    BY <2>1, <2>2, <2>3 DEF HeadsOK
<1>3. ASSUME NEW w \in Writers, ScanEnd(w)
      PROVE  BaseInv'
  <2> USE <1>3 DEF ScanEnd, GoTo
  <2>1. TypeOK'
    BY DEF TypeOK, PC, CommittedJobs
  <2>2. LockDiscipline'
    BY DEF TypeOK, LockDiscipline, Holding
  <2>3. JobsOK'
    BY JobsKept DEF TypeOK, Busy, Holding
  <2> QED
    BY <2>1, <2>2, <2>3 DEF HeadsOK
<1>4. ASSUME NEW w \in Writers, BeginAppend(w)
      PROVE  BaseInv'
  <2> USE DEF BeginAppend, GoTo
  <2>1. PICK len \in BodySizes, real \in BodySizes :
          LET j == [id |-> Cardinality(begun) + 1, pos |-> used[w],
                    len |-> len, real |-> real]
          IN  /\ End(j) <= Capacity
              /\ job' = [job EXCEPT ![w] = j]
              /\ begun' = begun \cup {j}
    BY <1>4
  <2> DEFINE j == [id |-> Cardinality(begun) + 1, pos |-> used[w],
                   len |-> len, real |-> real]
  <2>2. Cardinality(begun) \in Nat
    BY FS_CardinalityType DEF JobsOK
  <2>3. j \in Job
    BY <2>2, StoreAssumption DEF TypeOK, Job
  <2>4. End(j) <= Capacity /\ job' = [job EXCEPT ![w] = j] /\ begun' = begun \cup {j}
    BY <2>1
  <2>5. j \notin begun /\ j.id = Cardinality(begun) + 1 /\ j.pos = used[w]
        /\ j.len \in BodySizes /\ j.real \in BodySizes
    BY <2>2 DEF JobsOK
  <2>6. IsFiniteSet(begun') /\ Cardinality(begun') = Cardinality(begun) + 1
    BY <2>4, <2>5, FS_AddElement DEF JobsOK
  <2> HIDE DEF j
  <2>7. TypeOK'
    <3>1. job' \in [Writers -> Job] /\ begun' \subseteq Job
      BY <2>3, <2>4 DEF TypeOK
    <3>2. cursor' \in [Writers -> Nat] /\ pc' \in [Writers -> PC]
      BY <1>4 DEF TypeOK, PC
    <3>3. delivered' \subseteq begun' /\ seen' \in [Writers -> SUBSET (begun')]
      BY <1>4, <2>4 DEF TypeOK
    <3> QED
      BY <1>4, <3>1, <3>2, <3>3 DEF TypeOK
  <2>8. LockDiscipline'
    BY <1>4 DEF TypeOK, LockDiscipline, Holding
  <2>9. JobsOK'
    <3>1. \A k \in begun' : k.id \in 1 .. Cardinality(begun') /\ k.id <= MaxAppends
      BY <1>4, <2>2, <2>4, <2>5, <2>6, StoreAssumption DEF JobsOK
    <3>2. \A k \in begun' : k.len \in BodySizes /\ k.real \in BodySizes
                            /\ End(k) <= Capacity
      BY <2>4, <2>5 DEF JobsOK
    <3>3. \A k, m \in begun' : k.id = m.id => k = m
      BY <2>2, <2>4, <2>5 DEF JobsOK
    <3>4. \A v \in Writers :
            pc'[v] \in Busy => job'[v] \in begun' /\ job'[v].pos = used'[v]
      BY <1>4, <2>4, <2>5 DEF TypeOK, JobsOK
    <3>5. \A u, v \in Writers : pc'[u] \in Busy /\ pc'[v] \in Busy /\ u # v
                                => job'[u] # job'[v]
      BY <1>4, <2>4, <2>5 DEF TypeOK, JobsOK
    <3> QED
      BY <2>6, <3>1, <3>2, <3>3, <3>4, <3>5 DEF JobsOK, End, Total
  <2>10. HeadsOK(file)' /\ HeadsOK(disk)'
    BY <1>4, <2>4, HeadsKept
  <2> QED
    BY <2>7, <2>8, <2>9, <2>10
<1>5. ASSUME NEW w \in Writers, AcquireLock(w)
      PROVE  BaseInv'
  <2> USE <1>5 DEF AcquireLock, GoTo
  <2>1. TypeOK'
    BY DEF TypeOK, PC
  <2>2. LockDiscipline'
    BY StoreAssumption DEF TypeOK, LockDiscipline, Holding
  <2>3. JobsOK'
    BY JobsKept DEF TypeOK, Busy, Holding
  <2> QED
    BY <2>1, <2>2, <2>3 DEF HeadsOK
<1>6. ASSUME NEW w \in Writers, LockTimeout(w)
      PROVE  BaseInv'
  <2> USE <1>6 DEF LockTimeout, GoTo
  <2>1. TypeOK'
    BY DEF TypeOK, PC
  <2>2. LockDiscipline'
    BY DEF TypeOK, LockDiscipline, Holding
  <2>3. JobsOK'
    BY JobsKept DEF TypeOK, Busy, Holding
  <2> QED
    BY <2>1, <2>2, <2>3 DEF HeadsOK
<1>7. ASSUME NEW w \in Writers, WriteBody(w)
      PROVE  BaseInv'
  <2> DEFINE i == cursor[w] + 1
             s == Slot(job[w].pos + i)
  <2>1. i \in Nat /\ s \in Pos /\ Body(job[w], i) \in Cell
        /\ Body(job[w], i).kind # "head"
    BY <1>0, JobFacts, BodyFacts, SlotFacts DEF TypeOK
  <2>2. /\ file' = [file EXCEPT ![s] = Body(job[w], i)]
        /\ cursor' = [cursor EXCEPT ![w] = i]
        /\ UNCHANGED <<disk, lock, pc, used, job, begun, delivered, seen, raced>>
    BY <1>7 DEF WriteBody
  <2> HIDE DEF i, s
  <2>3. TypeOK'
    <3>1. file' \in [Pos -> Cell]
      BY <2>1, <2>2 DEF TypeOK
    <3>2. cursor' \in [Writers -> Nat]
      BY <2>1, <2>2 DEF TypeOK
    <3> QED
      BY <2>2, <3>1, <3>2 DEF TypeOK
  <2>4. LockDiscipline'
    BY <2>2 DEF LockDiscipline
  <2>5. JobsOK'
    BY <2>2, JobsKept
  <2>6. HeadsOf(file', begun)
    <3>1. \A p \in Pos : file'[p].kind = "head" => file'[p] = file[p] \/ file'[p] = file[p]
      BY <2>1, <2>2 DEF TypeOK
    <3>2. HeadsOf(file, begun) /\ begun \subseteq begun
      OBVIOUS
    <3> QED
      BY ONLY <3>1, <3>2, HeadsKept
  <2> QED
    BY <2>2, <2>3, <2>4, <2>5, <2>6
<1>8. ASSUME NEW w \in Writers, SyncBody(w)
      PROVE  BaseInv'
  <2> USE <1>8 DEF SyncBody, GoTo
  <2>1. TypeOK'
    BY DEF TypeOK, PC
  <2>2. LockDiscipline'
    BY DEF TypeOK, LockDiscipline, Holding
  <2>3. JobsOK'
    BY JobsKept DEF TypeOK, Busy, Holding
  <2> QED
    BY <2>1, <2>2, <2>3 DEF HeadsOK
<1>9. ASSUME NEW w \in Writers, WriteHeader(w)
      PROVE  BaseInv'
  <2> USE <1>9 DEF WriteHeader, GoTo
  <2>1. TypeOK'
    BY <1>0, JobFacts DEF TypeOK, PC
  <2>2. LockDiscipline'
    BY DEF TypeOK, LockDiscipline, Holding
  <2>3. JobsOK'
    BY JobsKept DEF TypeOK, Busy, Holding
  <2>4. HeadsOK(file)'
    <3>1. job[w] \in begun
      BY <1>0 DEF Busy, Holding
    <3> QED
      BY <1>0, <3>1, JobFacts DEF TypeOK, HeadsOf
  <2> QED
    BY <2>1, <2>2, <2>3, <2>4 DEF HeadsOK
<1>10. ASSUME NEW w \in Writers, SyncHeader(w)
       PROVE  BaseInv'
  <2> USE <1>10 DEF SyncHeader, GoTo
  <2>1. TypeOK'
    BY DEF TypeOK, PC
  <2>2. LockDiscipline'
    BY DEF TypeOK, LockDiscipline, Holding
  <2>3. JobsOK'
    BY JobsKept DEF TypeOK, Busy, Holding
  <2> QED
    BY <2>1, <2>2, <2>3 DEF HeadsOK
<1>11. ASSUME NEW w \in Writers, Return(w)
       PROVE  BaseInv'
  <2> USE <1>11 DEF Return, GoTo
  <2>0. job[w] \in begun /\ End(job[w]) \in Pos
    BY <1>0, JobFacts, StoreAssumption DEF Busy, Holding, Pos
  <2>1. TypeOK'
    BY <2>0 DEF TypeOK, PC, CommittedJobs
  <2>2. LockDiscipline'
    BY <1>0, StoreAssumption DEF TypeOK, LockDiscipline, Holding
  <2>3. JobsOK'
    BY JobsKept DEF TypeOK, Busy, Holding
  <2> QED
    BY <2>1, <2>2, <2>3 DEF HeadsOK
<1>12. ASSUME NEW w \in Writers, Close(w)
       PROVE  BaseInv'
  <2> USE <1>12 DEF Close, GoTo, Release
  <2>1. TypeOK'
    BY DEF TypeOK, PC
  <2>2. LockDiscipline'
    BY StoreAssumption DEF TypeOK, LockDiscipline, Holding
  <2>3. JobsOK'
    BY JobsKept DEF TypeOK, Busy, Holding
  <2> QED
    BY <2>1, <2>2, <2>3 DEF HeadsOK
<1>13. ASSUME PowerLoss
       PROVE  BaseInv'
  <2> USE <1>13 DEF PowerLoss
  <2>1. /\ file' = [p \in Pos |-> file'[p]] /\ disk' = file'
        /\ \A p \in Pos : file'[p] \in {file[p], disk[p]}
    OBVIOUS
  <2>2. TypeOK'
    <3>1. file' \in [Pos -> Cell]
      BY <2>1 DEF TypeOK
    <3> QED
      BY <2>1, <3>1 DEF TypeOK, PC
  <2>3. LockDiscipline'
    BY StoreAssumption DEF LockDiscipline, Holding
  <2>4. JobsOK'
    BY JobsKept DEF Busy, Holding
  <2>5. HeadsOK(file)'
    <3>1. \A p \in Pos : file'[p] = file[p] \/ file'[p] = disk[p]
      BY <2>1
    <3> QED
      BY <3>1, HeadsKept
  <2>6. HeadsOK(disk)'
    BY <2>1, <2>5 DEF HeadsOK
  <2> QED
    BY <2>2, <2>3, <2>4, <2>5, <2>6
<1>14. CASE UNCHANGED vars
  BY <1>14 DEF vars, TypeOK, LockDiscipline, JobsOK, HeadsOK
<1> QED
  BY <1>1, <1>2, <1>3, <1>4, <1>5, <1>6, <1>7, <1>8, <1>9, <1>10, <1>11, <1>12,
     <1>13, <1>14 DEF Next, WriterStep

(***************************************************************************)
(* All values keep their types: in particular no offset a process computes *)
(* ever leaves the store.                                                  *)
(***************************************************************************)
THEOREM TypeCorrect == Spec => []TypeOK
<1>1. BaseInv => TypeOK
  BY DEF BaseInv
<1> QED
  BY <1>1, BaseInit, BaseStep, PTL DEF Spec

(***************************************************************************)
(* The byte lock is held by exactly the process in the critical section of *)
(* append_file.                                                            *)
(***************************************************************************)
THEOREM LockIsExclusive == Spec => []LockDiscipline
<1>1. BaseInv => LockDiscipline
  BY DEF BaseInv
<1> QED
  BY <1>1, BaseInit, BaseStep, PTL DEF Spec
-----------------------------------------------------------------------------
(* The store is never left, and the body precedes the header               *)

\* What lies past the end of the store, in memory and on the disk, can only be
\* the surplus of a source that grew.
OutsideOK ==
    /\ file[Capacity].kind \in {"zero", "extra"}
    /\ disk[Capacity].kind \in {"zero", "extra"}

\* The body cells of j written so far.
WrittenTo(f, j, n) == \A i \in 1 .. j.len : i <= n => f[j.pos + i] = Body(j, i)

\* How far the append of process w is, given where the process is.
OwnWork(w) ==
    /\ pc[w] = "locking" => cursor[w] = 0
    /\ pc[w] \in {"locking", "body", "header"} =>
            ~Committed(file, job[w]) /\ ~Committed(disk, job[w])
    /\ pc[w] = "body" => cursor[w] <= job[w].real /\ WrittenTo(file, job[w], cursor[w])
    /\ pc[w] = "header" => disk = file /\ BodyStands(file, job[w])
    /\ pc[w] = "sync" => Committed(file, job[w]) /\ BodyStands(file, job[w])
    /\ pc[w] = "unlock" =>
            disk = file /\ Committed(file, job[w]) /\ BodyStands(file, job[w])

WorkInv == BaseInv /\ OutsideOK /\ \A w \in Writers : OwnWork(w)

LEMMA WorkInit == Init => WorkInv
<1> SUFFICES ASSUME Init PROVE WorkInv
  OBVIOUS
<1>1. OutsideOK
  BY StoreAssumption DEF Init, OutsideOK, Zero, Pos
<1>2. \A w \in Writers : OwnWork(w)
  BY DEF Init, OwnWork
<1> QED
  BY <1>1, <1>2, BaseInit DEF WorkInv

\* What BaseInv says of a process and of two busy ones.
LEMMA ProcessFacts ==
    ASSUME BaseInv, NEW w \in Writers
    PROVE  /\ job[w] \in Job /\ cursor[w] \in Nat /\ pc[w] \in PC
           /\ pc[w] \in Holding <=> lock = w
           /\ pc[w] \in Busy => /\ job[w] \in begun
                                /\ End(job[w]) <= Capacity
                                /\ job[w].pos < Capacity
           /\ \A v \in Writers : pc[v] \in Busy /\ pc[w] \in Busy /\ v # w
                                 => Head(job[v]) # Head(job[w])
<1>1. job[w] \in Job /\ cursor[w] \in Nat /\ pc[w] \in PC
  BY DEF BaseInv, TypeOK
<1>2. pc[w] \in Holding <=> lock = w
  BY DEF BaseInv, LockDiscipline
<1>3. pc[w] \in Busy => job[w] \in begun /\ End(job[w]) <= Capacity
  BY DEF BaseInv, JobsOK
<1>4. job[w].pos < End(job[w]) /\ job[w].pos \in Nat /\ End(job[w]) \in Nat
  BY <1>1, JobFacts
<1>5. ASSUME NEW v \in Writers, pc[v] \in Busy, pc[w] \in Busy, v # w
      PROVE  Head(job[v]) # Head(job[w])
  BY <1>5 DEF BaseInv, JobsOK, Head
<1> QED
  BY <1>1, <1>2, <1>3, <1>4, <1>5, StoreAssumption

\* One cell of the body is written: the bodies and headers it does not touch stand.
LEMMA BodyCellWritten ==
    ASSUME NEW f \in [Pos -> Cell], NEW j \in Job, End(j) <= Capacity,
           NEW n \in Nat, NEW i, i = n + 1,
           NEW g, g[Slot(j.pos + i)] = Body(j, i),
           \A p \in Pos : p # Slot(j.pos + i) => g[p] = f[p]
    PROVE  /\ WrittenTo(f, j, n) => WrittenTo(g, j, i)
           /\ \A k \in Job : Committed(g, k) => Committed(f, k)
           /\ f[Capacity].kind \in {"zero", "extra"} => g[Capacity].kind \in {"zero", "extra"}
<1>1. j.pos \in Nat /\ j.len \in Nat /\ j.pos + 1 + j.len <= Capacity
      /\ j.pos + i \in Nat
  BY JobFacts
<1>2. /\ Slot(j.pos + i) \in Pos
      /\ j.pos + i < Capacity => Slot(j.pos + i) = j.pos + i
      /\ j.pos + i >= Capacity => Slot(j.pos + i) = Capacity
  BY <1>1, SlotFacts
<1>3. /\ Body(j, i) \in Cell
      /\ Body(j, i).kind # "head"
      /\ i > j.len => Body(j, i).kind = "extra"
  BY BodyFacts
<1>4. g[Slot(j.pos + i)] = Body(j, i)
      /\ \A p \in Pos : p # Slot(j.pos + i) => g[p] = f[p]
  BY <1>2, <1>3
<1>5. ASSUME WrittenTo(f, j, n)
      PROVE  WrittenTo(g, j, i)
  <2> SUFFICES ASSUME NEW m \in 1 .. j.len, m <= i
               PROVE  g[j.pos + m] = Body(j, m)
    BY DEF WrittenTo
  <2>1. j.pos + m < Capacity /\ j.pos + m \in Pos
    BY <1>1, StoreAssumption DEF Pos
  <2>2. CASE m = i
    BY <1>2, <1>4, <2>1, <2>2
  <2>3. CASE m # i
    <3>1. m <= n
      BY <1>5, <2>3
    <3>2. f[j.pos + m] = Body(j, m)
      BY <1>5, <3>1 DEF WrittenTo
    <3>3. j.pos + m # Slot(j.pos + i)
      BY <1>1, <1>2, <2>1, <2>3, StoreAssumption
    <3> QED
      BY <1>4, <2>1, <3>2, <3>3
  <2> QED
    BY <2>2, <2>3
<1>6. ASSUME NEW k \in Job, Committed(g, k)
      PROVE  Committed(f, k)
  <2>1. Head(k).kind = "head" /\ k.pos \in Pos
    BY JobFacts
  <2> QED
    BY <1>3, <1>4, <1>6, <2>1 DEF Committed
<1>7. ASSUME f[Capacity].kind \in {"zero", "extra"}
      PROVE  g[Capacity].kind \in {"zero", "extra"}
  <2>1. Capacity \in Pos
    BY StoreAssumption DEF Pos
  <2>2. CASE j.pos + i >= Capacity
    BY <1>1, <1>2, <1>3, <1>4, <2>2, StoreAssumption
  <2>3. CASE j.pos + i < Capacity
    BY <1>1, <1>2, <1>4, <1>7, <2>1, <2>3, StoreAssumption
  <2> QED
    BY <1>1, <2>2, <2>3, StoreAssumption
<1> QED
  BY <1>4, <1>5, <1>6, <1>7
LEMMA WorkStep == WorkInv /\ [Next]_vars => WorkInv'
<1> SUFFICES ASSUME WorkInv, [Next]_vars
             PROVE  WorkInv'
  OBVIOUS
<1>0. BaseInv /\ BaseInv' /\ OutsideOK /\ \A w \in Writers : OwnWork(w)
  BY BaseStep DEF WorkInv
<1> SUFFICES OutsideOK' /\ \A u \in Writers : OwnWork(u)'
  BY <1>0 DEF WorkInv
<1>f. file \in [Pos -> Cell] /\ disk \in [Pos -> Cell] /\ pc \in [Writers -> PC]
      /\ job \in [Writers -> Job] /\ cursor \in [Writers -> Nat]
  BY <1>0 DEF BaseInv, TypeOK
\* The steps before the append proper and after it touch no store and start no work.
<1>1. ASSUME NEW w \in Writers,
             Open(w) \/ ScanRecord(w) \/ ScanEnd(w) \/ LockTimeout(w) \/ Close(w)
      PROVE  OutsideOK' /\ \A u \in Writers : OwnWork(u)'
  <2>1. UNCHANGED <<file, disk, cursor>>
    BY <1>1 DEF Open, ScanRecord, ScanEnd, LockTimeout, Close
  <2>2. \A u \in Writers : \/ pc'[u] = pc[u] /\ job'[u] = job[u]
                          \/ pc'[u] \in {"closed", "scan", "ready"}
    BY <1>1, <1>f DEF Open, ScanRecord, ScanEnd, LockTimeout, Close, GoTo
  <2> QED
    BY <1>0, <2>1, <2>2
       DEF OutsideOK, OwnWork, Committed, Head, Total, WrittenTo, BodyStands, Body
<1>2. ASSUME NEW w \in Writers, BeginAppend(w)
      PROVE  OutsideOK' /\ \A u \in Writers : OwnWork(u)'
  <2>1. PICK len \in BodySizes, real \in BodySizes :
          job' = [job EXCEPT ![w] = [id |-> Cardinality(begun) + 1, pos |-> used[w],
                                     len |-> len, real |-> real]]
    BY <1>2 DEF BeginAppend
  <2>2. UNCHANGED <<file, disk>> /\ cursor' = [cursor EXCEPT ![w] = 0]
        /\ pc' = [pc EXCEPT ![w] = "locking"]
    BY <1>2 DEF BeginAppend, GoTo
  <2>3. ASSUME NEW u \in Writers, u # w
        PROVE  OwnWork(u)'
    <3>1. job'[u] = job[u] /\ cursor'[u] = cursor[u] /\ pc'[u] = pc[u]
      BY <1>f, <2>1, <2>2, <2>3
    <3> QED
      BY <1>0, <2>2, <3>1
         DEF OwnWork, Committed, Head, Total, WrittenTo, BodyStands, Body
  <2>4. OwnWork(w)'
    <3>1. job'[w].id = Cardinality(begun) + 1 /\ job'[w].pos = used[w]
          /\ used[w] \in Pos /\ Cardinality(begun) \in Nat
      BY <1>0, <1>f, <2>1, FS_CardinalityType DEF BaseInv, TypeOK, JobsOK
    <3>2. ASSUME NEW f, HeadsOf(f, begun), f[used[w]] = Head(job'[w])
          PROVE  FALSE
      <4>1. PICK k \in begun : f[used[w]] = Head(k)
        BY <3>1, <3>2 DEF HeadsOf, Head
      <4>2. k.id = Cardinality(begun) + 1
        BY <3>1, <3>2, <4>1 DEF Head
      <4>3. k.id \in 1 .. Cardinality(begun)
        BY <1>0 DEF BaseInv, JobsOK
      <4> QED
        BY <3>1, <4>2, <4>3
    <3>3. ~Committed(file, job'[w]) /\ ~Committed(disk, job'[w])
      BY <1>0, <3>1, <3>2 DEF BaseInv, HeadsOK, Committed
    <3>4. pc'[w] = "locking" /\ cursor'[w] = 0
      BY <1>f, <2>2
    <3> QED
      BY <2>2, <3>3, <3>4 DEF OwnWork, Committed, Head, Total
  <2> QED
    BY <1>0, <2>2, <2>3, <2>4 DEF OutsideOK
<1>3. ASSUME NEW w \in Writers, AcquireLock(w)
      PROVE  OutsideOK' /\ \A u \in Writers : OwnWork(u)'
  <2>1. UNCHANGED <<file, disk, job, cursor>> /\ pc[w] = "locking"
        /\ pc' = [pc EXCEPT ![w] = "body"]
    BY <1>3 DEF AcquireLock, GoTo
  <2>2. ASSUME NEW u \in Writers, u # w
        PROVE  OwnWork(u)'
    <3>1. pc'[u] = pc[u]
      BY <1>f, <2>1, <2>2
    <3> QED
      BY <1>0, <2>1, <3>1 DEF OwnWork, Committed, Head, Total, WrittenTo, BodyStands, Body
  <2>3. OwnWork(w)'
    <3>1. cursor[w] = 0 /\ job[w].real \in Nat /\ WrittenTo(file, job[w], 0)
          /\ ~Committed(file, job[w]) /\ ~Committed(disk, job[w])
      BY <1>0, <1>f, <2>1, JobFacts DEF OwnWork, WrittenTo
    <3>2. pc'[w] = "body"
      BY <1>f, <2>1
    <3> QED
      BY <2>1, <3>1, <3>2 DEF OwnWork, Committed, Head, Total, WrittenTo, Body
  <2> QED
    BY <1>0, <2>1, <2>2, <2>3 DEF OutsideOK
<1>4. ASSUME NEW w \in Writers, WriteBody(w)
      PROVE  OutsideOK' /\ \A u \in Writers : OwnWork(u)'
  <2> DEFINE i == cursor[w] + 1
  <2>1. /\ pc[w] = "body" /\ cursor[w] < job[w].real
        /\ file' = [file EXCEPT ![Slot(job[w].pos + i)] = Body(job[w], i)]
        /\ cursor' = [cursor EXCEPT ![w] = i]
        /\ UNCHANGED <<disk, pc, job>>
    BY <1>4 DEF WriteBody
  <2>2. job[w] \in Job /\ End(job[w]) <= Capacity /\ i \in Nat /\ i = cursor[w] + 1
        /\ cursor[w] \in Nat
    BY <1>0, <1>f, <2>1, ProcessFacts DEF Busy, Holding
  <2> HIDE DEF i
  <2>3. /\ WrittenTo(file, job[w], cursor[w]) => WrittenTo(file', job[w], i)
        /\ \A k \in Job : Committed(file', k) => Committed(file, k)
        /\ file[Capacity].kind \in {"zero", "extra"} => file'[Capacity].kind \in {"zero", "extra"}
    <3>1. /\ file'[Slot(job[w].pos + i)] = Body(job[w], i)
          /\ \A p \in Pos : p # Slot(job[w].pos + i) => file'[p] = file[p]
      <4>1. Slot(job[w].pos + i) \in Pos
        BY <2>2, JobFacts, SlotFacts
      <4> QED
        BY <1>f, <2>1, <4>1
    <3>2. /\ WrittenTo(file, job[w], cursor[w]) => WrittenTo(file', job[w], i)
          /\ \A k \in Job : Committed(file', k) => Committed(file, k)
          /\ file[Capacity].kind \in {"zero", "extra"} => file'[Capacity].kind \in {"zero", "extra"}
      BY <1>f, <2>2, <3>1, BodyCellWritten
    <3> QED
      BY <2>2, <3>2
  <2>4. ASSUME NEW u \in Writers, u # w
        PROVE  OwnWork(u)'
    <3>1. pc'[u] = pc[u] /\ cursor'[u] = cursor[u] /\ pc[u] \notin Holding
      BY <1>0, <1>f, <2>1, <2>4, ProcessFacts DEF Holding
    <3>2. job[u] \in Job
      BY <1>f
    <3> QED
      BY <1>0, <2>1, <2>3, <3>1, <3>2 DEF OwnWork, Committed, Head, Total, Holding
  <2>5. OwnWork(w)'
    <3>1. cursor'[w] = i /\ pc'[w] = "body"
      BY <1>f, <2>1
    <3>2. i <= job[w].real /\ WrittenTo(file', job[w], i)
          /\ ~Committed(file', job[w]) /\ ~Committed(disk, job[w])
      <4>1. job[w].real \in Nat
        BY <2>2, JobFacts
      <4>2. OwnWork(w)
        BY <1>0
      <4>3. WrittenTo(file, job[w], cursor[w]) /\ ~Committed(file, job[w])
            /\ ~Committed(disk, job[w])
        BY <2>1, <4>2 DEF OwnWork
      <4>4. i <= job[w].real
        BY <2>1, <2>2, <4>1
      <4> QED
        BY <2>2, <2>3, <4>3, <4>4
    <3> QED
      BY <2>1, <3>1, <3>2 DEF OwnWork, Committed, Head, Total, WrittenTo, Body
  <2> QED
    BY <1>0, <2>1, <2>3, <2>4, <2>5 DEF OutsideOK
<1>5. ASSUME NEW w \in Writers, SyncBody(w) \/ SyncHeader(w)
      PROVE  OutsideOK' /\ \A u \in Writers : OwnWork(u)'
  <2>1. disk' = file /\ UNCHANGED <<file, job, cursor>>
    BY <1>5 DEF SyncBody, SyncHeader
  <2>2. ASSUME NEW u \in Writers, u # w
        PROVE  OwnWork(u)'
    <3>1. pc'[u] = pc[u] /\ pc[u] \notin Holding
      BY <1>0, <1>5, <1>f, <2>2, ProcessFacts DEF Holding, SyncBody, SyncHeader, GoTo
    <3> QED
      BY <1>0, <2>1, <3>1 DEF OwnWork, Committed, Head, Total, Holding
  <2>3. OwnWork(w)'
    <3>1. CASE SyncBody(w)
      <4>1. pc[w] = "body" /\ cursor[w] = job[w].real /\ pc'[w] = "header"
        BY <1>f, <3>1 DEF SyncBody, GoTo
      <4>2. BodyStands(file, job[w]) /\ ~Committed(file, job[w])
        BY <1>0, <4>1 DEF OwnWork, WrittenTo, BodyStands
      <4> QED
        BY <2>1, <4>1, <4>2 DEF OwnWork, Committed, Head, Total, BodyStands, Body
    <3>2. CASE SyncHeader(w)
      <4>1. pc[w] = "sync" /\ pc'[w] = "unlock"
        BY <1>f, <3>2 DEF SyncHeader, GoTo
      <4>2. BodyStands(file, job[w]) /\ Committed(file, job[w])
        BY <1>0, <4>1 DEF OwnWork
      <4> QED
        BY <2>1, <4>1, <4>2 DEF OwnWork, Committed, Head, Total, BodyStands, Body
    <3> QED
      BY <1>5, <3>1, <3>2
  <2> QED
    BY <1>0, <2>1, <2>2, <2>3 DEF OutsideOK
<1>6. ASSUME NEW w \in Writers, WriteHeader(w)
      PROVE  OutsideOK' /\ \A u \in Writers : OwnWork(u)'
  <2>1. /\ pc[w] = "header" /\ file' = [file EXCEPT ![job[w].pos] = Head(job[w])]
        /\ UNCHANGED <<disk, job, cursor>> /\ pc' = [pc EXCEPT ![w] = "sync"]
    BY <1>6 DEF WriteHeader, GoTo
  <2>2. /\ job[w] \in Job /\ job[w].pos < Capacity /\ job[w].pos \in Pos
        /\ job[w].pos \in Nat /\ job[w].len \in Nat
    BY <1>0, <1>f, <2>1, ProcessFacts, JobFacts DEF Busy, Holding
  <2>3. file'[job[w].pos] = Head(job[w])
        /\ \A p \in Pos : p # job[w].pos => file'[p] = file[p]
    BY <1>f, <2>1, <2>2
  <2>4. ASSUME NEW u \in Writers, u # w
        PROVE  OwnWork(u)'
    <3>1. pc'[u] = pc[u] /\ pc[u] \notin Holding
      BY <1>0, <1>f, <2>1, <2>4, ProcessFacts DEF Holding
    <3>2. pc[u] = "locking" => Head(job[w]) # Head(job[u])
      BY <1>0, <2>1, <2>4, ProcessFacts DEF Busy, Holding
    <3>3. job[u].pos \in Pos
      BY <1>f, JobFacts
    <3>4. pc[u] = "locking" /\ ~Committed(file, job[u]) => ~Committed(file', job[u])
      BY <2>3, <3>2, <3>3 DEF Committed
    <3> QED
      BY <1>0, <2>1, <3>1, <3>4 DEF OwnWork, Committed, Head, Total, Holding
  <2>5. OwnWork(w)'
    <3>1. BodyStands(file, job[w])
      BY <1>0, <2>1 DEF OwnWork
    <3>2. BodyStands(file', job[w])
      <4> SUFFICES ASSUME NEW i \in 1 .. job[w].len, i <= job[w].real
                   PROVE  file'[job[w].pos + i] = Body(job[w], i)
        BY DEF BodyStands
      <4>1. job[w].pos + i \in Pos /\ job[w].pos + i # job[w].pos
        <5>1. End(job[w]) <= Capacity /\ End(job[w]) = job[w].pos + 1 + job[w].len
          BY <1>0, <2>1, <2>2, ProcessFacts, JobFacts DEF Busy, Holding
        <5> QED
          BY <2>2, <5>1, StoreAssumption DEF Pos
      <4> QED
        BY <2>3, <3>1, <4>1 DEF BodyStands
    <3>3. Committed(file', job[w])
      BY <2>3 DEF Committed
    <3>4. pc'[w] = "sync"
      BY <1>f, <2>1
    <3> QED
      BY <2>1, <3>2, <3>3, <3>4 DEF OwnWork, Committed, Head, Total, BodyStands, Body
  <2>6. OutsideOK'
    <3>1. Capacity \in Pos /\ Capacity # job[w].pos
      BY <2>2, StoreAssumption DEF Pos
    <3> QED
      BY <1>0, <2>1, <2>3, <3>1 DEF OutsideOK
  <2> QED
    BY <2>4, <2>5, <2>6
<1>7. ASSUME NEW w \in Writers, Return(w)
      PROVE  OutsideOK' /\ \A u \in Writers : OwnWork(u)'
  <2>1. UNCHANGED <<file, disk, job, cursor>>
    BY <1>7 DEF Return
  <2>2. \A u \in Writers : pc'[u] = pc[u] \/ pc'[u] = "ready"
    BY <1>7, <1>f DEF Return, GoTo
  <2> QED
    BY <1>0, <2>1, <2>2
       DEF OutsideOK, OwnWork, Committed, Head, Total, WrittenTo, BodyStands, Body
<1>8. ASSUME PowerLoss
      PROVE  OutsideOK' /\ \A u \in Writers : OwnWork(u)'
  <2>1. \A u \in Writers : pc'[u] = "closed"
    BY <1>8 DEF PowerLoss
  <2>2. Capacity \in Pos
    BY StoreAssumption DEF Pos
  <2>3. disk' = file' /\ file'[Capacity] \in {file[Capacity], disk[Capacity]}
    BY <1>8, <2>2 DEF PowerLoss
  <2> QED
    BY <1>0, <2>1, <2>3 DEF OutsideOK, OwnWork
<1>9. CASE UNCHANGED vars
  BY <1>0, <1>9
     DEF vars, OutsideOK, OwnWork, Committed, Head, Total, WrittenTo, BodyStands, Body
<1> QED
  BY <1>1, <1>2, <1>3, <1>4, <1>5, <1>6, <1>7, <1>8, <1>9 DEF Next, WriterStep
(***************************************************************************)
(* No record runs past the end of the store, and the file grows past it    *)
(* only by the surplus of a source that grew after its stat.               *)
(***************************************************************************)
THEOREM StoreKeepsItsSize == Spec => []StaysInStore
<1>1. WorkInv => StaysInStore
  <2> SUFFICES ASSUME WorkInv PROVE StaysInStore
    OBVIOUS
  <2>1. ASSUME NEW p \in Pos, file[p].kind = "head"
        PROVE  p + file[p].n <= Capacity
    <3>1. PICK j \in begun : j.pos = p /\ file[p] = Head(j)
      BY <2>1 DEF WorkInv, BaseInv, HeadsOK, HeadsOf
    <3>2. End(j) <= Capacity /\ j \in Job
      BY DEF WorkInv, BaseInv, TypeOK, JobsOK
    <3> QED
      BY <3>1, <3>2, JobFacts DEF End
  <2> QED
    BY <2>1 DEF WorkInv, OutsideOK, StaysInStore
<1> QED
  BY <1>1, WorkInit, WorkStep, PTL DEF Spec

(***************************************************************************)
(* Whatever the other processes do, the header of a record appears in the  *)
(* file only when the body it declares is on the disk.                     *)
(***************************************************************************)
THEOREM HeaderComesLast == Spec => HeaderLast
<1>1. WorkInv /\ [Next]_vars =>
        [\A w \in Writers :
            Committed(file', job[w]) /\ ~Committed(file, job[w]) /\ pc[w] \in Holding
                => BodyStands(disk, job[w])]_vars
  <2> SUFFICES ASSUME WorkInv, Next, NEW w \in Writers,
                      Committed(file', job[w]), ~Committed(file, job[w]), pc[w] \in Holding
               PROVE  BodyStands(disk, job[w])
    OBVIOUS
  <2>1. OwnWork(w) /\ BaseInv /\ job[w] \in Job /\ lock = w /\ file \in [Pos -> Cell]
        /\ job[w].pos \in Pos
    BY ProcessFacts, JobFacts DEF WorkInv, BaseInv, TypeOK
  <2>2. CASE PowerLoss
    <3>1. file'[job[w].pos] \in {file[job[w].pos], disk[job[w].pos]}
      BY <2>1, <2>2 DEF PowerLoss
    <3>2. Committed(disk, job[w])
      BY <3>1 DEF Committed
    <3> QED
      BY <2>1, <3>2 DEF OwnWork, Holding
  <2>3. CASE WriteHeader(w)
    BY <2>1, <2>3 DEF OwnWork, WriteHeader
  <2>4. CASE WriteBody(w)
    <3> DEFINE i == cursor[w] + 1
    <3>1. file' = [file EXCEPT ![Slot(job[w].pos + i)] = Body(job[w], i)]
      BY <2>4 DEF WriteBody
    <3>2. i \in Nat
      BY <2>1, ProcessFacts
    <3>3. Body(job[w], i).kind # "head" /\ Head(job[w]).kind = "head"
      BY <2>1, <3>2, BodyFacts, JobFacts
    <3>4. file'[job[w].pos] \in {file[job[w].pos], Body(job[w], i)}
      BY <2>1, <3>1
    <3> QED
      BY <3>3, <3>4 DEF Committed
  <2>5. ASSUME NEW v \in Writers, v # w, WriteBody(v) \/ WriteHeader(v)
        PROVE  FALSE
    <3>1. pc[v] \in Holding
      BY <2>5 DEF WriteBody, WriteHeader, Holding
    <3> QED
      BY <2>1, <2>5, <3>1, ProcessFacts
  <2>6. CASE UNCHANGED file
    BY <2>6
  <2> QED
    BY <2>2, <2>3, <2>4, <2>5, <2>6
       DEF Next, WriterStep, Open, ScanRecord, ScanEnd, BeginAppend, AcquireLock,
           LockTimeout, SyncBody, SyncHeader, Return, Close
<1> QED
  BY <1>1, WorkInit, WorkStep, PTL DEF Spec, HeaderLast

-----------------------------------------------------------------------------

(* Sets of records laid end to end *)

\* A place where a record may start: the start of the store or the end of one.
Boundary(C, u) == u = 0 \/ \E j \in C : End(j) = u

\* The place where the next record goes.
TailOf(C, u) == Boundary(C, u) /\ \A j \in C : End(j) <= u

Disjoint(C) == \A j, k \in C : j # k => End(j) <= k.pos \/ End(k) <= j.pos

\* From a boundary either a record starts or nothing follows.
NoGap(C) ==
    \A u \in Nat : Boundary(C, u) => (\E j \in C : j.pos = u) \/ (\A j \in C : End(j) <= u)

Layout(C) == Disjoint(C) /\ NoGap(C) /\ \A j \in C : Boundary(C, j.pos)

LEMMA LayoutAdd ==
    ASSUME NEW C, C \subseteq Job, Layout(C), NEW j \in Job, TailOf(C, j.pos)
    PROVE  /\ Layout(C \cup {j})
           /\ TailOf(C \cup {j}, End(j))
<1> DEFINE D == C \cup {j}
<1>1. \A k \in D : k.pos \in Nat /\ End(k) \in Nat /\ k.pos < End(k)
  BY JobFacts
<1>2. \A k \in C : End(k) <= j.pos
  BY DEF TailOf
<1>3. Disjoint(D)
  BY <1>2 DEF Layout, Disjoint
<1>4. \A k \in D : End(k) <= End(j)
  BY <1>1, <1>2
<1>5. ASSUME NEW u \in Nat, Boundary(D, u)
      PROVE  (\E k \in D : k.pos = u) \/ (\A k \in D : End(k) <= u)
  <2>1. CASE u = End(j)
    BY <1>4, <2>1
  <2>2. CASE Boundary(C, u)
    <3>1. CASE \E k \in C : k.pos = u
      BY <3>1
    <3>2. CASE \A k \in C : End(k) <= u
      <4>1. u = j.pos
        <5>1. CASE \E k \in C : End(k) = u
          <6>1. u <= j.pos
            BY <1>2, <5>1
          <6>2. PICK k \in C : End(k) = u
            BY <5>1
          <6>3. j.pos # 0 /\ \E m \in C : End(m) = j.pos
            BY <1>1, <1>2, <6>2 DEF TailOf, Boundary
          <6>4. j.pos <= u
            BY <3>2, <6>3
          <6> QED
            BY <1>1, <6>1, <6>4
        <5>2. CASE u = 0 /\ ~\E k \in C : End(k) = u
          <6>1. C = {}
            BY <1>1, <3>2, <5>2
          <6> QED
            BY <5>2, <6>1 DEF TailOf, Boundary
        <5> QED
          BY <2>2, <5>1, <5>2 DEF Boundary
      <4> QED
        BY <4>1
    <3> QED
      BY <2>2, <3>1, <3>2 DEF Layout, NoGap
  <2> QED
    BY <1>5, <2>1, <2>2 DEF Boundary
<1>6. \A k \in D : Boundary(D, k.pos)
  BY DEF Layout, TailOf, Boundary
<1> QED
  BY <1>3, <1>4, <1>5, <1>6 DEF Layout, NoGap, TailOf, Boundary

LEMMA LayoutDrop ==
    ASSUME NEW C, C \subseteq Job, Layout(C), NEW D \in SUBSET C,
           \A j \in C \ D : \A k \in C : End(k) <= End(j)
    PROVE  Layout(D)
<1>1. \A k \in C : k.pos \in Nat /\ End(k) \in Nat /\ k.pos < End(k)
  BY JobFacts
<1>2. Disjoint(D)
  BY DEF Layout, Disjoint
<1>3. ASSUME NEW u \in Nat, Boundary(D, u), NEW j \in D, ~(End(j) <= u)
      PROVE  \E k \in D : k.pos = u
  <2>1. PICK k \in C : k.pos = u
    BY <1>3 DEF Boundary, Layout, NoGap
  <2>2. CASE k \in D
    BY <2>1, <2>2
  <2>3. CASE k \notin D
    <3>1. End(j) <= End(k) /\ j # k
      BY <2>3
    <3>2. End(j) <= k.pos
      BY <1>1, <3>1 DEF Layout, Disjoint
    <3> QED
      BY <1>3, <2>1, <3>2
  <2> QED
    BY <2>2, <2>3
<1>4. ASSUME NEW j \in D
      PROVE  Boundary(D, j.pos)
  <2>1. CASE j.pos = 0
    BY <2>1 DEF Boundary
  <2>2. CASE \E k \in C : End(k) = j.pos
    <3>1. PICK k \in C : End(k) = j.pos
      BY <2>2
    <3>2. ~(End(j) <= End(k))
      BY <1>1, <3>1
    <3> QED
      BY <3>1, <3>2 DEF Boundary
  <2> QED
    BY <2>1, <2>2 DEF Layout, Boundary
<1> QED
  BY <1>2, <1>3, <1>4 DEF Layout, NoGap

\* Two stores that agree below a place hold the same records there.
LEMMA SameBelow ==
    ASSUME NEW f, NEW g, NEW j \in Job, NEW t \in Nat, t <= Capacity, End(j) <= t,
           \A p \in Pos : p < t => g[p] = f[p]
    PROVE  (Committed(g, j) <=> Committed(f, j)) /\ (BodyStands(g, j) <=> BodyStands(f, j))
<1>1. j.pos \in Nat /\ j.len \in Nat /\ j.pos + 1 + j.len <= t
  BY JobFacts
<1>2. \A i \in 1 .. j.len : g[j.pos + i] = f[j.pos + i]
  BY <1>1, StoreAssumption DEF Pos
<1>3. g[j.pos] = f[j.pos]
  BY <1>1, StoreAssumption DEF Pos
<1> QED
  BY <1>2, <1>3 DEF Committed, BodyStands

-----------------------------------------------------------------------------
(* The invariant                                                           *)

\* Where the offset of process w stands among the committed records.
Place(w) ==
    /\ pc[w] = "scan" => Boundary(CommittedJobs(file), used[w])
    /\ pc[w] \in {"ready", "locking"} =>
        /\ seen[w] \subseteq CommittedJobs(file)
        /\ seen[w] = CommittedJobs(file) => TailOf(CommittedJobs(file), used[w])
    /\ pc[w] \in {"body", "header"} => TailOf(CommittedJobs(file), job[w].pos)
    /\ pc[w] \in {"sync", "unlock"} => TailOf(CommittedJobs(file), End(job[w]))

\* The committed records of the file lie end to end, those of the disk are all of
\* them but perhaps the last, and their bodies stand in both.
LogInv ==
    /\ Layout(CommittedJobs(file))
    /\ CommittedJobs(disk) \subseteq CommittedJobs(file)
    /\ \A j \in CommittedJobs(file) \ CommittedJobs(disk) :
        \A k \in CommittedJobs(file) : End(k) <= End(j)
    /\ \A j \in CommittedJobs(file) : BodyStands(file, j) /\ BodyStands(disk, j)
    /\ delivered \subseteq CommittedJobs(disk)
    /\ \A w \in Writers : Place(w)

StoreInv == WorkInv /\ (~raced => LogInv)

LEMMA StoreInit == Init => StoreInv
<1> SUFFICES ASSUME Init PROVE StoreInv
  OBVIOUS
<1>1. CommittedJobs(file) = {} /\ CommittedJobs(disk) = {}
  BY DEF Init, CommittedJobs
<1>2. Layout({})
  BY DEF Layout, Disjoint, NoGap, Boundary
<1>3. \A w \in Writers : Place(w)
  BY DEF Init, Place
<1> QED
  BY <1>1, <1>2, <1>3, WorkInit DEF StoreInv, LogInv, Init

\* The steps that write no store and begin no append.
LEMMA StoresAlone ==
    ASSUME LogInv, UNCHANGED <<file, disk, begun>>,
           \A j \in delivered' : j \in delivered \/ j \in CommittedJobs(disk),
           \A w \in Writers :
              \/ /\ pc'[w] = pc[w] /\ job'[w] = job[w]
                 /\ used'[w] = used[w] /\ seen'[w] = seen[w]
              \/ Place(w)'
    PROVE  LogInv'
<1>1. CommittedJobs(file)' = CommittedJobs(file) /\ CommittedJobs(disk)' = CommittedJobs(disk)
  BY DEF CommittedJobs, Committed, Head, Total
<1>2. \A w \in Writers : Place(w)'
  BY <1>1 DEF LogInv, Place, TailOf, Boundary, End, Total
<1>3. \A j \in CommittedJobs(file) : (BodyStands(file, j) /\ BodyStands(disk, j))'
  BY DEF LogInv, BodyStands, Body
<1>4. Layout(CommittedJobs(file))'
  BY <1>1 DEF LogInv, Layout, Disjoint, NoGap, Boundary, End, Total
<1>5. (\A j \in CommittedJobs(file) \ CommittedJobs(disk) :
         \A k \in CommittedJobs(file) : End(k) <= End(j))'
  BY <1>1 DEF LogInv, End, Total
<1>6. (delivered \subseteq CommittedJobs(disk))'
  BY <1>1 DEF LogInv
<1> QED
  BY <1>1, <1>2, <1>3, <1>4, <1>5, <1>6 DEF LogInv

LEMMA LogStep == StoreInv /\ [Next]_vars => StoreInv'
<1> SUFFICES ASSUME StoreInv, [Next]_vars, ~raced'
             PROVE  LogInv'
  BY WorkStep DEF StoreInv
<1>0. WorkInv /\ WorkInv' /\ BaseInv /\ BaseInv' /\ ~raced /\ LogInv
  <2>1. raced => raced'
    BY DEF Next, WriterStep, Open, ScanRecord, ScanEnd, BeginAppend, AcquireLock,
           LockTimeout, WriteBody, SyncBody, WriteHeader, SyncHeader, Return, Close,
           PowerLoss, vars
  <2> QED
    BY <2>1, WorkStep DEF StoreInv, WorkInv
<1>f. /\ file \in [Pos -> Cell] /\ disk \in [Pos -> Cell] /\ pc \in [Writers -> PC]
      /\ job \in [Writers -> Job] /\ used \in [Writers -> Pos]
      /\ seen \in [Writers -> SUBSET begun] /\ begun \subseteq Job
      /\ CommittedJobs(file) \subseteq begun /\ CommittedJobs(disk) \subseteq begun
      /\ CommittedJobs(file) \subseteq Job /\ CommittedJobs(disk) \subseteq Job
  BY <1>0 DEF BaseInv, TypeOK, CommittedJobs
<1>j. \A j \in begun : End(j) <= Capacity /\ End(j) \in Nat /\ j.pos \in Nat /\ j.pos < End(j)
  BY <1>0, <1>f, JobFacts DEF BaseInv, JobsOK
<1>1. ASSUME NEW w \in Writers, Open(w)
      PROVE  LogInv'
  <2>1. /\ UNCHANGED <<file, disk, begun, delivered, seen>>
        /\ pc'[w] = "scan" /\ used'[w] = 0
        /\ \A u \in Writers :
              u # w => pc'[u] = pc[u] /\ used'[u] = used[u] /\ job'[u] = job[u]
    BY <1>1, <1>f DEF Open, GoTo
  <2>2. Place(w)'
    BY <2>1 DEF Place, Boundary
  <2> QED
    BY <1>0, <2>1, <2>2, StoresAlone
<1>2. ASSUME NEW w \in Writers, ScanRecord(w)
      PROVE  LogInv'
  <2>1. /\ UNCHANGED <<file, disk, job, begun, delivered, seen, pc>> /\ pc[w] = "scan"
        /\ used'[w] = used[w] + file[used[w]].n
        /\ \A u \in Writers : u # w => used'[u] = used[u]
    BY <1>2, <1>f DEF ScanRecord
  <2>2. PICK j \in begun : j.pos = used[w] /\ file[used[w]] = Head(j)
    BY <1>0, <1>2, <1>f DEF ScanRecord, HeaderAt, BaseInv, HeadsOK, HeadsOf
  <2>3. j \in CommittedJobs(file) /\ used'[w] = End(j)
    BY <2>1, <2>2 DEF CommittedJobs, Committed, Head, End
  <2>4. Place(w)'
    BY <2>1, <2>3
       DEF Place, Boundary, CommittedJobs, Committed, Head, Total, End
  <2> QED
    BY <1>0, <2>1, <2>4, StoresAlone
<1>3. ASSUME NEW w \in Writers, ScanEnd(w)
      PROVE  LogInv'
  <2>1. /\ UNCHANGED <<file, disk, job, begun, delivered, used>> /\ pc[w] = "scan"
        /\ ~HeaderAt(file, used[w]) /\ pc'[w] = "ready" /\ seen'[w] = CommittedJobs(file)
        /\ \A u \in Writers : u # w => pc'[u] = pc[u] /\ seen'[u] = seen[u]
    BY <1>3, <1>f DEF ScanEnd, GoTo
  <2>2. TailOf(CommittedJobs(file), used[w])
    <3>1. Boundary(CommittedJobs(file), used[w]) /\ NoGap(CommittedJobs(file))
      BY <1>0, <2>1 DEF LogInv, Layout, Place
    <3>2. ASSUME NEW j \in CommittedJobs(file), j.pos = used[w]
          PROVE  FALSE
      <4>1. file[used[w]] = Head(j) /\ j \in Job /\ End(j) <= Capacity /\ j.pos < Capacity
        BY <1>f, <1>j, <3>2, StoreAssumption DEF CommittedJobs, Committed
      <4> QED
        BY <2>1, <3>2, <4>1, JobFacts DEF HeaderAt, End
    <3>3. used[w] \in Nat
      BY <1>f, StoreAssumption DEF Pos
    <3> QED
      BY <3>1, <3>2, <3>3 DEF NoGap, TailOf
  <2>3. CommittedJobs(file)' = CommittedJobs(file)
    BY <2>1 DEF CommittedJobs, Committed, Head, Total
  <2>4. Place(w)'
    BY <2>1, <2>2, <2>3 DEF Place, TailOf, Boundary, End, Total
  <2> QED
    BY <1>0, <2>1, <2>4, StoresAlone
<1>4. ASSUME NEW w \in Writers, BeginAppend(w)
      PROVE  LogInv'
  <2>1. /\ UNCHANGED <<file, disk, delivered, seen, used>> /\ pc[w] = "ready"
        /\ pc' = [pc EXCEPT ![w] = "locking"]
        /\ \A u \in Writers : u # w => job'[u] = job[u]
    BY <1>4, <1>f DEF BeginAppend, GoTo
  <2>2. PICK j : begun' = begun \cup {j} /\ job'[w] = j
    BY <1>4, <1>f DEF BeginAppend
  <2>3. ~Committed(file, j)' /\ ~Committed(disk, j)'
    <3>1. pc'[w] = "locking"
      BY <1>f, <2>1
    <3> QED
      BY <1>0, <2>2, <3>1 DEF WorkInv, OwnWork, Committed, Head, Total
  <2>4. CommittedJobs(file)' = CommittedJobs(file) /\ CommittedJobs(disk)' = CommittedJobs(disk)
    BY <2>1, <2>2, <2>3 DEF CommittedJobs, Committed, Head, Total
  <2>5. \A u \in Writers : Place(u)'
    <3>1. ASSUME NEW u \in Writers, u # w
          PROVE  Place(u)'
      <4>1. pc'[u] = pc[u] /\ job'[u] = job[u]
        BY <1>f, <2>1, <3>1
      <4> QED
        BY <1>0, <2>1, <2>4, <4>1 DEF LogInv, Place, TailOf, Boundary, End, Total
    <3>2. Place(w)'
      <4>1. pc'[w] = "locking"
        BY <1>f, <2>1
      <4> QED
        BY <1>0, <2>1, <2>4, <4>1 DEF LogInv, Place, TailOf, Boundary, End, Total
    <3> QED
      BY <3>1, <3>2
  <2>6. \A k \in CommittedJobs(file) : (BodyStands(file, k) /\ BodyStands(disk, k))'
    BY <1>0, <2>1 DEF LogInv, BodyStands, Body
  <2> QED
    BY <1>0, <2>1, <2>4, <2>5, <2>6
       DEF LogInv, Layout, Disjoint, NoGap, Boundary, End, Total
<1>5. ASSUME NEW w \in Writers, AcquireLock(w)
      PROVE  LogInv'
  <2>1. /\ UNCHANGED <<file, disk, job, begun, delivered, used, seen>> /\ pc[w] = "locking"
        /\ pc'[w] = "body" /\ CommittedJobs(file) = seen[w]
        /\ \A u \in Writers : u # w => pc'[u] = pc[u]
    BY <1>5, <1>f DEF AcquireLock, GoTo
  <2>2. TailOf(CommittedJobs(file), used[w]) /\ job[w].pos = used[w]
    BY <1>0, <2>1 DEF LogInv, Place, BaseInv, JobsOK, Busy
  <2>3. CommittedJobs(file)' = CommittedJobs(file)
    BY <2>1 DEF CommittedJobs, Committed, Head, Total
  <2>4. Place(w)'
    BY <2>1, <2>2, <2>3 DEF Place, TailOf, Boundary, End, Total
  <2> QED
    BY <1>0, <2>1, <2>4, StoresAlone
<1>6. ASSUME NEW w \in Writers, LockTimeout(w) \/ Close(w)
      PROVE  LogInv'
  <2>1. /\ UNCHANGED <<file, disk, job, begun, delivered, used, seen>> /\ pc'[w] = "closed"
        /\ \A u \in Writers : u # w => pc'[u] = pc[u]
    BY <1>6, <1>f DEF LockTimeout, Close, GoTo
  <2>2. Place(w)'
    BY <2>1 DEF Place
  <2> QED
    BY <1>0, <2>1, <2>2, StoresAlone
<1>7. ASSUME NEW w \in Writers, WriteBody(w)
      PROVE  LogInv'
  <2> DEFINE i == cursor[w] + 1
             s == Slot(job[w].pos + i)
  <2>1. /\ UNCHANGED <<disk, job, begun, delivered, used, seen, pc>> /\ pc[w] = "body"
        /\ file' = [file EXCEPT ![s] = Body(job[w], i)]
    BY <1>7 DEF WriteBody
  <2>2. /\ job[w] \in Job /\ job[w].pos \in Nat /\ job[w].pos < Capacity
        /\ i \in Nat /\ s \in Pos /\ job[w].pos < s
        /\ Body(job[w], i).kind # "head"
    <3>1. job[w] \in Job /\ job[w].pos \in Nat /\ job[w].pos < Capacity /\ cursor[w] \in Nat
      BY <1>0, <2>1, ProcessFacts, JobFacts DEF Busy, Holding
    <3>2. s \in Pos /\ job[w].pos < s
      BY <3>1, SlotFacts, StoreAssumption
    <3> QED
      BY <3>1, <3>2, BodyFacts
  <2> HIDE DEF i, s
  <2>3. /\ \A p \in Pos : p < job[w].pos => file'[p] = file[p]
        /\ \A p \in Pos : file'[p] = file[p] \/ file'[p].kind # "head"
    BY <1>f, <2>1, <2>2, StoreAssumption DEF Pos
  <2>4. TailOf(CommittedJobs(file), job[w].pos)
    BY <1>0, <2>1 DEF LogInv, Place
  <2>5. ASSUME NEW j \in CommittedJobs(file)
        PROVE  /\ Committed(file', j) <=> Committed(file, j)
               /\ BodyStands(file', j) <=> BodyStands(file, j)
    <3>1. End(j) <= job[w].pos /\ j \in Job
      BY <1>f, <2>4 DEF TailOf
    <3> QED
      BY <2>2, <2>3, <3>1, SameBelow, StoreAssumption
  <2>6. ASSUME NEW j \in begun, Committed(file', j)
        PROVE  Committed(file, j)
    <3>1. Head(j).kind = "head" /\ j.pos \in Pos
      BY <1>f, JobFacts
    <3> QED
      BY <2>3, <2>6, <3>1 DEF Committed
  <2>7. CommittedJobs(file)' = CommittedJobs(file) /\ CommittedJobs(disk)' = CommittedJobs(disk)
    <3>1. CommittedJobs(file)' = {j \in begun : Committed(file', j)}
      BY <2>1 DEF CommittedJobs, Committed, Head, Total
    <3>2. CommittedJobs(disk)' = CommittedJobs(disk)
      BY <2>1 DEF CommittedJobs, Committed, Head, Total
    <3> QED
      BY <2>5, <2>6, <3>1, <3>2 DEF CommittedJobs
  <2>8. \A j \in CommittedJobs(file) : BodyStands(file, j)' /\ BodyStands(disk, j)'
    <3>1. \A j \in CommittedJobs(file) : BodyStands(file', j) /\ BodyStands(disk, j)
      BY <1>0, <2>5 DEF LogInv
    <3> QED
      BY <2>1, <3>1 DEF BodyStands, Body
  <2>9. \A u \in Writers : Place(u)'
    BY <1>0, <2>1, <2>7 DEF LogInv, Place, TailOf, Boundary, End, Total
  <2> QED
    BY <1>0, <2>1, <2>7, <2>8, <2>9
       DEF LogInv, Layout, Disjoint, NoGap, Boundary, End, Total
<1>8. ASSUME NEW w \in Writers, SyncBody(w) \/ SyncHeader(w)
      PROVE  LogInv'
  <2>1. /\ UNCHANGED <<file, job, begun, delivered, used, seen>> /\ disk' = file
        /\ \/ pc[w] = "body" /\ pc'[w] = "header"
           \/ pc[w] = "sync" /\ pc'[w] = "unlock"
        /\ \A u \in Writers : u # w => pc'[u] = pc[u]
    BY <1>8, <1>f DEF SyncBody, SyncHeader, GoTo
  <2>2. CommittedJobs(file)' = CommittedJobs(file) /\ CommittedJobs(disk)' = CommittedJobs(file)
    BY <2>1 DEF CommittedJobs, Committed, Head, Total
  <2>3. \A j \in CommittedJobs(file) : BodyStands(file, j)' /\ BodyStands(disk, j)'
    <3>1. \A j \in CommittedJobs(file) : BodyStands(file, j)
      BY <1>0 DEF LogInv
    <3> QED
      BY <2>1, <3>1 DEF BodyStands, Body
  <2>4. ASSUME NEW u \in Writers
        PROVE  Place(u)'
    <3>1. CASE u = w
      BY <1>0, <2>1, <2>2, <3>1 DEF LogInv, Place, TailOf, Boundary, End, Total
    <3>2. CASE u # w
      BY <1>0, <2>1, <2>2, <3>2 DEF LogInv, Place, TailOf, Boundary, End, Total
    <3> QED
      BY <3>1, <3>2
  <2>5. delivered' \subseteq CommittedJobs(file)
    BY <1>0, <2>1 DEF LogInv
  <2> QED
    BY <1>0, <2>2, <2>3, <2>4, <2>5
       DEF LogInv, Layout, Disjoint, NoGap, Boundary, End, Total
<1>9. ASSUME NEW w \in Writers, WriteHeader(w)
      PROVE  LogInv'
  <2> DEFINE j == job[w]
             C == CommittedJobs(file)
  <2>1. /\ UNCHANGED <<disk, job, begun, delivered, used, seen>> /\ pc[w] = "header"
        /\ file' = [file EXCEPT ![j.pos] = Head(j)] /\ pc'[w] = "sync"
        /\ \A u \in Writers : u # w => pc'[u] = pc[u]
    BY <1>9, <1>f DEF WriteHeader, GoTo
  <2>2. /\ j \in Job /\ j \in begun /\ j.pos \in Nat /\ j.pos < Capacity /\ j.pos \in Pos
        /\ End(j) \in Nat
    BY <1>0, <2>1, ProcessFacts, JobFacts DEF Busy, Holding
  <2>3. /\ file'[j.pos] = Head(j)
        /\ \A p \in Pos : p < j.pos => file'[p] = file[p]
        /\ \A p \in Pos : p # j.pos => file'[p] = file[p]
    BY <1>f, <2>1, <2>2, StoreAssumption DEF Pos
  <2>4. TailOf(C, j.pos) /\ disk = file /\ BodyStands(file, j)
    BY <1>0, <2>1 DEF LogInv, Place, WorkInv, OwnWork
  <2>5. BodyStands(file', j) /\ Committed(file', j)
    <3>1. pc'[w] = "sync" /\ OwnWork(w)'
      BY <1>0, <2>1 DEF WorkInv
    <3> QED
      BY <2>1, <3>1 DEF OwnWork, Committed, BodyStands, Head, Body, Total
  <2>6. ASSUME NEW k \in C
        PROVE  Committed(file', k) /\ BodyStands(file', k)
    <3>1. End(k) <= j.pos /\ k \in Job
      BY <1>f, <2>4 DEF TailOf
    <3>2. Committed(file, k) /\ BodyStands(file, k)
      BY <1>0 DEF LogInv, CommittedJobs
    <3> QED
      BY <2>2, <2>3, <3>1, <3>2, SameBelow, StoreAssumption
  <2>7. ASSUME NEW k \in begun, Committed(file', k), k # j
        PROVE  k \in C
    <3>1. k.pos \in Pos /\ Head(k).id = k.id /\ Head(j).id = j.id /\ k.id # j.id
      BY <1>0, <1>f, <2>2, <2>7, JobFacts DEF BaseInv, JobsOK
    <3>2. k.pos # j.pos
      BY <2>3, <2>7, <3>1 DEF Committed
    <3> QED
      BY <2>3, <2>7, <3>1, <3>2 DEF Committed, CommittedJobs
  <2>8. CommittedJobs(file)' = C \cup {j} /\ CommittedJobs(disk)' = C
    <3>1. CommittedJobs(file)' = {k \in begun : Committed(file', k)}
      BY <2>1 DEF CommittedJobs, Committed, Head, Total
    <3>2. CommittedJobs(disk)' = C
      BY <2>1, <2>4 DEF CommittedJobs, Committed, Head, Total
    <3>3. C = {k \in begun : Committed(file, k)}
      BY DEF CommittedJobs
    <3> QED
      BY <2>2, <2>5, <2>6, <2>7, <3>1, <3>2, <3>3
  <2>9. Layout(C \cup {j}) /\ TailOf(C \cup {j}, End(j))
    BY <1>0, <1>f, <2>2, <2>4, LayoutAdd DEF LogInv
  <2>10. j \notin C
    BY <1>0, <2>1 DEF WorkInv, OwnWork, CommittedJobs
  <2>11. ASSUME NEW u \in Writers
         PROVE  Place(u)'
    <3>1. CASE u = w
      BY <2>1, <2>8, <2>9, <3>1 DEF Place, TailOf, Boundary, End, Total
    <3>2. CASE u # w
      <4>1. pc'[u] = pc[u] /\ Place(u) /\ pc[u] \notin Holding
        <5>1. pc[u] \notin Holding
          BY <1>0, <2>1, <3>2, ProcessFacts DEF Holding
        <5> QED
          BY <1>0, <2>1, <3>2, <5>1 DEF LogInv
      <4>2. pc[u] = "scan" => Boundary(C \cup {j}, used[u])
        BY <4>1 DEF Place, Boundary
      <4>3. pc[u] \in {"ready", "locking"} => seen[u] \subseteq C /\ seen[u] # C \cup {j}
        BY <2>10, <4>1 DEF Place
      <4> QED
        BY <2>1, <2>8, <4>1, <4>2, <4>3 DEF Place, Boundary, Holding, End, Total
    <3> QED
      BY <3>1, <3>2
  <2>12. ASSUME NEW k \in C \cup {j}
         PROVE  BodyStands(file, k)' /\ BodyStands(disk, k)'
    <3>1. BodyStands(file', k) /\ BodyStands(disk, k)
      BY <1>0, <2>4, <2>5, <2>6 DEF LogInv
    <3> QED
      BY <2>1, <3>1 DEF BodyStands, Body
  <2>13. Layout(CommittedJobs(file))'
    BY <2>8, <2>9 DEF Layout, Disjoint, NoGap, Boundary, End, Total
  <2>14. (\A k \in CommittedJobs(file) \ CommittedJobs(disk) :
            \A m \in CommittedJobs(file) : End(m) <= End(k))'
    BY <2>8, <2>9 DEF TailOf, End, Total
  <2>15. delivered' \subseteq C
    BY <1>0, <2>1 DEF LogInv
  <2> QED
    BY <2>8, <2>11, <2>12, <2>13, <2>14, <2>15 DEF LogInv
<1>10. ASSUME NEW w \in Writers, Return(w)
       PROVE  LogInv'
  <2>1. /\ UNCHANGED <<file, disk, job, begun>> /\ pc[w] = "unlock"
        /\ pc'[w] = "ready" /\ used'[w] = End(job[w]) /\ seen'[w] = CommittedJobs(file)
        /\ delivered' = delivered \cup {job[w]}
        /\ \A u \in Writers : u # w =>
              pc'[u] = pc[u] /\ used'[u] = used[u] /\ seen'[u] = seen[u]
    BY <1>10, <1>f DEF Return, GoTo
  <2>2. CommittedJobs(file)' = CommittedJobs(file)
    BY <2>1 DEF CommittedJobs, Committed, Head, Total
  <2>3. TailOf(CommittedJobs(file), End(job[w]))
    BY <1>0, <2>1 DEF LogInv, Place
  <2>4. Place(w)'
    BY <2>1, <2>2, <2>3 DEF Place, TailOf, Boundary, End, Total
  <2>5. job[w] \in CommittedJobs(disk)
    <3>1. job[w] \in begun
      BY <1>0, <2>1, ProcessFacts DEF Busy, Holding
    <3>2. disk = file /\ Committed(file, job[w])
      BY <1>0, <2>1 DEF WorkInv, OwnWork
    <3> QED
      BY <3>1, <3>2 DEF CommittedJobs
  <2> QED
    BY <1>0, <2>1, <2>4, <2>5, StoresAlone
<1>11. ASSUME PowerLoss
       PROVE  LogInv'
  <2> DEFINE C == CommittedJobs(file)
             D == CommittedJobs(disk)
             E == {j \in begun : Committed(file', j)}
  <2>1. /\ UNCHANGED <<begun, delivered>> /\ disk' = file'
        /\ \A p \in Pos : file'[p] = file[p] \/ file'[p] = disk[p]
        /\ \A u \in Writers : pc'[u] = "closed"
    BY <1>11 DEF PowerLoss
  <2>2. CommittedJobs(file)' = E /\ CommittedJobs(disk)' = E
    BY <2>1 DEF CommittedJobs, Committed, Head, Total
  <2>3. D \subseteq C /\ C \subseteq begun /\ \A j \in begun : j.pos \in Pos
    BY <1>0, <1>f, JobFacts DEF LogInv
  <2>4. D \subseteq E
    <3>1. \A j \in D : file[j.pos] = Head(j) /\ disk[j.pos] = Head(j) /\ j \in begun
      BY <2>3 DEF CommittedJobs, Committed
    <3> QED
      BY <2>1, <2>3, <3>1 DEF Committed
  <2>5. E \subseteq C
    <3>1. ASSUME NEW j \in E
          PROVE  j \in C
      <4>1. file[j.pos] = Head(j) \/ disk[j.pos] = Head(j)
        BY <2>1, <2>3 DEF Committed
      <4>2. j \in C \/ j \in D
        BY <4>1 DEF CommittedJobs, Committed
      <4> QED
        BY <2>3, <4>2
    <3> QED
      BY <3>1
  <2>6. Layout(E)
    BY <1>0, <1>f, <2>4, <2>5, LayoutDrop DEF LogInv
  <2>7. ASSUME NEW j \in E
        PROVE  BodyStands(file, j)' /\ BodyStands(disk, j)'
    <3>1. BodyStands(file, j) /\ BodyStands(disk, j) /\ j \in Job /\ End(j) <= Capacity
      BY <1>0, <1>f, <1>j, <2>5 DEF LogInv
    <3>2. \A i \in 1 .. j.len : j.pos + i \in Pos
      BY <3>1, JobFacts, StoreAssumption DEF Pos
    <3>3. BodyStands(file', j)
      BY <2>1, <3>1, <3>2 DEF BodyStands
    <3> QED
      BY <2>1, <3>3 DEF BodyStands, Body
  <2>8. delivered' \subseteq E
    BY <1>0, <2>1, <2>4 DEF LogInv
  <2>9. \A u \in Writers : Place(u)'
    BY <2>1 DEF Place
  <2>10. Layout(CommittedJobs(file))'
    BY <2>2, <2>6 DEF Layout, Disjoint, NoGap, Boundary, End, Total
  <2> HIDE DEF E
  <2> QED
    BY <2>2, <2>7, <2>8, <2>9, <2>10 DEF LogInv
<1>12. CASE UNCHANGED vars
  <2>1. \A u \in Writers : pc'[u] = pc[u] /\ used'[u] = used[u] /\ seen'[u] = seen[u]
    BY <1>12 DEF vars
  <2> QED
    BY <1>0, <1>12, <2>1, StoresAlone DEF vars
<1> QED
  BY <1>1, <1>2, <1>3, <1>4, <1>5, <1>6, <1>7, <1>8, <1>9, <1>10, <1>11, <1>12
     DEF Next, WriterStep

(***************************************************************************)
(* The argument behind LossNeedsRace: while every lock was taken with a    *)
(* fresh offset, delivered records are committed on the disk with their    *)
(* bodies, and the committed records lie end to end.                       *)
(***************************************************************************)
LEMMA LogKeeps == StoreInv => LossNeedsRace
<1> SUFFICES ASSUME StoreInv, ~raced PROVE DeliveredKept /\ Chained
  BY DEF LossNeedsRace
<1>1. LogInv
  BY DEF StoreInv
<1>2. DeliveredKept
  BY <1>1 DEF LogInv, DeliveredKept, Readable, CommittedJobs
<1>3. Chained
  BY <1>1 DEF LogInv, Layout, Boundary, Chained, CommittedJobs
<1> QED
  BY <1>2, <1>3

(***************************************************************************)
(* Whatever the number of processes and the failures, an acknowledged      *)
(* record is lost, or a committed one cut off from the scan, only after    *)
(* some process locked with an offset read before another committed.       *)
(***************************************************************************)
THEOREM OnlyRacesLose == Spec => []LossNeedsRace
BY StoreInit, LogStep, LogKeeps, PTL DEF Spec

-----------------------------------------------------------------------------
(* A single writer                                                         *)

SoleWriter == \A v, w \in Writers : v = w

SoleInv ==
    /\ StoreInv
    /\ ~raced
    /\ \A w \in Writers :
        pc[w] \in {"ready", "locking"} => seen[w] = CommittedJobs(file)

LEMMA SoleInit == Init => SoleInv
BY StoreInit DEF Init, SoleInv

LEMMA SoleStep ==
    ASSUME SoleWriter
    PROVE  SoleInv /\ [Next]_vars => SoleInv'
<1> SUFFICES ASSUME SoleInv, [Next]_vars
             PROVE  SoleInv'
  OBVIOUS
<1> DEFINE Fresh == \A w \in Writers :
        pc[w] \in {"ready", "locking"} => seen[w] = CommittedJobs(file)
<1>0. StoreInv /\ StoreInv' /\ WorkInv' /\ TypeOK
  BY LogStep DEF SoleInv, StoreInv, WorkInv, BaseInv
<1> SUFFICES ~raced' /\ Fresh'
  BY <1>0 DEF SoleInv
<1>f. pc \in [Writers -> PC] /\ seen \in [Writers -> SUBSET begun] /\ job \in [Writers -> Job]
  BY <1>0 DEF TypeOK
<1>1. ASSUME NEW w \in Writers, BeginAppend(w)
      PROVE  ~raced' /\ Fresh'
  <2>1. UNCHANGED <<file, seen, raced>> /\ pc[w] = "ready" /\ pc'[w] = "locking"
    BY <1>1, <1>f DEF BeginAppend, GoTo
  <2>2. PICK j : begun' = begun \cup {j} /\ job'[w] = j
    BY <1>1, <1>f DEF BeginAppend
  <2>3. ~Committed(file, j)'
    BY <1>0, <2>1, <2>2 DEF WorkInv, OwnWork, Committed, Head, Total
  <2>4. CommittedJobs(file)' = CommittedJobs(file)
    BY <2>1, <2>2, <2>3 DEF CommittedJobs, Committed, Head, Total
  <2> QED
    BY <2>1, <2>4 DEF SoleInv, SoleWriter
<1>2. ASSUME NEW w \in Writers, AcquireLock(w)
      PROVE  ~raced' /\ Fresh'
  <2>1. pc[w] = "locking" /\ pc'[w] = "body" /\ raced' = (raced \/ CommittedJobs(file) # seen[w])
    BY <1>2, <1>f DEF AcquireLock, GoTo
  <2> QED
    BY <2>1 DEF SoleInv, SoleWriter
<1>3. ASSUME NEW w \in Writers, ScanEnd(w) \/ Return(w)
      PROVE  ~raced' /\ Fresh'
  <2>1. UNCHANGED <<file, begun, raced>> /\ seen'[w] = CommittedJobs(file)
    BY <1>3, <1>f DEF ScanEnd, Return
  <2>2. CommittedJobs(file)' = CommittedJobs(file)
    BY <2>1 DEF CommittedJobs, Committed, Head, Total
  <2> QED
    BY <2>1, <2>2 DEF SoleInv, SoleWriter
<1>4. ASSUME NEW w \in Writers,
             \/ Open(w) \/ WriteBody(w) \/ SyncBody(w) \/ WriteHeader(w) \/ SyncHeader(w)
             \/ LockTimeout(w) \/ Close(w)
      PROVE  ~raced' /\ Fresh'
  <2>1. UNCHANGED raced /\ pc'[w] \notin {"ready", "locking"}
    BY <1>4, <1>f
       DEF Open, WriteBody, SyncBody, WriteHeader, SyncHeader, LockTimeout, Close, GoTo
  <2> QED
    BY <2>1 DEF SoleInv, SoleWriter
<1>5. ASSUME NEW w \in Writers, ScanRecord(w)
      PROVE  ~raced' /\ Fresh'
  <2>1. UNCHANGED raced /\ pc'[w] = "scan"
    BY <1>5, <1>f DEF ScanRecord
  <2> QED
    BY <2>1 DEF SoleInv, SoleWriter
<1>6. CASE PowerLoss
  <2>1. UNCHANGED raced /\ \A w \in Writers : pc'[w] = "closed"
    BY <1>6 DEF PowerLoss
  <2> QED
    BY <2>1 DEF SoleInv
<1>7. CASE UNCHANGED vars
  <2>1. CommittedJobs(file)' = CommittedJobs(file)
    BY <1>7 DEF vars, CommittedJobs, Committed, Head, Total
  <2> QED
    BY <1>7, <2>1 DEF SoleInv, vars
<1> QED
  BY <1>1, <1>2, <1>3, <1>4, <1>5, <1>6, <1>7 DEF Next, WriterStep

(***************************************************************************)
(* The store of a single delivering process never loses a delivered        *)
(* record, whatever fails and whenever the power goes.                     *)
(***************************************************************************)
THEOREM SoleWriterKeeps ==
    ASSUME SoleWriter
    PROVE  Spec => [](DeliveredKept /\ Chained)
<1>1. SoleInv /\ [Next]_vars => SoleInv'
  BY SoleStep
<1>2. SoleInv => DeliveredKept /\ Chained
  BY LogKeeps DEF SoleInv, LossNeedsRace
<1> QED
  BY <1>1, <1>2, SoleInit, PTL DEF Spec

-----------------------------------------------------------------------------
(* The medium of a single writer is an append-only log                     *)

LEMMA ExtentFacts ==
    ASSUME BaseInv, NEW j \in begun
    PROVE  /\ Extent(j) \in Log!Record
           /\ Log!Past(Extent(j)) = End(j)
           /\ Extent(j).pos = j.pos
<1>1. j \in Job /\ j.id \in 1 .. Cardinality(begun) /\ j.id <= MaxAppends /\ j.len \in BodySizes
  BY DEF BaseInv, TypeOK, JobsOK
<1>2. j.id \in Nat /\ j.pos \in Pos /\ IsFiniteSet(begun) /\ Cardinality(begun) \in Nat
  BY <1>1, JobFacts, FS_CardinalityType DEF BaseInv, JobsOK
<1>3. j.id \in 1 .. MaxAppends
  BY <1>1, <1>2, StoreAssumption
<1> QED
  BY <1>1, <1>2, <1>3 DEF Extent, Log!Record, Log!Past, Total, End, Pos

(***************************************************************************)
(* A store to which at most the youngest committed record was added is the *)
(* log after Add.                                                          *)
(***************************************************************************)
LEMMA TailIsLast ==
    ASSUME BaseInv, LogInv, NEW j \in CommittedJobs(file) \ CommittedJobs(disk)
    PROVE  /\ CommittedJobs(file) = CommittedJobs(disk) \cup {j}
           /\ TailOf(CommittedJobs(disk), j.pos)
<1> DEFINE C == CommittedJobs(file)
           D == CommittedJobs(disk)
<1>1. \A k \in C : k.pos \in Nat /\ End(k) \in Nat /\ k.pos < End(k)
  BY JobFacts DEF BaseInv, TypeOK, CommittedJobs
<1>2. Disjoint(C) /\ Boundary(C, j.pos) /\ \A k \in C : End(k) <= End(j)
  BY DEF LogInv, Layout
<1>3. ASSUME NEW k \in C, k # j
      PROVE  End(k) <= j.pos
  BY <1>1, <1>2, <1>3 DEF Disjoint
<1>4. ASSUME NEW k \in C \ D, k # j
      PROVE  FALSE
  <2>1. End(j) <= End(k) /\ End(k) <= j.pos /\ j \in C
    BY <1>3, <1>4 DEF LogInv
  <2> QED
    BY <1>1, <2>1
<1>5. C = D \cup {j}
  BY <1>4 DEF LogInv
<1>6. \A k \in D : k \in C /\ k # j
  BY <1>5
<1>7. Boundary(D, j.pos)
  <2>1. CASE j.pos = 0
    BY <2>1 DEF Boundary
  <2>2. CASE \E k \in C : End(k) = j.pos
    <3>1. PICK k \in C : End(k) = j.pos
      BY <2>2
    <3>2. k # j
      BY <1>1, <3>1
    <3> QED
      BY <1>5, <3>1, <3>2 DEF Boundary
  <2> QED
    BY <1>2, <2>1, <2>2 DEF Boundary
<1> QED
  BY <1>3, <1>5, <1>6, <1>7 DEF TailOf

LEMMA LogMapsInit == Init => Log!LogInit
BY DEF Init, Log!LogInit, CommittedJobs

LEMMA LogMapsStep ==
    StoreInv /\ StoreInv' /\ ~raced /\ [Next]_vars => [Log!LogNext]_Log!logVars
<1> SUFFICES ASSUME StoreInv, StoreInv', ~raced, [Next]_vars
             PROVE  [Log!LogNext]_Log!logVars
  OBVIOUS
<1> DEFINE C == CommittedJobs(file)
           D == CommittedJobs(disk)
           rec(S) == {Extent(j) : j \in S}
<1>0. BaseInv /\ BaseInv' /\ LogInv /\ WorkInv /\ WorkInv'
  BY DEF StoreInv, WorkInv
<1>f. D \subseteq C /\ C \subseteq begun /\ D \subseteq begun /\ pc \in [Writers -> PC]
  BY <1>0 DEF LogInv, CommittedJobs, BaseInv, TypeOK
<1>1. CASE D' = D /\ delivered' = delivered
  <2>1. rec(D)' = rec(D) /\ rec(delivered)' = rec(delivered)
    BY <1>1 DEF Extent, Total
  <2> QED
    BY <2>1 DEF Log!logVars
<1>2. ASSUME NEW j \in C \ D, D' = D \cup {j}, delivered' = delivered
      PROVE  Log!Add
  <2>1. TailOf(D, j.pos) /\ j \in begun /\ End(j) <= Capacity
    BY <1>0, <1>f, TailIsLast DEF BaseInv, JobsOK
  <2>2. \A k \in D \cup {j} :
            Log!Past(Extent(k)) = End(k) /\ Extent(k).pos = k.pos /\ Extent(k) \in Log!Record
    BY <1>0, <1>f, <2>1, ExtentFacts
  <2>3. Log!IsTail(Extent(j).pos)
    BY <2>1, <2>2 DEF TailOf, Boundary, Log!IsTail
  <2>4. rec(D)' = rec(D) \cup {Extent(j)} /\ rec(delivered)' = rec(delivered)
    BY <1>2 DEF Extent, Total
  <2>5. Log!Past(Extent(j)) <= Capacity
    BY <2>1, <2>2
  <2> QED
    BY <2>2, <2>3, <2>4, <2>5 DEF Log!Add
<1>3. ASSUME D \subseteq D', D' \subseteq C, delivered' = delivered
      PROVE  [Log!LogNext]_Log!logVars
  <2>1. CASE D' = D
    BY <1>1, <1>3, <2>1
  <2>2. CASE D' # D
    <3>1. PICK j \in C \ D : j \in D'
      BY <1>3, <2>2
    <3>2. C = D \cup {j}
      BY <1>0, TailIsLast
    <3>3. D' = D \cup {j}
      BY <1>3, <3>1, <3>2
    <3> QED
      BY <1>2, <1>3, <3>3 DEF Log!LogNext
  <2> QED
    BY <2>1, <2>2
<1>4. ASSUME NEW w \in Writers, BeginAppend(w)
      PROVE  [Log!LogNext]_Log!logVars
  <2>1. UNCHANGED <<disk, delivered>> /\ pc'[w] = "locking"
    BY <1>4, <1>f DEF BeginAppend, GoTo
  <2>2. PICK j : begun' = begun \cup {j} /\ job'[w] = j
    BY <1>0, <1>4 DEF BeginAppend, BaseInv, TypeOK
  <2>3. ~Committed(disk, j)'
    BY <1>0, <2>1, <2>2 DEF WorkInv, OwnWork, Committed, Head, Total
  <2>4. D' = D
    BY <2>1, <2>2, <2>3 DEF CommittedJobs, Committed, Head, Total
  <2> QED
    BY <1>1, <2>1, <2>4
<1>5. ASSUME NEW w \in Writers, SyncBody(w) \/ SyncHeader(w)
      PROVE  [Log!LogNext]_Log!logVars
  <2>1. D' = C /\ delivered' = delivered
    BY <1>5 DEF SyncBody, SyncHeader, CommittedJobs, Committed, Head, Total
  <2> QED
    BY <1>3, <1>f, <2>1
<1>6. ASSUME NEW w \in Writers, Return(w)
      PROVE  [Log!LogNext]_Log!logVars
  <2>1. D' = D /\ delivered' = delivered \cup {job[w]} /\ pc[w] = "unlock"
    BY <1>6 DEF Return, CommittedJobs, Committed, Head, Total
  <2>2. job[w] \in D
    <3>1. job[w] \in begun
      BY <1>0, <2>1, ProcessFacts DEF Busy, Holding
    <3>2. disk = file /\ Committed(file, job[w])
      BY <1>0, <2>1 DEF WorkInv, OwnWork
    <3> QED
      BY <3>1, <3>2 DEF CommittedJobs
  <2>3. rec(D)' = rec(D) /\ rec(delivered)' = rec(delivered) \cup {Extent(job[w])}
    BY <2>1 DEF Extent, Total
  <2>4. Log!Acknowledge
    BY <2>2, <2>3 DEF Log!Acknowledge
  <2> QED
    BY <2>4 DEF Log!LogNext
<1>7. CASE PowerLoss
  <2>1. UNCHANGED <<begun, delivered>>
        /\ \A p \in Pos : disk'[p] = file[p] \/ disk'[p] = disk[p]
    BY <1>7 DEF PowerLoss
  <2>2. \A j \in begun : j.pos \in Pos
    BY <1>0, JobFacts DEF BaseInv, TypeOK
  <2>3. D' = {j \in begun : disk'[j.pos] = Head(j)}
    BY <2>1 DEF CommittedJobs, Committed, Head, Total
  <2>4. C = {j \in begun : file[j.pos] = Head(j)} /\ D = {j \in begun : disk[j.pos] = Head(j)}
    BY DEF CommittedJobs, Committed
  <2>5. D \subseteq D' /\ D' \subseteq C
    BY <1>f, <2>1, <2>2, <2>3, <2>4
  <2> QED
    BY <1>3, <2>1, <2>5
<1>8. ASSUME UNCHANGED <<disk, begun, delivered>>
      PROVE  [Log!LogNext]_Log!logVars
  <2>1. D' = D
    BY <1>8 DEF CommittedJobs, Committed, Head, Total
  <2> QED
    BY <1>1, <1>8, <2>1
<1> QED
  BY <1>4, <1>5, <1>6, <1>7, <1>8
     DEF Next, WriterStep, Open, ScanRecord, ScanEnd, AcquireLock, LockTimeout,
         WriteBody, WriteHeader, Close, vars

(***************************************************************************)
(* With a single delivering process the medium, as a power loss would      *)
(* leave it, and the deliveries reported implement the append-only log.    *)
(***************************************************************************)
THEOREM SoleWriterImplementsLog ==
    ASSUME SoleWriter
    PROVE  Spec => ImplementsLog
<1>1. SoleInv /\ [Next]_vars => SoleInv'
  BY SoleStep
<1>2. SoleInv /\ SoleInv' /\ [Next]_vars => [Log!LogNext]_Log!logVars
  BY LogMapsStep DEF SoleInv
<1> QED
  BY <1>1, <1>2, SoleInit, LogMapsInit, PTL DEF Spec, ImplementsLog, Log!LogSpec
=============================================================================
