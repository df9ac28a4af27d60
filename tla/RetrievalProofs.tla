-------------------------- MODULE RetrievalProofs --------------------------
(***************************************************************************)
(* Proofs about Retrieval, for any number of programs, names and records.  *)
(*                                                                         *)
(* RetrievalInv says at every point of a retrieval how far its passes have *)
(* come among the records, and, unless two programs overlapped, that the   *)
(* name a copy will get is still free.                                     *)
(***************************************************************************)
EXTENDS Retrieval, FiniteSetTheorems, TLAPS

Copying == {"copy", "replace"}

Second == {"head"} \cup Copying

AllValid == \A i \in DOMAIN records : records[i].head

\* Where the passes of r are: the second one never leaves the records that the first
\* one counted, which ended at the end of the records or at an invalid header.
PassAt(r) ==
    LET j == run[r]
    IN  /\ pc[r] \in {"sweep", "count"} \cup Second => j.size <= Len(records)
        /\ pc[r] \notin {"idle"} \cup Second => j.pos = 1 /\ j.files = {} /\ j.skipped = 0
        /\ pc[r] \in Second =>
            /\ j.count <= j.size
            /\ j.pos <= j.count + 1
            /\ j.count < j.size => ~records[j.count + 1].head
        /\ pc[r] \in Copying => j.pos <= j.count

\* Every record before the one at hand was copied or skipped.
SumAt(r) ==
    LET j == run[r]
    IN  /\ IsFiniteSet(j.files)
        /\ \A f \in j.files : f[2] < j.pos
        /\ pc[r] \in Second => Cardinality(j.files) + j.skipped = j.pos - 1

\* With every header valid, the passes go to the end that r saw when it started; what
\* was not skipped has its copy.
CopiedAt(r) ==
    LET j == run[r]
    IN  /\ j.seen <= Len(records)
        /\ AllValid /\ pc[r] \in {"sweep", "count"} \cup Second => j.seen <= j.size
        /\ pc[r] \in Second /\ j.skipped = 0 =>
            \A i \in 1 .. j.pos - 1 : \E f \in j.files : f[2] = i

At(r) == PassAt(r) /\ SumAt(r) /\ CopiedAt(r)

\* A program that has not ended shows no window yet.
Waiting == \A r \in Readers : pc[r] # "idle" => answer[r] = "none"

Adds(r) == Cardinality(run[r].files) + run[r].skipped = run[r].count

Covers(r) ==
    run[r].skipped = 0 /\ AllValid =>
        \A i \in 1 .. run[r].seen : \E f \in run[r].files : f[2] = i

\* A window reports what the passes found.
Reported == \A r \in Readers : answer[r] = "exported" => Adds(r) /\ Covers(r)

\* Programs that do not overlap choose names that stay free.
FolderOK ==
    ~overlapped =>
        /\ \A q, r \in Readers : q # r => pc[q] = "idle" \/ pc[r] = "idle"
        /\ \A r \in Readers : pc[r] \in Copying => Target(r) \notin DOMAIN folder

RetrievalInv ==
    /\ TypeOK
    /\ \A r \in Readers : At(r)
    /\ Waiting
    /\ Reported
    /\ FolderOK
    /\ FilesKept

-----------------------------------------------------------------------------
(* What a step leaves alone                                                *)

\* The locals of q are as before, except its temporary file.
SameRun(q) ==
    /\ run'[q].seen = run[q].seen
    /\ run'[q].size = run[q].size
    /\ run'[q].count = run[q].count
    /\ run'[q].pos = run[q].pos
    /\ run'[q].number = run[q].number
    /\ run'[q].files = run[q].files
    /\ run'[q].skipped = run[q].skipped

\* A step of r, which leaves the records and every other program alone.
StepOf(r) ==
    /\ records' = records
    /\ \A q \in Readers \ {r} : pc'[q] = pc[q] /\ answer'[q] = answer[q] /\ SameRun(q)

LEMMA OthersKeep ==
    ASSUME RetrievalInv, NEW r \in Readers, StepOf(r), At(r)',
           pc'[r] # "idle" => answer'[r] = "none",
           answer'[r] = "exported" => Adds(r)' /\ Covers(r)'
    PROVE  (\A q \in Readers : At(q))' /\ Waiting' /\ Reported'
<1>1. AllValid' = AllValid
  BY DEF AllValid, StepOf
<1>2. ASSUME NEW q \in Readers \ {r} PROVE At(q)'
  <2>1. At(q) /\ records' = records /\ pc'[q] = pc[q] /\ SameRun(q)
    BY DEF RetrievalInv, StepOf
  <2>2. PassAt(q)'
    BY <2>1 DEF At, PassAt, SameRun, Second, Copying
  <2>3. SumAt(q)'
    BY <2>1 DEF At, SumAt, SameRun, Second, Copying
  <2>4. CopiedAt(q)'
    BY <2>1, <1>1 DEF At, CopiedAt, SameRun, Second, Copying
  <2> QED
    BY <2>2, <2>3, <2>4 DEF At
<1>3. Waiting'
  BY DEF RetrievalInv, Waiting, StepOf
<1>4. ASSUME NEW q \in Readers \ {r}, answer'[q] = "exported" PROVE Adds(q)' /\ Covers(q)'
  <2>1. answer[q] = "exported" /\ SameRun(q)
    BY <1>4 DEF StepOf
  <2>2. Adds(q) /\ Covers(q)
    BY <2>1 DEF RetrievalInv, Reported
  <2> QED
    BY <2>1, <2>2, <1>1 DEF Adds, Covers, SameRun
<1>5. Reported'
  BY <1>4 DEF Reported
<1> QED
  BY <1>2, <1>3, <1>5

\* A step of a running program that changes no file in the folder and after which it
\* is at most as far in its copy as before, or has chosen a name that is free.
LEMMA FolderKeeps ==
    ASSUME RetrievalInv, NEW r \in Readers, StepOf(r), pc[r] # "idle",
           folder' = folder, placed' = placed, overlapped' = overlapped,
           pc'[r] \in Copying => Target(r)' \notin DOMAIN folder
    PROVE  FolderOK' /\ FilesKept'
<1>1. FilesKept'
  BY DEF RetrievalInv, FilesKept
<1>2. ASSUME ~overlapped PROVE \A q \in Readers \ {r} : pc[q] = "idle"
  BY <1>2 DEF RetrievalInv, FolderOK
<1>3. FolderOK'
  BY <1>2 DEF FolderOK, StepOf, Copying
<1> QED
  BY <1>1, <1>3

LEMMA RunFacts ==
    ASSUME NEW j \in Run
    PROVE  /\ j.seen \in Text /\ j.size \in Text /\ j.count \in Text /\ j.skipped \in Text
           /\ j.seen \in Nat /\ j.size \in Nat /\ j.count \in Nat /\ j.skipped \in Nat
           /\ j.pos \in 1 .. MaxRecords + 1 /\ j.pos \in Nat /\ j.number \in Nat
           /\ j.files \subseteq Output \X Text
BY RetrievalAssumption DEF Run, Text

\* The second pass stops at the record that stopped the first one.
LEMMA StaysCounted ==
    ASSUME TypeOK, NEW r \in Readers, PassAt(r), AtRecord(r) \/ pc[r] \in Copying
    PROVE  /\ run[r].pos <= run[r].count /\ run[r].count <= run[r].size
           /\ run[r].size <= Len(records) /\ pc[r] \in Second
<1>1. run[r] \in Run
  BY DEF TypeOK
<1> QED
  BY <1>1, RunFacts DEF PassAt, AtRecord, Second, Copying

-----------------------------------------------------------------------------
(* The steps                                                               *)

LEMMA FreshFacts ==
    ASSUME NEW mode \in {"author", "temporary"}, NEW n \in Text
    PROVE  /\ Fresh(mode, n) \in Run
           /\ Fresh(mode, n).seen = n /\ Fresh(mode, n).size = 0 /\ Fresh(mode, n).count = 0
           /\ Fresh(mode, n).pos = 1 /\ Fresh(mode, n).files = {}
           /\ Fresh(mode, n).skipped = 0
<1>1. 0 \in Text /\ 1 \in 1 .. MaxRecords + 1
  BY RetrievalAssumption DEF Text
<1> QED
  BY <1>1 DEF Fresh, Run

LEMMA NoFiles ==
    ASSUME NEW S, S = {}
    PROVE  IsFiniteSet(S) /\ Cardinality(S) = 0 /\ S \subseteq {}
BY FS_EmptySet

LEMMA InvInit == Init => RetrievalInv
<1> SUFFICES ASSUME Init PROVE RetrievalInv
  OBVIOUS
<1>0. 0 \in Text /\ Len(records) = 0 /\ DOMAIN records = {}
  BY RetrievalAssumption DEF Init, Text
<1>1. \A r \in Readers : run[r] = Fresh("author", 0) /\ pc[r] = "idle" /\ answer[r] = "none"
  BY DEF Init
<1>2. run \in [Readers -> Run]
  BY <1>0, FreshFacts DEF Init
<1>3. DOMAIN folder \subseteq Output /\ \A o \in DOMAIN folder : folder[o] = 0
  <2>1. CASE folder = <<>>
    BY <2>1
  <2>2. CASE folder \in [{<<n, 0>> : n \in Names} -> {0}]
    BY <2>2 DEF Output
  <2> QED
    BY <2>1, <2>2 DEF Init
<1>4. TypeOK
  <2>1. records \in Seq(Record) /\ Len(records) <= MaxRecords
    BY RetrievalAssumption DEF Init
  <2>2. placed \subseteq Output \X Text
    BY <1>0, <1>3 DEF Init
  <2>3. pc \in [Readers -> PC] /\ answer \in [Readers -> Windows] /\ starts \in 0 .. MaxStarts
    BY RetrievalAssumption DEF Init, PC, Windows
  <2>4. \A o \in DOMAIN folder : folder[o] \in Text
    BY <1>0, <1>3
  <2>5. plugged \in BOOLEAN /\ overlapped \in BOOLEAN
    BY DEF Init
  <2> QED
    BY <1>2, <1>3, <2>1, <2>2, <2>3, <2>4, <2>5 DEF TypeOK
<1>5. ASSUME NEW r \in Readers PROVE At(r)
  <2>0. run[r].seen = 0 /\ run[r].files = {} /\ pc[r] = "idle"
    BY <1>0, <1>1, FreshFacts
  <2>1. PassAt(r)
    BY <2>0 DEF PassAt, Second, Copying
  <2>2. SumAt(r)
    BY <2>0, NoFiles DEF SumAt, Second, Copying
  <2>3. CopiedAt(r)
    BY <1>0, <2>0 DEF CopiedAt, Second, Copying
  <2> QED
    BY <2>1, <2>2, <2>3 DEF At
<1>6. Waiting /\ Reported
  BY <1>1 DEF Waiting, Reported
<1>7. FolderOK
  BY <1>1 DEF FolderOK, Copying
<1>8. FilesKept
  BY DEF Init, FilesKept
<1> QED
  BY <1>4, <1>5, <1>6, <1>7, <1>8 DEF RetrievalInv

LEMMA StepBegin ==
    ASSUME RetrievalInv, NEW r \in Readers, SubmitKey(r) \/ SubmitCode(r)
    PROVE  RetrievalInv'
<1>1. PICK mode \in {"author", "temporary"}, label \in {"inspect", "verify"} :
          Begin(r, mode, label)
  BY DEF SubmitKey, SubmitCode
<1>t. TypeOK
  BY DEF RetrievalInv
<1>n. Len(records) \in Text
  BY <1>t DEF TypeOK, Text
<1>2. run' = [run EXCEPT ![r] = Fresh(mode, Len(records))]
  BY <1>1 DEF Begin
<1>3. run'[r] = Fresh(mode, Len(records)) /\ \A q \in Readers \ {r} : run'[q] = run[q]
  BY <1>2, <1>t DEF TypeOK
<1>4. pc'[r] = label /\ answer'[r] = "none" /\ records' = records /\ folder' = folder
      /\ placed' = placed
  BY <1>1, <1>t DEF Begin, GoTo, TypeOK
<1>5. StepOf(r)
  BY <1>1, <1>3, <1>4, <1>t DEF StepOf, SameRun, Begin, GoTo, TypeOK
<1>6. At(r)'
  <2>1. PassAt(r)'
    BY <1>3, <1>4, <1>n, FreshFacts DEF PassAt, Second, Copying
  <2>2. SumAt(r)'
    BY <1>3, <1>4, <1>n, FreshFacts, NoFiles DEF SumAt, Second, Copying
  <2>3. CopiedAt(r)'
    BY <1>3, <1>4, <1>n, FreshFacts DEF CopiedAt, Second, Copying, Text
  <2> QED
    BY <2>1, <2>2, <2>3 DEF At
<1>7. TypeOK'
  <2>1. run' \in [Readers -> Run]
    BY <1>2, <1>n, <1>t, FreshFacts DEF TypeOK
  <2>2. starts' \in 0 .. MaxStarts
    BY <1>1, <1>t, RetrievalAssumption DEF Begin, TypeOK
  <2>3. pc' \in [Readers -> PC] /\ answer' \in [Readers -> Windows]
    BY <1>1, <1>t DEF Begin, GoTo, TypeOK, PC, Windows
  <2>4. overlapped' \in BOOLEAN
    BY <1>1, <1>t DEF Begin, TypeOK
  <2> QED
    BY <1>1, <1>t, <2>1, <2>2, <2>3, <2>4 DEF Begin, TypeOK
<1>8. (\A q \in Readers : At(q))' /\ Waiting' /\ Reported'
  BY <1>4, <1>5, <1>6, OthersKeep
<1>9. FilesKept'
  BY <1>1, <1>4 DEF RetrievalInv, FilesKept, Begin
<1>10. FolderOK'
  <2> SUFFICES ASSUME ~overlapped' PROVE FolderOK'
    BY DEF FolderOK
  <2>1. \A q \in Readers \ {r} : pc[q] = "idle" /\ pc'[q] = "idle"
    BY <1>1, <1>5 DEF Begin, StepOf
  <2> QED
    BY <2>1, <1>4 DEF FolderOK, Copying
<1> QED
  BY <1>7, <1>8, <1>9, <1>10 DEF RetrievalInv

\* The end of a retrieval, with a window or without.
LEMMA StepFinish ==
    ASSUME RetrievalInv, NEW r \in Readers,
           \/ Refused(r) \/ DriveGone(r) \/ CallFails(r) \/ ReadFails(r) \/ Crash(r)
    PROVE  RetrievalInv'
<1>t. TypeOK
  BY DEF RetrievalInv
<1>n. 0 \in Text
  BY RetrievalAssumption DEF Text
<1>1. /\ pc[r] # "idle" /\ pc' = [pc EXCEPT ![r] = "idle"]
      /\ records' = records /\ plugged' = plugged /\ starts' = starts
      /\ folder' = folder /\ placed' = placed /\ overlapped' = overlapped
  BY DEF Refused, DriveGone, CallFails, ReadFails, Crash, Finish, GoTo, world, history
<1>2. PICK w \in {"refused", "unexpected", "failed", "none"} :
          answer' = [answer EXCEPT ![r] = w]
  BY DEF Refused, DriveGone, CallFails, ReadFails, Crash, Finish
<1>3. run' = run \/ run' = [run EXCEPT ![r] = Fresh("author", 0)]
  BY DEF Refused, DriveGone, CallFails, ReadFails, Crash
<1>4. run' \in [Readers -> Run] /\ \A q \in Readers \ {r} : run'[q] = run[q]
  BY <1>3, <1>n, <1>t, FreshFacts DEF TypeOK
<1>5. pc'[r] = "idle" /\ answer'[r] = w
  BY <1>1, <1>2, <1>t DEF TypeOK
<1>6. StepOf(r)
  BY <1>1, <1>2, <1>4, <1>t DEF StepOf, SameRun, TypeOK
<1>7. run'[r] = run[r] \/ run'[r] = Fresh("author", 0)
  BY <1>3, <1>t DEF TypeOK
<1>8. At(r)'
  <2>1. At(r)
    BY DEF RetrievalInv
  <2>2. Len(records) \in Nat
    BY <1>t DEF TypeOK
  <2>3. PassAt(r)'
    BY <1>5 DEF PassAt, Second, Copying
  <2>4. SumAt(r)'
    BY <2>1, <1>5, <1>7, <1>n, FreshFacts, FS_EmptySet DEF At, SumAt, Second, Copying
  <2>5. CopiedAt(r)'
    BY <2>1, <2>2, <1>1, <1>5, <1>7, <1>n, FreshFacts DEF At, CopiedAt, Second, Copying
  <2> QED
    BY <2>3, <2>4, <2>5 DEF At
<1>9. (\A q \in Readers : At(q))' /\ Waiting' /\ Reported'
  BY <1>5, <1>6, <1>8, OthersKeep
<1>10. FolderOK' /\ FilesKept'
  BY <1>1, <1>5, <1>6, FolderKeeps DEF Copying
<1>11. TypeOK'
  BY <1>1, <1>2, <1>4, <1>t DEF TypeOK, PC, Windows
<1> QED
  BY <1>9, <1>10, <1>11 DEF RetrievalInv

\* Steps before the second pass: the code is accepted, the end of the records is found,
\* the records are counted.
LEMMA StepFirst ==
    ASSUME RetrievalInv, NEW r \in Readers,
           Granted(r) \/ FindEnd(r) \/ CountRecords(r)
    PROVE  RetrievalInv'
<1>t. TypeOK /\ run[r] \in Run /\ Len(records) \in Nat /\ Len(records) <= MaxRecords
      /\ DOMAIN records = 1 .. Len(records) /\ At(r)
  BY DEF RetrievalInv, TypeOK
<1>f. /\ run[r].seen \in Nat /\ run[r].size \in Nat /\ run[r].size \in Text
      /\ run[r].pos \in Nat /\ IsFiniteSet(run[r].files)
      /\ \A f \in run[r].files : f[2] < run[r].pos
  BY <1>t, RunFacts DEF At, SumAt
<1>s. /\ run[r].seen <= Len(records)
      /\ pc[r] = "inspect" \/ pc[r] = "count" =>
            run[r].pos = 1 /\ run[r].files = {} /\ run[r].skipped = 0
      /\ pc[r] = "count" => run[r].size <= Len(records)
      /\ AllValid /\ pc[r] = "count" => run[r].seen <= run[r].size
  BY <1>t DEF At, PassAt, CopiedAt, Second, Copying
<1>1. /\ records' = records /\ plugged' = plugged /\ starts' = starts /\ answer' = answer
      /\ folder' = folder /\ placed' = placed /\ overlapped' = overlapped /\ pc[r] # "idle"
  BY DEF Granted, FindEnd, CountRecords, world, history
<1>2. CASE Granted(r)
  <2>1. run' = run /\ pc[r] = "verify" /\ pc' = [pc EXCEPT ![r] = "call"]
    BY <1>2 DEF Granted, GoTo
  <2>2. pc'[r] = "call" /\ run'[r] = run[r] /\ StepOf(r)
    BY <1>1, <1>t, <2>1 DEF StepOf, SameRun, TypeOK
  <2>3. At(r)'
    BY <1>1, <1>t, <2>1, <2>2 DEF At, PassAt, SumAt, CopiedAt, Second, Copying
  <2>4. answer'[r] = "none"
    BY <1>1, <2>1 DEF RetrievalInv, Waiting
  <2>5. (\A q \in Readers : At(q))' /\ Waiting' /\ Reported'
    BY <2>2, <2>3, <2>4, OthersKeep
  <2>6. FolderOK' /\ FilesKept'
    BY <1>1, <2>2, FolderKeeps DEF Copying
  <2>7. TypeOK'
    BY <1>1, <1>t, <2>1 DEF TypeOK, PC
  <2> QED
    BY <2>5, <2>6, <2>7 DEF RetrievalInv
<1>3. CASE FindEnd(r)
  <2>1. PICK n \in 0 .. Len(records) :
            Scans(Len(records), n) /\ run' = [run EXCEPT ![r].size = n]
    BY <1>3 DEF FindEnd
  <2>2. pc[r] = "inspect" /\ pc' = [pc EXCEPT ![r] = "sweep"]
    BY <1>3 DEF FindEnd, GoTo
  <2>3. n \in Text /\ [run[r] EXCEPT !.size = n] \in Run
    <3>1. n \in Text
      BY <1>t, <2>1, RetrievalAssumption DEF Text
    <3> QED
      BY <1>t, <3>1 DEF Run
  <2>4. run' = [run EXCEPT ![r] = [run[r] EXCEPT !.size = n]]
    BY <2>1
  <2>5. /\ run'[r] = [run[r] EXCEPT !.size = n] /\ pc'[r] = "sweep"
        /\ \A q \in Readers \ {r} : run'[q] = run[q]
    BY <1>t, <2>2, <2>4 DEF TypeOK
  <2>6. /\ run'[r].size = n /\ run'[r].seen = run[r].seen /\ run'[r].pos = 1
        /\ run'[r].files = {} /\ run'[r].skipped = 0
    BY <1>t, <1>s, <2>2, <2>5 DEF Run
  <2>7. StepOf(r)
    BY <1>1, <1>t, <2>2, <2>5 DEF StepOf, SameRun, TypeOK
  <2>8. AllValid => n = Len(records)
    BY <1>t, <2>1 DEF AllValid, Scans
  <2>9. At(r)'
    <3>1. PassAt(r)'
      BY <1>1, <2>1, <2>5, <2>6 DEF PassAt, Second, Copying
    <3>2. SumAt(r)'
      BY <2>5, <2>6, NoFiles DEF SumAt, Second, Copying
    <3>3. CopiedAt(r)'
      BY <1>1, <1>s, <2>5, <2>6, <2>8 DEF CopiedAt, AllValid, Second, Copying
    <3> QED
      BY <3>1, <3>2, <3>3 DEF At
  <2>10. answer'[r] = "none"
    BY <1>1, <2>2 DEF RetrievalInv, Waiting
  <2>11. (\A q \in Readers : At(q))' /\ Waiting' /\ Reported'
    BY <2>7, <2>9, <2>10, OthersKeep
  <2>12. FolderOK' /\ FilesKept'
    BY <1>1, <2>5, <2>7, FolderKeeps DEF Copying
  <2>13. TypeOK'
    BY <1>1, <1>t, <2>2, <2>3, <2>4 DEF TypeOK, PC
  <2> QED
    BY <2>11, <2>12, <2>13 DEF RetrievalInv
<1>4. CASE CountRecords(r)
  <2>1. PICK n \in 0 .. run[r].size :
            Scans(run[r].size, n) /\ run' = [run EXCEPT ![r].count = n]
    BY <1>4 DEF CountRecords
  <2>2. pc[r] = "count" /\ pc' = [pc EXCEPT ![r] = "head"]
    BY <1>4 DEF CountRecords, GoTo
  <2>3. n \in Text /\ [run[r] EXCEPT !.count = n] \in Run
    <3>1. n \in Text
      BY <1>t, <1>f, <2>1, RetrievalAssumption DEF Text
    <3> QED
      BY <1>t, <3>1 DEF Run
  <2>4. run' = [run EXCEPT ![r] = [run[r] EXCEPT !.count = n]]
    BY <2>1
  <2>5. /\ run'[r] = [run[r] EXCEPT !.count = n] /\ pc'[r] = "head"
        /\ \A q \in Readers \ {r} : run'[q] = run[q]
    BY <1>t, <2>2, <2>4 DEF TypeOK
  <2>6. /\ run'[r].count = n /\ run'[r].size = run[r].size /\ run'[r].seen = run[r].seen
        /\ run'[r].pos = 1 /\ run'[r].files = {} /\ run'[r].skipped = 0
    BY <1>t, <1>s, <2>2, <2>5 DEF Run
  <2>7. StepOf(r)
    BY <1>1, <1>t, <2>2, <2>5 DEF StepOf, SameRun, TypeOK
  <2>8. n < run[r].size => ~records[n + 1].head
    BY <2>1 DEF Scans
  <2>9. At(r)'
    <3>1. PassAt(r)'
      BY <1>1, <1>f, <1>s, <2>1, <2>2, <2>5, <2>6, <2>8 DEF PassAt, Second, Copying
    <3>2. SumAt(r)'
      BY <2>5, <2>6, NoFiles DEF SumAt, Second, Copying
    <3>3. CopiedAt(r)'
      BY <1>1, <1>s, <2>2, <2>5, <2>6 DEF CopiedAt, AllValid, Second, Copying
    <3> QED
      BY <3>1, <3>2, <3>3 DEF At
  <2>10. answer'[r] = "none"
    BY <1>1, <2>2 DEF RetrievalInv, Waiting
  <2>11. (\A q \in Readers : At(q))' /\ Waiting' /\ Reported'
    BY <2>7, <2>9, <2>10, OthersKeep
  <2>12. FolderOK' /\ FilesKept'
    BY <1>1, <2>5, <2>7, FolderKeeps DEF Copying
  <2>13. TypeOK'
    BY <1>1, <1>t, <2>2, <2>3, <2>4 DEF TypeOK, PC
  <2> QED
    BY <2>11, <2>12, <2>13 DEF RetrievalInv
<1> QED
  BY <1>2, <1>3, <1>4

LEMMA StepSweep ==
    ASSUME RetrievalInv, NEW r \in Readers, Sweep(r)
    PROVE  RetrievalInv'
<1>t. TypeOK /\ At(r)
  BY DEF RetrievalInv
<1>1. /\ records' = records /\ plugged' = plugged /\ starts' = starts /\ answer' = answer
      /\ folder' = folder /\ placed' = placed /\ overlapped' = overlapped
      /\ pc[r] = "sweep" /\ pc' = [pc EXCEPT ![r] = "count"]
      /\ run' = [q \in Readers |->
            IF run[q].tmp = "closed" THEN [run[q] EXCEPT !.tmp = "none"] ELSE run[q]]
  BY DEF Sweep, GoTo, world, history
<1>2. ASSUME NEW q \in Readers PROVE run'[q] \in Run /\ SameRun(q)
  <2>1. run[q] \in Run
    BY <1>t DEF TypeOK
  <2>2. [run[q] EXCEPT !.tmp = "none"] \in Run
    BY <2>1 DEF Run
  <2>3. CASE run[q].tmp = "closed"
    <3>1. run'[q] = [run[q] EXCEPT !.tmp = "none"]
      BY <1>1, <2>3
    <3> QED
      BY <2>1, <2>2, <3>1 DEF SameRun, Run
  <2>4. CASE run[q].tmp # "closed"
    <3>1. run'[q] = run[q]
      BY <1>1, <2>4
    <3> QED
      BY <2>1, <3>1 DEF SameRun
  <2> QED
    BY <2>3, <2>4
<1>3. run' \in [Readers -> Run]
  <2>1. run' = [q \in Readers |-> run'[q]]
    BY <1>1
  <2> QED
    BY <1>2, <2>1
<1>4. pc'[r] = "count" /\ StepOf(r)
  BY <1>1, <1>2, <1>t DEF StepOf, TypeOK
<1>5. At(r)'
  <2>0. SameRun(r) /\ records' = records
    BY <1>1, <1>2
  <2>1. PassAt(r)'
    BY <1>1, <1>4, <1>t, <2>0 DEF At, PassAt, SameRun, Second, Copying
  <2>2. SumAt(r)'
    BY <1>1, <1>4, <1>t, <2>0 DEF At, SumAt, SameRun, Second, Copying
  <2>3. CopiedAt(r)'
    BY <1>1, <1>4, <1>t, <2>0 DEF At, CopiedAt, AllValid, SameRun, Second, Copying
  <2> QED
    BY <2>1, <2>2, <2>3 DEF At
<1>6. answer'[r] = "none"
  BY <1>1 DEF RetrievalInv, Waiting
<1>7. (\A q \in Readers : At(q))' /\ Waiting' /\ Reported'
  BY <1>4, <1>5, <1>6, OthersKeep
<1>8. FolderOK' /\ FilesKept'
  BY <1>1, <1>4, FolderKeeps DEF Copying
<1>9. TypeOK'
  BY <1>1, <1>3, <1>t DEF TypeOK, PC
<1> QED
  BY <1>7, <1>8, <1>9 DEF RetrievalInv

\* The name is found free; the body is copied to the temporary file.
LEMMA StepCopy ==
    ASSUME RetrievalInv, NEW r \in Readers, ChooseName(r) \/ CopyBody(r)
    PROVE  RetrievalInv'
<1>t. TypeOK /\ At(r) /\ run[r] \in Run
  BY DEF RetrievalInv, TypeOK
<1>1. /\ records' = records /\ plugged' = plugged /\ starts' = starts /\ answer' = answer
      /\ folder' = folder /\ placed' = placed /\ overlapped' = overlapped
      /\ AtRecord(r) \/ pc[r] = "copy"
  BY DEF ChooseName, CopyBody, world, history
<1>p. pc[r] # "idle"
  BY <1>1 DEF AtRecord
<1>2. PICK label \in Copying, tmp \in {"open", "closed"}, k \in Nat :
          /\ pc' = [pc EXCEPT ![r] = label]
          /\ run' = [run EXCEPT ![r] = [run[r] EXCEPT !.tmp = tmp, !.number = k]]
          /\ \/ Free(records[run[r].pos].name, k)
             \/ pc[r] \in Copying /\ k = run[r].number
  <2>1. CASE ChooseName(r)
    <3>1. PICK k \in 0 .. Cardinality(DOMAIN folder) :
              /\ Free(records[run[r].pos].name, k)
              /\ run' = [run EXCEPT ![r].tmp = "open", ![r].number = k]
      BY <2>1 DEF ChooseName
    <3>2. run' = [run EXCEPT ![r] = [run[r] EXCEPT !.tmp = "open", !.number = k]]
      BY <3>1, <1>t DEF TypeOK
    <3>3. k \in Nat
      BY <3>1
    <3>4. pc' = [pc EXCEPT ![r] = "copy"] /\ "copy" \in Copying
      BY <2>1 DEF ChooseName, GoTo, Copying
    <3> QED
      BY <3>1, <3>2, <3>3, <3>4
  <2>2. CASE CopyBody(r)
    <3>1. run' = [run EXCEPT ![r] = [run[r] EXCEPT !.tmp = "closed"]]
      BY <2>2 DEF CopyBody
    <3>2. /\ run[r].number \in Nat
          /\ [run[r] EXCEPT !.tmp = "closed"]
                = [run[r] EXCEPT !.tmp = "closed", !.number = run[r].number]
      BY <1>t DEF Run
    <3> QED
      BY <2>2, <3>1, <3>2 DEF CopyBody, GoTo, Copying
  <2> QED
    BY <2>1, <2>2
<1> DEFINE new == [run[r] EXCEPT !.tmp = tmp, !.number = k]
<1>3. new \in Run
  BY <1>t DEF Run
<1>4. /\ new.seen = run[r].seen /\ new.size = run[r].size /\ new.count = run[r].count
      /\ new.pos = run[r].pos /\ new.files = run[r].files /\ new.skipped = run[r].skipped
      /\ new.number = k
  BY <1>t DEF Run
<1>5. run' = [run EXCEPT ![r] = new]
  BY <1>2
<1> HIDE DEF new
<1>6. /\ run'[r] = new /\ \A q \in Readers \ {r} : run'[q] = run[q]
      /\ run' \in [Readers -> Run] /\ pc'[r] = label
  BY <1>2, <1>3, <1>5, <1>t DEF TypeOK
<1>7. StepOf(r)
  BY <1>1, <1>2, <1>6, <1>t DEF StepOf, SameRun, TypeOK
<1>8. At(r)'
  <2>0. run[r].pos <= run[r].count /\ pc[r] \in Second /\ label \in Second
    BY <1>1, <1>t, StaysCounted DEF At, Second, Copying
  <2>1. PassAt(r)'
    BY <1>1, <1>4, <1>6, <1>t, <2>0 DEF At, PassAt, Second, Copying
  <2>2. SumAt(r)'
    BY <1>4, <1>6, <1>t, <2>0 DEF At, SumAt
  <2>3. CopiedAt(r)'
    BY <1>1, <1>4, <1>6, <1>t, <2>0 DEF At, CopiedAt, AllValid
  <2> QED
    BY <2>1, <2>2, <2>3 DEF At
<1>9. answer'[r] = "none"
  BY <1>1, <1>p DEF RetrievalInv, Waiting
<1>10. (\A q \in Readers : At(q))' /\ Waiting' /\ Reported'
  BY <1>6, <1>7, <1>8, <1>9, OthersKeep
<1>11. ASSUME ~overlapped PROVE FolderOK' /\ FilesKept'
  <2>1. Target(r)' = <<records[run[r].pos].name, k>>
    BY <1>1, <1>4, <1>6 DEF Target
  <2>2. Target(r)' \notin DOMAIN folder
    <3>1. CASE Free(records[run[r].pos].name, k)
      BY <2>1, <3>1 DEF Free
    <3>2. CASE pc[r] \in Copying /\ k = run[r].number
      <4>1. Target(r)' = Target(r)
        BY <2>1, <3>2 DEF Target
      <4> QED
        BY <1>11, <3>2, <4>1 DEF RetrievalInv, FolderOK
    <3> QED
      BY <1>2, <3>1, <3>2
  <2> QED
    BY <1>1, <1>7, <1>p, <2>2, FolderKeeps
<1>12. FolderOK' /\ FilesKept'
  BY <1>1, <1>11 DEF FolderOK, FilesKept
<1>13. TypeOK'
  BY <1>1, <1>2, <1>6, <1>t DEF TypeOK, PC, Copying
<1> QED
  BY <1>10, <1>12, <1>13 DEF RetrievalInv

\* The copy gets its name: one file more, at a name that nothing had.
LEMMA StepReplace ==
    ASSUME RetrievalInv, NEW r \in Readers, Replace(r)
    PROVE  RetrievalInv'
<1> DEFINE pos == run[r].pos
           file == <<Target(r), pos>>
           new == [run[r] EXCEPT !.tmp = "none", !.pos = pos + 1,
                                 !.files = run[r].files \cup {file}]
<1>t. TypeOK /\ At(r) /\ run[r] \in Run /\ Len(records) \in Nat /\ Len(records) <= MaxRecords
  BY DEF RetrievalInv, TypeOK
<1>1. /\ records' = records /\ plugged' = plugged /\ starts' = starts /\ answer' = answer
      /\ overlapped' = overlapped
      /\ pc[r] = "replace" /\ pc' = [pc EXCEPT ![r] = "head"]
      /\ folder' = [o \in DOMAIN folder \cup {Target(r)} |->
                        IF o = Target(r) THEN pos ELSE folder[o]]
      /\ placed' = placed \cup {file}
      /\ run' = [run EXCEPT ![r] = new]
  BY <1>t DEF Replace, GoTo, world, TypeOK
<1>f. /\ run[r].seen \in Nat /\ run[r].size \in Nat /\ run[r].count \in Nat
      /\ run[r].skipped \in Nat /\ pos \in 1 .. MaxRecords + 1 /\ pos \in Nat
      /\ run[r].files \subseteq Output \X Text
  BY <1>t, RunFacts
<1>2. pos <= run[r].count /\ run[r].count <= run[r].size /\ run[r].size <= Len(records)
      /\ pos \in 1 .. MaxRecords /\ pos \in 1 .. Len(records)
  BY <1>1, <1>f, <1>t, StaysCounted, RetrievalAssumption DEF At, Copying
<1>3. Target(r) \in Output /\ file \in Output \X Text
  <2>1. records[pos] \in Record
    BY <1>2, <1>t DEF TypeOK
  <2>2. run[r].number \in Nat
    BY <1>t, RunFacts
  <2>3. Target(r) \in Output
    BY <2>1, <2>2 DEF Target, Record, Output
  <2>4. pos \in Text
    BY <1>2, RetrievalAssumption DEF Text
  <2> QED
    BY <2>3, <2>4
<1>4. new \in Run
  <2>1. pos + 1 \in 1 .. MaxRecords + 1
    BY <1>2, RetrievalAssumption
  <2>2. run[r].files \cup {file} \in SUBSET (Output \X Text)
    BY <1>3, <1>f
  <2> HIDE DEF file, pos
  <2> QED
    BY <1>t, <2>1, <2>2 DEF Run
<1>5. /\ new.seen = run[r].seen /\ new.size = run[r].size /\ new.count = run[r].count
      /\ new.skipped = run[r].skipped /\ new.number = run[r].number
      /\ new.pos = pos + 1 /\ new.files = run[r].files \cup {file}
  BY <1>t DEF Run
<1>6. file[2] = pos /\ file[1] = Target(r)
  OBVIOUS
<1> HIDE DEF new, file, pos
<1>7. /\ run'[r] = new /\ \A q \in Readers \ {r} : run'[q] = run[q]
      /\ run' \in [Readers -> Run] /\ pc'[r] = "head"
  BY <1>1, <1>4, <1>t DEF TypeOK
<1>8. StepOf(r)
  BY <1>1, <1>7, <1>t DEF StepOf, SameRun, TypeOK
<1>s. /\ IsFiniteSet(run[r].files) /\ \A f \in run[r].files : f[2] < pos
      /\ Cardinality(run[r].files) + run[r].skipped = pos - 1
  BY <1>1, <1>t DEF At, SumAt, Second, Copying, pos
<1>9. At(r)'
  <2>1. PassAt(r)'
    BY <1>1, <1>2, <1>5, <1>7, <1>f, <1>t DEF At, PassAt, Second, Copying
  <2>2. SumAt(r)'
    <3>1. file \notin run[r].files
      BY <1>6, <1>f, <1>s
    <3>2. /\ IsFiniteSet(run[r].files \cup {file})
          /\ Cardinality(run[r].files \cup {file}) = Cardinality(run[r].files) + 1
      BY <1>s, <3>1, FS_AddElement
    <3>3. Cardinality(run[r].files) \in Nat
      BY <1>s, FS_CardinalityType
    <3>4. \A f \in run[r].files \cup {file} : f[2] < pos + 1
      <4> SUFFICES ASSUME NEW f \in run[r].files \cup {file} PROVE f[2] < pos + 1
        OBVIOUS
      <4>1. CASE f = file
        BY <1>6, <1>f, <4>1
      <4>2. CASE f \in run[r].files
        <5>1. f[2] < pos /\ f[2] \in Text
          BY <1>f, <1>s, <4>2
        <5> QED
          BY <1>f, <5>1 DEF Text
      <4> QED
        BY <4>1, <4>2
    <3> DEFINE more == run[r].files \cup {file}
    <3>5. Cardinality(more) + run[r].skipped = (pos + 1) - 1
      BY <1>f, <1>s, <3>2, <3>3
    <3>6. run'[r].files = more /\ run'[r].skipped = run[r].skipped /\ run'[r].pos = pos + 1
      BY <1>5, <1>7
    <3> HIDE DEF more
    <3> QED
      BY <3>2, <3>4, <3>5, <3>6 DEF SumAt, more
  <2>3. CopiedAt(r)'
    <3>1. /\ run[r].seen <= Len(records)
          /\ AllValid => run[r].seen <= run[r].size
          /\ run[r].skipped = 0 => \A i \in 1 .. pos - 1 : \E f \in run[r].files : f[2] = i
      BY <1>1, <1>t DEF At, CopiedAt, Second, Copying, pos
    <3>2. ASSUME run[r].skipped = 0, NEW i \in 1 .. pos
          PROVE  \E f \in run[r].files \cup {file} : f[2] = i
      <4>1. CASE i = pos
        BY <1>6, <4>1
      <4>2. CASE i # pos
        BY <1>f, <3>1, <3>2, <4>2
      <4> QED
        BY <4>1, <4>2
    <3>3. AllValid' = AllValid
      BY <1>1 DEF AllValid
    <3>4. (pos + 1) - 1 = pos
      BY <1>f
    <3> QED
      BY <1>1, <1>5, <1>7, <3>1, <3>2, <3>3, <3>4 DEF CopiedAt
  <2> QED
    BY <2>1, <2>2, <2>3 DEF At
<1>10. answer'[r] = "none"
  BY <1>1 DEF RetrievalInv, Waiting
<1>11. (\A q \in Readers : At(q))' /\ Waiting' /\ Reported'
  BY <1>7, <1>8, <1>9, <1>10, OthersKeep
<1>12. ASSUME ~overlapped PROVE FolderOK' /\ FilesKept'
  <2>1. \A q \in Readers \ {r} : pc[q] = "idle"
    BY <1>1, <1>12 DEF RetrievalInv, FolderOK
  <2>2. Target(r) \notin DOMAIN folder
    BY <1>1, <1>12 DEF RetrievalInv, FolderOK, Copying
  <2>3. FolderOK'
    BY <1>7, <1>8, <2>1 DEF FolderOK, StepOf, Copying
  <2>4. ASSUME NEW f \in placed' PROVE f[1] \in DOMAIN folder' /\ folder'[f[1]] = f[2]
    <3>1. CASE f = file
      BY <1>1, <1>6, <3>1
    <3>2. CASE f \in placed
      <4>1. f[1] \in DOMAIN folder /\ folder[f[1]] = f[2]
        BY <1>12, <3>2 DEF RetrievalInv, FilesKept
      <4> QED
        BY <1>1, <2>2, <4>1
    <3> QED
      BY <1>1, <2>4, <3>1, <3>2
  <2> QED
    BY <2>3, <2>4 DEF FilesKept
<1>13. FolderOK' /\ FilesKept'
  BY <1>1, <1>12 DEF FolderOK, FilesKept
<1>14. TypeOK'
  <2>1. DOMAIN folder' \subseteq Output
    BY <1>1, <1>3, <1>t DEF TypeOK
  <2>2. \A o \in DOMAIN folder' : folder'[o] \in Text
    BY <1>1, <1>2, <1>t, RetrievalAssumption DEF TypeOK, Text
  <2>3. placed' \subseteq Output \X Text
    BY <1>1, <1>3, <1>t DEF TypeOK
  <2> QED
    BY <1>1, <1>7, <1>t, <2>1, <2>2, <2>3 DEF TypeOK, PC
<1> QED
  BY <1>11, <1>13, <1>14 DEF RetrievalInv

\* The record at hand is counted as damaged.
LEMMA StepSkip ==
    ASSUME RetrievalInv, NEW r \in Readers, Skip(r)
    PROVE  RetrievalInv'
<1> DEFINE pos == run[r].pos
           new == [run[r] EXCEPT !.tmp = "none", !.skipped = run[r].skipped + 1,
                                 !.pos = pos + 1]
<1>t. TypeOK /\ At(r) /\ run[r] \in Run /\ Len(records) \in Nat /\ Len(records) <= MaxRecords
  BY DEF RetrievalInv, TypeOK
<1>1. /\ records' = records /\ plugged' = plugged /\ starts' = starts /\ answer' = answer
      /\ overlapped' = overlapped /\ folder' = folder /\ placed' = placed
      /\ AtRecord(r) \/ pc[r] \in Copying
      /\ pc' = [pc EXCEPT ![r] = "head"]
      /\ run' = [run EXCEPT ![r] = new]
  BY <1>t DEF Skip, GoTo, world, history, TypeOK, Copying
<1>f. /\ run[r].seen \in Nat /\ run[r].size \in Nat /\ run[r].count \in Nat
      /\ run[r].skipped \in Nat /\ pos \in 1 .. MaxRecords + 1 /\ pos \in Nat
      /\ run[r].files \subseteq Output \X Text
  BY <1>t, RunFacts
<1>2. pos <= run[r].count /\ run[r].count <= run[r].size /\ run[r].size <= Len(records)
      /\ pos \in 1 .. MaxRecords /\ pc[r] \in Second /\ pc[r] # "idle"
  BY <1>1, <1>f, <1>t, StaysCounted, RetrievalAssumption DEF At, Second, Copying
<1>s. /\ IsFiniteSet(run[r].files) /\ \A f \in run[r].files : f[2] < pos
      /\ Cardinality(run[r].files) + run[r].skipped = pos - 1
      /\ Cardinality(run[r].files) \in Nat
  BY <1>2, <1>t, FS_CardinalityType DEF At, SumAt
<1>4. new \in Run
  <2>1. pos + 1 \in 1 .. MaxRecords + 1
    BY <1>2, RetrievalAssumption
  <2>2. run[r].skipped + 1 \in Text
    BY <1>2, <1>f, <1>s, RetrievalAssumption DEF Text
  <2> HIDE DEF pos
  <2> QED
    BY <1>t, <2>1, <2>2 DEF Run
<1>5. /\ new.seen = run[r].seen /\ new.size = run[r].size /\ new.count = run[r].count
      /\ new.skipped = run[r].skipped + 1 /\ new.number = run[r].number
      /\ new.pos = pos + 1 /\ new.files = run[r].files
  BY <1>t DEF Run
<1> HIDE DEF new, pos
<1>7. /\ run'[r] = new /\ \A q \in Readers \ {r} : run'[q] = run[q]
      /\ run' \in [Readers -> Run] /\ pc'[r] = "head"
  BY <1>1, <1>4, <1>t DEF TypeOK
<1>8. StepOf(r)
  BY <1>1, <1>7, <1>t DEF StepOf, SameRun, TypeOK
<1>9. At(r)'
  <2>1. PassAt(r)'
    BY <1>1, <1>2, <1>5, <1>7, <1>f, <1>t DEF At, PassAt, Second, Copying
  <2>2. SumAt(r)'
    <3>1. \A f \in run[r].files : f[2] < pos + 1
      <4> SUFFICES ASSUME NEW f \in run[r].files PROVE f[2] < pos + 1
        OBVIOUS
      <4>1. f[2] < pos /\ f[2] \in Text
        BY <1>f, <1>s
      <4> QED
        BY <1>f, <4>1 DEF Text
    <3> QED
      BY <1>5, <1>7, <1>f, <1>s, <3>1 DEF SumAt
  <2>3. CopiedAt(r)'
    <3>1. run[r].seen <= Len(records) /\ (AllValid => run[r].seen <= run[r].size)
      BY <1>2, <1>t DEF At, CopiedAt
    <3>2. AllValid' = AllValid /\ run[r].skipped + 1 # 0
      BY <1>1, <1>f DEF AllValid
    <3> QED
      BY <1>1, <1>5, <1>7, <3>1, <3>2 DEF CopiedAt
  <2> QED
    BY <2>1, <2>2, <2>3 DEF At
<1>10. answer'[r] = "none"
  BY <1>1, <1>2 DEF RetrievalInv, Waiting
<1>11. (\A q \in Readers : At(q))' /\ Waiting' /\ Reported'
  BY <1>7, <1>8, <1>9, <1>10, OthersKeep
<1>12. FolderOK' /\ FilesKept'
  BY <1>1, <1>2, <1>7, <1>8, FolderKeeps DEF Copying
<1>13. TypeOK'
  BY <1>1, <1>7, <1>t DEF TypeOK, PC
<1> QED
  BY <1>11, <1>12, <1>13 DEF RetrievalInv

\* The window that reports the counts, after an invalid header or after the last record.
LEMMA StepExported ==
    ASSUME RetrievalInv, NEW r \in Readers, LoseTrack(r) \/ Report(r)
    PROVE  RetrievalInv'
<1> DEFINE pos == run[r].pos
           rest == IF run[r].count > pos - 1 THEN run[r].count - (pos - 1) ELSE 0
           new == [run[r] EXCEPT !.skipped = run[r].skipped + rest]
<1>t. TypeOK /\ At(r) /\ run[r] \in Run /\ Len(records) \in Nat /\ Len(records) <= MaxRecords
      /\ DOMAIN records = 1 .. Len(records)
  BY DEF RetrievalInv, TypeOK
<1>1. /\ records' = records /\ plugged' = plugged /\ starts' = starts
      /\ overlapped' = overlapped /\ folder' = folder /\ placed' = placed
      /\ pc[r] = "head" /\ pc' = [pc EXCEPT ![r] = "idle"]
      /\ answer' = [answer EXCEPT ![r] = "exported"]
  BY DEF LoseTrack, Report, Finish, GoTo, world, history
<1>f. /\ run[r].seen \in Nat /\ run[r].size \in Nat /\ run[r].count \in Nat
      /\ run[r].skipped \in Nat /\ pos \in 1 .. MaxRecords + 1 /\ pos \in Nat
      /\ run[r].files \subseteq Output \X Text
  BY <1>t, RunFacts
<1>2. run[r].count <= run[r].size /\ pos <= run[r].count + 1 /\ run[r].size <= Len(records)
  BY <1>1, <1>t DEF At, PassAt, Second
<1>3. rest = run[r].count - (pos - 1) /\ rest \in Nat
  BY <1>2, <1>f
<1>s. /\ IsFiniteSet(run[r].files) /\ \A f \in run[r].files : f[2] < pos
      /\ Cardinality(run[r].files) + run[r].skipped = pos - 1
      /\ Cardinality(run[r].files) \in Nat
  BY <1>1, <1>t, FS_CardinalityType DEF At, SumAt, Second
<1>4. /\ LoseTrack(r) => run' = [run EXCEPT ![r] = new]
      /\ Report(r) => run' = run
  BY <1>t DEF LoseTrack, Report, TypeOK
<1> HIDE DEF rest
<1>5. /\ new \in Run
      /\ new.seen = run[r].seen /\ new.size = run[r].size /\ new.count = run[r].count
      /\ new.pos = pos /\ new.files = run[r].files /\ new.number = run[r].number
      /\ new.skipped = run[r].skipped + rest
  <2>1. run[r].skipped + rest \in Text
    <3>1. Cardinality(run[r].files) + (run[r].skipped + rest) = run[r].count
      BY <1>3, <1>f, <1>s
    <3>2. run[r].skipped + rest \in Nat
      BY <1>3, <1>f
    <3>3. run[r].count <= MaxRecords
      BY <1>2, <1>f, <1>t, RetrievalAssumption
    <3> QED
      BY <1>f, <1>s, <3>1, <3>2, <3>3, RetrievalAssumption DEF Text
  <2> HIDE DEF pos
  <2> QED
    BY <1>t, <2>1 DEF Run, pos
<1> HIDE DEF new, pos
<1>6. /\ run' \in [Readers -> Run] /\ \A q \in Readers \ {r} : run'[q] = run[q]
      /\ pc'[r] = "idle" /\ answer'[r] = "exported"
  BY <1>1, <1>4, <1>5, <1>t DEF TypeOK
<1>7. StepOf(r)
  BY <1>1, <1>6, <1>t DEF StepOf, SameRun, TypeOK
<1>8. /\ run'[r].seen = run[r].seen /\ run'[r].files = run[r].files
      /\ run'[r].count = run[r].count /\ run'[r].pos = pos
  BY <1>4, <1>5, <1>t DEF TypeOK, pos
<1>9. At(r)'
  <2>1. PassAt(r)'
    BY <1>6 DEF PassAt, Second, Copying
  <2>2. SumAt(r)'
    BY <1>6, <1>8, <1>s DEF SumAt, Second, Copying
  <2>3. CopiedAt(r)'
    BY <1>1, <1>6, <1>8, <1>t DEF At, CopiedAt, Second, Copying
  <2> QED
    BY <2>1, <2>2, <2>3 DEF At
<1>10. Adds(r)' /\ Covers(r)'
  <2>1. CASE LoseTrack(r)
    <3>1. run'[r].skipped = run[r].skipped + rest
      BY <1>4, <1>5, <1>t, <2>1 DEF TypeOK
    <3>2. pos <= run[r].size /\ ~records[pos].head
      BY <2>1 DEF LoseTrack, pos
    <3>3. pos \in DOMAIN records
      BY <1>2, <1>f, <1>t, <3>2
    <3>4. ~AllValid'
      BY <1>1, <3>2, <3>3 DEF AllValid
    <3>5. Cardinality(run[r].files) + (run[r].skipped + rest) = run[r].count
      BY <1>3, <1>f, <1>s
    <3> QED
      BY <1>8, <3>1, <3>4, <3>5 DEF Adds, Covers
  <2>2. CASE Report(r)
    <3>1. run' = run /\ pos > run[r].size
      BY <2>2 DEF Report, pos
    <3>2. pos - 1 = run[r].count /\ pos - 1 = run[r].size
      BY <1>2, <1>f, <3>1
    <3>3. Adds(r)'
      BY <1>s, <3>1, <3>2 DEF Adds
    <3>4. /\ AllValid => run[r].seen <= run[r].size
          /\ run[r].skipped = 0 => \A i \in 1 .. pos - 1 : \E f \in run[r].files : f[2] = i
      BY <1>1, <1>t DEF At, CopiedAt, Second, pos
    <3>5. ASSUME run[r].skipped = 0, AllValid, NEW i \in 1 .. run[r].seen
          PROVE  \E f \in run[r].files : f[2] = i
      <4>1. i \in 1 .. pos - 1
        BY <1>f, <3>2, <3>4, <3>5
      <4> QED
        BY <3>4, <3>5, <4>1
    <3>6. Covers(r)'
      BY <1>1, <3>1, <3>5 DEF Covers, AllValid
    <3> QED
      BY <3>3, <3>6
  <2> QED
    BY <2>1, <2>2
<1>11. (\A q \in Readers : At(q))' /\ Waiting' /\ Reported'
  BY <1>6, <1>7, <1>9, <1>10, OthersKeep
<1>12. FolderOK' /\ FilesKept'
  BY <1>1, <1>6, <1>7, FolderKeeps DEF Copying
<1>13. TypeOK'
  BY <1>1, <1>6, <1>t DEF TypeOK, PC, Windows
<1> QED
  BY <1>11, <1>12, <1>13 DEF RetrievalInv

\* Deliveries and damage leave the records in place and make no header valid.
LEMMA StepRecords ==
    ASSUME RetrievalInv, Deliver \/ Damage
    PROVE  RetrievalInv'
<1>t. TypeOK /\ Len(records) \in Nat /\ Len(records) <= MaxRecords
      /\ DOMAIN records = 1 .. Len(records)
  BY DEF RetrievalInv, TypeOK
<1>1. /\ plugged' = plugged /\ starts' = starts /\ folder' = folder /\ pc' = pc
      /\ run' = run /\ answer' = answer /\ placed' = placed /\ overlapped' = overlapped
  BY DEF Deliver, Damage, history
<1>2. /\ records' \in Seq(Record) /\ Len(records') <= MaxRecords
      /\ Len(records) <= Len(records') /\ Len(records') \in Nat
      /\ \A i \in 1 .. Len(records) :
            /\ records'[i].name = records[i].name
            /\ ~records[i].head => ~records'[i].head
      /\ AllValid' => AllValid
  <2>1. CASE Deliver
    <3>1. PICK name \in Names : records' = Append(records, [name |-> name, head |-> TRUE])
      BY <2>1 DEF Deliver
    <3>2. [name |-> name, head |-> TRUE] \in Record /\ Len(records) < MaxRecords /\ AllValid
      BY <2>1 DEF Deliver, Record, AllValid
    <3>3. records' \in Seq(Record) /\ Len(records') = Len(records) + 1
          /\ \A i \in 1 .. Len(records) : records'[i] = records[i]
      BY <1>t, <3>1, <3>2 DEF TypeOK
    <3> QED
      BY <1>t, <3>2, <3>3, RetrievalAssumption
  <2>2. CASE Damage
    <3>1. PICK i \in DOMAIN records : records' = [records EXCEPT ![i].head = FALSE]
      BY <2>2 DEF Damage
    <3> DEFINE bad == [records[i] EXCEPT !.head = FALSE]
    <3>2. records[i] \in Record
      BY <1>t, <3>1 DEF TypeOK
    <3>3. bad \in Record /\ bad.head = FALSE /\ bad.name = records[i].name
      BY <3>2 DEF Record
    <3>4. records' = [records EXCEPT ![i] = bad]
      BY <3>1
    <3> HIDE DEF bad
    <3>5. records' \in Seq(Record) /\ Len(records') = Len(records)
          /\ records'[i] = bad /\ \A k \in DOMAIN records \ {i} : records'[k] = records[k]
      BY <1>t, <3>3, <3>4 DEF TypeOK
    <3>6. ~AllValid'
      <4>1. i \in DOMAIN records'
        BY <1>t, <3>4
      <4> QED
        BY <3>3, <3>5, <4>1 DEF AllValid
    <3>7. ASSUME NEW k \in 1 .. Len(records)
          PROVE  /\ records'[k].name = records[k].name
                 /\ ~records[k].head => ~records'[k].head
      BY <1>t, <3>3, <3>5
    <3> QED
      BY <1>t, <3>5, <3>6, <3>7
  <2> QED
    BY <2>1, <2>2
<1>3. ASSUME NEW r \in Readers PROVE At(r)'
  <2>1. At(r) /\ run[r] \in Run
    BY <1>t DEF RetrievalInv, TypeOK
  <2>2. run[r].seen \in Nat /\ run[r].size \in Nat /\ run[r].count \in Nat
    BY <2>1, RunFacts
  <2>3. PassAt(r)'
    <3>1. pc[r] \in {"sweep", "count"} \cup Second => run[r].size <= Len(records')
      BY <1>2, <1>t, <2>1, <2>2 DEF At, PassAt
    <3>2. ASSUME pc[r] \in Second, run[r].count < run[r].size
          PROVE  ~records'[run[r].count + 1].head
      <4>1. run[r].count + 1 \in 1 .. Len(records) /\ ~records[run[r].count + 1].head
        BY <1>t, <2>1, <2>2, <3>2 DEF At, PassAt
      <4> QED
        BY <1>2, <4>1
    <3> QED
      BY <1>1, <2>1, <3>1, <3>2 DEF At, PassAt
  <2>4. SumAt(r)'
    BY <1>1, <2>1 DEF At, SumAt
  <2>5. CopiedAt(r)'
    <3>1. run[r].seen <= Len(records')
      BY <1>2, <1>t, <2>1, <2>2 DEF At, CopiedAt
    <3> QED
      BY <1>1, <1>2, <2>1, <3>1 DEF At, CopiedAt
  <2> QED
    BY <2>3, <2>4, <2>5 DEF At
<1>4. Waiting'
  BY <1>1 DEF RetrievalInv, Waiting
<1>5. Reported'
  BY <1>1, <1>2 DEF RetrievalInv, Reported, Adds, Covers
<1>6. FolderOK'
  <2>1. ASSUME NEW r \in Readers, pc[r] \in Copying PROVE Target(r)' = Target(r)
    <3>1. run[r] \in Run /\ At(r)
      BY <1>t DEF RetrievalInv, TypeOK
    <3>2. run[r].pos \in 1 .. Len(records)
      BY <1>t, <2>1, <3>1, StaysCounted, RunFacts DEF At
    <3> QED
      BY <1>1, <1>2, <3>2 DEF Target
  <2> QED
    BY <1>1, <2>1 DEF RetrievalInv, FolderOK
<1>7. FilesKept'
  BY <1>1 DEF RetrievalInv, FilesKept
<1>8. TypeOK'
  BY <1>1, <1>2, <1>t DEF TypeOK
<1> QED
  BY <1>3, <1>4, <1>5, <1>6, <1>7, <1>8 DEF RetrievalInv

\* The drive is out, or nothing happens.
LEMMA StepStill ==
    ASSUME RetrievalInv, Pull \/ UNCHANGED vars
    PROVE  RetrievalInv'
<1>1. /\ records' = records /\ starts' = starts /\ folder' = folder /\ pc' = pc
      /\ run' = run /\ answer' = answer /\ placed' = placed /\ overlapped' = overlapped
      /\ plugged' \in {plugged, FALSE}
  BY DEF Pull, history, vars, world
<1>2. TypeOK'
  BY <1>1 DEF RetrievalInv, TypeOK
<1>3. (\A r \in Readers : At(r))'
  BY <1>1 DEF RetrievalInv, At, PassAt, SumAt, CopiedAt, AllValid
<1>4. Waiting' /\ Reported'
  BY <1>1 DEF RetrievalInv, Waiting, Reported, Adds, Covers, AllValid
<1>5. FolderOK' /\ FilesKept'
  BY <1>1 DEF RetrievalInv, FolderOK, FilesKept, Target
<1> QED
  BY <1>2, <1>3, <1>4, <1>5 DEF RetrievalInv

LEMMA InvStep == RetrievalInv /\ [Next]_vars => RetrievalInv'
<1> SUFFICES ASSUME RetrievalInv, [Next]_vars PROVE RetrievalInv'
  OBVIOUS
<1>1. ASSUME NEW r \in Readers, ReaderStep(r) PROVE RetrievalInv'
  <2>1. CASE SubmitKey(r) \/ SubmitCode(r)
    BY <2>1, StepBegin
  <2>2. CASE Granted(r) \/ FindEnd(r) \/ CountRecords(r)
    BY <2>2, StepFirst
  <2>3. CASE Refused(r) \/ DriveGone(r) \/ CallFails(r) \/ ReadFails(r) \/ Crash(r)
    BY <2>3, StepFinish
  <2>4. CASE Sweep(r)
    BY <2>4, StepSweep
  <2>5. CASE ChooseName(r) \/ CopyBody(r)
    BY <2>5, StepCopy
  <2>6. CASE Replace(r)
    BY <2>6, StepReplace
  <2>7. CASE Skip(r)
    BY <2>7, StepSkip
  <2>8. CASE LoseTrack(r) \/ Report(r)
    BY <2>8, StepExported
  <2> QED
    BY <1>1, <2>1, <2>2, <2>3, <2>4, <2>5, <2>6, <2>7, <2>8 DEF ReaderStep
<1>2. CASE Deliver \/ Damage
  BY <1>2, StepRecords
<1>3. CASE Pull \/ UNCHANGED vars
  BY <1>3, StepStill
<1> QED
  BY <1>1, <1>2, <1>3 DEF Next

\* However many programs read one store, into one folder or several, RetrievalInv holds.
THEOREM RetrievalInvariant == Spec => []RetrievalInv
BY InvInit, InvStep, PTL DEF Spec

-----------------------------------------------------------------------------
(* What the runs check                                                     *)

\* Every variable has its type: no pass gets behind the records and no count beyond them.
THEOREM TypeCorrect == Spec => []TypeOK
<1>1. RetrievalInv => TypeOK
  BY DEF RetrievalInv
<1> QED
  BY <1>1, RetrievalInvariant, PTL

\* The two numbers in the last window of main in retrieve.py add up to the records that
\* the first pass of extract_all counted.
THEOREM CountsAddUp == Spec => []Accounted
<1>1. RetrievalInv => Accounted
  BY DEF RetrievalInv, Reported, Adds, Accounted
<1> QED
  BY <1>1, RetrievalInvariant, PTL

\* One program alone with the folder replaces no file: the name _next_output_name found
\* is still free when os.replace takes it.
THEOREM OverwritesNothing == Spec => []FilesKept
<1>1. RetrievalInv => FilesKept
  BY DEF RetrievalInv
<1> QED
  BY <1>1, RetrievalInvariant, PTL

\* A window that reports no damaged record has copied every record that was there at the
\* start, as long as every header is valid.
THEOREM CopiesAll == Spec => []Complete
<1>1. RetrievalInv => Complete
  BY DEF RetrievalInv, Reported, Covers, AllValid, Complete
<1> QED
  BY <1>1, RetrievalInvariant, PTL
=============================================================================
