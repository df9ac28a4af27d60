----------------------- MODULE TemporaryAccessProofs -----------------------
(***************************************************************************)
(* Proofs about TemporaryAccess, for every set of programs, every threshold *)
(* and every assignment of codes to slices.                                *)
(***************************************************************************)
EXTENDS TemporaryAccess, TLAPS

\* The record belongs to exactly the program between its lock and its unlock.
LockOK == \A w \in Clients : pc[w] \in Holding <=> lock = w

\* The counters on the medium lag behind those in the file, and both count the
\* refusals; a program that is about to sync a refusal has counted it.
CountersOK ==
    /\ refusals <= record.fail
    /\ refusals <= disk.fail
    /\ disk.last <= record.last
    /\ \A w \in Clients :
        /\ pc[w] = "write" => call[w].copy = record
        /\ pc[w] = "sync" /\ record.fail # 0 => refusals + 1 <= record.fail

\* Where a program may have found the slice its code is for, and where the record
\* that spends that slice is on the medium.
Found == {"sync", "unlock", "return"}

Settled == {"unlock", "return"}

\* A slice found by a program and not yet granted is spent, found by no other
\* program and never granted before.
GrantsOK ==
    /\ \A s \in Slice : grants[s] \in {0, 1} /\ (grants[s] = 1 => s <= disk.last)
    /\ \A w \in Clients :
        LET m == call[w].matched
        IN  /\ pc[w] \notin Found => m = 0
            /\ m # 0 => grants[m] = 0 /\ m <= record.last
            /\ m # 0 /\ pc[w] \in Settled => m <= disk.last
    /\ \A v, w \in Clients :
        v # w /\ call[v].matched # 0 => call[v].matched # call[w].matched

AccessInv == TypeOK /\ LockOK /\ CountersOK /\ GrantsOK

LEMMA NoCallType == NoCall \in Call
BY AccessAssumption DEF NoCall, Call, Record, Fresh, Slice

\* The slices compared with a code are unspent ones.
LEMMA MatchFacts ==
    ASSUME NEW c \in Call, NEW s \in Matches(c)
    PROVE  s \in Slice /\ s > c.copy.last /\ s \in c.code
BY DEF Matches, WindowCandidates, Call

LEMMA AccessInit == Init => AccessInv
<1> SUFFICES ASSUME Init PROVE AccessInv
  OBVIOUS
<1> USE DEF Init
<1>1. TypeOK
  BY NoCallType, AccessAssumption DEF TypeOK, Record, Fresh, Slice, PC
<1>2. LockOK
  BY AccessAssumption DEF LockOK, Holding
<1>3. CountersOK
  BY DEF CountersOK, Fresh
<1>4. GrantsOK
  BY DEF GrantsOK, NoCall, Found, Settled
<1> QED
  BY <1>1, <1>2, <1>3, <1>4 DEF AccessInv

\* A step of one program that leaves the stores, the grants and the slices found
\* alone keeps what is true of grants.
LEMMA GrantsKept ==
    ASSUME GrantsOK, UNCHANGED grants, disk'.last >= disk.last, record'.last >= record.last,
           \A w \in Clients :
              \/ call'[w].matched = 0
              \/ /\ call'[w].matched = call[w].matched
                 /\ pc[w] \in Found /\ pc'[w] \in Found
                 /\ pc'[w] \in Settled /\ pc[w] \notin Settled => disk'.last = record.last,
           TypeOK, TypeOK'
    PROVE  GrantsOK'
<1>1. disk.last \in Int /\ record.last \in Int /\ disk'.last \in Int /\ record'.last \in Int
      /\ \A w \in Clients : call[w].matched \in Int
  BY AccessAssumption DEF TypeOK, Record, Call, Slice
<1>2. \A s \in Slice : s \in Int
  BY AccessAssumption DEF Slice
<1>3. (\A s \in Slice : grants[s] \in {0, 1} /\ (grants[s] = 1 => s <= disk.last))'
  BY <1>1, <1>2 DEF GrantsOK
<1>4. ASSUME NEW w \in Clients
      PROVE  LET m == call'[w].matched
             IN  /\ pc'[w] \notin Found => m = 0
                 /\ m # 0 => grants'[m] = 0 /\ m <= record'.last
                 /\ m # 0 /\ pc'[w] \in Settled => m <= disk'.last
  BY <1>1 DEF GrantsOK
<1>5. \A v, w \in Clients :
        v # w /\ call'[v].matched # 0 => call'[v].matched # call'[w].matched
  BY DEF GrantsOK
<1> QED
  BY <1>3, <1>4, <1>5 DEF GrantsOK

LEMMA AccessStep == AccessInv /\ [Next]_vars => AccessInv'
<1> SUFFICES ASSUME AccessInv, [Next]_vars
             PROVE  AccessInv'
  OBVIOUS
<1>0. /\ TypeOK /\ LockOK /\ CountersOK /\ GrantsOK
      /\ pc \in [Clients -> PC] /\ call \in [Clients -> Call]
      /\ record \in Record /\ disk \in Record
      /\ record.fail \in Nat /\ disk.fail \in Nat /\ refusals \in Nat
      /\ record.last \in Slice /\ disk.last \in Slice
      /\ record.last \in Nat /\ disk.last \in Nat
  BY AccessAssumption DEF AccessInv, TypeOK, Record, Slice
<1>1. ASSUME NEW w \in Clients, Enter(w)
      PROVE  AccessInv'
  <2>1. /\ UNCHANGED <<record, disk, lock, now, grants, refusals>>
        /\ pc[w] = "idle" /\ pc' = [pc EXCEPT ![w] = "locking"]
        /\ attempts' \in 0 .. MaxAttempts
    BY <1>0, <1>1, AccessAssumption DEF Enter, GoTo, TypeOK
  <2>2. PICK c \in Codes :
            call' = [call EXCEPT ![w] = [NoCall EXCEPT !.code = c, !.counter = now]]
    BY <1>1 DEF Enter
  <2>3. [NoCall EXCEPT !.code = c, !.counter = now] \in Call
    <3>1. c \subseteq Slice /\ now \in Slice
      BY <1>0, AccessAssumption DEF TypeOK, Slice
    <3> QED
      BY <3>1, NoCallType DEF Call
  <2>4. TypeOK'
    BY <1>0, <2>1, <2>2, <2>3 DEF TypeOK, PC
  <2>5. LockOK'
    BY <1>0, <2>1 DEF LockOK, Holding
  <2>6. CountersOK'
    BY <1>0, <2>1, <2>2 DEF CountersOK
  <2>7. GrantsOK'
    <3>1. call'[w].matched = 0
      BY <1>0, <2>2 DEF NoCall
    <3>2. \A u \in Clients : u # w => call'[u] = call[u] /\ pc'[u] = pc[u]
      BY <1>0, <2>1, <2>2
    <3>3. \A u \in Clients : pc[u] \notin Found => call[u].matched = 0
      BY <1>0 DEF GrantsOK
    <3> QED
      BY <1>0, <2>1, <2>4, <3>1, <3>2, <3>3, GrantsKept
  <2> QED
    BY <2>4, <2>5, <2>6, <2>7 DEF AccessInv
<1>2. ASSUME NEW w \in Clients, AcquireLock(w) \/ ReadRecord(w) \/ Unlock(w)
      PROVE  AccessInv'
  <2>1. UNCHANGED <<record, disk, now, grants, refusals, attempts>>
    BY <1>2 DEF AcquireLock, ReadRecord, Unlock
  <2>2. \/ pc[w] = "locking" /\ pc'[w] = "read" /\ lock = NoOne /\ lock' = w
        \/ pc[w] = "read" /\ pc'[w] = "write" /\ lock' = lock
        \/ pc[w] = "unlock" /\ pc'[w] = "return" /\ lock' = NoOne
    BY <1>0, <1>2 DEF AcquireLock, ReadRecord, Unlock, GoTo
  <2>3. /\ call' \in [Clients -> Call]
        /\ pc' \in [Clients -> PC]
        /\ \A u \in Clients : u # w => call'[u] = call[u] /\ pc'[u] = pc[u]
        /\ call'[w].matched = call[w].matched
        /\ pc'[w] = "write" => call'[w].copy = record
    BY <1>0, <1>2 DEF AcquireLock, ReadRecord, Unlock, GoTo, Call, PC
  <2>4. TypeOK'
    BY <1>0, <2>1, <2>2, <2>3 DEF TypeOK
  <2>5. LockOK'
    BY <1>0, <2>2, <2>3, AccessAssumption DEF LockOK, Holding
  <2>6. CountersOK'
    BY <1>0, <2>1, <2>2, <2>3 DEF CountersOK
  <2>7. GrantsOK'
    <3>1. \A u \in Clients : pc[u] \notin Found => call[u].matched = 0
      BY <1>0 DEF GrantsOK
    <3> QED
      BY <1>0, <2>1, <2>2, <2>3, <2>4, <3>1, GrantsKept DEF Found, Settled
  <2> QED
    BY <2>4, <2>5, <2>6, <2>7 DEF AccessInv
<1>3. ASSUME NEW w \in Clients, LockTimeout(w) \/ Abort(w)
      PROVE  AccessInv'
  <2>1. /\ UNCHANGED <<record, disk, now, grants, refusals, attempts>>
        /\ lock' = IF lock = w THEN NoOne ELSE lock
        /\ pc' = [pc EXCEPT ![w] = "idle"] /\ call' = [call EXCEPT ![w] = NoCall]
    BY <1>0, <1>3 DEF LockTimeout, Abort, Leave, GoTo, LockOK, Holding
  <2>2. TypeOK'
    BY <1>0, <2>1, NoCallType DEF TypeOK, PC
  <2>3. LockOK'
    BY <1>0, <2>1, AccessAssumption DEF LockOK, Holding
  <2>4. CountersOK'
    BY <1>0, <2>1 DEF CountersOK
  <2>5. GrantsOK'
    <3>1. \A u \in Clients : pc[u] \notin Found => call[u].matched = 0
      BY <1>0 DEF GrantsOK
    <3> QED
      BY <1>0, <2>1, <2>2, <3>1, GrantsKept DEF NoCall
  <2> QED
    BY <2>2, <2>3, <2>4, <2>5 DEF AccessInv
<1>4. ASSUME NEW w \in Clients, Accept(w)
      PROVE  AccessInv'
  <2>1. PICK s \in Matches(call[w]) :
            /\ call' = [call EXCEPT ![w].matched = s]
            /\ record' = [fail |-> 0, last |-> s]
    BY <1>4 DEF Accept
  <2>2. /\ UNCHANGED <<disk, lock, now, grants, attempts>> /\ refusals' = 0
        /\ pc[w] = "write" /\ pc' = [pc EXCEPT ![w] = "sync"]
    BY <1>4 DEF Accept, GoTo
  <2>3. call[w] \in Call /\ call[w].copy = record
    BY <1>0, <2>2 DEF CountersOK
  <2>4. s \in Slice /\ s > record.last /\ s \in Nat
    BY <2>1, <2>3, MatchFacts, AccessAssumption DEF Slice
  <2>5. TypeOK'
    <3>1. record' \in Record /\ call' \in [Clients -> Call]
      BY <1>0, <2>1, <2>4 DEF Record, Call
    <3> QED
      BY <1>0, <2>2, <3>1 DEF TypeOK, PC
  <2>6. LockOK'
    BY <1>0, <2>2 DEF LockOK, Holding
  <2>7. \A u \in Clients : u # w => pc[u] \notin Holding
    BY <1>0, <2>2 DEF LockOK, Holding
  <2>8. CountersOK'
    <3>1. record'.fail = 0 /\ record'.last = s
      BY <2>1
    <3>2. \A u \in Clients : pc'[u] # "write"
      BY <1>0, <2>2, <2>7 DEF Holding
    <3> QED
      BY <1>0, <2>2, <2>4, <3>1, <3>2 DEF CountersOK
  <2>9. /\ call'[w].matched = s
        /\ \A u \in Clients : u # w => call'[u] = call[u] /\ pc'[u] = pc[u]
        /\ record'.last = s /\ pc'[w] = "sync"
    BY <1>0, <2>1, <2>2 DEF Call
  <2>10. \A u \in Clients : call[u].matched # 0 => call[u].matched < s /\ call[u].matched \in Nat
    BY <1>0, <2>4, AccessAssumption DEF GrantsOK, Call, Slice
  <2>11. grants[s] = 0
    BY <1>0, <2>4 DEF GrantsOK, CountersOK
  <2>12. GrantsOK'
    <3>1. (\A t \in Slice : grants[t] \in {0, 1} /\ (grants[t] = 1 => t <= disk.last))'
      BY <1>0, <2>2 DEF GrantsOK
    <3>2. ASSUME NEW u \in Clients
          PROVE  LET m == call'[u].matched
                 IN  /\ pc'[u] \notin Found => m = 0
                     /\ m # 0 => grants'[m] = 0 /\ m <= record'.last
                     /\ m # 0 /\ pc'[u] \in Settled => m <= disk'.last
      <4>1. CASE u = w
        BY <2>2, <2>4, <2>9, <2>11, <4>1 DEF Found, Settled
      <4>2. CASE u # w
        BY <1>0, <2>2, <2>4, <2>9, <2>10, <4>2 DEF GrantsOK
      <4> QED
        BY <4>1, <4>2
    <3>3. \A v, u \in Clients :
            v # u /\ call'[v].matched # 0 => call'[v].matched # call'[u].matched
      BY <1>0, <2>4, <2>9, <2>10 DEF GrantsOK
    <3> QED
      BY <3>1, <3>2, <3>3 DEF GrantsOK
  <2> QED
    BY <2>5, <2>6, <2>8, <2>12 DEF AccessInv
<1>5. ASSUME NEW w \in Clients, Refuse(w) \/ Burn(w)
      PROVE  AccessInv'
  <2>1. /\ UNCHANGED <<disk, lock, now, call, grants, attempts>>
        /\ pc[w] = "write" /\ pc' = [pc EXCEPT ![w] = "sync"]
    BY <1>5 DEF Refuse, Burn, GoTo
  <2>2. /\ call[w] \in Call /\ call[w].copy = record
        /\ call[w].counter \in Slice /\ call[w].counter \in Nat
    BY <1>0, <2>1, AccessAssumption DEF CountersOK, Call, Slice
  <2>3. /\ record' \in Record
        /\ record'.last >= record.last /\ record'.last \in Nat
        /\ \/ refusals' = refusals /\ record'.fail = record.fail + 1
           \/ refusals' = 0 /\ record'.fail = 0
    <3>1. CASE Refuse(w)
      BY <1>0, <2>2, <3>1 DEF Refuse, Record
    <3>2. CASE Burn(w)
      BY <1>0, <2>2, <3>2 DEF Burn, AtThreshold, Record
    <3> QED
      BY <1>5, <3>1, <3>2
  <2>4. TypeOK'
    BY <1>0, <2>1, <2>3 DEF TypeOK, PC
  <2>5. LockOK'
    BY <1>0, <2>1 DEF LockOK, Holding
  <2>6. \A u \in Clients : pc'[u] # "write"
    BY <1>0, <2>1 DEF LockOK, Holding
  <2>7. CountersOK'
    BY <1>0, <2>1, <2>3, <2>6 DEF CountersOK
  <2>8. GrantsOK'
    <3>1. \A u \in Clients : pc[u] \notin Found => call[u].matched = 0
      BY <1>0 DEF GrantsOK
    <3> QED
      BY <1>0, <2>1, <2>3, <2>4, <3>1, GrantsKept DEF Found, Settled
  <2> QED
    BY <2>4, <2>5, <2>7, <2>8 DEF AccessInv
<1>6. ASSUME NEW w \in Clients, Sync(w)
      PROVE  AccessInv'
  <2>1. /\ UNCHANGED <<record, lock, now, call, grants, attempts>> /\ disk' = record
        /\ pc[w] = "sync" /\ pc' = [pc EXCEPT ![w] = "unlock"]
        /\ refusals' = IF record.fail = 0 THEN refusals ELSE refusals + 1
    BY <1>6 DEF Sync, GoTo
  <2>2. TypeOK'
    BY <1>0, <2>1 DEF TypeOK, PC
  <2>3. LockOK'
    BY <1>0, <2>1 DEF LockOK, Holding
  <2>4. \A u \in Clients : pc'[u] \notin {"write", "sync"}
    BY <1>0, <2>1 DEF LockOK, Holding
  <2>5. CountersOK'
    BY <1>0, <2>1, <2>4 DEF CountersOK
  <2>6. GrantsOK'
    <3>1. \A u \in Clients : pc[u] \notin Found => call[u].matched = 0
      BY <1>0 DEF GrantsOK
    <3>2. disk'.last >= disk.last
      BY <1>0, <2>1 DEF CountersOK
    <3> QED
      BY <1>0, <2>1, <2>2, <3>1, <3>2, GrantsKept DEF Found, Settled
  <2> QED
    BY <2>2, <2>3, <2>5, <2>6 DEF AccessInv
<1>7. ASSUME NEW w \in Clients, Return(w)
      PROVE  AccessInv'
  <2> DEFINE m == call[w].matched
  <2>1. /\ UNCHANGED <<record, disk, lock, now, refusals, attempts>>
        /\ pc[w] = "return" /\ pc' = [pc EXCEPT ![w] = "idle"]
        /\ call' = [call EXCEPT ![w] = NoCall]
        /\ grants' = IF m = 0 THEN grants ELSE [grants EXCEPT ![m] = @ + 1]
    BY <1>7 DEF Return, Leave, GoTo
  <2>2. m \in Slice /\ m \in Nat /\ grants \in [Slice -> Nat]
    BY <1>0, AccessAssumption DEF Call, TypeOK, Slice
  <2>3. m # 0 => grants[m] = 0 /\ m <= disk.last
    BY <1>0, <2>1 DEF GrantsOK, Settled
  <2>4. TypeOK'
    BY <1>0, <2>1, <2>2, NoCallType DEF TypeOK, PC
  <2>5. LockOK'
    BY <1>0, <2>1 DEF LockOK, Holding
  <2>6. CountersOK'
    BY <1>0, <2>1 DEF CountersOK
  <2>7. /\ call'[w].matched = 0
        /\ \A u \in Clients : u # w => call'[u] = call[u] /\ pc'[u] = pc[u]
    BY <1>0, <2>1 DEF NoCall
  <2>8. \A s \in Slice : grants'[s] = grants[s] \/ (s = m /\ m # 0 /\ grants'[s] = 1)
    BY <2>1, <2>2, <2>3
  <2>9. (\A s \in Slice : grants[s] \in {0, 1} /\ (grants[s] = 1 => s <= disk.last))'
    BY <1>0, <2>1, <2>3, <2>8 DEF GrantsOK
  <2>10. ASSUME NEW u \in Clients
         PROVE  LET n == call'[u].matched
                IN  /\ pc'[u] \notin Found => n = 0
                    /\ n # 0 => grants'[n] = 0 /\ n <= record'.last
                    /\ n # 0 /\ pc'[u] \in Settled => n <= disk'.last
    <3>1. CASE u = w
      BY <2>7, <3>1
    <3>2. CASE u # w
      <4>1. call[u].matched # 0 => call[u].matched # m
        BY <1>0, <3>2 DEF GrantsOK
      <4>2. call[u].matched \in Slice
        BY <1>0 DEF Call
      <4> QED
        BY <1>0, <2>1, <2>7, <2>8, <3>2, <4>1, <4>2 DEF GrantsOK
    <3> QED
      BY <3>1, <3>2
  <2>11. \A v, u \in Clients :
            v # u /\ call'[v].matched # 0 => call'[v].matched # call'[u].matched
    BY <1>0, <2>7 DEF GrantsOK
  <2>12. GrantsOK'
    BY <2>9, <2>10, <2>11 DEF GrantsOK
  <2> QED
    BY <2>4, <2>5, <2>6, <2>12 DEF AccessInv
<1>8. CASE PowerLoss
  <2>1. /\ UNCHANGED <<now, grants, refusals, attempts>>
        /\ record' \in {record, disk} /\ disk' = record' /\ lock' = NoOne
        /\ pc' = [w \in Clients |-> "idle"] /\ call' = [w \in Clients |-> NoCall]
    BY <1>8 DEF PowerLoss
  <2>2. TypeOK'
    BY <1>0, <2>1, NoCallType DEF TypeOK, PC
  <2>3. LockOK'
    BY <2>1, AccessAssumption DEF LockOK, Holding
  <2>4. CountersOK'
    BY <1>0, <2>1 DEF CountersOK
  <2>5. record'.last >= disk.last /\ disk'.last = record'.last /\ disk'.last \in Nat
    BY <1>0, <2>1 DEF CountersOK
  <2>6. \A w \in Clients : call'[w].matched = 0
    BY <2>1 DEF NoCall
  <2>7. (\A s \in Slice : grants[s] \in {0, 1} /\ (grants[s] = 1 => s <= disk.last))'
    BY <1>0, <2>1, <2>5, AccessAssumption DEF GrantsOK, Slice
  <2>8. GrantsOK'
    BY <2>6, <2>7 DEF GrantsOK
  <2> QED
    BY <2>2, <2>3, <2>4, <2>8 DEF AccessInv
<1>9. CASE ClockMoves
  BY <1>0, <1>9 DEF ClockMoves, AccessInv, TypeOK, LockOK, CountersOK, GrantsOK
<1>10. CASE UNCHANGED vars
  BY <1>0, <1>10 DEF vars, AccessInv, TypeOK, LockOK, CountersOK, GrantsOK
<1> QED
  BY <1>1, <1>2, <1>3, <1>4, <1>5, <1>6, <1>7, <1>8, <1>9, <1>10 DEF Next, Progress

(***************************************************************************)
(* The counters stay in their ranges and a program's locals in theirs.     *)
(***************************************************************************)
THEOREM TypeCorrect == Spec => []TypeOK
<1>1. AccessInv => TypeOK
  BY DEF AccessInv
<1> QED
  BY <1>1, AccessInit, AccessStep, PTL DEF Spec

(***************************************************************************)
(* No refusal is forgotten by a concurrent program or a power loss.        *)
(***************************************************************************)
THEOREM CountsRefusals == Spec => []RefusalsCounted
<1>1. AccessInv => RefusalsCounted
  BY DEF AccessInv, CountersOK, RefusalsCounted
<1> QED
  BY <1>1, AccessInit, AccessStep, PTL DEF Spec

-----------------------------------------------------------------------------
(* The record and the answers are a one-time gate                          *)

LEMMA GateMapsInit == Init => Gate!GateInit
BY DEF Init, Fresh, Slice, Gate!GateInit

LEMMA GateMapsStep == AccessInv /\ [Next]_vars => [Gate!GateNext]_Gate!gateVars
<1> SUFFICES ASSUME AccessInv, [Next]_vars
             PROVE  [Gate!GateNext]_Gate!gateVars
  OBVIOUS
<1>0. /\ TypeOK /\ CountersOK /\ GrantsOK
      /\ record.last \in Slice /\ disk.last \in Slice
      /\ record.last \in Nat /\ disk.last \in Nat /\ disk.last <= record.last
  BY AccessAssumption DEF AccessInv, TypeOK, Record, Slice, CountersOK
<1>1. ASSUME UNCHANGED grants, disk' \in {record, disk}
      PROVE  [Gate!GateNext]_Gate!gateVars
  <2>1. CASE disk'.last = disk.last
    BY <1>1, <2>1 DEF Gate!gateVars
  <2>2. CASE disk'.last # disk.last
    <3>1. disk'.last \in disk.last + 1 .. MaxSlice
      BY <1>0, <1>1, <2>2, AccessAssumption DEF Slice
    <3> QED
      BY <1>1, <3>1 DEF Gate!GateNext, Gate!Spend
  <2> QED
    BY <2>1, <2>2
<1>2. ASSUME NEW w \in Clients, Return(w)
      PROVE  [Gate!GateNext]_Gate!gateVars
  <2> DEFINE m == call[w].matched
  <2>1. UNCHANGED disk /\ pc[w] = "return"
        /\ grants' = IF m = 0 THEN grants ELSE [grants EXCEPT ![m] = @ + 1]
    BY <1>2 DEF Return
  <2>2. CASE m = 0
    BY <2>1, <2>2 DEF Gate!gateVars
  <2>3. CASE m # 0
    <3>1. m \in 1 .. disk.last /\ grants[m] = 0 /\ m \in Slice /\ grants \in [Slice -> Nat]
      BY <1>0, <2>1, <2>3, AccessAssumption DEF GrantsOK, Settled, TypeOK, Call, Slice
    <3>2. grants' = [grants EXCEPT ![m] = 1]
      BY <2>1, <2>3, <3>1
    <3> QED
      BY <2>1, <3>1, <3>2 DEF Gate!GateNext, Gate!Grant
  <2> QED
    BY <2>2, <2>3
<1>3. CASE UNCHANGED vars
  BY <1>3 DEF vars, Gate!gateVars
<1> QED
  BY <1>1, <1>2, <1>3
     DEF Next, Progress, Enter, AcquireLock, LockTimeout, ReadRecord, Accept, Refuse, Burn,
         Sync, Unlock, Abort, PowerLoss, ClockMoves

(***************************************************************************)
(* Access is granted at most once for a slice and only for a slice the     *)
(* medium records as spent, whatever programs run together or fail.        *)
(***************************************************************************)
THEOREM AccessIsOneTime == Spec => ImplementsGate
BY GateMapsInit, GateMapsStep, AccessInit, AccessStep, PTL
   DEF Spec, ImplementsGate, Gate!GateSpec
=============================================================================
