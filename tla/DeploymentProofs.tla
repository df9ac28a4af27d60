-------------------------- MODULE DeploymentProofs -------------------------
(***************************************************************************)
(* Proofs about Deployment, for any number of programs, drives and kits    *)
(* and any number of deployments.                                          *)
(*                                                                         *)
(* AuthorInv says where a key may be, and who may still write a private    *)
(* key into a folder.  OneInv adds how far the one program at work on an   *)
(* uncontended drive has come, file by file, and that a running delivery   *)
(* program keeps it from getting past the clearing.                        *)
(***************************************************************************)
EXTENDS Deployment, TLAPS

\* A program past its private key has a key, a delivery program has loaded two.
HasKeys ==
    /\ \A p \in Deployers : pc[p] \in Writing \ {"private"} => job[p].key \in Key
    /\ \A i \in Inboxes : inbox[i].pc # "idle" => inbox[i].keys \in Pair

DeployType == TypeOK /\ HasKeys

\* Deployments that have made their keys.
Made == 1 .. Len(home)

\* Every author's key that is anywhere comes from a deployment.
Traced ==
    /\ \A p \in Deployers : job[p].key \in Made \cup {None}
    /\ \A i \in Inboxes : inbox[i].keys.author \in Made \cup {None}
    /\ \A d \in Drives :
        /\ drive[d].public \in Made \cup {None}
        /\ drive[d].store.author \in Made \cup {None}
        /\ \A r \in drive[d].records : r.author \in Made

\* The private key of a deployment is in its kit, unless the kit is shared.
KitsKeep == \A n \in Made : kit[home[n]].private = n \/ home[n] \in shared

\* A program that may still write into a kit is the only one, and no key is there.
KitsFree ==
    \A p \in Deployers : \A k \in Kits \ shared :
        MayWrite(p, k) =>
            /\ \A n \in Made : home[n] # k
            /\ \A q \in Deployers \ {p} : ~MayWrite(q, k)

AuthorInv == DeployType /\ Traced /\ KitsKeep /\ KitsFree

-----------------------------------------------------------------------------
(* Types                                                                   *)

LEMMA WithoutType ==
    ASSUME NEW files \in Drive, NEW f \in Part
    PROVE  Without(files, f) \in Drive
<1>1. Blank \in Drive
  BY DEF Drive, Blank, NoPair, None, Pair, Key
<1>2. CASE f = "public"
  BY <1>1, <1>2 DEF Without, Drive
<1>3. CASE f = "temp"
  BY <1>1, <1>3 DEF Without, Drive
<1>4. CASE f = "access"
  BY <1>1, <1>4 DEF Without, Drive
<1>5. CASE f = "license"
  BY <1>1, <1>5 DEF Without, Drive
<1>6. CASE f = "inbox"
  BY <1>1, <1>6 DEF Without, Drive
<1>7. CASE f = "store"
  BY <1>1, <1>7 DEF Without, Drive
<1> QED
  BY <1>2, <1>3, <1>4, <1>5, <1>6, <1>7 DEF Part

LEMMA TypeInit == Init => DeployType
<1> SUFFICES ASSUME Init PROVE DeployType
  OBVIOUS
<1>1. Blank \in Drive
  BY DEF Drive, Blank, NoPair, None, Pair, Key
<1>2. drive \in [Drives -> Drive]
  BY <1>1 DEF Init
<1>3. kit \in [Kits -> Kit]
  BY DEF Init, Kit
<1>4. job \in [Deployers -> Job] /\ inbox \in [Inboxes -> Inbox]
  BY DEF Init
<1>5. home \in Seq(Kits) /\ Len(home) <= MaxKeys
  BY DeploymentAssumption DEF Init
<1>6. TypeOK
  BY <1>2, <1>3, <1>4, <1>5 DEF Init, TypeOK, Label
<1>7. HasKeys
  BY DEF Init, HasKeys, Writing
<1> QED
  BY <1>6, <1>7 DEF DeployType

\* The files of one drive get a new value.
LEMMA DriveStep ==
    ASSUME TypeOK, NEW d \in Drives, NEW files \in Drive,
           drive' = [drive EXCEPT ![d] = files]
    PROVE  drive' \in [Drives -> Drive]
BY DEF TypeOK

\* So do those of one kit.
LEMMA KitStep ==
    ASSUME TypeOK, NEW k \in Kits, NEW files \in Kit,
           kit' = [kit EXCEPT ![k] = files]
    PROVE  kit' \in [Kits -> Kit]
BY DEF TypeOK

\* The steps of a deployment before it makes its keys.
LEMMA TypePreparing ==
    ASSUME DeployType, NEW p \in Deployers,
           \/ \E d \in Drives, k \in Kits : Choose(p, d, k)
           \/ List(p) \/ Confirm(p)
           \/ \E f \in Part : ClearFile(p, f)
           \/ ClearInboxFails(p) \/ Cleared(p) \/ Stop(p) \/ TearPrivate(p)
    PROVE  DeployType'
<1> USE DEF DeployType, HasKeys, GoTo, history
<1>d. job[p] \in Job /\ job[p].drive \in Drives /\ job[p].kit \in Kits
      /\ drive[job[p].drive] \in Drive /\ kit[job[p].kit] \in Kit
  BY DEF TypeOK, Job
<1>1. ASSUME NEW d \in Drives, NEW k \in Kits, Choose(p, d, k) PROVE DeployType'
  <2>1. [drive |-> d, kit |-> k, existing |-> {}, key |-> None] \in Job
    BY DEF Job
  <2> QED
    BY <1>1, <2>1 DEF Choose, TypeOK, Label, Writing
<1>2. CASE List(p)
  <2>1. [job[p] EXCEPT !.existing = Present(job[p].drive)] \in Job
    BY <1>d DEF Job, Present
  <2> QED
    BY <1>2, <2>1, <1>d DEF List, TypeOK, Label, Writing, Job
<1>3. CASE Confirm(p)
  BY <1>3 DEF Confirm, TypeOK, Label, Writing
<1>4. ASSUME NEW f \in Part, ClearFile(p, f) PROVE DeployType'
  <2>1. drive' \in [Drives -> Drive]
    BY <1>4, <1>d, WithoutType, DriveStep DEF ClearFile
  <2>2. [job[p] EXCEPT !.existing = @ \ {f}] \in Job
    BY <1>d DEF Job
  <2> QED
    BY <1>4, <2>1, <2>2 DEF ClearFile, TypeOK, Label, Writing
<1>5. CASE ClearInboxFails(p)
  <2>1. [drive[job[p].drive] EXCEPT !["inbox"] = "broken"] \in Drive
    BY <1>d DEF Drive
  <2>2. drive' = [drive EXCEPT ![job[p].drive] =
                      [drive[job[p].drive] EXCEPT !["inbox"] = "broken"]]
    BY <1>5 DEF ClearInboxFails, WriteDrive
  <2>3. drive' \in [Drives -> Drive]
    BY <2>1, <2>2, <1>d, DriveStep
  <2> QED
    BY <1>5, <2>3 DEF ClearInboxFails, TypeOK, Label, Writing
<1>6. CASE Cleared(p)
  BY <1>6 DEF Cleared, TypeOK, Label, Writing
<1>7. CASE Stop(p)
  BY <1>7 DEF Stop, TypeOK, Label, Writing
<1>8. CASE TearPrivate(p)
  <2>1. [kit[job[p].kit] EXCEPT !.private = Torn] \in Kit
    BY <1>d DEF Kit
  <2>2. kit' = [kit EXCEPT ![job[p].kit] = [kit[job[p].kit] EXCEPT !.private = Torn]]
    BY <1>8 DEF TearPrivate
  <2>3. kit' \in [Kits -> Kit]
    BY <2>1, <2>2, <1>d, KitStep
  <2> QED
    BY <1>8, <2>3 DEF TearPrivate, TypeOK, Label, Writing
<1> QED
  BY <1>1, <1>2, <1>3, <1>4, <1>5, <1>6, <1>7, <1>8

\* The steps that write the files of a deployment.
LEMMA TypeWriting ==
    ASSUME DeployType, NEW p \in Deployers,
           \/ WritePrivate(p) \/ WritePublic(p) \/ WriteTemp(p) \/ WriteAccess(p)
           \/ WriteQr(p) \/ WriteLicense(p) \/ WriteMaster(p) \/ CopyPrograms(p)
           \/ WriteStore(p)
    PROVE  DeployType'
<1> USE DEF DeployType, HasKeys, GoTo, history
<1>d. job[p] \in Job /\ job[p].drive \in Drives /\ job[p].kit \in Kits
      /\ drive[job[p].drive] \in Drive /\ kit[job[p].kit] \in Kit
  BY DEF TypeOK, Job
<1>w. ASSUME NEW files \in Drive, drive' = [drive EXCEPT ![job[p].drive] = files]
      PROVE  drive' \in [Drives -> Drive]
  BY <1>w, <1>d, DriveStep
<1>1. CASE WritePrivate(p)
  <2>1. Len(home) + 1 \in Key
    BY <1>1, DeploymentAssumption DEF WritePrivate, TypeOK, Key
  <2>2. [kit[job[p].kit] EXCEPT !.private = Len(home) + 1] \in Kit
    BY <1>d, <2>1 DEF Kit
  <2>3. kit' = [kit EXCEPT ![job[p].kit] =
                    [kit[job[p].kit] EXCEPT !.private = Len(home) + 1]]
    BY <1>1 DEF WritePrivate
  <2>4. kit' \in [Kits -> Kit]
    BY <2>2, <2>3, <1>d, KitStep
  <2>5. [job[p] EXCEPT !.key = Len(home) + 1] \in Job
    BY <1>d, <2>1 DEF Job
  <2>6. home' \in Seq(Kits) /\ Len(home') <= MaxKeys
    BY <1>1, <1>d, DeploymentAssumption DEF WritePrivate, TypeOK
  <2> QED
    BY <1>1, <1>d, <2>1, <2>4, <2>5, <2>6 DEF WritePrivate, TypeOK, Label, Writing, Job
<1>2. CASE WritePublic(p)
  <2>1. [drive[job[p].drive] EXCEPT !["public"] = job[p].key] \in Drive
    BY <1>2, <1>d DEF WritePublic, Drive, Writing
  <2>2. drive' \in [Drives -> Drive]
    BY <1>2, <1>w, <2>1 DEF WritePublic, WriteDrive
  <2> QED
    BY <1>2, <2>2 DEF WritePublic, TypeOK, Label, Writing
<1>3. CASE WriteTemp(p)
  <2>1. [drive[job[p].drive] EXCEPT !["temp"] = job[p].key] \in Drive
    BY <1>3, <1>d DEF WriteTemp, Drive, Writing
  <2>2. drive' \in [Drives -> Drive]
    BY <1>3, <1>w, <2>1 DEF WriteTemp, WriteDrive
  <2> QED
    BY <1>3, <2>2 DEF WriteTemp, TypeOK, Label, Writing
<1>4. CASE WriteAccess(p)
  <2>1. [drive[job[p].drive] EXCEPT !["access"] = job[p].key] \in Drive
    BY <1>4, <1>d DEF WriteAccess, Drive, Writing
  <2>2. drive' \in [Drives -> Drive]
    BY <1>4, <1>w, <2>1 DEF WriteAccess, WriteDrive
  <2> QED
    BY <1>4, <2>2 DEF WriteAccess, TypeOK, Label, Writing
<1>5. CASE WriteQr(p)
  <2>1. [kit[job[p].kit] EXCEPT !.qr = job[p].key] \in Kit
    BY <1>5, <1>d DEF WriteQr, Kit, Writing
  <2>2. kit' = [kit EXCEPT ![job[p].kit] = [kit[job[p].kit] EXCEPT !.qr = job[p].key]]
    BY <1>5 DEF WriteQr
  <2>3. kit' \in [Kits -> Kit]
    BY <2>1, <2>2, <1>d, KitStep
  <2> QED
    BY <1>5, <2>3 DEF WriteQr, TypeOK, Label, Writing
<1>6. CASE WriteLicense(p)
  <2>1. [author |-> Here(p).public, temp |-> job[p].key] \in Pair
    BY <1>6, <1>d DEF WriteLicense, Here, Drive, Pair, Writing
  <2>2. [drive[job[p].drive] EXCEPT !["license"] =
            [author |-> Here(p).public, temp |-> job[p].key]] \in Drive
    BY <2>1, <1>d DEF Drive
  <2>3. drive' \in [Drives -> Drive]
    BY <1>6, <1>w, <2>2 DEF WriteLicense, WriteDrive
  <2> QED
    BY <1>6, <2>3 DEF WriteLicense, TypeOK, Label, Writing
<1>7. CASE WriteMaster(p)
  <2>1. [kit[job[p].kit] EXCEPT !.master = [@ EXCEPT ![job[p].drive] = job[p].key]] \in Kit
    BY <1>7, <1>d DEF WriteMaster, Kit, Writing
  <2>2. kit' = [kit EXCEPT ![job[p].kit] = [kit[job[p].kit] EXCEPT
                    !.master = [@ EXCEPT ![job[p].drive] = job[p].key]]]
    BY <1>7 DEF WriteMaster
  <2>3. kit' \in [Kits -> Kit]
    BY <2>1, <2>2, <1>d, KitStep
  <2> QED
    BY <1>7, <2>3 DEF WriteMaster, TypeOK, Label, Writing
<1>8. CASE CopyPrograms(p)
  <2>1. [drive[job[p].drive] EXCEPT !["inbox"] = "whole"] \in Drive
    BY <1>d DEF Drive
  <2>2. drive' \in [Drives -> Drive]
    BY <1>8, <1>w, <2>1 DEF CopyPrograms, WriteDrive
  <2> QED
    BY <1>8, <2>2 DEF CopyPrograms, TypeOK, Label, Writing
<1>9. CASE WriteStore(p)
  <2>1. [author |-> Here(p).public, temp |-> Here(p).temp] \in Pair
    BY <1>9, <1>d DEF WriteStore, Here, Drive, Pair
  <2>2. [drive[job[p].drive] EXCEPT !.store = [author |-> Here(p).public,
                                               temp |-> Here(p).temp],
                                    !.records = {}] \in Drive
    BY <2>1, <1>d DEF Drive
  <2>3. drive' \in [Drives -> Drive]
    BY <1>9, <1>w, <2>2 DEF WriteStore
  <2> QED
    BY <1>9, <2>3 DEF WriteStore, TypeOK, Label, Writing
<1> QED
  BY <1>1, <1>2, <1>3, <1>4, <1>5, <1>6, <1>7, <1>8, <1>9

LEMMA TypeInbox ==
    ASSUME DeployType, NEW i \in Inboxes, InboxStep(i)
    PROVE  DeployType'
<1> USE DEF DeployType, HasKeys
<1>d. inbox[i] \in Inbox /\ inbox[i].drive \in Drives /\ drive[inbox[i].drive] \in Drive
  BY DEF TypeOK, Inbox
<1>1. ASSUME NEW d \in Drives, StartInbox(i, d) PROVE DeployType'
  <2>1. drive[d].store \in Pair
    BY <1>1 DEF StartInbox, Matches
  <2>2. [pc |-> "loaded", drive |-> d, keys |-> drive[d].store] \in Inbox
    BY <2>1 DEF Inbox
  <2> QED
    BY <1>1, <2>1, <2>2 DEF StartInbox, history, TypeOK
<1>2. CASE CheckHeader(i)
  <2>1. [inbox[i] EXCEPT !.pc = "checked"] \in Inbox
    BY <1>d DEF Inbox
  <2> QED
    BY <1>2, <1>d, <2>1 DEF CheckHeader, history, TypeOK, Inbox
<1>3. CASE Deliver(i)
  <2>1. inbox[i].keys \in Pair
    BY <1>3 DEF Deliver
  <2>2. [drive[inbox[i].drive] EXCEPT !.records = @ \cup {inbox[i].keys}] \in Drive
    BY <1>d, <2>1 DEF Drive
  <2>3. drive' = [drive EXCEPT ![inbox[i].drive] =
                    [drive[inbox[i].drive] EXCEPT !.records = @ \cup {inbox[i].keys}]]
    BY <1>3 DEF Deliver
  <2>4. drive' \in [Drives -> Drive]
    BY <1>d, <2>2, <2>3, DriveStep
  <2>5. [inbox[i] EXCEPT !.pc = "loaded"] \in Inbox
    BY <1>d DEF Inbox
  <2> QED
    BY <1>3, <1>d, <2>1, <2>4, <2>5 DEF Deliver, history, TypeOK, Inbox
<1>4. CASE EndInbox(i)
  <2>1. [inbox[i] EXCEPT !.pc = "idle", !.keys = NoPair] \in Inbox
    BY <1>d DEF Inbox
  <2> QED
    BY <1>4, <1>d, <2>1 DEF EndInbox, history, TypeOK, Inbox
<1> QED
  BY <1>1, <1>2, <1>3, <1>4 DEF InboxStep

LEMMA TypeStep == DeployType /\ [Next]_vars => DeployType'
<1> SUFFICES ASSUME DeployType, [Next]_vars PROVE DeployType'
  OBVIOUS
<1>1. ASSUME NEW p \in Deployers, DeployStep(p) PROVE DeployType'
  BY <1>1, TypePreparing, TypeWriting DEF DeployStep
<1>2. ASSUME NEW i \in Inboxes, InboxStep(i) PROVE DeployType'
  BY <1>2, TypeInbox
<1>3. CASE UNCHANGED vars
  BY <1>3 DEF vars, history, DeployType, TypeOK, HasKeys
<1> QED
  BY <1>1, <1>2, <1>3 DEF Next

\* Every variable keeps its type.
THEOREM TypeCorrect == Spec => []TypeOK
<1>1. DeployType => TypeOK
  BY DEF DeployType
<1> QED
  BY TypeInit, TypeStep, <1>1, PTL DEF Spec

-----------------------------------------------------------------------------
(* Keys and kits                                                           *)

\* Every step but Choose, WritePrivate and TearPrivate leaves the private keys, the
\* kits they belong to, and who may still write one.
LEMMA Untouched ==
    ASSUME KitsKeep, KitsFree, home' = home, shared' = shared,
           \A k \in Kits : kit'[k].private = kit[k].private,
           \A q \in Deployers, k \in Kits : MayWrite(q, k)' => MayWrite(q, k),
           home \in Seq(Kits)
    PROVE  KitsKeep' /\ KitsFree'
<1>1. Made' = Made
  BY DEF Made
<1>2. \A n \in Made : home[n] \in Kits
  BY DEF Made
<1>3. KitsKeep'
  BY <1>1, <1>2 DEF KitsKeep
<1>4. KitsFree'
  BY <1>1 DEF KitsFree
<1> QED
  BY <1>3, <1>4

LEMMA AuthorInit == Init => AuthorInv
<1> SUFFICES ASSUME Init PROVE AuthorInv
  OBVIOUS
<1>1. Len(home) = 0
  BY DEF Init
<1>2. Traced
  BY DEF Init, Traced, Blank, NoPair
<1>3. KitsKeep
  BY <1>1 DEF KitsKeep, Made
<1>4. KitsFree
  BY DEF Init, KitsFree, MayWrite
<1> QED
  BY <1>2, <1>3, <1>4, TypeInit DEF AuthorInv

LEMMA AuthorChoose ==
    ASSUME AuthorInv, NEW p \in Deployers, NEW d \in Drives, NEW k \in Kits, Choose(p, d, k)
    PROVE  Traced' /\ KitsKeep' /\ KitsFree'
<1> USE DEF AuthorInv, DeployType, GoTo
<1>1. Made' = Made /\ home' = home /\ kit' = kit /\ shared \subseteq shared'
  BY DEF Choose, Made
<1>2. Traced'
  BY <1>1 DEF Choose, Traced, TypeOK
<1>3. KitsKeep'
  BY <1>1 DEF KitsKeep
<1>4. k \notin shared' => \A n \in Made : home[n] # k
  <2> SUFFICES ASSUME k \notin shared', NEW n \in Made, home[n] = k PROVE FALSE
    OBVIOUS
  <2>1. kit[k].private = n
    BY <1>1 DEF KitsKeep
  <2>2. n # None
    BY DEF Made, None, TypeOK
  <2> QED
    BY <2>1, <2>2 DEF Choose
<1>5. k \notin shared' => \A q \in Deployers \ {p} : ~MayWrite(q, k)
  BY DEF Choose
<1>6. \A q \in Deployers \ {p}, l \in Kits : MayWrite(q, l)' <=> MayWrite(q, l)
  BY DEF Choose, MayWrite, TypeOK
<1>7. \A l \in Kits : MayWrite(p, l)' => l = k
  BY DEF Choose, MayWrite, TypeOK
<1>8. KitsFree'
  <2> SUFFICES ASSUME NEW q \in Deployers, NEW l \in Kits, l \notin shared', MayWrite(q, l)'
               PROVE  /\ \A n \in Made : home[n] # l
                      /\ \A r \in Deployers \ {q} : ~MayWrite(r, l)'
    BY <1>1 DEF KitsFree
  <2>1. CASE q = p
    BY <2>1, <1>4, <1>5, <1>6, <1>7
  <2>2. CASE q # p
    <3>1. MayWrite(q, l) /\ l \notin shared
      BY <2>2, <1>1, <1>6
    <3>2. ~MayWrite(p, l)'
      BY <2>2, <3>1, <1>5, <1>7
    <3> QED
      BY <3>1, <3>2, <1>6 DEF KitsFree
  <2> QED
    BY <2>1, <2>2
<1> QED
  BY <1>2, <1>3, <1>8

LEMMA AuthorPrivate ==
    ASSUME AuthorInv, NEW p \in Deployers, WritePrivate(p)
    PROVE  Traced' /\ KitsKeep' /\ KitsFree'
<1> USE DEF AuthorInv, DeployType, GoTo
<1> DEFINE k == job[p].kit
           n == Len(home) + 1
<1>d. k \in Kits /\ home \in Seq(Kits) /\ Len(home) \in Nat
  BY DEF TypeOK, Job
<1>1. /\ home' = Append(home, k) /\ shared' = shared
      /\ kit' = [kit EXCEPT ![k] = [kit[k] EXCEPT !.private = n]]
  BY DEF WritePrivate
<1>2. Made' = Made \cup {n} /\ Made' = 1 .. n /\ n \notin Made
  BY <1>1, <1>d DEF Made
<1>3. home'[n] = k /\ \A m \in Made : home'[m] = home[m] /\ home[m] \in Kits
  BY <1>1, <1>d DEF Made
<1>4. Traced'
  <2>1. drive' = drive /\ inbox' = inbox
    BY DEF WritePrivate
  <2>2. \A q \in Deployers : job'[q].key = n \/ job'[q].key = job[q].key
    BY DEF WritePrivate, TypeOK, Job
  <2> QED
    BY <2>1, <2>2, <1>2 DEF Traced
<1>5. MayWrite(p, k)
  BY DEF WritePrivate, MayWrite
<1>6. k \notin shared => \A m \in Made : home[m] # k
  BY <1>5, <1>d DEF KitsFree
<1>7. kit'[k].private = n /\ \A l \in Kits \ {k} : kit'[l] = kit[l]
  BY <1>1, <1>d DEF TypeOK, Kit
<1>8. KitsKeep'
  <2> SUFFICES ASSUME NEW m \in Made'
               PROVE  kit'[home'[m]].private = m \/ home'[m] \in shared
    BY <1>1 DEF KitsKeep
  <2>1. CASE m = n
    BY <2>1, <1>3, <1>7
  <2>2. CASE m \in Made
    BY <2>2, <1>3, <1>6, <1>7 DEF KitsKeep
  <2> QED
    BY <2>1, <2>2, <1>2
<1>9. \A q \in Deployers, l \in Kits : MayWrite(q, l)' => MayWrite(q, l) /\ q # p
  BY DEF WritePrivate, MayWrite, TypeOK, Job
<1>10. KitsFree'
  <2> SUFFICES ASSUME NEW q \in Deployers, NEW l \in Kits, l \notin shared, MayWrite(q, l)'
               PROVE  /\ \A m \in Made' : home'[m] # l
                      /\ \A r \in Deployers \ {q} : ~MayWrite(r, l)'
    BY <1>1 DEF KitsFree
  <2>1. MayWrite(q, l) /\ q # p
    BY <1>9
  <2>2. l # k
    BY <2>1, <1>5 DEF KitsFree
  <2> QED
    BY <2>1, <2>2, <1>2, <1>3, <1>9 DEF KitsFree
<1> QED
  BY <1>4, <1>8, <1>10

LEMMA AuthorTear ==
    ASSUME AuthorInv, NEW p \in Deployers, TearPrivate(p)
    PROVE  Traced' /\ KitsKeep' /\ KitsFree'
<1> USE DEF AuthorInv, DeployType, GoTo
<1> DEFINE k == job[p].kit
<1>d. k \in Kits /\ home \in Seq(Kits)
  BY DEF TypeOK, Job
<1>1. Made' = Made /\ home' = home /\ shared' = shared
  BY DEF TearPrivate, history, Made
<1>2. \A n \in Made : home[n] \in Kits
  BY <1>d DEF Made
<1>3. Traced'
  BY <1>1 DEF TearPrivate, Traced
<1>4. MayWrite(p, k)
  BY DEF TearPrivate, MayWrite
<1>5. \A l \in Kits \ {k} : kit'[l] = kit[l]
  BY <1>d DEF TearPrivate, TypeOK
<1>6. KitsKeep'
  BY <1>1, <1>2, <1>4, <1>5, <1>d DEF KitsKeep, KitsFree
<1>7. \A q \in Deployers, l \in Kits : MayWrite(q, l)' => MayWrite(q, l)
  BY DEF TearPrivate, MayWrite, TypeOK
<1>8. KitsFree'
  BY <1>1, <1>7 DEF KitsFree
<1> QED
  BY <1>3, <1>6, <1>8

\* A step that leaves home alone and puts traced keys into one drive.
LEMMA DriveTraced ==
    ASSUME Traced, TypeOK, home' = home, job' = job, inbox' = inbox,
           NEW d \in Drives, NEW files \in Drive, drive' = [drive EXCEPT ![d] = files],
           files.public \in Made \cup {None}, files.store.author \in Made \cup {None},
           \A r \in files.records : r.author \in Made
    PROVE  Traced'
<1>1. Made' = Made
  BY DEF Made
<1>2. \A e \in Drives : drive'[e] = IF e = d THEN files ELSE drive[e]
  BY DEF TypeOK
<1> QED
  BY <1>1, <1>2 DEF Traced

LEMMA WithoutTraced ==
    ASSUME NEW files \in Drive, NEW f \in Part
    PROVE  /\ Without(files, f).public \in {files.public, None}
           /\ Without(files, f).store.author \in {files.store.author, None}
           /\ Without(files, f).records \subseteq files.records
<1>1. CASE f = "public"
  BY <1>1 DEF Without, Drive, Blank
<1>2. CASE f = "temp"
  BY <1>2 DEF Without, Drive
<1>3. CASE f = "access"
  BY <1>3 DEF Without, Drive
<1>4. CASE f = "license"
  BY <1>4 DEF Without, Drive
<1>5. CASE f = "inbox"
  BY <1>5 DEF Without, Drive
<1>6. CASE f = "store"
  BY <1>6 DEF Without, Drive, Blank, NoPair
<1> QED
  BY <1>1, <1>2, <1>3, <1>4, <1>5, <1>6 DEF Part

\* The other steps of a deployment keep every key traced.
LEMMA DeployTraced ==
    ASSUME AuthorInv, NEW p \in Deployers,
           \/ List(p) \/ Confirm(p)
           \/ \E f \in Part : ClearFile(p, f)
           \/ ClearInboxFails(p) \/ Cleared(p) \/ WritePublic(p) \/ WriteTemp(p)
           \/ WriteAccess(p) \/ WriteQr(p) \/ WriteLicense(p) \/ WriteMaster(p)
           \/ CopyPrograms(p) \/ WriteStore(p) \/ Stop(p)
    PROVE  Traced'
<1> USE DEF AuthorInv, DeployType, history
<1> DEFINE d == job[p].drive
           files == drive[d]
<1>d. d \in Drives /\ files \in Drive
  BY DEF TypeOK, Job
<1>t. /\ files.public \in Made \cup {None}
      /\ files.store.author \in Made \cup {None}
      /\ \A r \in files.records : r.author \in Made
  BY <1>d DEF Traced
<1>k. job[p].key \in Made \cup {None}
  BY DEF Traced
<1>1. CASE List(p)
  <2>1. \A q \in Deployers : job'[q].key = job[q].key
    BY <1>1 DEF List, TypeOK, Job
  <2> QED
    BY <1>1, <2>1 DEF List, Traced, Made
<1>2. CASE Confirm(p) \/ Cleared(p) \/ Stop(p)
  BY <1>2 DEF Confirm, Cleared, Stop, Traced, Made
<1>3. ASSUME NEW f \in Part, ClearFile(p, f) PROVE Traced'
  <2>1. Without(files, f) \in Drive
    BY <1>d, WithoutType
  <2>2. drive' = [drive EXCEPT ![d] = Without(files, f)]
    BY <1>3 DEF ClearFile
  <2>3. \A e \in Drives : drive'[e] = IF e = d THEN Without(files, f) ELSE drive[e]
    BY <2>2 DEF TypeOK
  <2>4. \A q \in Deployers : job'[q].key = job[q].key
    BY <1>3 DEF ClearFile, TypeOK, Job
  <2>5. inbox' = inbox /\ Made' = Made
    BY <1>3 DEF ClearFile, Made
  <2>6. /\ Without(files, f).public \in Made \cup {None}
        /\ Without(files, f).store.author \in Made \cup {None}
        /\ \A r \in Without(files, f).records : r.author \in Made
    BY <1>d, <1>t, WithoutTraced
  <2> QED
    BY <2>3, <2>4, <2>5, <2>6 DEF Traced
<1>4. CASE ClearInboxFails(p)
  <2>1. [files EXCEPT !["inbox"] = "broken"] \in Drive
    BY <1>d DEF Drive
  <2>2. drive' = [drive EXCEPT ![d] = [files EXCEPT !["inbox"] = "broken"]]
    BY <1>4 DEF ClearInboxFails, WriteDrive
  <2> QED
    BY <1>4, <1>d, <1>t, <2>1, <2>2, DriveTraced DEF ClearInboxFails, Drive
<1>5. CASE WritePublic(p)
  <2>1. [files EXCEPT !["public"] = job[p].key] \in Drive
    BY <1>5, <1>d DEF WritePublic, Drive, HasKeys, Writing
  <2>2. drive' = [drive EXCEPT ![d] = [files EXCEPT !["public"] = job[p].key]]
    BY <1>5 DEF WritePublic, WriteDrive
  <2> QED
    BY <1>5, <1>d, <1>t, <1>k, <2>1, <2>2, DriveTraced DEF WritePublic, Drive
<1>6. CASE WriteTemp(p)
  <2>1. [files EXCEPT !["temp"] = job[p].key] \in Drive
    BY <1>6, <1>d DEF WriteTemp, Drive, HasKeys, Writing
  <2>2. drive' = [drive EXCEPT ![d] = [files EXCEPT !["temp"] = job[p].key]]
    BY <1>6 DEF WriteTemp, WriteDrive
  <2> QED
    BY <1>6, <1>d, <1>t, <2>1, <2>2, DriveTraced DEF WriteTemp, Drive
<1>7. CASE WriteAccess(p)
  <2>1. [files EXCEPT !["access"] = job[p].key] \in Drive
    BY <1>7, <1>d DEF WriteAccess, Drive, HasKeys, Writing
  <2>2. drive' = [drive EXCEPT ![d] = [files EXCEPT !["access"] = job[p].key]]
    BY <1>7 DEF WriteAccess, WriteDrive
  <2> QED
    BY <1>7, <1>d, <1>t, <2>1, <2>2, DriveTraced DEF WriteAccess, Drive
<1>8. CASE WriteQr(p) \/ WriteMaster(p)
  BY <1>8 DEF WriteQr, WriteMaster, Traced, Made
<1>9. CASE WriteLicense(p)
  <2>1. [author |-> Here(p).public, temp |-> job[p].key] \in Pair
    BY <1>9, <1>d DEF WriteLicense, Here, Drive, Pair, HasKeys, Writing
  <2> DEFINE new == [files EXCEPT !["license"] =
                        [author |-> Here(p).public, temp |-> job[p].key]]
  <2>2. new \in Drive
    BY <2>1, <1>d DEF Drive
  <2>3. drive' = [drive EXCEPT ![d] = new]
    BY <1>9 DEF WriteLicense, WriteDrive
  <2>4. new.public = files.public /\ new.store = files.store /\ new.records = files.records
    BY <1>d DEF Drive
  <2> HIDE DEF new
  <2> QED
    BY <1>9, <1>d, <1>t, <2>2, <2>3, <2>4, DriveTraced DEF WriteLicense
<1>10. CASE CopyPrograms(p)
  <2>1. [files EXCEPT !["inbox"] = "whole"] \in Drive
    BY <1>d DEF Drive
  <2>2. drive' = [drive EXCEPT ![d] = [files EXCEPT !["inbox"] = "whole"]]
    BY <1>10 DEF CopyPrograms, WriteDrive
  <2> QED
    BY <1>10, <1>d, <1>t, <2>1, <2>2, DriveTraced DEF CopyPrograms, Drive
<1>11. CASE WriteStore(p)
  <2>1. [author |-> files.public, temp |-> files.temp] \in Pair
    BY <1>11, <1>d DEF WriteStore, Here, Drive, Pair
  <2> DEFINE new == [files EXCEPT !.store = [author |-> files.public, temp |-> files.temp],
                                  !.records = {}]
  <2>2. new \in Drive
    BY <2>1, <1>d DEF Drive
  <2>3. drive' = [drive EXCEPT ![d] = new]
    BY <1>11 DEF WriteStore, Here
  <2>4. new.public = files.public /\ new.store.author = files.public /\ new.records = {}
    BY <1>d DEF Drive
  <2> HIDE DEF new
  <2> QED
    BY <1>11, <1>d, <1>t, <2>2, <2>3, <2>4, DriveTraced DEF WriteStore
<1> QED
  BY <1>1, <1>2, <1>3, <1>4, <1>5, <1>6, <1>7, <1>8, <1>9, <1>10, <1>11

LEMMA InboxTraced ==
    ASSUME AuthorInv, NEW i \in Inboxes, InboxStep(i)
    PROVE  Traced'
<1> USE DEF AuthorInv, DeployType, history
<1>d. inbox[i] \in Inbox /\ inbox[i].drive \in Drives /\ drive[inbox[i].drive] \in Drive
  BY DEF TypeOK, Inbox
<1>1. ASSUME NEW d \in Drives, StartInbox(i, d) PROVE Traced'
  <2>1. \A j \in Inboxes : inbox'[j].keys = IF j = i THEN drive[d].store ELSE inbox[j].keys
    BY <1>1 DEF StartInbox, TypeOK
  <2> QED
    BY <1>1, <2>1 DEF StartInbox, Traced, Made
<1>2. CASE CheckHeader(i)
  <2>1. \A j \in Inboxes : inbox'[j].keys = inbox[j].keys
    BY <1>2, <1>d DEF CheckHeader, TypeOK, Inbox
  <2> QED
    BY <1>2, <2>1 DEF CheckHeader, Traced, Made
<1>3. CASE Deliver(i)
  <2> DEFINE d == inbox[i].drive
             keys == inbox[i].keys
             new == [drive[d] EXCEPT !.records = @ \cup {keys}]
  <2>1. keys \in Pair /\ keys.author \in Made
    BY <1>3 DEF Deliver, HasKeys, Traced, Pair, Key, None
  <2>2. /\ new.public = drive[d].public /\ new.store = drive[d].store
        /\ new.records = drive[d].records \cup {keys}
    BY <1>d DEF Drive
  <2>3. \A e \in Drives : drive'[e] = IF e = d THEN new ELSE drive[e]
    BY <1>3, <1>d DEF Deliver, TypeOK
  <2>4. \A j \in Inboxes : inbox'[j].keys = inbox[j].keys
    BY <1>3, <1>d DEF Deliver, TypeOK, Inbox
  <2>5. job' = job /\ Made' = Made
    BY <1>3 DEF Deliver, Made
  <2> HIDE DEF new
  <2> QED
    BY <1>d, <2>1, <2>2, <2>3, <2>4, <2>5 DEF Traced
<1>4. CASE EndInbox(i)
  <2>1. \A j \in Inboxes : inbox'[j].keys = IF j = i THEN NoPair ELSE inbox[j].keys
    BY <1>4, <1>d DEF EndInbox, TypeOK, Inbox
  <2>2. NoPair.author = None
    BY DEF NoPair
  <2>3. \A j \in Inboxes : inbox'[j].keys.author \in Made \cup {None}
    BY <2>1, <2>2 DEF Traced
  <2>4. drive' = drive /\ job' = job /\ Made' = Made
    BY <1>4 DEF EndInbox, Made
  <2> QED
    BY <2>3, <2>4 DEF Traced
<1> QED
  BY <1>1, <1>2, <1>3, <1>4 DEF InboxStep

\* No other step makes a program one that may write a private key, or writes one.
LEMMA OthersUntouched ==
    ASSUME TypeOK,
           \/ \E p \in Deployers :
                \/ List(p) \/ Confirm(p)
                \/ \E f \in Part : ClearFile(p, f)
                \/ ClearInboxFails(p) \/ Cleared(p) \/ WritePublic(p) \/ WriteTemp(p)
                \/ WriteAccess(p) \/ WriteQr(p) \/ WriteLicense(p) \/ WriteMaster(p)
                \/ CopyPrograms(p) \/ WriteStore(p) \/ Stop(p)
           \/ \E i \in Inboxes : InboxStep(i)
    PROVE  /\ home' = home /\ shared' = shared
           /\ \A k \in Kits : kit'[k].private = kit[k].private
           /\ \A q \in Deployers, k \in Kits : MayWrite(q, k)' => MayWrite(q, k)
<1> USE DEF history, GoTo, MayWrite, TypeOK
<1>1. ASSUME NEW p \in Deployers, List(p) \/ \E f \in Part : ClearFile(p, f)
      PROVE  /\ home' = home /\ shared' = shared /\ kit' = kit
             /\ \A q \in Deployers, k \in Kits : MayWrite(q, k)' => MayWrite(q, k)
  <2>1. \A q \in Deployers : job'[q].kit = job[q].kit
    BY <1>1 DEF List, ClearFile, Job
  <2> QED
    BY <1>1, <2>1 DEF List, ClearFile
<1>2. ASSUME NEW p \in Deployers,
             \/ Confirm(p) \/ Cleared(p) \/ Stop(p) \/ ClearInboxFails(p)
             \/ WritePublic(p) \/ WriteTemp(p) \/ WriteAccess(p) \/ WriteLicense(p)
             \/ CopyPrograms(p) \/ WriteStore(p)
      PROVE  /\ home' = home /\ shared' = shared /\ kit' = kit
             /\ \A q \in Deployers, k \in Kits : MayWrite(q, k)' => MayWrite(q, k)
  <2>1. home' = home /\ shared' = shared /\ kit' = kit /\ job' = job
    BY <1>2 DEF Confirm, Cleared, Stop, ClearInboxFails, WritePublic, WriteTemp, WriteAccess,
                WriteLicense, CopyPrograms, WriteStore
  <2>2. \A q \in Deployers : pc'[q] = pc[q] \/ q = p
    BY <1>2 DEF Confirm, Cleared, Stop, ClearInboxFails, WritePublic, WriteTemp, WriteAccess,
                WriteLicense, CopyPrograms, WriteStore
  <2>3. \/ pc[p] = "confirm" \/ pc[p] = "clear"
        \/ pc'[p] \notin {"ask", "confirm", "clear", "private"}
    BY <1>2 DEF Confirm, Cleared, Stop, ClearInboxFails, WritePublic, WriteTemp, WriteAccess,
                WriteLicense, CopyPrograms, WriteStore
  <2> QED
    BY <2>1, <2>2, <2>3
<1>3. ASSUME NEW p \in Deployers, WriteQr(p) \/ WriteMaster(p)
      PROVE  /\ home' = home /\ shared' = shared
             /\ \A k \in Kits : kit'[k].private = kit[k].private
             /\ \A q \in Deployers, k \in Kits : MayWrite(q, k)' => MayWrite(q, k)
  <2>1. \A k \in Kits : kit'[k].private = kit[k].private
    <3>1. job[p].kit \in Kits /\ kit[job[p].kit] \in Kit
      BY DEF Job
    <3>2. CASE WriteQr(p)
      BY <3>1, <3>2 DEF WriteQr, Kit
    <3>3. CASE WriteMaster(p)
      <4> DEFINE new == [kit[job[p].kit] EXCEPT
                            !.master = [@ EXCEPT ![job[p].drive] = job[p].key]]
      <4>1. kit' = [kit EXCEPT ![job[p].kit] = new]
        BY <3>3 DEF WriteMaster
      <4>2. new.private = kit[job[p].kit].private
        BY <3>1 DEF Kit
      <4> HIDE DEF new
      <4> QED
        BY <3>1, <4>1, <4>2
    <3> QED
      BY <1>3, <3>2, <3>3
  <2> QED
    BY <1>3, <2>1 DEF WriteQr, WriteMaster
<1>4. ASSUME NEW i \in Inboxes, InboxStep(i)
      PROVE  home' = home /\ shared' = shared /\ kit' = kit /\ job' = job /\ pc' = pc
  BY <1>4 DEF InboxStep, StartInbox, CheckHeader, Deliver, EndInbox
<1> QED
  BY <1>1, <1>2, <1>3, <1>4

LEMMA AuthorStep == AuthorInv /\ [Next]_vars => AuthorInv'
<1> SUFFICES ASSUME AuthorInv, [Next]_vars PROVE Traced' /\ KitsKeep' /\ KitsFree'
  BY TypeStep DEF AuthorInv
<1>1. CASE UNCHANGED vars
  BY <1>1 DEF vars, history, AuthorInv, Traced, KitsKeep, KitsFree, Made, MayWrite
<1>2. ASSUME NEW p \in Deployers, DeployStep(p) PROVE Traced' /\ KitsKeep' /\ KitsFree'
  <2>1. CASE \E d \in Drives, k \in Kits : Choose(p, d, k)
    BY <2>1, AuthorChoose
  <2>2. CASE WritePrivate(p)
    BY <2>2, AuthorPrivate
  <2>3. CASE TearPrivate(p)
    BY <2>3, AuthorTear
  <2>4. CASE \/ List(p) \/ Confirm(p)
             \/ \E f \in Part : ClearFile(p, f)
             \/ ClearInboxFails(p) \/ Cleared(p) \/ WritePublic(p) \/ WriteTemp(p)
             \/ WriteAccess(p) \/ WriteQr(p) \/ WriteLicense(p) \/ WriteMaster(p)
             \/ CopyPrograms(p) \/ WriteStore(p) \/ Stop(p)
    <3>1. Traced'
      BY <2>4, DeployTraced
    <3>2. /\ home' = home /\ shared' = shared
          /\ \A k \in Kits : kit'[k].private = kit[k].private
          /\ \A q \in Deployers, k \in Kits : MayWrite(q, k)' => MayWrite(q, k)
      BY <2>4, OthersUntouched DEF AuthorInv, DeployType
    <3> QED
      BY <3>1, <3>2, Untouched DEF AuthorInv, DeployType, TypeOK
  <2> QED
    BY <1>2, <2>1, <2>2, <2>3, <2>4 DEF DeployStep
<1>3. ASSUME NEW i \in Inboxes, InboxStep(i) PROVE Traced' /\ KitsKeep' /\ KitsFree'
  <2>1. Traced'
    BY <1>3, InboxTraced
  <2>2. /\ home' = home /\ shared' = shared
        /\ \A k \in Kits : kit'[k].private = kit[k].private
        /\ \A q \in Deployers, k \in Kits : MayWrite(q, k)' => MayWrite(q, k)
    BY <1>3, OthersUntouched DEF AuthorInv, DeployType
  <2> QED
    BY <2>1, <2>2, Untouched DEF AuthorInv, DeployType, TypeOK
<1> QED
  BY <1>1, <1>2, <1>3 DEF Next

\* What was delivered can be read with a private key that some kit holds, for any
\* number of programs and deployments, whatever fails or ends.
THEOREM KeepsAuthor == Spec => []AuthorKept
<1>1. AuthorInv => AuthorKept
  BY DEF AuthorInv, AuthorKept, Traced, KitsKeep
<1> QED
  BY AuthorInit, AuthorStep, <1>1, PTL DEF Spec

-----------------------------------------------------------------------------
(* One deployment on a drive                                               *)

\* A program past its keys writes the key it made, into the kit it made it for.
Tied == \A p \in Deployers :
            pc[p] \in Writing \ {"private"} =>
                job[p].key \in Made /\ home[job[p].key] = job[p].kit

PastPublic == Writing \ {"private", "public"}
PastTemp == PastPublic \ {"temp"}
PastAccess == PastTemp \ {"access"}
PastQr == PastAccess \ {"qr"}
PastLicense == PastQr \ {"license"}
PastMaster == PastLicense \ {"master"}

\* What a program has written into its kit is there, unless the kit is shared.
KitDone ==
    \A p \in Deployers : job[p].kit \notin shared =>
        /\ pc[p] \in PastQr => kit[job[p].kit].qr = job[p].key
        /\ pc[p] \in PastMaster => kit[job[p].kit].master[job[p].drive] = job[p].key

\* What a program at work on the drive d has done to it.
Stage(p, d) ==
    LET key == job[p].key
        files == drive[d]
    IN  /\ pc[p] \in {"confirm", "clear"} => Present(d) \subseteq job[p].existing
        /\ pc[p] \in Writing =>
            /\ files.public = IF pc[p] \in PastPublic THEN key ELSE None
            /\ files.temp = IF pc[p] \in PastTemp THEN key ELSE None
            /\ files.access = IF pc[p] \in PastAccess THEN key ELSE None
            /\ files.license = IF pc[p] \in PastLicense
                               THEN [author |-> key, temp |-> key] ELSE NoPair
            /\ files.store = IF pc[p] = "lock"
                             THEN [author |-> key, temp |-> key] ELSE NoPair

Sole(d) == \A p, q \in Deployers : At(p, d) /\ At(q, d) => p = q

Stages(d) == \A p \in Deployers : At(p, d) => Stage(p, d)

\* The keys on the drive are those of one deployment.
SameKeys(d) ==
    \A k, l \in {drive[d].public, drive[d].temp, drive[d].access, drive[d].license.author,
                 drive[d].license.temp, drive[d].store.author, drive[d].store.temp} \ {None} :
        k = l

\* With a store on the drive, its kit is complete.
KitWhole(d) ==
    LET n == drive[d].store.author
    IN  n # None /\ home[n] \notin shared =>
            kit[home[n]].qr = n /\ kit[home[n]].master[d] = n

\* Delivery programs at work on the drive hold the keys of its store, and no deployment
\* gets past clearing it.
Used(d) ==
    \A i \in Inboxes : inbox[i].pc # "idle" /\ inbox[i].drive = d =>
        /\ drive[d].inbox # "none"
        /\ drive[d].store \in {inbox[i].keys, NoPair}
        /\ \A p \in Deployers : At(p, d) => pc[p] \in {"confirm", "clear", "lock"}

Match(d) == \A r \in drive[d].records : r = drive[d].store

Good(d) == Sole(d) /\ Stages(d) /\ SameKeys(d) /\ KitWhole(d) /\ Used(d) /\ Match(d)

OneInv ==
    /\ AuthorInv
    /\ Tied
    /\ KitDone
    /\ \A d \in Drives \ contended : Good(d)

\* What a deployment has made and written stays, unless its kit is shared.
KitsStay ==
    \A n \in Made :
        /\ n \in Made' /\ home'[n] = home[n]
        /\ home[n] \notin shared' =>
            /\ home[n] \notin shared
            /\ kit[home[n]].qr = n => kit'[home[n]].qr = n
            /\ \A d \in Drives : kit[home[n]].master[d] = n => kit'[home[n]].master[d] = n

\* What a step of p leaves alone.
LEMMA DeployFrame ==
    ASSUME TypeOK, NEW p \in Deployers, DeployStep(p)
    PROVE  /\ inbox' = inbox
           /\ \A q \in Deployers \ {p} : pc'[q] = pc[q] /\ job'[q] = job[q]
           /\ \A d \in Drives \ {job[p].drive} : drive'[d] = drive[d]
           /\ shared \subseteq shared' /\ contended \subseteq contended'
<1> USE DEF TypeOK, GoTo, history, WriteDrive
<1>1. CASE \E d \in Drives, k \in Kits : Choose(p, d, k)
  BY <1>1 DEF Choose
<1>2. CASE List(p) \/ Confirm(p) \/ (\E f \in Part : ClearFile(p, f)) \/ ClearInboxFails(p)
  BY <1>2 DEF List, Confirm, ClearFile, ClearInboxFails
<1>3. CASE Cleared(p) \/ WritePrivate(p) \/ WriteQr(p) \/ WriteMaster(p) \/ Stop(p)
           \/ TearPrivate(p)
  BY <1>3 DEF Cleared, WritePrivate, WriteQr, WriteMaster, Stop, TearPrivate
<1>4. CASE WritePublic(p) \/ WriteTemp(p) \/ WriteAccess(p)
  BY <1>4 DEF WritePublic, WriteTemp, WriteAccess
<1>5. CASE WriteLicense(p) \/ CopyPrograms(p) \/ WriteStore(p)
  BY <1>5 DEF WriteLicense, CopyPrograms, WriteStore
<1> QED
  BY <1>1, <1>2, <1>3, <1>4, <1>5 DEF DeployStep

LEMMA KitsStayStep == OneInv /\ [Next]_vars => KitsStay
<1> SUFFICES ASSUME OneInv, [Next]_vars PROVE KitsStay
  OBVIOUS
<1>t. TypeOK /\ home \in Seq(Kits) /\ \A n \in Made : home[n] \in Kits
  BY DEF OneInv, AuthorInv, DeployType, TypeOK, Made
<1>1. ASSUME kit' = kit, home' = home, shared \subseteq shared' PROVE KitsStay
  BY <1>1 DEF KitsStay, Made
<1>2. CASE UNCHANGED vars
  BY <1>1, <1>2 DEF vars, history
<1>3. ASSUME NEW i \in Inboxes, InboxStep(i) PROVE KitsStay
  BY <1>1, <1>3 DEF InboxStep, StartInbox, CheckHeader, Deliver, EndInbox, history
<1>4. ASSUME NEW p \in Deployers, DeployStep(p) PROVE KitsStay
  <2> DEFINE k == job[p].kit
  <2>d. k \in Kits /\ kit[k] \in Kit /\ job[p].drive \in Drives
    BY <1>t DEF TypeOK, Job
  <2>1. CASE WritePrivate(p) \/ TearPrivate(p)
    <3>1. PICK x : kit' = [kit EXCEPT ![k] = [kit[k] EXCEPT !.private = x]]
      BY <2>1 DEF WritePrivate, TearPrivate
    <3>2. \A l \in Kits : kit'[l].qr = kit[l].qr /\ kit'[l].master = kit[l].master
      BY <1>t, <2>d, <3>1 DEF TypeOK, Kit
    <3>3. shared' = shared /\ (home' = home \/ home' = Append(home, k))
      BY <2>1 DEF WritePrivate, TearPrivate, history
    <3>4. \A n \in Made : n \in Made' /\ home'[n] = home[n]
      BY <1>t, <2>d, <3>3 DEF Made
    <3> QED
      BY <1>t, <3>2, <3>3, <3>4 DEF KitsStay
  <2>2. CASE WriteQr(p) \/ WriteMaster(p)
    <3>1. home' = home /\ shared' = shared /\ job[p].key \in Made /\ home[job[p].key] = k
      BY <2>2 DEF WriteQr, WriteMaster, history, OneInv, Tied, Writing
    <3>2. ASSUME NEW n \in Made, home[n] \notin shared, home[n] = k PROVE job[p].key = n
      BY <3>1, <3>2 DEF OneInv, AuthorInv, KitsKeep
    <3>3. CASE WriteQr(p)
      <4> DEFINE new == [kit[k] EXCEPT !.qr = job[p].key]
      <4>1. kit' = [kit EXCEPT ![k] = new]
        BY <3>3 DEF WriteQr
      <4>2. new.qr = job[p].key /\ new.master = kit[k].master
        BY <2>d DEF Kit
      <4> HIDE DEF new
      <4>3. \A l \in Kits : kit'[l] = IF l = k THEN new ELSE kit[l]
        BY <1>t, <4>1 DEF TypeOK
      <4> HIDE DEF k
      <4>4. ASSUME NEW n \in Made, home[n] \notin shared
            PROVE  /\ kit[home[n]].qr = n => kit'[home[n]].qr = n
                   /\ kit'[home[n]].master = kit[home[n]].master
        <5>1. CASE home[n] = k
          BY <1>t, <2>d, <3>2, <4>2, <4>3, <4>4, <5>1
        <5>2. CASE home[n] # k
          BY <1>t, <4>3, <5>2
        <5> QED
          BY <5>1, <5>2
      <4> QED
        BY <3>1, <4>4 DEF KitsStay, Made
    <3>4. CASE WriteMaster(p)
      <4> DEFINE master == [kit[k].master EXCEPT ![job[p].drive] = job[p].key]
                 new == [kit[k] EXCEPT !.master = master]
      <4>1. kit' = [kit EXCEPT ![k] = new]
        BY <3>4 DEF WriteMaster
      <4>2. new.qr = kit[k].qr /\ new.master = master
        BY <2>d DEF Kit
      <4>3. \A d \in Drives : master[d] = IF d = job[p].drive THEN job[p].key
                                                              ELSE kit[k].master[d]
        BY <2>d DEF Kit
      <4> HIDE DEF new, master
      <4>4. \A l \in Kits : kit'[l] = IF l = k THEN new ELSE kit[l]
        BY <1>t, <4>1 DEF TypeOK
      <4> HIDE DEF k
      <4>5. ASSUME NEW n \in Made, home[n] \notin shared
            PROVE  /\ kit'[home[n]].qr = kit[home[n]].qr
                   /\ \A d \in Drives : kit[home[n]].master[d] = n => kit'[home[n]].master[d] = n
        <5>1. CASE home[n] = k
          BY <1>t, <2>d, <3>2, <4>2, <4>3, <4>4, <4>5, <5>1
        <5>2. CASE home[n] # k
          BY <1>t, <4>4, <5>2
        <5> QED
          BY <5>1, <5>2
      <4> QED
        BY <3>1, <4>5 DEF KitsStay, Made
    <3> QED
      BY <2>2, <3>3, <3>4
  <2>3. CASE \/ \E d \in Drives, l \in Kits : Choose(p, d, l)
             \/ List(p) \/ Confirm(p) \/ (\E f \in Part : ClearFile(p, f))
             \/ ClearInboxFails(p) \/ Cleared(p) \/ Stop(p)
             \/ WritePublic(p) \/ WriteTemp(p) \/ WriteAccess(p) \/ WriteLicense(p)
             \/ CopyPrograms(p) \/ WriteStore(p)
    <3>1. kit' = kit /\ home' = home
      BY <2>3 DEF Choose, List, Confirm, ClearFile, ClearInboxFails, Cleared, Stop, WritePublic,
                  WriteTemp, WriteAccess, WriteLicense, CopyPrograms, WriteStore, history
    <3> QED
      BY <1>1, <1>4, <1>t, <3>1, DeployFrame
  <2> QED
    BY <1>4, <2>1, <2>2, <2>3 DEF DeployStep
<1> QED
  BY <1>2, <1>3, <1>4 DEF Next

LEMMA KitDoneStep == OneInv /\ [Next]_vars => Tied' /\ KitDone'
<1> SUFFICES ASSUME OneInv, [Next]_vars PROVE Tied' /\ KitDone'
  OBVIOUS
<1>t. TypeOK /\ home \in Seq(Kits)
  BY DEF OneInv, AuthorInv, DeployType, TypeOK
<1>s. KitsStay
  BY KitsStayStep
<1> DEFINE Ok(q) ==
             /\ pc'[q] \in Writing \ {"private"} =>
                    job'[q].key \in Made' /\ home'[job'[q].key] = job'[q].kit
             /\ job'[q].kit \notin shared' =>
                    /\ pc'[q] \in PastQr => kit'[job'[q].kit].qr = job'[q].key
                    /\ pc'[q] \in PastMaster =>
                            kit'[job'[q].kit].master[job'[q].drive] = job'[q].key
\* A program that stays where it is, or goes on without a change of its kit.
<1>q. ASSUME NEW q \in Deployers, job'[q] = job[q], shared \subseteq shared',
             pc'[q] \in Writing \ {"private"} => pc[q] \in Writing \ {"private"},
             pc'[q] \in PastQr => pc[q] \in PastQr,
             pc'[q] \in PastMaster => pc[q] \in PastMaster
      PROVE  Ok(q)
  <2>1. CASE pc'[q] \notin Writing \ {"private"}
    BY <2>1 DEF PastQr, PastMaster, PastLicense, PastAccess, PastTemp, PastPublic
  <2>2. CASE pc'[q] \in Writing \ {"private"}
    <3>1. job[q].key \in Made /\ home[job[q].key] = job[q].kit /\ job[q].drive \in Drives
      BY <1>q, <1>t, <2>2 DEF OneInv, Tied, TypeOK, Job
    <3> QED
      BY <1>q, <1>s, <3>1 DEF OneInv, KitDone, KitsStay
  <2> QED
    BY <2>1, <2>2
<1>1. CASE UNCHANGED vars
  BY <1>1, <1>q DEF vars, history, Tied, KitDone
<1>2. ASSUME NEW i \in Inboxes, InboxStep(i) PROVE Tied' /\ KitDone'
  <2>1. pc' = pc /\ job' = job /\ shared' = shared
    BY <1>2 DEF InboxStep, StartInbox, CheckHeader, Deliver, EndInbox, history
  <2> QED
    BY <1>q, <2>1 DEF Tied, KitDone
<1>3. ASSUME NEW p \in Deployers, DeployStep(p) PROVE Tied' /\ KitDone'
  <2>f. shared \subseteq shared'
        /\ \A q \in Deployers \ {p} : pc'[q] = pc[q] /\ job'[q] = job[q]
    BY <1>3, <1>t, DeployFrame
  <2>d. job[p] \in Job /\ job[p].kit \in Kits /\ job[p].drive \in Drives
        /\ kit[job[p].kit] \in Kit
    BY <1>t DEF TypeOK, Job
  <2>1. ASSUME \/ \E d \in Drives, l \in Kits : Choose(p, d, l)
               \/ List(p) \/ Confirm(p) \/ (\E f \in Part : ClearFile(p, f))
               \/ ClearInboxFails(p) \/ Cleared(p) \/ Stop(p) \/ TearPrivate(p)
        PROVE  Ok(p)
    <3>1. pc'[p] \notin Writing \ {"private"}
      BY <1>t, <2>1 DEF Choose, List, Confirm, ClearFile, ClearInboxFails, Cleared, Stop,
                        TearPrivate, GoTo, TypeOK, Writing
    <3> QED
      BY <3>1 DEF PastQr, PastMaster, PastLicense, PastAccess, PastTemp, PastPublic
  <2>2. ASSUME WritePrivate(p) PROVE Ok(p)
    <3>1. /\ job' = [job EXCEPT ![p] = [job[p] EXCEPT !.key = Len(home) + 1]]
          /\ home' = Append(home, job[p].kit) /\ pc'[p] = "public"
      BY <1>t, <2>2 DEF WritePrivate, GoTo, TypeOK
    <3>2. job'[p].key = Len(home) + 1 /\ job'[p].kit = job[p].kit
      BY <1>t, <2>d, <3>1 DEF TypeOK, Job
    <3>3. job'[p].key \in Made' /\ home'[job'[p].key] = job'[p].kit
      BY <1>t, <2>d, <3>1, <3>2 DEF Made
    <3> QED
      BY <3>1, <3>3 DEF PastQr, PastMaster, PastLicense, PastAccess, PastTemp, PastPublic
  <2>3. ASSUME \/ WritePublic(p) \/ WriteTemp(p) \/ WriteAccess(p) \/ WriteLicense(p)
               \/ CopyPrograms(p) \/ WriteStore(p)
        PROVE  Ok(p)
    <3>1. job' = job /\ pc[p] \in Writing \ {"private"}
      BY <2>3 DEF WritePublic, WriteTemp, WriteAccess, WriteLicense, CopyPrograms, WriteStore,
                  Writing
    <3>2. /\ pc'[p] \in PastQr => pc[p] \in PastQr
          /\ pc'[p] \in PastMaster => pc[p] \in PastMaster
      BY <1>t, <2>3 DEF WritePublic, WriteTemp, WriteAccess, WriteLicense, CopyPrograms,
                        WriteStore, GoTo, TypeOK, Writing, PastQr, PastMaster, PastLicense,
                        PastAccess, PastTemp, PastPublic
    <3> QED
      BY <1>q, <2>f, <3>1, <3>2
  <2>4. ASSUME WriteQr(p) \/ WriteMaster(p) PROVE Ok(p)
    <3>1. /\ job' = job /\ home' = home /\ shared' = shared
          /\ job[p].key \in Made /\ home[job[p].key] = job[p].kit
      BY <2>4 DEF WriteQr, WriteMaster, history, OneInv, Tied, Writing
    <3>2. CASE WriteQr(p)
      <4>1. pc'[p] = "license" /\ kit'[job[p].kit].qr = job[p].key
        BY <1>t, <2>d, <3>2 DEF WriteQr, GoTo, TypeOK, Kit
      <4> QED
        BY <3>1, <4>1 DEF Made, PastQr, PastMaster, PastLicense, PastAccess, PastTemp, PastPublic
    <3>3. CASE WriteMaster(p)
      <4>1. pc[p] = "master" /\ pc'[p] = "programs"
        BY <1>t, <3>3 DEF WriteMaster, GoTo, TypeOK
      <4> DEFINE master == [kit[job[p].kit].master EXCEPT ![job[p].drive] = job[p].key]
                 new == [kit[job[p].kit] EXCEPT !.master = master]
      <4>2. kit' = [kit EXCEPT ![job[p].kit] = new]
        BY <3>3 DEF WriteMaster
      <4>3. /\ new.master = master /\ new.qr = kit[job[p].kit].qr
            /\ master[job[p].drive] = job[p].key
        BY <2>d DEF Kit
      <4> HIDE DEF new, master
      <4>4. kit'[job[p].kit] = new
        BY <1>t, <2>d, <4>2 DEF TypeOK
      <4>5. job[p].kit \notin shared => kit[job[p].kit].qr = job[p].key
        BY <4>1 DEF OneInv, KitDone, PastQr, PastAccess, PastTemp, PastPublic, Writing
      <4> QED
        BY <3>1, <4>3, <4>4, <4>5 DEF Made
    <3> QED
      BY <2>4, <3>2, <3>3
  <2>5. Ok(p)
    BY <1>3, <2>1, <2>2, <2>3, <2>4 DEF DeployStep
  <2>6. \A q \in Deployers \ {p} : Ok(q)
    BY <1>q, <2>f
  <2> QED
    BY <2>5, <2>6 DEF Tied, KitDone
<1> QED
  BY <1>1, <1>2, <1>3 DEF Next

\* The kit of a store that was there before stays whole.
LEMMA KitWholeStays ==
    ASSUME OneInv, KitsStay, NEW d \in Drives, KitWhole(d),
           drive'[d].store.author \in {drive[d].store.author, None}
    PROVE  KitWhole(d)'
<1> SUFFICES ASSUME drive'[d].store.author # None,
                    home'[drive'[d].store.author] \notin shared'
             PROVE  LET n == drive'[d].store.author
                    IN  kit'[home'[n]].qr = n /\ kit'[home'[n]].master[d] = n
  BY DEF KitWhole
<1> DEFINE n == drive[d].store.author
<1>1. drive'[d].store.author = n /\ n # None /\ n \in Made
  BY DEF OneInv, AuthorInv, Traced
<1>2. home'[n] = home[n] /\ home[n] \notin shared
  BY <1>1 DEF KitsStay
<1> QED
  BY <1>1, <1>2 DEF KitWhole, KitsStay

\* A drive that a step leaves alone, with everyone at work on it.
LEMMA GoodFrame ==
    ASSUME OneInv, KitsStay, NEW d \in Drives, Good(d), drive'[d] = drive[d], inbox' = inbox,
           \A q \in Deployers : At(q, d)' => At(q, d) /\ pc'[q] = pc[q] /\ job'[q] = job[q]
    PROVE  Good(d)'
<1>1. Sole(d)'
  BY DEF Good, Sole
<1>2. Stages(d)'
  BY DEF Good, Stages, Stage, Present
<1>3. SameKeys(d)' /\ Match(d)'
  BY DEF Good, SameKeys, Match
<1>4. KitWhole(d)'
  BY KitWholeStays DEF Good
<1>5. Used(d)'
  BY DEF Good, Used
<1> QED
  BY <1>1, <1>2, <1>3, <1>4, <1>5 DEF Good

\* A step of the only program at work on the drive.
LEMMA OwnStep ==
    ASSUME NEW p \in Deployers, NEW d \in Drives, Sole(d), At(p, d), At(p, d)',
           \A q \in Deployers \ {p} : pc'[q] = pc[q] /\ job'[q] = job[q], Stage(p, d)'
    PROVE  Sole(d)' /\ Stages(d)' /\ (\A q \in Deployers : At(q, d)' => q = p)
<1>1. \A q \in Deployers : At(q, d)' => q = p
  BY DEF Sole, At
<1> QED
  BY <1>1 DEF Sole, Stages

\* With a delivery program at work no deployment writes to the drive; without one, and
\* with no record, what is on the drive is one deployment's as far as it has come.
LEMMA WritingGood ==
    ASSUME OneInv, KitsStay, NEW p \in Deployers, NEW d \in Drives, d \notin contended,
           At(p, d), At(p, d)', pc'[p] \in Writing, inbox' = inbox,
           pc[p] \in Writing \ {"lock"} \/ (pc[p] = "clear" /\ drive[d].inbox = "none"),
           drive[d].store = NoPair, drive'[d].records \subseteq drive[d].records,
           \A q \in Deployers \ {p} : pc'[q] = pc[q] /\ job'[q] = job[q],
           Stage(p, d)', KitWhole(d)'
    PROVE  Good(d)'
<1>0. Good(d) /\ drive[d].records \subseteq Pair
  BY DEF OneInv, AuthorInv, DeployType, TypeOK, Drive
<1>1. Sole(d)' /\ Stages(d)'
  BY <1>0, OwnStep DEF Good
<1>2. SameKeys(d)'
  BY DEF Stage, SameKeys, NoPair
<1>3. Match(d)'
  <2>1. NoPair \notin Pair
    BY DEF NoPair, Pair, Key, None
  <2> QED
    BY <1>0, <2>1 DEF Good, Match
<1>4. Used(d)'
  <2>1. \A i \in Inboxes : ~(inbox[i].pc # "idle" /\ inbox[i].drive = d)
    BY <1>0 DEF Good, Used, Writing
  <2> QED
    BY <2>1 DEF Used
<1> QED
  BY <1>1, <1>2, <1>3, <1>4 DEF Good

\* The drive has been cleared.
LEMMA ClearedGood ==
    ASSUME OneInv, KitsStay, NEW p \in Deployers, NEW d \in Drives, d \notin contended,
           d = job[p].drive, Cleared(p)
    PROVE  Good(d)'
<1>t. TypeOK /\ drive[d] \in Drive /\ Good(d)
  BY DEF OneInv, AuthorInv, DeployType, TypeOK
<1>1. /\ pc[p] = "clear" /\ pc'[p] = "private" /\ drive' = drive /\ job' = job
      /\ inbox' = inbox /\ job[p].existing = {}
      /\ \A q \in Deployers \ {p} : pc'[q] = pc[q]
  BY <1>t DEF Cleared, GoTo, history, TypeOK
<1>2. At(p, d) /\ At(p, d)'
  BY <1>1 DEF At
<1>3. Present(d) \subseteq {}
  BY <1>t, <1>1, <1>2 DEF Good, Stages, Stage
<1>4. /\ drive[d].public = None /\ drive[d].temp = None /\ drive[d].access = None
      /\ drive[d].license = NoPair /\ drive[d].store = NoPair /\ drive[d].inbox = "none"
  <2>1. \A f \in Part : drive[d][f] = Blank[f]
    BY <1>3 DEF Present
  <2> QED
    BY <2>1 DEF Part, Blank
<1>5. Stage(p, d)'
  BY <1>1, <1>4 DEF Stage, PastPublic, PastTemp, PastAccess, PastQr, PastLicense, PastMaster
<1>6. KitWhole(d)'
  BY <1>1, <1>t, KitWholeStays DEF Good
<1> QED
  BY <1>1, <1>2, <1>4, <1>5, <1>6, WritingGood DEF Writing

\* The drive has been listed, and everything on it is to be deleted.
LEMMA ListGood ==
    ASSUME OneInv, KitsStay, NEW p \in Deployers, NEW d \in Drives, d \notin contended',
           d = job[p].drive, List(p), Good(d)
    PROVE  Good(d)'
<1>t. TypeOK /\ job[p] \in Job
  BY DEF OneInv, AuthorInv, DeployType, TypeOK
<1>1. /\ pc[p] = "ask" /\ pc'[p] = "confirm" /\ drive' = drive /\ inbox' = inbox
      /\ \A q \in Deployers \ {p} : pc'[q] = pc[q] /\ job'[q] = job[q]
      /\ \A q \in Deployers \ {p} : ~At(q, d)
  BY <1>t DEF List, GoTo, TypeOK
<1>2. job'[p].existing = Present(d) /\ job'[p].drive = d
  <2>1. job'[p] = [job[p] EXCEPT !.existing = Present(d)]
    BY <1>t DEF List, TypeOK
  <2> QED
    BY <1>t, <2>1 DEF Job
<1>3. \A q \in Deployers : At(q, d)' => q = p
  BY <1>1 DEF At
<1>4. Stage(p, d)'
  BY <1>1, <1>2 DEF Stage, Present, Writing
<1>5. Sole(d)' /\ Stages(d)'
  BY <1>3, <1>4 DEF Sole, Stages
<1>6. SameKeys(d)' /\ Match(d)'
  BY <1>1 DEF Good, SameKeys, Match
<1>7. KitWhole(d)'
  BY <1>1, KitWholeStays DEF Good
<1>8. Used(d)'
  BY <1>1, <1>3 DEF Good, Used
<1> QED
  BY <1>5, <1>6, <1>7, <1>8 DEF Good

\* Clearing one file leaves the others.
LEMMA ClearFields ==
    ASSUME NEW files \in Drive, NEW f \in Part
    PROVE  /\ \A g \in Part : Without(files, f)[g] = IF g = f THEN Blank[f] ELSE files[g]
           /\ f = "store" => Without(files, f).records = {}
           /\ f # "store" => Without(files, f).records = files.records
<1>1. CASE f = "public"
  BY <1>1 DEF Without, Drive, Part
<1>2. CASE f = "temp"
  BY <1>2 DEF Without, Drive, Part
<1>3. CASE f = "access"
  BY <1>3 DEF Without, Drive, Part
<1>4. CASE f = "license"
  BY <1>4 DEF Without, Drive, Part
<1>5. CASE f = "inbox"
  BY <1>5 DEF Without, Drive, Part
<1>6. CASE f = "store"
  BY <1>6 DEF Without, Drive, Part
<1> QED
  BY <1>1, <1>2, <1>3, <1>4, <1>5, <1>6 DEF Part

\* The steps of clearing the drive.
LEMMA ClearGood ==
    ASSUME OneInv, KitsStay, NEW p \in Deployers, NEW d \in Drives, d \notin contended,
           d = job[p].drive,
           Confirm(p) \/ (\E f \in Part : ClearFile(p, f)) \/ ClearInboxFails(p)
    PROVE  Good(d)'
<1>t. TypeOK /\ drive[d] \in Drive /\ Good(d) /\ job[p] \in Job
  BY DEF OneInv, AuthorInv, DeployType, TypeOK
<1>1. /\ pc[p] \in {"confirm", "clear"} /\ inbox' = inbox
      /\ \A q \in Deployers \ {p} : pc'[q] = pc[q] /\ job'[q] = job[q]
  BY <1>t DEF Confirm, ClearFile, ClearInboxFails, GoTo, TypeOK, history
<1>2. At(p, d)
  BY <1>1 DEF At
<1>3. CASE Confirm(p)
  <2>1. pc'[p] = "clear" /\ drive' = drive /\ job' = job
    BY <1>3, <1>t DEF Confirm, GoTo, TypeOK, history
  <2>2. At(p, d)' /\ Stage(p, d)'
    BY <1>1, <1>2, <1>t, <2>1 DEF At, Good, Stages, Stage, Present, Writing
  <2>3. Sole(d)' /\ Stages(d)' /\ (\A q \in Deployers : At(q, d)' => q = p)
    BY <1>1, <1>2, <1>t, <2>2, OwnStep DEF Good
  <2>4. KitWhole(d)'
    BY <1>t, <2>1, KitWholeStays DEF Good
  <2> QED
    BY <1>1, <1>t, <2>1, <2>3, <2>4 DEF Good, SameKeys, Match, Used
<1>4. ASSUME NEW f \in Part, ClearFile(p, f) PROVE Good(d)'
  <2> DEFINE new == Without(drive[d], f)
  <2>1. /\ drive'[d] = new /\ pc' = pc
        /\ f = "inbox" => ~InUse(d)
        /\ job' = [job EXCEPT ![p] = [job[p] EXCEPT !.existing = job[p].existing \ {f}]]
    BY <1>4, <1>t DEF ClearFile, TypeOK, history
  <2>2. job'[p].existing = job[p].existing \ {f} /\ job'[p].drive = d
    BY <1>t, <2>1 DEF Job, TypeOK
  <2>3. /\ \A g \in Part : new[g] = IF g = f THEN Blank[f] ELSE drive[d][g]
        /\ f = "store" => new.records = {}
        /\ f # "store" => new.records = drive[d].records
    BY <1>t, ClearFields
  <2> HIDE DEF new
  <2>4. Present(d)' = Present(d) \ {f}
    BY <2>1, <2>3 DEF Present
  <2>5. At(p, d)' /\ Stage(p, d)'
    BY <1>1, <1>2, <1>t, <2>1, <2>2, <2>4 DEF At, Good, Stages, Stage, Writing
  <2>6. Sole(d)' /\ Stages(d)' /\ (\A q \in Deployers : At(q, d)' => q = p)
    BY <1>1, <1>2, <1>t, <2>5, OwnStep DEF Good
  <2>7. /\ new.public \in {drive[d].public, None} /\ new.temp \in {drive[d].temp, None}
        /\ new.access \in {drive[d].access, None} /\ new.license \in {drive[d].license, NoPair}
        /\ new.store \in {drive[d].store, NoPair}
        /\ f # "inbox" => new.inbox = drive[d].inbox
    BY <2>3 DEF Part, Blank
  <2>8. SameKeys(d)'
    BY <1>t, <2>1, <2>7 DEF Good, SameKeys, NoPair
  <2>9. KitWhole(d)'
    BY <1>t, <2>1, <2>7, KitWholeStays DEF Good, NoPair
  <2>10. Match(d)'
    <3>1. CASE f = "store"
      BY <2>1, <2>3, <3>1 DEF Match
    <3>2. CASE f # "store"
      <4>1. new.store = drive[d].store
        BY <2>3, <3>2 DEF Part
      <4> QED
        BY <1>t, <2>1, <2>3, <3>2, <4>1 DEF Good, Match
    <3> QED
      BY <3>1, <3>2
  <2>11. Used(d)'
    <3> SUFFICES ASSUME NEW i \in Inboxes, inbox[i].pc # "idle", inbox[i].drive = d
                 PROVE  /\ new.inbox # "none"
                        /\ new.store \in {inbox[i].keys, NoPair}
                        /\ \A q \in Deployers : At(q, d)' =>
                                pc'[q] \in {"confirm", "clear", "lock"}
      BY <1>1, <2>1 DEF Used
    <3>1. InUse(d)
      BY DEF InUse
    <3>2. drive[d].inbox # "none" /\ drive[d].store \in {inbox[i].keys, NoPair}
      BY <1>t DEF Good, Used
    <3> QED
      BY <1>1, <2>1, <2>6, <2>7, <3>1, <3>2
  <2> QED
    BY <2>6, <2>8, <2>9, <2>10, <2>11 DEF Good
<1>5. CASE ClearInboxFails(p)
  <2> DEFINE new == [drive[d] EXCEPT !["inbox"] = "broken"]
  <2>1. drive'[d] = new /\ pc'[p] = "idle"
    BY <1>5, <1>t DEF ClearInboxFails, WriteDrive, GoTo, TypeOK
  <2>2. /\ new.public = drive[d].public /\ new.temp = drive[d].temp
        /\ new.access = drive[d].access /\ new.license = drive[d].license
        /\ new.store = drive[d].store /\ new.records = drive[d].records
        /\ new.inbox = "broken"
    BY <1>t DEF Drive
  <2> HIDE DEF new
  <2>3. \A q \in Deployers : ~At(q, d)'
    BY <1>1, <1>2, <1>t, <2>1 DEF Good, Sole, At
  <2>4. Sole(d)' /\ Stages(d)'
    BY <2>3 DEF Sole, Stages
  <2>5. SameKeys(d)' /\ Match(d)'
    BY <1>t, <2>1, <2>2 DEF Good, SameKeys, Match
  <2>6. KitWhole(d)'
    BY <1>t, <2>1, <2>2, KitWholeStays DEF Good
  <2>7. Used(d)'
    BY <1>1, <1>t, <2>1, <2>2, <2>3 DEF Good, Used
  <2> QED
    BY <2>4, <2>5, <2>6, <2>7 DEF Good
<1> QED
  BY <1>3, <1>4, <1>5

\* The keys, and what goes into the kit.
LEMMA KitStepsGood ==
    ASSUME OneInv, KitsStay, NEW p \in Deployers, NEW d \in Drives, d \notin contended,
           d = job[p].drive,
           WritePrivate(p) \/ WriteQr(p) \/ WriteMaster(p) \/ CopyPrograms(p)
    PROVE  Good(d)'
<1>t. TypeOK /\ drive[d] \in Drive /\ Good(d) /\ job[p] \in Job
  BY DEF OneInv, AuthorInv, DeployType, TypeOK
<1>1. /\ pc[p] \in Writing \ {"lock"} /\ inbox' = inbox
      /\ \A q \in Deployers \ {p} : pc'[q] = pc[q] /\ job'[q] = job[q]
  BY <1>t DEF WritePrivate, WriteQr, WriteMaster, CopyPrograms, GoTo, TypeOK, history, Writing
<1>2. At(p, d) /\ Stage(p, d)
  BY <1>1, <1>t DEF At, Good, Stages, Writing
<1>3. drive[d].store = NoPair
  BY <1>1, <1>2 DEF Stage
<1>4. /\ drive'[d].public = drive[d].public /\ drive'[d].temp = drive[d].temp
      /\ drive'[d].access = drive[d].access /\ drive'[d].license = drive[d].license
      /\ drive'[d].store = drive[d].store /\ drive'[d].records = drive[d].records
  <2>1. CASE CopyPrograms(p)
    <3>1. drive'[d] = [drive[d] EXCEPT !["inbox"] = "whole"]
      BY <1>t, <2>1 DEF CopyPrograms, WriteDrive, TypeOK
    <3> QED
      BY <1>t, <3>1 DEF Drive
  <2>2. CASE WritePrivate(p) \/ WriteQr(p) \/ WriteMaster(p)
    BY <2>2 DEF WritePrivate, WriteQr, WriteMaster
  <2> QED
    BY <2>1, <2>2
<1>5. KitWhole(d)'
  BY <1>4, <1>t, KitWholeStays DEF Good
<1>6. pc'[p] \in Writing /\ job'[p].drive = d /\ Stage(p, d)'
  <2>1. CASE WritePrivate(p)
    <3>1. pc[p] = "private" /\ pc'[p] = "public"
          /\ job'[p] = [job[p] EXCEPT !.key = Len(home) + 1]
      BY <1>t, <2>1 DEF WritePrivate, GoTo, TypeOK
    <3>2. job'[p].drive = d
      BY <1>t, <3>1 DEF Job
    <3> QED
      BY <1>2, <1>4, <3>1, <3>2 DEF Stage, Writing, PastPublic, PastTemp, PastAccess, PastQr,
                                    PastLicense, PastMaster
  <2>2. CASE WriteQr(p)
    <3>1. pc[p] = "qr" /\ pc'[p] = "license" /\ job' = job
      BY <1>t, <2>2 DEF WriteQr, GoTo, TypeOK
    <3> QED
      BY <1>2, <1>4, <3>1 DEF Stage, Writing, PastPublic, PastTemp, PastAccess, PastQr,
                              PastLicense, PastMaster
  <2>3. CASE WriteMaster(p)
    <3>1. pc[p] = "master" /\ pc'[p] = "programs" /\ job' = job
      BY <1>t, <2>3 DEF WriteMaster, GoTo, TypeOK
    <3> QED
      BY <1>2, <1>4, <3>1 DEF Stage, Writing, PastPublic, PastTemp, PastAccess, PastQr,
                              PastLicense, PastMaster
  <2>4. CASE CopyPrograms(p)
    <3>1. pc[p] = "programs" /\ pc'[p] = "store" /\ job' = job
      BY <1>t, <2>4 DEF CopyPrograms, GoTo, TypeOK
    <3> QED
      BY <1>2, <1>4, <3>1 DEF Stage, Writing, PastPublic, PastTemp, PastAccess, PastQr,
                              PastLicense, PastMaster
  <2> QED
    BY <2>1, <2>2, <2>3, <2>4
<1>7. At(p, d)'
  BY <1>6 DEF At, Writing
<1> QED
  BY <1>1, <1>2, <1>3, <1>4, <1>5, <1>6, <1>7, WritingGood

\* The keys and the license on the drive.
LEMMA DriveStepsGood ==
    ASSUME OneInv, KitsStay, NEW p \in Deployers, NEW d \in Drives, d \notin contended,
           d = job[p].drive,
           WritePublic(p) \/ WriteTemp(p) \/ WriteAccess(p) \/ WriteLicense(p)
    PROVE  Good(d)'
<1> DEFINE key == job[p].key
           files == drive[d]
<1>t. TypeOK /\ files \in Drive /\ Good(d)
  BY DEF OneInv, AuthorInv, DeployType, TypeOK
<1>1. /\ pc[p] \in Writing \ {"lock"} /\ inbox' = inbox /\ job' = job
      /\ \A q \in Deployers \ {p} : pc'[q] = pc[q]
  BY <1>t DEF WritePublic, WriteTemp, WriteAccess, WriteLicense, GoTo, TypeOK, history, Writing
<1>2. At(p, d) /\ Stage(p, d)
  BY <1>1, <1>t DEF At, Good, Stages, Writing
<1>3. files.store = NoPair
  BY <1>1, <1>2 DEF Stage
<1>4. /\ pc'[p] \in Writing /\ Stage(p, d)'
      /\ drive'[d].store = files.store /\ drive'[d].records = files.records
  <2>1. CASE WritePublic(p)
    <3> DEFINE new == [files EXCEPT !["public"] = key]
    <3>1. pc[p] = "public" /\ pc'[p] = "temp" /\ drive'[d] = new
      BY <1>t, <2>1 DEF WritePublic, WriteDrive, GoTo, TypeOK
    <3>2. /\ new.public = key /\ new.temp = files.temp /\ new.access = files.access
          /\ new.license = files.license /\ new.store = files.store
          /\ new.records = files.records
      BY <1>t DEF Drive
    <3> HIDE DEF new
    <3> QED
      BY <1>1, <1>2, <3>1, <3>2 DEF Stage, Writing, PastPublic, PastTemp, PastAccess, PastQr,
                                    PastLicense, PastMaster
  <2>2. CASE WriteTemp(p)
    <3> DEFINE new == [files EXCEPT !["temp"] = key]
    <3>1. pc[p] = "temp" /\ pc'[p] = "access" /\ drive'[d] = new
      BY <1>t, <2>2 DEF WriteTemp, WriteDrive, GoTo, TypeOK
    <3>2. /\ new.public = files.public /\ new.temp = key /\ new.access = files.access
          /\ new.license = files.license /\ new.store = files.store
          /\ new.records = files.records
      BY <1>t DEF Drive
    <3> HIDE DEF new
    <3> QED
      BY <1>1, <1>2, <3>1, <3>2 DEF Stage, Writing, PastPublic, PastTemp, PastAccess, PastQr,
                                    PastLicense, PastMaster
  <2>3. CASE WriteAccess(p)
    <3> DEFINE new == [files EXCEPT !["access"] = key]
    <3>1. pc[p] = "access" /\ pc'[p] = "qr" /\ drive'[d] = new
      BY <1>t, <2>3 DEF WriteAccess, WriteDrive, GoTo, TypeOK
    <3>2. /\ new.public = files.public /\ new.temp = files.temp /\ new.access = key
          /\ new.license = files.license /\ new.store = files.store
          /\ new.records = files.records
      BY <1>t DEF Drive
    <3> HIDE DEF new
    <3> QED
      BY <1>1, <1>2, <3>1, <3>2 DEF Stage, Writing, PastPublic, PastTemp, PastAccess, PastQr,
                                    PastLicense, PastMaster
  <2>4. CASE WriteLicense(p)
    <3> DEFINE pair == [author |-> files.public, temp |-> key]
               new == [files EXCEPT !["license"] = pair]
    <3>1. pc[p] = "license" /\ pc'[p] = "master" /\ drive'[d] = new
      BY <1>t, <2>4 DEF WriteLicense, WriteDrive, GoTo, TypeOK, Here
    <3>2. files.public = key
      BY <1>2, <3>1 DEF Stage, Writing, PastPublic
    <3>3. /\ new.public = files.public /\ new.temp = files.temp /\ new.access = files.access
          /\ new.license = [author |-> key, temp |-> key] /\ new.store = files.store
          /\ new.records = files.records
      BY <1>t, <3>2 DEF Drive
    <3> HIDE DEF new
    <3> QED
      BY <1>1, <1>2, <3>1, <3>3 DEF Stage, Writing, PastPublic, PastTemp, PastAccess, PastQr,
                                    PastLicense, PastMaster
  <2> QED
    BY <2>1, <2>2, <2>3, <2>4
<1>5. KitWhole(d)'
  BY <1>4, <1>t, KitWholeStays DEF Good
<1>6. At(p, d)'
  BY <1>1, <1>4 DEF At, Writing
<1> QED
  BY <1>1, <1>2, <1>3, <1>4, <1>5, <1>6, WritingGood

\* The store is the last file: the kit has been written by then.
LEMMA StoreGood ==
    ASSUME OneInv, KitsStay, NEW p \in Deployers, NEW d \in Drives, d \notin contended,
           d = job[p].drive, WriteStore(p)
    PROVE  Good(d)'
<1> DEFINE key == job[p].key
           files == drive[d]
           new == [files EXCEPT !.store = [author |-> files.public, temp |-> files.temp],
                                !.records = {}]
<1>t. TypeOK /\ files \in Drive /\ Good(d)
  BY DEF OneInv, AuthorInv, DeployType, TypeOK
<1>1. /\ pc[p] = "store" /\ pc'[p] = "lock" /\ inbox' = inbox /\ job' = job
      /\ kit' = kit /\ home' = home /\ shared' = shared
      /\ \A q \in Deployers \ {p} : pc'[q] = pc[q]
      /\ drive'[d] = new
  BY <1>t DEF WriteStore, GoTo, TypeOK, history, Here
<1>2. At(p, d) /\ Stage(p, d) /\ At(p, d)'
  BY <1>1, <1>t DEF At, Good, Stages, Writing
<1>3. /\ files.public = key /\ files.temp = key /\ files.access = key
      /\ files.license = [author |-> key, temp |-> key] /\ files.store = NoPair
  BY <1>1, <1>2 DEF Stage, Writing, PastPublic, PastTemp, PastAccess, PastQr, PastLicense
<1>4. /\ new.public = files.public /\ new.temp = files.temp /\ new.access = files.access
      /\ new.license = files.license /\ new.store = [author |-> key, temp |-> key]
      /\ new.records = {}
  BY <1>t, <1>3 DEF Drive
<1> HIDE DEF new
<1>5. Stage(p, d)'
  BY <1>1, <1>3, <1>4 DEF Stage, Writing, PastPublic, PastTemp, PastAccess, PastQr,
                          PastLicense, PastMaster
<1>6. KitWhole(d)'
  <2>1. home[key] = job[p].kit
    BY <1>1 DEF OneInv, Tied, Writing
  <2>2. job[p].kit \notin shared =>
            kit[job[p].kit].qr = key /\ kit[job[p].kit].master[d] = key
    BY <1>1 DEF OneInv, KitDone, Writing, PastPublic, PastTemp, PastAccess, PastQr,
                PastLicense, PastMaster
  <2> QED
    BY <1>1, <1>4, <2>1, <2>2 DEF KitWhole
<1> QED
  BY <1>1, <1>2, <1>3, <1>4, <1>5, <1>6, WritingGood DEF Writing

LEMMA DeployGood ==
    ASSUME OneInv, KitsStay, NEW p \in Deployers, DeployStep(p),
           NEW d \in Drives, d \notin contended'
    PROVE  Good(d)'
<1>t. TypeOK
  BY DEF OneInv, AuthorInv, DeployType
<1>f. /\ inbox' = inbox /\ d \notin contended
      /\ \A q \in Deployers \ {p} : pc'[q] = pc[q] /\ job'[q] = job[q]
      /\ d # job[p].drive => drive'[d] = drive[d]
  BY <1>t, DeployFrame
<1>g. Good(d)
  BY <1>f DEF OneInv
\* A program that is not at work on the drive afterwards.
<1>a. ASSUME drive'[d] = drive[d], ~At(p, d)' PROVE Good(d)'
  <2>1. \A q \in Deployers : At(q, d)' => At(q, d) /\ pc'[q] = pc[q] /\ job'[q] = job[q]
    BY <1>a, <1>f DEF At
  <2> QED
    BY <1>a, <1>f, <1>g, <2>1, GoodFrame
<1>1. CASE \E e \in Drives, k \in Kits : Choose(p, e, k)
  <2>1. drive' = drive /\ pc'[p] = "ask"
    BY <1>1, <1>t DEF Choose, GoTo, TypeOK
  <2> QED
    BY <1>a, <2>1 DEF At
<1>2. CASE Stop(p) \/ TearPrivate(p)
  <2>1. drive' = drive /\ pc'[p] = "idle"
    BY <1>2, <1>t DEF Stop, TearPrivate, GoTo, TypeOK
  <2> QED
    BY <1>a, <2>1 DEF At
<1>3. CASE /\ d # job[p].drive
           /\ ~\E e \in Drives, k \in Kits : Choose(p, e, k)
  <2>1. job'[p].drive = job[p].drive
    <3>1. job[p] \in Job
      BY <1>t DEF TypeOK
    <3>2. \/ job'[p] = job[p]
          \/ \E x : job'[p] = [job[p] EXCEPT !.existing = x]
          \/ \E x : job'[p] = [job[p] EXCEPT !.key = x]
      BY <1>3, <1>t DEF DeployStep, List, Confirm, ClearFile, ClearInboxFails, Cleared,
                        WritePrivate, WritePublic, WriteTemp, WriteAccess, WriteQr,
                        WriteLicense, WriteMaster, CopyPrograms, WriteStore, Stop,
                        TearPrivate, TypeOK
    <3> QED
      BY <3>1, <3>2 DEF Job
  <2> QED
    BY <1>3, <1>a, <1>f, <2>1 DEF At
<1>4. CASE d = job[p].drive
  <2>1. CASE List(p)
    BY <1>4, <1>g, <2>1, ListGood
  <2>2. CASE Confirm(p) \/ (\E f \in Part : ClearFile(p, f)) \/ ClearInboxFails(p)
    BY <1>4, <1>f, <2>2, ClearGood
  <2>3. CASE Cleared(p)
    BY <1>4, <1>f, <2>3, ClearedGood
  <2>4. CASE WritePrivate(p) \/ WriteQr(p) \/ WriteMaster(p) \/ CopyPrograms(p)
    BY <1>4, <1>f, <2>4, KitStepsGood
  <2>5. CASE WritePublic(p) \/ WriteTemp(p) \/ WriteAccess(p) \/ WriteLicense(p)
    BY <1>4, <1>f, <2>5, DriveStepsGood
  <2>6. CASE WriteStore(p)
    BY <1>4, <1>f, <2>6, StoreGood
  <2> QED
    BY <1>1, <1>2, <2>1, <2>2, <2>3, <2>4, <2>5, <2>6 DEF DeployStep
<1> QED
  BY <1>1, <1>3, <1>4

\* Deliveries add records with the keys of the store they were started with.
LEMMA InboxGood ==
    ASSUME OneInv, KitsStay, NEW i \in Inboxes, InboxStep(i),
           NEW d \in Drives, d \notin contended
    PROVE  Good(d)'
<1>t. TypeOK /\ Good(d) /\ drive[d] \in Drive /\ inbox[i] \in Inbox
  BY DEF OneInv, AuthorInv, DeployType, TypeOK
<1>1. /\ pc' = pc /\ job' = job /\ \A j \in Inboxes \ {i} : inbox'[j] = inbox[j]
      /\ \A q \in Deployers : At(q, d)' <=> At(q, d)
  BY <1>t DEF InboxStep, StartInbox, CheckHeader, Deliver, EndInbox, TypeOK, At
<1>2. /\ drive'[d].public = drive[d].public /\ drive'[d].temp = drive[d].temp
      /\ drive'[d].access = drive[d].access /\ drive'[d].license = drive[d].license
      /\ drive'[d].inbox = drive[d].inbox /\ drive'[d].store = drive[d].store
      /\ \/ drive'[d].records = drive[d].records
         \/ /\ Deliver(i) /\ inbox[i].drive = d
            /\ drive'[d].records = drive[d].records \cup {inbox[i].keys}
  <2>1. CASE Deliver(i) /\ inbox[i].drive = d
    <3> DEFINE new == [drive[d] EXCEPT !.records = drive[d].records \cup {inbox[i].keys}]
    <3>1. drive'[d] = new
      BY <1>t, <2>1 DEF Deliver, TypeOK
    <3>2. /\ new.public = drive[d].public /\ new.temp = drive[d].temp
          /\ new.access = drive[d].access /\ new.license = drive[d].license
          /\ new.inbox = drive[d].inbox /\ new.store = drive[d].store
          /\ new.records = drive[d].records \cup {inbox[i].keys}
      BY <1>t DEF Drive
    <3> HIDE DEF new
    <3> QED
      BY <2>1, <3>1, <3>2
  <2>2. CASE ~(Deliver(i) /\ inbox[i].drive = d)
    <3>1. drive'[d] = drive[d]
      BY <1>t, <2>2 DEF InboxStep, StartInbox, CheckHeader, Deliver, EndInbox, TypeOK
    <3> QED
      BY <3>1
  <2> QED
    BY <2>1, <2>2
<1>3. Sole(d)' /\ SameKeys(d)'
  BY <1>1, <1>2, <1>t DEF Good, Sole, SameKeys
<1>4. Stages(d)'
  <2>1. \A f \in Part : drive'[d][f] = drive[d][f]
    BY <1>2 DEF Part
  <2>2. Present(d)' = Present(d)
    BY <2>1 DEF Present
  <2> QED
    BY <1>1, <1>2, <1>t, <2>2 DEF Good, Stages, Stage
<1>5. KitWhole(d)'
  BY <1>2, <1>t, KitWholeStays DEF Good
<1>6. Match(d)'
  <2>1. CASE drive'[d].records = drive[d].records
    BY <1>2, <1>t, <2>1 DEF Good, Match
  <2>2. CASE /\ Deliver(i) /\ inbox[i].drive = d
             /\ drive'[d].records = drive[d].records \cup {inbox[i].keys}
    <3>1. drive[d].store = inbox[i].keys
      BY <1>t, <2>2 DEF Good, Used, Deliver
    <3> QED
      BY <1>2, <1>t, <2>2, <3>1 DEF Good, Match
  <2> QED
    BY <1>2, <2>1, <2>2
<1>7. Used(d)'
  <2> DEFINE Fits(j) == inbox'[j].pc # "idle" /\ inbox'[j].drive = d =>
                /\ drive[d].inbox # "none"
                /\ drive[d].store \in {inbox'[j].keys, NoPair}
                /\ \A p \in Deployers : At(p, d) => pc[p] \in {"confirm", "clear", "lock"}
  <2>1. \A j \in Inboxes \ {i} : Fits(j)
    BY <1>1, <1>t DEF Good, Used
  <2>2. Fits(i)
    <3>1. ASSUME NEW e \in Drives, StartInbox(i, e) PROVE Fits(i)
      <4>1. inbox'[i] = [pc |-> "loaded", drive |-> e, keys |-> drive[e].store]
        BY <1>t, <3>1 DEF StartInbox, TypeOK
      <4>2. drive[e].inbox = "whole" /\ drive[e].store \in Pair
        BY <3>1 DEF StartInbox, Matches
      <4>3. ASSUME e = d, NEW p \in Deployers, At(p, d)
            PROVE  pc[p] \in {"confirm", "clear", "lock"}
        <5>1. drive[d].store # NoPair
          BY <4>2, <4>3 DEF Pair, NoPair, Key, None
        <5>2. pc[p] \in Writing => pc[p] = "lock"
          BY <1>t, <4>3, <5>1 DEF Good, Stages, Stage
        <5> QED
          BY <1>t, <4>3, <5>2 DEF At, TypeOK, Label
      <4> QED
        BY <4>1, <4>2, <4>3
    <3>2. CASE CheckHeader(i) \/ Deliver(i)
      <4>1. /\ inbox[i].pc # "idle" /\ inbox'[i].drive = inbox[i].drive
            /\ inbox'[i].keys = inbox[i].keys
        BY <1>t, <3>2 DEF CheckHeader, Deliver, TypeOK, Inbox
      <4> QED
        BY <1>t, <4>1 DEF Good, Used
    <3>3. CASE EndInbox(i)
      <4>1. inbox'[i].pc = "idle"
        BY <1>t, <3>3 DEF EndInbox, TypeOK, Inbox
      <4> QED
        BY <4>1
    <3> QED
      BY <3>1, <3>2, <3>3 DEF InboxStep
  <2>3. \A j \in Inboxes : Fits(j)
    BY <2>1, <2>2
  <2> QED
    BY <1>1, <1>2, <2>3 DEF Used
<1> QED
  BY <1>3, <1>4, <1>5, <1>6, <1>7 DEF Good

LEMMA OneInit == Init => OneInv
<1> SUFFICES ASSUME Init PROVE OneInv
  OBVIOUS
<1>1. AuthorInv
  BY AuthorInit
<1>2. Tied /\ KitDone
  BY DEF Init, Tied, KitDone, Writing, PastPublic, PastTemp, PastAccess, PastQr, PastLicense,
         PastMaster
<1>3. ASSUME NEW d \in Drives PROVE Good(d)
  <2>1. \A p \in Deployers : ~At(p, d)
    BY DEF Init, At
  <2>2. drive[d] = Blank
    BY DEF Init
  <2>3. SameKeys(d) /\ KitWhole(d) /\ Match(d)
    BY <2>2 DEF SameKeys, KitWhole, Match, Blank, NoPair
  <2>4. Used(d)
    BY DEF Init, Used
  <2> QED
    BY <2>1, <2>3, <2>4 DEF Good, Sole, Stages
<1> QED
  BY <1>1, <1>2, <1>3 DEF OneInv

LEMMA OneStep == OneInv /\ [Next]_vars => OneInv'
<1> SUFFICES ASSUME OneInv, [Next]_vars PROVE OneInv'
  OBVIOUS
<1>1. AuthorInv'
  BY AuthorStep DEF OneInv
<1>2. Tied' /\ KitDone'
  BY KitDoneStep
<1>3. KitsStay
  BY KitsStayStep
<1>4. ASSUME NEW d \in Drives, d \notin contended' PROVE Good(d)'
  <2>1. CASE UNCHANGED vars
    <3>1. Good(d)
      BY <1>4, <2>1 DEF vars, history, OneInv
    <3> QED
      BY <1>3, <2>1, <3>1, GoodFrame DEF vars, At
  <2>2. ASSUME NEW p \in Deployers, DeployStep(p) PROVE Good(d)'
    BY <1>3, <1>4, <2>2, DeployGood
  <2>3. ASSUME NEW i \in Inboxes, InboxStep(i) PROVE Good(d)'
    <3>1. contended' = contended
      BY <2>3 DEF InboxStep, StartInbox, CheckHeader, Deliver, EndInbox, history
    <3> QED
      BY <1>3, <1>4, <2>3, <3>1, InboxGood
  <2> QED
    BY <2>1, <2>2, <2>3 DEF Next
<1> QED
  BY <1>1, <1>2, <1>4 DEF OneInv

\* The parts of a drive come from one deployment, and with its store on the drive its kit
\* is complete: the license reads the author's key back from the drive, and the store is
\* written last.
THEOREM FromOneDeployment == Spec => []OneDeployment
<1>1. OneInv => OneDeployment
  <2> SUFFICES ASSUME OneInv, NEW d \in Drives \ contended
               PROVE  /\ SameKeys(d)
                      /\ LET n == drive[d].store.author
                         IN  n # None /\ home[n] \notin shared =>
                                /\ kit[home[n]].private = n
                                /\ kit[home[n]].qr = n
                                /\ kit[home[n]].master[d] = n
    BY DEF OneDeployment, SameKeys
  <2>1. SameKeys(d) /\ KitWhole(d)
    BY DEF OneInv, Good
  <2>2. drive[d].store.author \in Made \cup {None} /\ KitsKeep
    BY DEF OneInv, AuthorInv, Traced
  <2> QED
    BY <2>1, <2>2 DEF KitWhole, KitsKeep
<1> QED
  BY OneInit, OneStep, <1>1, PTL DEF Spec

\* Every record on a drive is encrypted to the keys of the store: a delivery program that
\* runs from the drive keeps its folder from being cleared, and so a new store from coming.
THEOREM RecordsFollowStore == Spec => []RecordsMatch
<1>1. OneInv => RecordsMatch
  BY DEF OneInv, Good, Match, RecordsMatch
<1> QED
  BY OneInit, OneStep, <1>1, PTL DEF Spec
=============================================================================
