-------------------------- MODULE ConfigSaveProofs --------------------------
(***************************************************************************)
(* Proofs about ConfigSave, for any number of programs, gateways, keys and *)
(* saves.                                                                  *)
(*                                                                         *)
(* SaveInv says how far the save of each program has come, what of it is   *)
(* written when no other overlaps it, what is still there of the last      *)
(* complete save of an agent, and which key the active credentials name.   *)
(***************************************************************************)
EXTENDS ConfigSave, TLAPS

\* Where a thread may be, and what of it its save chooses.
AtOK(m) ==
    /\ Keyed(m) <=> CredentialName(m) \in Name
    /\ CredentialName(m) = CodexKey => App(m) = Codex
    /\ App(m) = Codex => CredentialName(m) \in {CodexKey, None}
    /\ pc[m] \in {"key", "list", "name"} => Keyed(m)
    /\ pc[m] = "active" /\ App(m) = Codex => Keyed(m)
    /\ pc[m] = "name" => CredentialName(m) \in job[m].names

\* The name of the key is registered.
PastName(m) ==
    /\ Keyed(m)
    /\ pc[m] = "active" \/ (App(m) = Claude /\ pc[m] \in {"temp", "move"})

\* A save that overlaps no other is the only one, and what it has written is there.
Alone(m) ==
    busy[m] /\ m \notin crossed =>
        /\ \A n \in Managers \ {m} : ~busy[n]
        /\ pc[m] \notin {"check", "end"} /\ (App(m) \notin broken \/ ~Keeps(m)) =>
                job[m].text = NewText(m, done[App(m)].base)
        /\ pc[m] = "move" => temp[App(m)] = job[m].text
        /\ pc[m] \in PastMove(App(m)) => config[App(m)] = job[m].text
        /\ Keyed(m) /\ pc[m] \in PastKey(App(m)) => cred[CredentialName(m)] = job[m].save.key
        /\ PastName(m) => CredentialName(m) \in names

\* The name n is in the list, and nobody is about to write the list without it.
Registered(n) == n \in names /\ \A m \in Managers : pc[m] = "name" => n \in job[m].names

\* What the last complete save of a has left, where no other has got as far since.
Kept(a) ==
    /\ done[a].key # None <=> done[a].name \in Name
    /\ done[a].name \in Name => (done[a].name = CodexKey <=> a = Codex)
    /\ Sound(a) => config[a] = done[a].base
    /\ done[a].name \in Name =>
        /\ done[a].name \notin broken => Registered(done[a].name)
        /\ Sound(done[a].name) => cred[done[a].name] = done[a].key

\* The active credentials are the chosen ones.
Chosen ==
    /\ active = launch.name
    /\ launch.key # None <=> launch.name \in Name
    /\ launch.name \in Name /\ Sound(launch.name) => cred[launch.name] = launch.key

SaveInv ==
    /\ TypeOK
    /\ \A m \in Managers : AtOK(m) /\ Alone(m)
    /\ \A a \in Apps : Kept(a)
    /\ Chosen

-----------------------------------------------------------------------------

LEMMA JobFacts ==
    ASSUME TypeOK, NEW m \in Managers
    PROVE  /\ job[m] \in Job /\ App(m) \in Apps /\ job[m].save \in Save
           /\ Base(m) \in Address /\ job[m].save.key \in Keys \cup {None}
           /\ CredentialName(m) \in Name \cup {None}
           /\ job[m].names \subseteq Name /\ job[m].text \in Address \cup {None}
BY DEF TypeOK, Job, Save, App, Base, CredentialName

\* Files and credentials are told apart by their names.
LEMMA SavedFacts ==
    ASSUME TypeOK, NEW m \in Managers
    PROVE  /\ Touched(m) \subseteq Saved(m) /\ App(m) \in Saved(m)
           /\ \A a \in Apps : a \in Saved(m) <=> a = App(m)
           /\ \A n \in Name : n \in Saved(m) <=> Keyed(m) /\ n = CredentialName(m)
<1>1. App(m) \in Apps /\ CredentialName(m) \in Name \cup {None}
  BY JobFacts
<1>2. None \notin Apps /\ Apps \cap Name = {}
  BY SaveAssumption, NameAssumption DEF Apps
<1> QED
  BY <1>1, <1>2 DEF Touched, Saved

\* A step of one thread, which leaves the others as they are: had m's save been the only
\* one they would not run, and now that one of them runs it overlaps.
LEMMA Turn ==
    ASSUME SaveInv, NEW m \in Managers, pc[m] # "idle", NEW label \in Label, NEW j \in Job,
           pc' = [pc EXCEPT ![m] = label], job' = [job EXCEPT ![m] = j],
           busy' = busy \/ busy' = [busy EXCEPT ![m] = FALSE],
           busy' = busy <=> label # "idle", crossed' = crossed
    PROVE  /\ pc'[m] = label /\ job'[m] = j /\ busy[m]
           /\ \A n \in Managers \ {m} :
                pc'[n] = pc[n] /\ job'[n] = job[n] /\ (AtOK(n) /\ Alone(n))'
           /\ pc' \in [Managers -> Label] /\ job' \in [Managers -> Job]
           /\ busy' = [n \in Managers |-> pc'[n] # "idle"]
           /\ m \notin crossed => \A n \in Managers \ {m} : ~busy[n] /\ ~busy'[n]
<1>t. TypeOK
  BY DEF SaveInv
<1>1. pc'[m] = label /\ job'[m] = j /\ busy[m]
      /\ \A n \in Managers \ {m} : pc'[n] = pc[n] /\ job'[n] = job[n]
  BY <1>t DEF TypeOK
<1>2. busy' = [n \in Managers |-> pc'[n] # "idle"]
  BY <1>1, <1>t DEF TypeOK
<1>3. \A n \in Managers \ {m} : busy'[n] = busy[n]
  BY <1>1, <1>2, <1>t DEF TypeOK
<1>4. ASSUME NEW n \in Managers \ {m} PROVE (AtOK(n) /\ Alone(n))'
  <2>1. AtOK(n) /\ Alone(n)
    BY DEF SaveInv
  <2>2. AtOK(n)'
    BY <1>1, <2>1 DEF AtOK, Keyed, App, CredentialName
  <2>3. Alone(n)'
    BY <1>1, <1>3, <2>1 DEF Alone
  <2> QED
    BY <2>2, <2>3
<1>5. pc' \in [Managers -> Label] /\ job' \in [Managers -> Job]
  BY <1>t DEF TypeOK
<1>6. m \notin crossed => \A n \in Managers \ {m} : ~busy[n]
  BY <1>1 DEF SaveInv, Alone
<1> QED
  BY <1>1, <1>2, <1>3, <1>4, <1>5, <1>6

\* A step that completes no save: what it writes it has then touched, and what was
\* touched is so still or is broken.
LEMMA Goes ==
    ASSUME SaveInv, TypeOK', NEW m \in Managers,
           \A n \in Managers : (AtOK(n) /\ Alone(n))',
           \A n \in Managers \ {m} : pc'[n] = pc[n] /\ job'[n] = job[n],
           active' = active, done' = done, launch' = launch,
           broken \cup Touched(m) \subseteq broken' \cup Touched(m)',
           broken \subseteq broken',
           \A a \in Apps : config'[a] = config[a] \/ a \in Touched(m)',
           \A n \in Name : cred'[n] = cred[n] \/ n \in Touched(m)',
           \A n \in Name : Registered(n) => Registered(n)'
    PROVE  SaveInv'
<1>1. ASSUME NEW x, Sound(x)' PROVE Sound(x) /\ x \notin Touched(m)'
  <2>1. \A n \in Managers \ {m} : Touched(n)' = Touched(n)
    BY DEF Touched, Saved, App, Keyed, CredentialName
  <2>2. x \notin broken' /\ \A n \in Managers : x \notin Touched(n)'
    BY <1>1 DEF Sound
  <2>3. \A n \in Managers : x \notin Touched(n)
    BY <2>1, <2>2
  <2> QED
    BY <2>2, <2>3 DEF Sound
<1>2. ASSUME NEW a \in Apps PROVE Kept(a)'
  <2>1. Kept(a)
    BY DEF SaveInv
  <2>2. Sound(a)' => config'[a] = done'[a].base
    BY <1>1, <2>1 DEF Kept
  <2>3. done[a].name \in Name =>
            /\ done[a].name \notin broken' => Registered(done[a].name)'
            /\ Sound(done[a].name)' => cred'[done[a].name] = done[a].key
    BY <1>1, <2>1 DEF Kept
  <2> QED
    BY <2>1, <2>2, <2>3 DEF Kept
<1>3. Chosen'
  <2>1. Chosen
    BY DEF SaveInv
  <2>2. launch.name \in Name /\ Sound(launch.name)' => cred'[launch.name] = launch.key
    BY <1>1, <2>1 DEF Chosen
  <2> QED
    BY <2>1, <2>2 DEF Chosen
<1> QED
  BY <1>2, <1>3 DEF SaveInv

\* The save of m is complete; if it overlapped no other, all it wrote is there.
LEMMA Completed ==
    ASSUME SaveInv, TypeOK', NEW m \in Managers, busy[m], pc'[m] = "end", job' = job,
           \A n \in Managers \ {m} :
                pc'[n] = pc[n] /\ job'[n] = job[n] /\ (AtOK(n) /\ Alone(n))',
           m \notin crossed => \A n \in Managers \ {m} : ~busy[n] /\ ~busy'[n],
           cred' = cred, names' = names, NEW activates \in BOOLEAN, Completes(m, activates),
           active' = IF activates THEN CredentialName(m) ELSE active,
           \A a \in Apps \ {App(m)} : config'[a] = config[a],
           m \notin crossed =>
                /\ config'[App(m)] = job[m].text
                /\ App(m) \notin broken \/ ~Keeps(m) =>
                        job[m].text = NewText(m, done[App(m)].base)
                /\ Keyed(m) => /\ cred[CredentialName(m)] = job[m].save.key
                               /\ CredentialName(m) \in names
    PROVE  SaveInv'
<1>t. TypeOK /\ AtOK(m) /\ Chosen /\ \A a \in Apps : Kept(a)
  BY DEF SaveInv
<1>j. App(m) \in Apps /\ job[m].save \in Save
      /\ Touched(m) \subseteq Saved(m) /\ App(m) \in Saved(m)
      /\ \A a \in Apps : a \in Saved(m) <=> a = App(m)
      /\ \A n \in Name : n \in Saved(m) <=> Keyed(m) /\ n = CredentialName(m)
  BY <1>t, JobFacts, SavedFacts
<1>c. /\ done' = [done EXCEPT ![App(m)] =
                    [job[m].save EXCEPT !.base = NewText(m, done[App(m)].base)]]
      /\ launch' = IF activates \/ (Keyed(m) /\ launch.name = CredentialName(m))
                   THEN [name |-> CredentialName(m), key |-> job[m].save.key] ELSE launch
      /\ broken' = IF m \in crossed THEN broken \cup Saved(m)
                   ELSE broken \ {x \in Saved(m) : x \in Apps => ~Keeps(m)}
      /\ crossed' = crossed
  BY DEF Completes
<1>d. /\ done'[App(m)].base = NewText(m, done[App(m)].base)
      /\ done'[App(m)].name = CredentialName(m) /\ done'[App(m)].key = job[m].save.key
      /\ \A a \in Apps \ {App(m)} : done'[a] = done[a]
  BY <1>c, <1>j, <1>t DEF TypeOK, CredentialName, Save
<1>1. (AtOK(m) /\ Alone(m))'
  <2>1. AtOK(m)'
    BY <1>t DEF AtOK, App, Keyed, CredentialName
  <2>2. Alone(m)'
    <3>1. pc'[m] \notin PastMove(App(m)') /\ pc'[m] \notin PastKey(App(m)') /\ ~PastName(m)'
      BY DEF PastMove, PastKey, PastName
    <3> QED
      BY <1>c, <3>1 DEF Alone
  <2> QED
    BY <2>1, <2>2
<1>2. ASSUME NEW x, x \notin Saved(m) PROVE (x \notin broken' => x \notin broken)
                                            /\ (Sound(x)' => Sound(x))
  <2>1. \A n \in Managers \ {m} : Touched(n)' = Touched(n)
    BY DEF Touched, Saved, App, Keyed, CredentialName
  <2>2. x \notin broken' => x \notin broken
    BY <1>2, <1>c
  <2>3. x \notin Touched(m)
    BY <1>2, <1>j
  <2> QED
    BY <2>1, <2>2, <2>3 DEF Sound
<1>3. ASSUME NEW x \in Saved(m), x \notin broken'
      PROVE  m \notin crossed /\ (x \in Apps => x \notin broken \/ ~Keeps(m))
  BY <1>3, <1>c
<1>4. \A x : Sound(x)' => x \notin broken'
  BY DEF Sound
<1>5. ASSUME NEW a \in Apps PROVE Kept(a)'
  <2>1. CASE a = App(m)
    <3>1. done'[a].key # None <=> done'[a].name \in Name
      BY <1>d, <1>t, <2>1 DEF AtOK, Keyed
    <3>2. done'[a].name \in Name => (done'[a].name = CodexKey <=> a = Codex)
      BY <1>d, <1>t, <2>1, NameAssumption DEF AtOK
    <3>3. Sound(a)' => config'[a] = done'[a].base
      BY <1>3, <1>4, <1>d, <1>j, <2>1
    <3>4. ASSUME done'[a].name \in Name, done'[a].name \notin broken'
          PROVE  Registered(done[a].name)' /\ cred'[done'[a].name] = done'[a].key
      <4>1. Keyed(m) /\ CredentialName(m) \in Saved(m)
        BY <3>4, <1>d, <1>j, <1>t, <2>1 DEF AtOK
      <4>2. m \notin crossed
        BY <3>4, <4>1, <1>3, <1>d, <2>1
      <4>3. \A n \in Managers : pc'[n] # "name"
        BY <4>2, <1>t DEF TypeOK
      <4> QED
        BY <4>1, <4>2, <4>3, <1>d, <2>1 DEF Registered
    <3> QED
      BY <3>1, <3>2, <3>3, <3>4, <1>4 DEF Kept
  <2>2. CASE a # App(m)
    <3>1. done'[a] = done[a] /\ config'[a] = config[a] /\ Kept(a) /\ a \notin Saved(m)
      BY <2>2, <1>d, <1>j, <1>t
    <3>2. done[a].name \in Name => done[a].name \notin Saved(m)
      BY <2>2, <3>1, <1>j, <1>t, NameAssumption DEF Kept, AtOK, Apps
    <3>3. \A n : Registered(n) => Registered(n)'
      BY DEF Registered
    <3>4. Sound(a)' => config[a] = done[a].base
      BY <1>2, <3>1 DEF Kept
    <3>5. done[a].name \in Name =>
            /\ done[a].name \notin broken' => Registered(done[a].name)'
            /\ Sound(done[a].name)' => cred'[done[a].name] = done[a].key
      BY <1>2, <3>1, <3>2, <3>3 DEF Kept
    <3> QED
      BY <3>1, <3>4, <3>5 DEF Kept
  <2> QED
    BY <2>1, <2>2
<1>6. Chosen'
  <2>1. CASE activates \/ (Keyed(m) /\ launch.name = CredentialName(m))
    <3>1. launch'.name = CredentialName(m) /\ launch'.key = job[m].save.key
      BY <1>c, <2>1
    <3>2. active' = launch'.name
      BY <3>1, <2>1, <1>t DEF Chosen
    <3>3. launch'.key # None <=> launch'.name \in Name
      BY <3>1, <1>t DEF AtOK, Keyed
    <3>4. launch'.name \in Name /\ Sound(launch.name)' => cred'[launch'.name] = launch'.key
      BY <3>1, <1>3, <1>4, <1>j, <1>t DEF AtOK
    <3> QED
      BY <3>2, <3>3, <3>4 DEF Chosen
  <2>2. CASE ~activates /\ ~(Keyed(m) /\ launch.name = CredentialName(m))
    <3>1. launch' = launch /\ active' = active
      BY <1>c, <2>2
    <3>2. launch.name \in Name => launch.name \notin Saved(m)
      BY <2>2, <1>j
    <3>3. launch.name \in Name /\ Sound(launch.name)' => cred'[launch.name] = launch.key
      BY <1>2, <1>t, <3>1, <3>2 DEF Chosen
    <3> QED
      BY <1>t, <3>1, <3>3 DEF Chosen
  <2> QED
    BY <2>1, <2>2
<1> QED
  BY <1>1, <1>5, <1>6 DEF SaveInv

LEMMA InvInit == Init => SaveInv
<1> SUFFICES ASSUME Init PROVE SaveInv
  OBVIOUS
<1>1. Nothing \in Save /\ Idle \in Job /\ NoSave.key = None /\ NoSave.name = None
      /\ NoSave.base = None
  BY DEF NoSave, Nothing, Idle, Save, Job, Address, Apps, Kind
<1>2. TypeOK
  <2>1. saves \in 0 .. MaxSaves
    BY SaveAssumption DEF Init
  <2>2. busy = [m \in Managers |-> pc[m] # "idle"] /\ pc \in [Managers -> Label]
    BY DEF Init, Label
  <2>3. job \in [Managers -> Job] /\ done \in [Apps -> Save \cup {NoSave}]
    BY <1>1 DEF Init
  <2> QED
    BY <2>1, <2>2, <2>3 DEF Init, TypeOK
<1>n. None \notin Name /\ Unset \notin Name
  BY NameAssumption
<1>3. \A m \in Managers : AtOK(m) /\ Alone(m)
  <2>1. \A m \in Managers : ~Keyed(m) /\ CredentialName(m) = None /\ App(m) = Claude
    BY DEF Init, Keyed, CredentialName, App, Idle, Nothing
  <2> QED
    BY <1>n, <2>1, SaveAssumption DEF Init, AtOK, Alone, Name
<1>4. \A a \in Apps : Kept(a)
  BY <1>1, <1>n DEF Init, Kept
<1>5. Chosen
  BY <1>n DEF Init, Chosen
<1> QED
  BY <1>2, <1>3, <1>4, <1>5 DEF SaveInv

\* From here on every program whose save runs is marked as overlapping, if there is one.
LEMMA StepBegin ==
    ASSUME SaveInv, NEW m \in Managers, NEW a \in Apps, NEW kind \in Kind,
           NEW s \in Offered(a, kind), Begin(m, a, s, kind)
    PROVE  SaveInv'
<1> DEFINE j == [Idle EXCEPT !.app = a, !.save = s, !.kind = kind]
<1>t. TypeOK
  BY DEF SaveInv
<1>1. /\ j \in Job /\ j.app = a /\ j.save = s /\ s \in Save
      /\ s.key # None <=> s.name \in Name
      /\ s.name = CodexKey => a = Codex
      /\ a = Codex => s.name \in {CodexKey, None}
  BY NameAssumption DEF Offered, Save, Idle, Job
<1>2. /\ ~busy[m] /\ pc[m] = "idle"
      /\ pc' = [pc EXCEPT ![m] = "check"] /\ job' = [job EXCEPT ![m] = j]
      /\ busy' = [busy EXCEPT ![m] = TRUE]
      /\ UNCHANGED <<config, temp, cred, names, active, done, launch, broken>>
  BY <1>t DEF Begin, GoTo, files, registry, TypeOK
<1> HIDE DEF j
<1>3. /\ pc'[m] = "check" /\ job'[m] = j /\ busy'[m] = TRUE
      /\ \A n \in Managers \ {m} :
            pc'[n] = pc[n] /\ job'[n] = job[n] /\ busy'[n] = busy[n]
  BY <1>2, <1>t DEF TypeOK
<1>4. TypeOK'
  <2>1. saves' \in 0 .. MaxSaves
    BY <1>t, SaveAssumption DEF Begin, TypeOK
  <2>2. pc' \in [Managers -> Label] /\ job' \in [Managers -> Job]
    BY <1>1, <1>2, <1>t DEF TypeOK, Label
  <2>3. busy' = [n \in Managers |-> pc'[n] # "idle"]
    BY <1>2, <1>3, <1>t DEF TypeOK
  <2>4. crossed' \subseteq Managers
    BY <1>t DEF Begin, TypeOK
  <2> QED
    BY <1>2, <1>t, <2>1, <2>2, <2>3, <2>4 DEF TypeOK
<1>5. ASSUME NEW n \in Managers PROVE (AtOK(n) /\ Alone(n))'
  <2>1. CASE n = m
    <3>1. AtOK(m)'
      BY <1>1, <1>3 DEF AtOK, Keyed, App, CredentialName
    <3>2. pc'[m] \notin PastMove(App(m)') /\ pc'[m] \notin PastKey(App(m)') /\ ~PastName(m)'
      BY <1>3 DEF PastMove, PastKey, PastName
    <3>3. m \notin crossed' => \A q \in Managers \ {m} : ~busy'[q]
      BY <1>3 DEF Begin
    <3> QED
      BY <1>3, <2>1, <3>1, <3>2, <3>3 DEF Alone
  <2>2. CASE n # m
    <3>1. AtOK(n)'
      BY <1>3, <2>2 DEF SaveInv, AtOK, Keyed, App, CredentialName
    <3>2. busy'[n] => n \in crossed'
      BY <1>3, <2>2 DEF Begin
    <3> QED
      BY <3>1, <3>2 DEF Alone
  <2> QED
    BY <2>1, <2>2
<1>6. Touched(m) = {}
  BY <1>2 DEF Touched, PastMove, PastKey
<1>7. \A n : Registered(n) => Registered(n)'
  BY <1>2, <1>3 DEF Registered
<1> QED
  BY <1>2, <1>3, <1>4, <1>5, <1>6, <1>7, Goes

\* The save of m ends without having completed: what it has touched is broken.
LEMMA Ended ==
    ASSUME SaveInv, NEW m \in Managers, pc[m] # "idle", NEW j \in Job, NEW label,
           \/ label = "end" /\ busy' = busy /\ j.app = job[m].app /\ j.save = job[m].save
           \/ label = "idle" /\ busy' = [busy EXCEPT ![m] = FALSE] /\ j = Idle,
           pc' = [pc EXCEPT ![m] = label], job' = [job EXCEPT ![m] = j],
           temp' \in [Apps -> Address \cup {None}],
           UNCHANGED <<config, registry, saves, done, launch, crossed>>,
           broken' = broken \cup Touched(m)
    PROVE  SaveInv'
<1>t. TypeOK /\ AtOK(m) /\ Alone(m)
  BY DEF SaveInv
<1>j. App(m) \in Apps /\ Touched(m) \subseteq Saved(m) /\ Saved(m) \subseteq Apps \cup Name
  <2>1. App(m) \in Apps /\ Touched(m) \subseteq Saved(m)
    BY <1>t, JobFacts, SavedFacts
  <2>2. Saved(m) \subseteq Apps \cup Name
    BY <1>t, <2>1 DEF Saved, AtOK
  <2> QED
    BY <2>1, <2>2
<1>1. busy[m] /\ label \in Label /\ (busy' = busy <=> label # "idle")
  BY <1>t DEF TypeOK, Label
<1>2. /\ pc'[m] = label /\ job'[m] = j
      /\ \A n \in Managers \ {m} :
            pc'[n] = pc[n] /\ job'[n] = job[n] /\ (AtOK(n) /\ Alone(n))'
      /\ pc' \in [Managers -> Label] /\ job' \in [Managers -> Job]
      /\ busy' = [n \in Managers |-> pc'[n] # "idle"]
      /\ m \notin crossed => \A n \in Managers \ {m} : ~busy[n] /\ ~busy'[n]
  BY <1>1, Turn
<1>3. TypeOK'
  <2>1. broken' \subseteq Apps \cup Name
    BY <1>j, <1>t DEF TypeOK
  <2> QED
    BY <1>2, <1>t, <2>1 DEF registry, TypeOK
<1>4. AtOK(m)'
  <2>1. CASE label = "end"
    BY <1>2, <1>t, <2>1 DEF AtOK, Keyed, App, CredentialName
  <2>2. CASE label = "idle"
    <3>1. j.save.key = None /\ j.save.name = None /\ j.app = Claude
      BY <2>2 DEF Idle, Nothing
    <3> QED
      BY <1>2, <2>2, <3>1, SaveAssumption, NameAssumption
         DEF AtOK, Keyed, App, CredentialName, Name
  <2> QED
    BY <2>1, <2>2
<1>5. Alone(m)'
  <2>1. pc'[m] \notin PastMove(App(m)') /\ pc'[m] \notin PastKey(App(m)') /\ ~PastName(m)'
        /\ pc'[m] # "move"
    BY <1>2 DEF PastMove, PastKey, PastName
  <2>2. pc'[m] = "end" \/ ~busy'[m]
    BY <1>2
  <2> QED
    BY <1>2, <2>1, <2>2 DEF Alone
<1>6. \A n : Registered(n) => Registered(n)'
  BY <1>2 DEF Registered, registry
<1>7. \A n \in Managers : (AtOK(n) /\ Alone(n))'
  BY <1>2, <1>4, <1>5
<1> QED
  BY <1>2, <1>3, <1>6, <1>7, Goes DEF registry

LEMMA StepFails ==
    ASSUME SaveInv, NEW m \in Managers, pc[m] # "idle", Fails(m), NEW j \in Job,
           j.app = job[m].app, j.save = job[m].save, job' = [job EXCEPT ![m] = j],
           temp' \in [Apps -> Address \cup {None}],
           UNCHANGED <<config, registry, busy, saves>>
    PROVE  SaveInv'
<1>1. /\ pc' = [pc EXCEPT ![m] = "end"] /\ broken' = broken \cup Touched(m)
      /\ UNCHANGED <<config, registry, saves, done, launch, crossed>>
      /\ busy' = busy
  BY DEF Fails, GoTo
<1> QED
  BY <1>1, Ended

LEMMA StepKill ==
    ASSUME SaveInv, NEW m \in Managers, Kill(m)
    PROVE  SaveInv'
<1>t. TypeOK
  BY DEF SaveInv
<1>1. pc[m] # "idle" /\ temp' \in [Apps -> Address \cup {None}] /\ Idle \in Job
  BY <1>t DEF Kill, TypeOK, files, Idle, Nothing, Job, Save, Address, Apps, Kind
<1>2. /\ pc' = [pc EXCEPT ![m] = "idle"] /\ job' = [job EXCEPT ![m] = Idle]
      /\ busy' = [busy EXCEPT ![m] = FALSE] /\ broken' = broken \cup Touched(m)
      /\ UNCHANGED <<config, registry, saves, done, launch, crossed>>
  BY DEF Kill, GoTo, files
<1> QED
  BY <1>1, <1>2, Ended

LEMMA StepEnd ==
    ASSUME SaveInv, NEW m \in Managers, End(m)
    PROVE  SaveInv'
<1>t. TypeOK
  BY DEF SaveInv
<1>1. pc[m] # "idle" /\ temp' \in [Apps -> Address \cup {None}] /\ Idle \in Job
  BY <1>t DEF End, TypeOK, files, Idle, Nothing, Job, Save, Address, Apps, Kind
<1>2. Touched(m) = {}
  BY DEF End, Touched, PastMove, PastKey
<1>3. /\ pc' = [pc EXCEPT ![m] = "idle"] /\ job' = [job EXCEPT ![m] = Idle]
      /\ busy' = [busy EXCEPT ![m] = FALSE] /\ broken' = broken \cup Touched(m)
      /\ UNCHANGED <<config, registry, saves, done, launch, crossed>>
  BY <1>2 DEF End, GoTo, files, history
<1> QED
  BY <1>1, <1>3, Ended

\* A thread goes on: what it saves stays what it was.
LEMMA Moves ==
    ASSUME SaveInv, NEW m \in Managers, pc[m] # "idle", NEW label \in Label \ {"idle"},
           NEW j \in Job, j.app = job[m].app, j.save = job[m].save, j.kind = job[m].kind,
           pc' = [pc EXCEPT ![m] = label], job' = [job EXCEPT ![m] = j], busy' = busy, crossed' = crossed
    PROVE  /\ pc'[m] = label /\ job'[m] = j /\ busy[m] /\ busy'[m]
           /\ \A n \in Managers \ {m} :
                pc'[n] = pc[n] /\ job'[n] = job[n] /\ (AtOK(n) /\ Alone(n))'
           /\ pc' \in [Managers -> Label] /\ job' \in [Managers -> Job]
           /\ busy' = [n \in Managers |-> pc'[n] # "idle"]
           /\ m \notin crossed => \A n \in Managers \ {m} : ~busy[n] /\ ~busy'[n]
           /\ App(m)' = App(m) /\ Base(m)' = Base(m) /\ Keyed(m)' = Keyed(m)
           /\ CredentialName(m)' = CredentialName(m) /\ Saved(m)' = Saved(m)
           /\ Keeps(m)' = Keeps(m) /\ job'[m].save = job[m].save
<1>1. busy[m] /\ (busy' = busy <=> label # "idle")
  BY DEF SaveInv, TypeOK
<1>2. /\ pc'[m] = label /\ job'[m] = j
      /\ \A n \in Managers \ {m} :
           pc'[n] = pc[n] /\ job'[n] = job[n] /\ (AtOK(n) /\ Alone(n))'
      /\ pc' \in [Managers -> Label] /\ job' \in [Managers -> Job]
      /\ busy' = [n \in Managers |-> pc'[n] # "idle"]
      /\ m \notin crossed => \A n \in Managers \ {m} : ~busy[n] /\ ~busy'[n]
  BY <1>1, Turn
<1> QED
  BY <1>1, <1>2 DEF App, Base, Keyed, CredentialName, Saved, Keeps

\* Nothing has been changed, and the new file is made of the one that is there.
LEMMA StepCheck ==
    ASSUME SaveInv, NEW m \in Managers, Check(m)
    PROVE  SaveInv'
<1>t. TypeOK /\ AtOK(m) /\ Alone(m) /\ \A a \in Apps : Kept(a)
  BY DEF SaveInv
<1>j. job[m] \in Job /\ App(m) \in Apps /\ Base(m) \in Address
  BY <1>t, JobFacts
<1>0. /\ pc[m] = "check" /\ Touched(m) = {} /\ pc[m] # "idle"
      /\ UNCHANGED <<config, temp, cred, names, active, busy, saves,
                     done, launch, crossed, broken>>
  BY DEF Check, files, registry, history, Touched, PastMove, PastKey
<1>1. CASE GoTo(m, "end") /\ job' = job
  <2>1. pc' = [pc EXCEPT ![m] = "end"] /\ job' = [job EXCEPT ![m] = job[m]]
        /\ broken' = broken \cup Touched(m)
    BY <1>0, <1>1, <1>t DEF GoTo, TypeOK
  <2>2. temp' \in [Apps -> Address \cup {None}] /\ busy' = busy
        /\ UNCHANGED <<config, registry, saves, done, launch, crossed>>
    BY <1>0, <1>t DEF TypeOK, registry
  <2> QED
    BY <1>0, <1>j, <2>1, <2>2, Ended
<1>2. CASE GoTo(m, First(m)) /\ job' = [job EXCEPT ![m].text = NewText(m, config[App(m)])]
  <2> DEFINE j == [job[m] EXCEPT !.text = NewText(m, config[App(m)])]
  <2>1. NewText(m, config[App(m)]) \in Address \cup {None}
    BY <1>j, <1>t DEF NewText, TypeOK
  <2>2. /\ j \in Job /\ j.app = job[m].app /\ j.save = job[m].save
        /\ j.kind = job[m].kind /\ j.text = NewText(m, config[App(m)])
        /\ job' = [job EXCEPT ![m] = j]
    BY <1>2, <1>j, <1>t, <2>1 DEF Job, TypeOK
  <2> HIDE DEF j
  <2>3. First(m) \in Label \ {"idle"}
    BY DEF First, Label
  <2>m. pc' = [pc EXCEPT ![m] = First(m)] /\ busy' = busy /\ crossed' = crossed
    BY <1>0, <1>2 DEF GoTo
  <2>4. /\ pc'[m] = First(m) /\ job'[m] = j
        /\ \A n \in Managers \ {m} :
              pc'[n] = pc[n] /\ job'[n] = job[n] /\ (AtOK(n) /\ Alone(n))'
        /\ pc' \in [Managers -> Label] /\ job' \in [Managers -> Job]
        /\ busy' = [n \in Managers |-> pc'[n] # "idle"]
        /\ m \notin crossed => \A n \in Managers \ {m} : ~busy[n] /\ ~busy'[n]
        /\ App(m)' = App(m) /\ Base(m)' = Base(m) /\ Keyed(m)' = Keyed(m)
        /\ CredentialName(m)' = CredentialName(m) /\ Keeps(m)' = Keeps(m)
    BY <1>0, <2>2, <2>3, <2>m, Moves
  <2>5. TypeOK'
    BY <1>0, <1>t, <2>4 DEF TypeOK
  <2>6. AtOK(m)'
    BY <1>t, <2>4 DEF AtOK, First
  <2>7. m \notin crossed /\ (App(m) \notin broken \/ ~Keeps(m)) =>
            job'[m].text = NewText(m, done[App(m)].base)
    <3>1. CASE ~Keeps(m)
      BY <2>2, <2>4, <3>1 DEF NewText
    <3>2. CASE m \notin crossed /\ App(m) \notin broken
      <4>1. \A n \in Managers : Touched(n) = {}
        BY <1>0, <1>t, <2>4, <3>2 DEF TypeOK, Touched, PastMove, PastKey
      <4>2. config[App(m)] = done[App(m)].base
        BY <1>j, <1>t, <3>2, <4>1 DEF Kept, Sound
      <4> QED
        BY <2>2, <2>4, <4>2
    <3> QED
      BY <3>1, <3>2
  <2>8. NewText(m, done[App(m)].base)' = NewText(m, done[App(m)].base)
    BY <1>0, <2>4 DEF NewText
  <2>9. /\ pc'[m] \notin PastMove(App(m)) /\ pc'[m] # "move"
        /\ ~(Keyed(m) /\ pc'[m] \in PastKey(App(m))) /\ ~PastName(m)'
    BY <1>j, <2>4, SaveAssumption DEF First, PastMove, PastKey, PastName, Apps
  <2>10. Alone(m)'
    BY <1>0, <2>4, <2>7, <2>8, <2>9 DEF Alone
  <2>11. \A n : Registered(n) => Registered(n)'
    BY <1>0, <2>4 DEF Registered, First
  <2>12. \A n \in Managers : (AtOK(n) /\ Alone(n))'
    BY <2>4, <2>6, <2>10
  <2> QED
    BY <1>0, <2>4, <2>5, <2>11, <2>12, Goes
<1> QED
  BY <1>1, <1>2 DEF Check

LEMMA StepStoreKey ==
    ASSUME SaveInv, NEW m \in Managers, StoreKey(m)
    PROVE  SaveInv'
<1>t. TypeOK /\ AtOK(m) /\ Alone(m)
  BY DEF SaveInv
<1>j. job[m] \in Job /\ App(m) \in Apps /\ Keyed(m) /\ CredentialName(m) \in Name
      /\ job[m].save.key \in Keys \cup {None}
  BY <1>t, JobFacts DEF StoreKey, AtOK
<1>0. /\ pc[m] = "key" /\ pc[m] # "idle" /\ job' = [job EXCEPT ![m] = job[m]]
      /\ UNCHANGED <<config, temp, names, active, job, busy, saves>>
  BY <1>t DEF StoreKey, files, window, TypeOK
<1>1. CASE cred' = cred /\ Fails(m)
  <2>1. temp' \in [Apps -> Address \cup {None}]
        /\ UNCHANGED <<config, registry, busy, saves>>
    BY <1>0, <1>1, <1>t DEF TypeOK, registry
  <2> QED
    BY <1>0, <1>1, <1>j, <2>1, StepFails
<1>2. CASE /\ cred' = [cred EXCEPT ![CredentialName(m)] = job[m].save.key]
           /\ GoTo(m, "list")
           /\ UNCHANGED history
  <2>1. UNCHANGED <<done, launch, crossed, broken>> /\ "list" \in Label \ {"idle"}
    BY <1>2 DEF history, Label
  <2>2. /\ pc'[m] = "list"
        /\ \A n \in Managers \ {m} :
              pc'[n] = pc[n] /\ job'[n] = job[n] /\ (AtOK(n) /\ Alone(n))'
        /\ pc' \in [Managers -> Label] /\ job' \in [Managers -> Job]
        /\ busy' = [n \in Managers |-> pc'[n] # "idle"]
        /\ m \notin crossed => \A n \in Managers \ {m} : ~busy[n] /\ ~busy'[n]
        /\ App(m)' = App(m) /\ Base(m)' = Base(m) /\ Keyed(m)' = Keyed(m)
        /\ CredentialName(m)' = CredentialName(m) /\ Keeps(m)' = Keeps(m)
        /\ Saved(m)' = Saved(m) /\ busy[m]
    BY <1>0, <1>2, <1>j, <2>1, Moves DEF GoTo
  <2>3. /\ cred' \in [Name -> Keys \cup {None}] /\ cred'[CredentialName(m)] = job[m].save.key
        /\ \A n \in Name \ {CredentialName(m)} : cred'[n] = cred[n]
    BY <1>2, <1>j, <1>t DEF TypeOK
  <2>4. TypeOK'
    BY <1>0, <1>t, <2>1, <2>2, <2>3 DEF TypeOK
  <2>5. AtOK(m)'
    BY <1>j, <1>t, <2>2 DEF AtOK
  <2>6. Touched(m) \subseteq Touched(m)' /\ CredentialName(m) \in Touched(m)'
    <3>1. CredentialName(m) \in Saved(m) /\ CredentialName(m) \notin Apps
      BY <1>j, NameAssumption DEF Saved
    <3>2. pc'[m] \in PastKey(App(m))
      BY <2>2 DEF PastKey
    <3>3. \A x \in Saved(m) : x \in Apps /\ pc[m] \in PastMove(x) => pc'[m] \in PastMove(x)
      BY <1>0, <2>2 DEF PastMove
    <3> QED
      BY <2>2, <3>1, <3>2, <3>3 DEF Touched
  <2>7. Alone(m)'
    <3>1. NewText(m, done[App(m)].base)' = NewText(m, done[App(m)].base)
      BY <2>1, <2>2 DEF NewText
    <3>2. pc'[m] \in PastMove(App(m)) => pc[m] \in PastMove(App(m))
      BY <1>0, <2>2 DEF PastMove
    <3>3. ~PastName(m)' /\ pc'[m] # "move"
      BY <2>2 DEF PastName
    <3> QED
      BY <1>0, <1>t, <2>1, <2>2, <2>3, <3>1, <3>2, <3>3 DEF Alone
  <2>8. \A n : Registered(n) => Registered(n)'
    BY <1>0, <2>2 DEF Registered
  <2>9. \A n \in Managers : (AtOK(n) /\ Alone(n))'
    BY <2>2, <2>5, <2>7
  <2> QED
    BY <1>0, <2>1, <2>2, <2>3, <2>4, <2>6, <2>8, <2>9, Goes
<1> QED
  BY <1>1, <1>2 DEF StoreKey

\* The name is looked up in the list or added to it.
LEMMA StepRegisters ==
    ASSUME SaveInv, NEW m \in Managers, pc[m] \in {"list", "name"},
           NEW label \in {"name", AfterKey(m)}, NEW j \in Job, j.app = job[m].app,
           j.save = job[m].save, j.kind = job[m].kind, j.text = job[m].text,
           pc' = [pc EXCEPT ![m] = label], job' = [job EXCEPT ![m] = j],
           UNCHANGED <<config, temp, cred, active, busy, saves,
                       done, launch, crossed, broken>>,
           names' \in SUBSET Name,
           label = "name" => CredentialName(m) \in j.names /\ names' = names
                             /\ names \subseteq j.names,
           label # "name" => CredentialName(m) \in names'
                             /\ \A n : Registered(n) => n \in names'
    PROVE  SaveInv'
<1>t. TypeOK /\ AtOK(m) /\ Alone(m)
  BY DEF SaveInv
<1>j. App(m) \in Apps /\ Keyed(m) /\ CredentialName(m) \in Name
  BY <1>t, JobFacts DEF AtOK
<1>1. /\ label \in Label \ {"idle"} /\ pc[m] # "idle" /\ busy' = busy /\ crossed' = crossed
      /\ label = "name" \/ (App(m) = Claude /\ label = "temp")
                        \/ (App(m) = Codex /\ label = "active")
  BY <1>j DEF Label, AfterKey, Apps
<1>2. /\ pc'[m] = label /\ job'[m] = j
      /\ \A n \in Managers \ {m} :
            pc'[n] = pc[n] /\ job'[n] = job[n] /\ (AtOK(n) /\ Alone(n))'
      /\ pc' \in [Managers -> Label] /\ job' \in [Managers -> Job]
      /\ busy' = [n \in Managers |-> pc'[n] # "idle"]
      /\ m \notin crossed => \A n \in Managers \ {m} : ~busy[n] /\ ~busy'[n]
      /\ App(m)' = App(m) /\ Base(m)' = Base(m) /\ Keyed(m)' = Keyed(m)
      /\ CredentialName(m)' = CredentialName(m) /\ Keeps(m)' = Keeps(m)
      /\ Saved(m)' = Saved(m) /\ busy[m] /\ job'[m].save = job[m].save
  BY <1>1, Moves
<1>3. TypeOK'
  BY <1>t, <1>2 DEF TypeOK
<1>4. AtOK(m)'
  BY <1>1, <1>2, <1>j, <1>t, SaveAssumption DEF AtOK
<1>5. Touched(m) \subseteq Touched(m)'
  <2>1. \A a \in Apps : a \in Saved(m) => a = App(m)
    BY <1>t, SavedFacts
  <2>2. pc[m] \in PastMove(App(m)) => pc'[m] \in PastMove(App(m))
    BY <1>1, <1>2 DEF PastMove
  <2>3. pc'[m] \in PastKey(App(m))
    BY <1>1, <1>2, SaveAssumption DEF PastKey
  <2> QED
    BY <1>2, <2>1, <2>2, <2>3 DEF Touched
<1>6. Alone(m)'
  <2>1. NewText(m, done[App(m)].base)' = NewText(m, done[App(m)].base)
    BY <1>2 DEF NewText
  <2>2. pc'[m] \in PastMove(App(m)) => pc[m] \in PastMove(App(m))
    BY <1>1, <1>2, SaveAssumption DEF PastMove
  <2>3. pc[m] \in PastKey(App(m)) /\ pc'[m] # "move" /\ pc[m] \notin {"check", "end"}
    BY <1>1, <1>2 DEF PastKey
  <2>4. PastName(m)' => label # "name"
    BY <1>1, <1>2 DEF PastName
  <2> QED
    BY <1>j, <1>t, <1>2, <2>1, <2>2, <2>3, <2>4 DEF Alone
<1>7. \A n : Registered(n) => Registered(n)'
  BY <1>2 DEF Registered
<1>8. \A n \in Managers : (AtOK(n) /\ Alone(n))'
  BY <1>2, <1>4, <1>6
<1> QED
  BY <1>2, <1>3, <1>5, <1>7, <1>8, Goes

LEMMA StepReadNames ==
    ASSUME SaveInv, NEW m \in Managers, ReadNames(m)
    PROVE  SaveInv'
<1>t. TypeOK /\ AtOK(m)
  BY DEF SaveInv
<1>j. job[m] \in Job /\ CredentialName(m) \in Name
  BY <1>t, JobFacts DEF ReadNames, AtOK
<1>0. /\ pc[m] = "list" /\ pc[m] # "idle"
      /\ UNCHANGED <<config, temp, cred, names, active, busy, saves>>
  BY DEF ReadNames, files, registry
<1>1. CASE Fails(m) /\ job' = job
  <2>1. temp' \in [Apps -> Address \cup {None}] /\ job' = [job EXCEPT ![m] = job[m]]
        /\ UNCHANGED <<config, registry, busy, saves>>
    BY <1>0, <1>1, <1>t DEF TypeOK, registry
  <2> QED
    BY <1>0, <1>1, <1>j, <2>1, StepFails
<1>2. CASE /\ CredentialName(m) \in names
           /\ GoTo(m, AfterKey(m))
           /\ job' = job
           /\ UNCHANGED history
  <2>1. /\ pc' = [pc EXCEPT ![m] = AfterKey(m)] /\ job' = [job EXCEPT ![m] = job[m]]
        /\ UNCHANGED <<config, temp, cred, active, busy, saves,
                       done, launch, crossed, broken>>
        /\ names' = names /\ names \in SUBSET Name /\ AfterKey(m) # "name"
        /\ \A n : Registered(n) => n \in names'
    BY <1>0, <1>2, <1>t DEF TypeOK, history, GoTo, AfterKey, Registered
  <2> QED
    BY <1>0, <1>2, <1>j, <2>1, StepRegisters
<1>3. CASE /\ GoTo(m, "name")
           /\ job' = [job EXCEPT ![m].names = names \cup {CredentialName(m)}]
           /\ UNCHANGED history
  <2> DEFINE j == [job[m] EXCEPT !.names = names \cup {CredentialName(m)}]
  <2>1. /\ j \in Job /\ j.app = job[m].app /\ j.save = job[m].save
        /\ j.kind = job[m].kind /\ j.text = job[m].text
        /\ j.names = names \cup {CredentialName(m)} /\ job' = [job EXCEPT ![m] = j]
    BY <1>3, <1>j, <1>t DEF Job, TypeOK
  <2> HIDE DEF j
  <2>2. /\ pc' = [pc EXCEPT ![m] = "name"]
        /\ UNCHANGED <<config, temp, cred, active, busy, saves,
                       done, launch, crossed, broken>>
        /\ names' = names /\ names \in SUBSET Name
    BY <1>0, <1>3, <1>t DEF TypeOK, history, GoTo
  <2> QED
    BY <1>0, <2>1, <2>2, StepRegisters
<1> QED
  BY <1>1, <1>2, <1>3 DEF ReadNames

LEMMA StepWriteNames ==
    ASSUME SaveInv, NEW m \in Managers, WriteNames(m)
    PROVE  SaveInv'
<1> DEFINE j == [job[m] EXCEPT !.names = {}]
<1>t. TypeOK /\ AtOK(m)
  BY DEF SaveInv
<1>j. job[m] \in Job /\ job[m].names \subseteq Name
  BY <1>t, JobFacts
<1>0. /\ pc[m] = "name" /\ pc[m] # "idle"
      /\ UNCHANGED <<config, temp, cred, active, busy, saves>>
  BY DEF WriteNames, files
<1>1. /\ j \in Job /\ j.app = job[m].app /\ j.save = job[m].save
      /\ j.kind = job[m].kind /\ j.text = job[m].text /\ job' = [job EXCEPT ![m] = j]
  BY <1>j, <1>t DEF WriteNames, Job, TypeOK
<1> HIDE DEF j
<1>2. CASE names' = names /\ Fails(m)
  <2>1. temp' \in [Apps -> Address \cup {None}] /\ UNCHANGED <<config, registry, busy, saves>>
    BY <1>0, <1>2, <1>t DEF TypeOK, registry
  <2> QED
    BY <1>0, <1>1, <1>2, <2>1, StepFails
<1>3. CASE names' = job[m].names /\ GoTo(m, AfterKey(m)) /\ UNCHANGED history
  <2>1. /\ pc' = [pc EXCEPT ![m] = AfterKey(m)]
        /\ UNCHANGED <<config, temp, cred, active, busy, saves,
                       done, launch, crossed, broken>>
        /\ names' \in SUBSET Name /\ AfterKey(m) # "name"
    BY <1>0, <1>3, <1>j DEF history, GoTo, AfterKey
  <2>2. CredentialName(m) \in names' /\ \A n : Registered(n) => n \in names'
    BY <1>0, <1>3, <1>t DEF AtOK, Registered
  <2> QED
    BY <1>0, <1>1, <2>1, <2>2, StepRegisters
<1> QED
  BY <1>2, <1>3 DEF WriteNames

LEMMA StepWriteTemp ==
    ASSUME SaveInv, NEW m \in Managers, WriteTemp(m)
    PROVE  SaveInv'
<1>t. TypeOK /\ AtOK(m) /\ Alone(m)
  BY DEF SaveInv
<1>j. job[m] \in Job /\ App(m) \in Apps /\ job[m].text \in Address \cup {None}
  BY <1>t, JobFacts
<1>0. /\ pc[m] = "temp" /\ pc[m] # "idle" /\ job' = [job EXCEPT ![m] = job[m]]
      /\ UNCHANGED <<config, cred, names, active, job, busy, saves>>
  BY <1>t DEF WriteTemp, registry, window, TypeOK
<1>1. CASE temp' = temp /\ Fails(m)
  <2>1. temp' \in [Apps -> Address \cup {None}] /\ UNCHANGED <<config, registry, busy, saves>>
    BY <1>0, <1>1, <1>t DEF TypeOK, registry
  <2> QED
    BY <1>0, <1>1, <1>j, <2>1, StepFails
<1>2. CASE /\ temp' = [temp EXCEPT ![App(m)] = job[m].text]
           /\ GoTo(m, "move")
           /\ UNCHANGED history
  <2>1. UNCHANGED <<done, launch, crossed, broken>> /\ "move" \in Label \ {"idle"}
    BY <1>2 DEF history, Label
  <2>2. /\ pc'[m] = "move" /\ job'[m] = job[m]
        /\ \A n \in Managers \ {m} :
              pc'[n] = pc[n] /\ job'[n] = job[n] /\ (AtOK(n) /\ Alone(n))'
        /\ pc' \in [Managers -> Label] /\ job' \in [Managers -> Job]
        /\ busy' = [n \in Managers |-> pc'[n] # "idle"]
        /\ m \notin crossed => \A n \in Managers \ {m} : ~busy[n] /\ ~busy'[n]
        /\ App(m)' = App(m) /\ Base(m)' = Base(m) /\ Keyed(m)' = Keyed(m)
        /\ CredentialName(m)' = CredentialName(m) /\ Keeps(m)' = Keeps(m)
        /\ Saved(m)' = Saved(m) /\ busy[m]
    BY <1>0, <1>2, <1>j, <2>1, Moves DEF GoTo
  <2>3. temp' \in [Apps -> Address \cup {None}] /\ temp'[App(m)] = job[m].text
    BY <1>2, <1>j, <1>t DEF TypeOK
  <2>4. TypeOK'
    BY <1>0, <1>t, <2>1, <2>2, <2>3 DEF TypeOK
  <2>5. AtOK(m)'
    BY <1>t, <2>2 DEF AtOK
  <2>6. /\ pc[m] \in PastMove(App(m)) <=> pc'[m] \in PastMove(App(m))
        /\ pc[m] \in PastKey(App(m)) <=> pc'[m] \in PastKey(App(m))
        /\ \A a \in Apps : pc[m] \in PastMove(a) <=> pc'[m] \in PastMove(a)
        /\ PastName(m)' <=> PastName(m)
    BY <1>0, <2>2 DEF PastMove, PastKey, PastName
  <2>7. Touched(m) \subseteq Touched(m)'
    BY <2>2, <2>6 DEF Touched
  <2>8. Alone(m)'
    <3>1. NewText(m, done[App(m)].base)' = NewText(m, done[App(m)].base)
      BY <2>1, <2>2 DEF NewText
    <3> QED
      BY <1>0, <1>t, <2>1, <2>2, <2>3, <2>6, <3>1 DEF Alone
  <2>9. \A n : Registered(n) => Registered(n)'
    BY <1>0, <2>2 DEF Registered
  <2>10. \A n \in Managers : (AtOK(n) /\ Alone(n))'
    BY <2>2, <2>5, <2>8
  <2> QED
    BY <1>0, <2>1, <2>2, <2>4, <2>7, <2>9, <2>10, Goes
<1> QED
  BY <1>1, <1>2 DEF WriteTemp

\* What a complete save leaves has its type.
LEMMA CompletesType ==
    ASSUME SaveInv, NEW m \in Managers, NEW activates \in BOOLEAN, Completes(m, activates)
    PROVE  /\ done' \in [Apps -> Save \cup {NoSave}]
           /\ launch' \in [name : Name \cup {None, Unset}, key : Keys \cup {None}]
           /\ crossed' \subseteq Managers /\ broken' \subseteq Apps \cup Name
<1>t. TypeOK /\ AtOK(m)
  BY DEF SaveInv
<1>1. /\ App(m) \in Apps /\ job[m].save \in Save /\ Base(m) \in Address
      /\ job[m].save.key \in Keys \cup {None} /\ CredentialName(m) \in Name \cup {None}
      /\ Saved(m) \subseteq Apps \cup Name
  BY <1>t, JobFacts DEF Saved, AtOK
<1>2. NewText(m, done[App(m)].base) \in Address
  <2>1. done[App(m)] \in Save \/ done[App(m)] = NoSave
    BY <1>1, <1>t DEF TypeOK
  <2>2. done[App(m)].base \in Address \/ done[App(m)].base = None
    BY <2>1 DEF Save, NoSave, Nothing
  <2> QED
    BY <1>1, <2>2 DEF NewText
<1>3. [job[m].save EXCEPT !.base = NewText(m, done[App(m)].base)] \in Save
  BY <1>1, <1>2 DEF Save
<1> QED
  BY <1>1, <1>3, <1>t DEF Completes, TypeOK

LEMMA StepMove ==
    ASSUME SaveInv, NEW m \in Managers, Move(m)
    PROVE  SaveInv'
<1>t. TypeOK /\ AtOK(m) /\ Alone(m)
  BY DEF SaveInv
<1>j. job[m] \in Job /\ App(m) \in Apps
  BY <1>t, JobFacts
<1>0. /\ pc[m] = "move" /\ pc[m] # "idle" /\ job' = [job EXCEPT ![m] = job[m]]
      /\ UNCHANGED <<cred, names, active, job, busy, saves>>
      /\ temp' \in [Apps -> Address \cup {None}]
  BY <1>t DEF Move, registry, window, TypeOK
<1>1. CASE config' = config /\ Fails(m)
  <2>1. UNCHANGED <<config, registry, busy, saves>>
    BY <1>0, <1>1 DEF registry
  <2> QED
    BY <1>0, <1>1, <1>j, <2>1, StepFails
<1>2. CASE /\ config' = [config EXCEPT ![App(m)] = temp[App(m)]]
           /\ GoTo(m, AfterMove(m))
           /\ IF AfterMove(m) = "end" THEN Completes(m, FALSE) ELSE UNCHANGED history
  <2>1. /\ crossed' = crossed /\ AfterMove(m) \in Label \ {"idle"}
        /\ AfterMove(m) \in {"active", "key", "end"}
        /\ pc' = [pc EXCEPT ![m] = AfterMove(m)] /\ busy' = busy
    BY <1>0, <1>2 DEF history, Completes, Label, AfterMove, GoTo
  <2>2. /\ pc'[m] = AfterMove(m) /\ job'[m] = job[m]
        /\ \A n \in Managers \ {m} :
              pc'[n] = pc[n] /\ job'[n] = job[n] /\ (AtOK(n) /\ Alone(n))'
        /\ pc' \in [Managers -> Label] /\ job' \in [Managers -> Job]
        /\ busy' = [n \in Managers |-> pc'[n] # "idle"]
        /\ m \notin crossed => \A n \in Managers \ {m} : ~busy[n] /\ ~busy'[n]
        /\ App(m)' = App(m) /\ Base(m)' = Base(m) /\ Keyed(m)' = Keyed(m)
        /\ CredentialName(m)' = CredentialName(m) /\ Keeps(m)' = Keeps(m)
        /\ Saved(m)' = Saved(m) /\ busy[m]
    BY <1>0, <1>j, <2>1, Moves
  <2>3. config' \in [Apps -> Address \cup {None}] /\ config'[App(m)] = temp[App(m)]
        /\ \A a \in Apps \ {App(m)} : config'[a] = config[a]
    BY <1>2, <1>j, <1>t DEF TypeOK
  <2>4. m \notin crossed =>
            /\ config'[App(m)] = job[m].text
            /\ App(m) \notin broken \/ ~Keeps(m) =>
                    job[m].text = NewText(m, done[App(m)].base)
    BY <1>0, <1>t, <2>2, <2>3 DEF Alone
  <2>5. CASE AfterMove(m) = "end"
    <3>1. Completes(m, FALSE)
      BY <1>2, <2>5
    <3>2. TypeOK'
      BY <1>0, <1>t, <2>2, <2>3, <3>1, CompletesType DEF TypeOK
    <3>3. m \notin crossed /\ Keyed(m) => /\ cred[CredentialName(m)] = job[m].save.key
                                          /\ CredentialName(m) \in names
      <4>1. Keyed(m) => App(m) = Claude
        BY <2>5, <1>j DEF AfterMove, Apps
      <4>2. Keyed(m) => pc[m] \in PastKey(App(m)) /\ PastName(m)
        BY <4>1, <1>0 DEF PastKey, PastName
      <4> QED
        BY <4>2, <1>t, <2>2 DEF Alone
    <3> QED
      BY <1>0, <2>2, <2>3, <2>4, <2>5, <3>1, <3>2, <3>3, Completed
  <2>6. CASE AfterMove(m) # "end"
    <3>1. UNCHANGED <<done, launch, crossed, broken>>
      BY <1>2, <2>6 DEF history
    <3>2. TypeOK'
      BY <1>0, <1>t, <2>2, <2>3, <3>1 DEF TypeOK
    <3>3. \/ App(m) = Claude /\ AfterMove(m) = "active"
          \/ App(m) = Codex /\ Keyed(m) /\ AfterMove(m) = "key"
      BY <2>6, <1>j DEF AfterMove, Apps
    <3>4. AtOK(m)'
      BY <1>t, <2>2, <3>3, SaveAssumption DEF AtOK
    <3>5. /\ pc'[m] \in PastMove(App(m))
          /\ pc[m] \in PastKey(App(m)) <=> pc'[m] \in PastKey(App(m))
          /\ PastName(m)' <=> PastName(m)
      BY <1>0, <2>2, <3>3, SaveAssumption DEF PastMove, PastKey, PastName
    <3>6. Alone(m)'
      <4>1. NewText(m, done[App(m)].base)' = NewText(m, done[App(m)].base)
        BY <2>2, <3>1 DEF NewText
      <4>2. pc'[m] # "move"
        BY <2>2, <3>3
      <4> QED
        BY <1>0, <1>t, <2>2, <2>4, <3>1, <3>5, <4>1, <4>2 DEF Alone
    <3>7. Touched(m) \subseteq Touched(m)' /\ App(m) \in Touched(m)'
      <4>1. App(m) \in Saved(m) /\ \A a \in Apps : a \in Saved(m) => a = App(m)
        BY <1>t, SavedFacts
      <4> QED
        BY <1>j, <2>2, <3>5, <4>1 DEF Touched
    <3>8. \A n : Registered(n) => Registered(n)'
      BY <1>0, <2>2, <3>3 DEF Registered
    <3>9. \A n \in Managers : (AtOK(n) /\ Alone(n))'
      BY <2>2, <3>4, <3>6
    <3> QED
      BY <1>0, <2>2, <2>3, <3>1, <3>2, <3>7, <3>8, <3>9, Goes
  <2> QED
    BY <2>5, <2>6
<1> QED
  BY <1>1, <1>2 DEF Move

LEMMA StepActivate ==
    ASSUME SaveInv, NEW m \in Managers, Activate(m)
    PROVE  SaveInv'
<1>t. TypeOK /\ AtOK(m) /\ Alone(m)
  BY DEF SaveInv
<1>j. job[m] \in Job /\ App(m) \in Apps /\ CredentialName(m) \in Name \cup {None}
  BY <1>t, JobFacts
<1>0. /\ pc[m] = "active" /\ pc[m] # "idle" /\ job' = [job EXCEPT ![m] = job[m]]
      /\ UNCHANGED <<config, temp, cred, names, job, busy, saves>>
      /\ pc' = [pc EXCEPT ![m] = "end"] /\ "end" \in Label \ {"idle"}
  BY <1>t DEF Activate, files, window, TypeOK, GoTo, Label
<1>1. PICK activates \in BOOLEAN :
            Completes(m, activates) /\ active' = IF activates THEN CredentialName(m) ELSE active
  BY DEF Activate
<1>2. crossed' = crossed /\ busy' = busy
  BY <1>0, <1>1 DEF Completes
<1>3. /\ pc'[m] = "end" /\ busy[m]
      /\ \A n \in Managers \ {m} :
            pc'[n] = pc[n] /\ job'[n] = job[n] /\ (AtOK(n) /\ Alone(n))'
      /\ pc' \in [Managers -> Label] /\ job' \in [Managers -> Job]
      /\ busy' = [n \in Managers |-> pc'[n] # "idle"]
      /\ m \notin crossed => \A n \in Managers \ {m} : ~busy[n] /\ ~busy'[n]
  BY <1>0, <1>2, <1>j, Moves
<1>4. TypeOK'
  <2>1. active' \in Name \cup {None, Unset}
    BY <1>1, <1>j, <1>t DEF TypeOK
  <2> QED
    BY <1>0, <1>1, <1>3, <1>t, <2>1, CompletesType DEF TypeOK
<1>5. m \notin crossed =>
            /\ config'[App(m)] = job[m].text
            /\ App(m) \notin broken \/ ~Keeps(m) =>
                    job[m].text = NewText(m, done[App(m)].base)
            /\ Keyed(m) => /\ cred[CredentialName(m)] = job[m].save.key
                           /\ CredentialName(m) \in names
  <2>1. pc[m] \in PastMove(App(m)) /\ pc[m] \in PastKey(App(m)) /\ (Keyed(m) => PastName(m))
    BY <1>0 DEF PastMove, PastKey, PastName
  <2> QED
    BY <1>0, <1>3, <1>t, <2>1 DEF Alone
<1>6. /\ cred' = cred /\ names' = names /\ job' = job
      /\ \A a \in Apps \ {App(m)} : config'[a] = config[a]
  BY <1>0
<1> QED
  BY <1>1, <1>2, <1>3, <1>4, <1>5, <1>6, Completed

-----------------------------------------------------------------------------

LEMMA InvStep == SaveInv /\ [Next]_vars => SaveInv'
<1> SUFFICES ASSUME SaveInv, [Next]_vars PROVE SaveInv'
  OBVIOUS
<1>1. ASSUME NEW m \in Managers, NEW a \in Apps, NEW kind \in Kind,
             NEW s \in Offered(a, kind), Begin(m, a, s, kind)
      PROVE  SaveInv'
  BY <1>1, StepBegin
<1>2. ASSUME NEW m \in Managers, Kill(m) PROVE SaveInv'
  BY <1>2, StepKill
<1>3. ASSUME NEW m \in Managers, ThreadStep(m) PROVE SaveInv'
  BY <1>3, StepCheck, StepStoreKey, StepReadNames, StepWriteNames, StepWriteTemp,
     StepMove, StepActivate, StepEnd DEF ThreadStep
<1>4. CASE UNCHANGED vars
  <2>1. UNCHANGED <<config, temp, cred, names, active, pc, job, busy, saves,
                    done, launch, crossed, broken>>
    BY <1>4 DEF vars, files, registry, window, history
  <2>2. \A m \in Managers : Touched(m)' = Touched(m) /\ AtOK(m)' = AtOK(m)
                            /\ Alone(m)' = Alone(m)
    BY <2>1 DEF Touched, Saved, AtOK, Alone, App, Base, Keyed, CredentialName, Keeps,
       NewText, PastMove, PastKey, PastName
  <2>3. \A x : Sound(x)' = Sound(x) /\ Registered(x)' = Registered(x)
    BY <2>1, <2>2 DEF Sound, Registered
  <2>4. \A a \in Apps : Kept(a)' = Kept(a)
    BY <2>1, <2>3 DEF Kept
  <2>5. Chosen' = Chosen
    BY <2>1, <2>3 DEF Chosen
  <2>6. TypeOK' = TypeOK
    BY <2>1 DEF TypeOK
  <2> QED
    BY <2>2, <2>4, <2>5, <2>6 DEF SaveInv
<1> QED
  BY <1>1, <1>2, <1>3, <1>4 DEF Next

\* However many programs run, fail or are ended, SaveInv holds.
THEOREM SaveInvariant == Spec => []SaveInv
BY InvInit, InvStep, PTL DEF Spec

\* The variables have their types, and a program is busy exactly while its thread runs.
THEOREM TypeCorrect == Spec => []TypeOK
<1>1. SaveInv => TypeOK
  BY DEF SaveInv
<1> QED
  BY <1>1, SaveInvariant, PTL

\* An agent's file names the address of its last complete save, that save's key is the
\* one under its name, and a launch injects the key that was chosen last and no other:
\* all for those files and credentials which no later save has written that failed, was
\* ended, still runs or overlapped another.  A save that chooses no key leaves the key
\* chosen before it in every launch.
THEOREM KeepsTogether == Spec => []SavedTogether
<1>1. ASSUME SaveInv PROVE SavedTogether
  <2>t. Chosen /\ \A a \in Apps : Kept(a)
    BY <1>1 DEF SaveInv
  <2>1. \A a \in Apps :
            /\ Sound(a) => config[a] = done[a].base
            /\ done[a].key # None /\ Sound(done[a].name) =>
                    done[a].name \in names /\ cred[done[a].name] = done[a].key
    <3>1. \A x : Sound(x) => x \notin broken
      BY DEF Sound
    <3> QED
      BY <2>t, <3>1 DEF Kept, Registered
  <2>2. ASSUME launch.name # Unset, Sound(launch.name)
        PROVE  Injected = {launch.key} \ {None}
    <3>1. active = launch.name /\ active # Unset
      BY <2>t, <2>2 DEF Chosen
    <3>2. CASE launch.name \in Name
      <4>1. cred[active] = launch.key /\ {active} \cap Name = {active}
        BY <2>t, <2>2, <3>1, <3>2 DEF Chosen
      <4> QED
        BY <3>1, <4>1 DEF Injected
    <3>3. CASE launch.name \notin Name
      <4>1. launch.key = None /\ {active} \cap Name = {}
        BY <2>t, <3>1, <3>3 DEF Chosen
      <4> QED
        BY <3>1, <4>1 DEF Injected
    <3> QED
      BY <3>2, <3>3
  <2> QED
    BY <2>1, <2>2 DEF SavedTogether
<1> QED
  BY <1>1, SaveInvariant, PTL
=============================================================================
