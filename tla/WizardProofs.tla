---------------------------- MODULE WizardProofs ---------------------------
(***************************************************************************)
(* Proofs about two parts of AgentDock's configuration wizard: the         *)
(* discovery of models (ModelDiscovery), for any number of threads,        *)
(* agents, gateways and models, and its profiles (Profiles), for any       *)
(* number of agents, keys and ids and any room in the array.  The two      *)
(* share no variable; Profiles' names are kept apart from ModelDiscovery's *)
(* so that one module can extend both.                                     *)
(*                                                                         *)
(* DiscoveryInv says which thread writes the answer, what that answer is   *)
(* for and how much of it is there.  ProfilesInv says when the wizard's    *)
(* copy of a list agrees with the stored one.                              *)
(***************************************************************************)
EXTENDS ModelDiscovery, Profiles, SequenceTheorems, WellFoundedInduction, TLAPS

-----------------------------------------------------------------------------
(* Model discovery                                                         *)

Active == {"begin", "list", "probe", "finish"}

\* At most one thread is at work, and the busy flag is up while it is.
OneBusy ==
    \A t \in Threads : thread[t] \in Active =>
        busy /\ \A u \in Threads \ {t} : thread[u] \notin Active

\* An answer, or one that is being written, is for the form or was turned.
Answers ==
    \/ count > 0 \/ protocol # Unknown \/ \E t \in Threads : thread[t] \in {"list", "probe"}
    => turned \/ answered = Asks(form)

\* A list that lacks models of its answer was reset while it was written.
Whole ==
    /\ count <= total
    /\ count > 0 \/ (\E t \in Threads : thread[t] = "list") => turned \/ count = total

\* A thread at work while a message is on its way began after that message's thread.
Late ==
    \A t, u \in Threads : thread[t] \in {"post", "posted"} /\ thread[u] \in Active => rushed

\* A closed wizard has no address and key to ask with.
Closed == form.fields # Incomplete => form.shown

DiscoveryInv == TypeOK /\ OneBusy /\ Answers /\ Whole /\ Late /\ Closed

-----------------------------------------------------------------------------

LEMMA AsksType ==
    ASSUME NEW f \in Form
    PROVE  Asks(f) \in Question
BY DEF Form, Asks, Question

LEMMA InvInit == Init => DiscoveryInv
<1> SUFFICES ASSUME Init PROVE DiscoveryInv
  OBVIOUS
<1>1. form \in Form /\ form.fields = Incomplete
  BY DEF Init, Form
<1>2. TypeOK
  <2>1. asked \in Question /\ answered \in Question
    BY <1>1, AsksType DEF Init
  <2>2. thread \in [Threads -> Label]
    BY DEF Init, Label
  <2>3. count \in 0 .. MaxModels /\ total \in 0 .. MaxModels
    BY DiscoveryAssumption DEF Init
  <2> QED
    BY <1>1, <2>1, <2>2, <2>3 DEF Init, TypeOK
<1>3. OneBusy /\ Answers /\ Whole /\ Late
  BY DEF Init, OneBusy, Answers, Whole, Late, Active
<1> QED
  BY <1>1, <1>2, <1>3 DEF DiscoveryInv, Closed

\* The form is changed, with or without a reset of the answer.
LEMMA StepForm ==
    ASSUME DiscoveryInv,
           \/ Show \/ Hide
           \/ \E g \in Gateways \cup {Incomplete} :
                Fill(g) \/ \E gateway \in BOOLEAN : Refill(g, gateway)
           \/ \E gateway \in BOOLEAN : UpdateProvider(gateway)
           \/ \E a \in Apps : UpdateApp(a)
    PROVE  DiscoveryInv' /\ thread' = thread /\ offered' = offered
<1>t. TypeOK /\ form \in Form /\ count \in Nat /\ total \in Nat /\ 0 \in 0 .. MaxModels
  BY DiscoveryAssumption DEF DiscoveryInv, TypeOK
<1>1. thread' = thread /\ offered' = offered /\ busy' = busy /\ asked' = asked
      /\ answered' = answered /\ total' = total /\ rushed' = rushed
  BY DEF Show, Hide, Fill, Refill, UpdateProvider, UpdateApp, Forget, answer
<1>2. /\ \/ Asks(form') = Asks(form) /\ count' = count /\ protocol' \in {protocol, Unknown}
            /\ turned' = turned
         \/ Forget
      /\ form' \in Form /\ Closed'
      /\ timer' \in BOOLEAN /\ pending' \in BOOLEAN /\ enabled' \in BOOLEAN
  <2>1. CASE Show
    <3>1. form' = [form EXCEPT !.shown = TRUE] /\ count' = count /\ protocol' = protocol
          /\ turned' = turned /\ timer' = timer /\ pending' = pending /\ enabled' = enabled
      BY <2>1 DEF Show, answer
    <3>2. form' \in Form /\ form'.app = form.app /\ form'.fields = form.fields /\ form'.shown
      BY <1>t, <3>1 DEF Form
    <3> QED
      BY <1>t, <3>1, <3>2 DEF Asks, Closed, TypeOK
  <2>2. CASE Hide
    <3>1. form' = [form EXCEPT !.shown = FALSE, !.fields = Incomplete] /\ Forget
          /\ timer' \in BOOLEAN /\ pending' \in BOOLEAN /\ enabled' = enabled
      BY <2>2 DEF Hide
    <3>2. form' \in Form /\ form'.fields = Incomplete
      BY <1>t, <3>1 DEF Form
    <3> QED
      BY <1>t, <3>1, <3>2 DEF Closed, TypeOK
  <2>3. ASSUME NEW g \in Gateways \cup {Incomplete}, Fill(g)
        PROVE  /\ Forget /\ form' \in Form /\ Closed'
               /\ timer' \in BOOLEAN /\ pending' \in BOOLEAN /\ enabled' \in BOOLEAN
    <3>1. form' = [form EXCEPT !.fields = g] /\ Forget /\ form.shown
          /\ timer' = timer /\ pending' = pending /\ enabled' = enabled
      BY <2>3 DEF Fill
    <3>2. form' \in Form /\ form'.shown
      BY <1>t, <3>1 DEF Form
    <3> QED
      BY <1>t, <3>1, <3>2 DEF Closed, TypeOK
  <2>4. ASSUME NEW g \in Gateways \cup {Incomplete}, NEW gateway \in BOOLEAN,
               Refill(g, gateway)
        PROVE  /\ Forget /\ form' \in Form /\ Closed'
               /\ timer' \in BOOLEAN /\ pending' \in BOOLEAN /\ enabled' \in BOOLEAN
    <3>1. form' = [form EXCEPT !.fields = g, !.gateway = gateway] /\ Forget /\ form.shown
          /\ timer' = timer /\ pending' = pending
      BY <2>4 DEF Refill
    <3>2. form' \in Form /\ form'.shown
      BY <1>t, <3>1 DEF Form
    <3>3. enabled' \in BOOLEAN
      BY <2>4 DEF Refill
    <3> QED
      BY <1>t, <3>1, <3>2, <3>3 DEF Closed, TypeOK
  <2>5. ASSUME NEW gateway \in BOOLEAN, UpdateProvider(gateway)
        PROVE  /\ Asks(form') = Asks(form) /\ count' = count /\ protocol' = Unknown
               /\ turned' = turned /\ form' \in Form /\ Closed'
               /\ timer' \in BOOLEAN /\ pending' \in BOOLEAN /\ enabled' \in BOOLEAN
    <3>1. form' = [form EXCEPT !.gateway = gateway] /\ form.shown /\ count' = count
          /\ protocol' = Unknown /\ turned' = turned /\ timer' = timer /\ pending' = pending
      BY <2>5 DEF UpdateProvider
    <3>2. form' \in Form /\ form'.app = form.app /\ form'.fields = form.fields /\ form'.shown
      BY <1>t, <3>1 DEF Form
    <3>3. enabled' \in BOOLEAN
      BY <2>5 DEF UpdateProvider
    <3> QED
      BY <1>t, <3>1, <3>2, <3>3 DEF Asks, Closed, TypeOK
  <2>6. ASSUME NEW a \in Apps, UpdateApp(a)
        PROVE  /\ Forget /\ form' \in Form /\ Closed'
               /\ timer' \in BOOLEAN /\ pending' \in BOOLEAN /\ enabled' \in BOOLEAN
    <3>1. PICK g \in Gateways \cup {Incomplete}, gateway \in BOOLEAN :
              form' = [form EXCEPT !.app = a, !.fields = g, !.gateway = gateway]
      <4>1. CASE form' = [form EXCEPT !.app = a, !.gateway = TRUE]
        <5>1. form.fields \in Gateways \cup {Incomplete}
          BY <1>t DEF Form
        <5>2. form' = [form EXCEPT !.app = a, !.fields = form.fields, !.gateway = TRUE]
          BY <1>t, <4>1 DEF Form
        <5> QED
          BY <5>1, <5>2
      <4> QED
        BY <2>6, <4>1 DEF UpdateApp
    <3>2. form' \in Form /\ form'.shown
      BY <1>t, <2>6, <3>1 DEF Form, UpdateApp
    <3>3. enabled' \in BOOLEAN /\ timer' = timer /\ pending' = pending /\ Forget
      BY <2>6 DEF UpdateApp
    <3> QED
      BY <1>t, <3>2, <3>3 DEF Closed, TypeOK
  <2> QED
    BY <2>1, <2>2, <2>3, <2>4, <2>5, <2>6
<1>3. CASE /\ Asks(form') = Asks(form) /\ count' = count /\ protocol' \in {protocol, Unknown}
           /\ turned' = turned
  BY <1>1, <1>2, <1>3, <1>t DEF DiscoveryInv, TypeOK, OneBusy, Answers, Whole, Late
<1>4. CASE Forget
  <2>1. count' = 0 /\ protocol' = Unknown /\ turned' = busy
    BY <1>4 DEF Forget
  <2>2. TypeOK'
    BY <1>1, <1>2, <1>t, <2>1 DEF TypeOK
  <2>3. (\E t \in Threads : thread[t] \in {"list", "probe"}) => busy
    BY DEF DiscoveryInv, OneBusy, Active
  <2>4. OneBusy' /\ Answers' /\ Whole' /\ Late'
    BY <1>1, <1>t, <2>1, <2>3 DEF DiscoveryInv, OneBusy, Answers, Whole, Late
  <2> QED
    BY <1>1, <1>2, <2>2, <2>4 DEF DiscoveryInv
<1> QED
  BY <1>1, <1>2, <1>3, <1>4

\* No thread is started, and the form is left alone.
LEMMA StepQuiet ==
    ASSUME DiscoveryInv, timer' \in BOOLEAN, pending' \in BOOLEAN, enabled' \in BOOLEAN,
           form' = form, busy' = busy, asked' = asked, thread' = thread, count' = count,
           protocol' \in {protocol, Unknown}, answered' = answered, total' = total,
           turned' = turned, rushed' = rushed, offered' = offered
    PROVE  DiscoveryInv'
BY DEF DiscoveryInv, TypeOK, OneBusy, Answers, Whole, Late, Closed

LEMMA StepStart ==
    ASSUME DiscoveryInv, NEW t \in Threads, StartThread(t), offered' = offered, ~busy
    PROVE  DiscoveryInv'
<1>t. TypeOK
  BY DEF DiscoveryInv
<1>1. /\ form' = form /\ busy' = TRUE /\ count' = count /\ protocol' = Unknown
      /\ answered' = answered /\ total' = total /\ turned' = turned
      /\ thread' = [thread EXCEPT ![t] = "begin"]
  BY DEF StartThread, GoTo
<1>2. \A u \in Threads : thread[u] \notin Active
  BY DEF DiscoveryInv, OneBusy
<1>3. TypeOK'
  BY <1>1, <1>t, AsksType DEF TypeOK, StartThread, Label
<1>4. OneBusy'
  BY <1>1, <1>2, <1>t DEF OneBusy, TypeOK
<1>5. Answers'
  BY <1>1, <1>2, <1>t DEF DiscoveryInv, Answers, TypeOK, Active
<1>6. Whole'
  BY <1>1, <1>2, <1>t DEF DiscoveryInv, Whole, TypeOK, Active
<1>7. Late'
  <2>1. \A u, v \in Threads : thread'[u] \in {"post", "posted"} /\ thread'[v] \in Active =>
            thread[u] \in {"post", "posted"}
    BY <1>1, <1>t DEF TypeOK
  <2> QED
    BY <2>1 DEF Late, StartThread
<1>8. Closed'
  BY <1>1 DEF DiscoveryInv, Closed
<1> QED
  BY <1>3, <1>4, <1>5, <1>6, <1>7, <1>8 DEF DiscoveryInv

\* start_model_discovery: a thread is started only with an address and a key.
LEMMA StepAsk ==
    ASSUME DiscoveryInv, Test \/ Ask \/ Tick
    PROVE  /\ DiscoveryInv' /\ offered' = offered
           /\ \A t \in Threads : thread[t] = "idle" /\ thread'[t] = "begin" => form.shown
<1>t. TypeOK
  BY DEF DiscoveryInv
<1>1. CASE Start /\ ~busy
  <2>1. CASE \E t \in Threads : StartThread(t) /\ form.fields # Incomplete
    BY <1>1, <2>1, StepStart DEF Start, DiscoveryInv, Closed
  <2>2. CASE FailToStart \/ Decline
    <3>1. thread' = thread
      BY <2>2 DEF FailToStart, Decline
    <3>2. DiscoveryInv'
      BY <1>1, <1>t, <2>2, StepQuiet DEF Start, FailToStart, Decline, TypeOK
    <3> QED
      BY <1>1, <1>t, <3>1, <3>2 DEF Start, TypeOK
  <2> QED
    BY <1>1, <2>1, <2>2 DEF Start
<1>2. CASE Arm
  <2>1. DiscoveryInv'
    BY <1>2, <1>t, StepQuiet DEF Arm, answer, TypeOK
  <2> QED
    BY <1>2, <1>t, <2>1 DEF Arm, TypeOK
<1>3. CASE /\ timer' = FALSE
           /\ UNCHANGED <<form, pending, busy, enabled, asked, thread, answer, offered,
                          turned, rushed>>
  <2>1. DiscoveryInv'
    BY <1>3, <1>t, StepQuiet DEF answer, TypeOK
  <2> QED
    BY <1>3, <1>t, <2>1 DEF TypeOK
<1> QED
  BY <1>1, <1>2, <1>3 DEF Test, Ask, Tick

\* A list in part goes into the form only when the form was changed meanwhile or another
\* thread was started before this message.
LEMMA StepComplete ==
    ASSUME DiscoveryInv, NEW t \in Threads, Complete(t)
    PROVE  /\ DiscoveryInv' /\ thread' = [thread EXCEPT ![t] = "idle"]
           /\ offered' = "part" /\ offered # "part" => turned \/ rushed
<1>t. TypeOK /\ count \in Nat
  BY DiscoveryAssumption DEF DiscoveryInv, TypeOK
<1>1. /\ thread[t] = "posted" /\ thread' = [thread EXCEPT ![t] = "idle"] /\ form' = form
      /\ busy' = busy /\ count' = count /\ protocol' = protocol /\ answered' = answered
      /\ total' = total /\ turned' = turned /\ rushed' = rushed
  BY DEF Complete, GoTo, answer
<1>2. \A u \in Threads : thread'[u] = IF u = t THEN "idle" ELSE thread[u]
  BY <1>1, <1>t DEF TypeOK
<1>3. TypeOK'
  <2>1. offered' \in {"none", "whole", "part"}
    BY <1>t DEF Complete, TypeOK
  <2> QED
    BY <1>1, <1>t, <2>1 DEF Complete, TypeOK, Label
<1>4. OneBusy' /\ Late' /\ Closed'
  BY <1>1, <1>2 DEF DiscoveryInv, OneBusy, Late, Closed, Active
<1>5. Answers' /\ Whole'
  BY <1>1, <1>2 DEF DiscoveryInv, Answers, Whole
<1>6. ASSUME offered' = "part", offered # "part" PROVE turned \/ rushed
  <2>1. count > 0 /\ (count # total \/ \E u \in Threads : thread[u] \in {"begin", "list"})
    BY <1>6, <1>t DEF Complete
  <2> QED
    BY <1>1, <2>1 DEF DiscoveryInv, Whole, Late, Active
<1> QED
  BY <1>1, <1>3, <1>4, <1>5, <1>6 DEF DiscoveryInv

\* The thread writes the answer to the question it was started with.
LEMMA StepThread ==
    ASSUME DiscoveryInv, NEW t \in Threads, ThreadStep(t)
    PROVE  /\ DiscoveryInv' /\ offered' = offered
           /\ \A u \in Threads : thread'[u] = "begin" => thread[u] = "begin"
<1>t. TypeOK /\ count \in Nat /\ total \in Nat /\ 0 \in 0 .. MaxModels
  BY DiscoveryAssumption DEF DiscoveryInv, TypeOK
<1>1. form' = form /\ asked' = asked /\ offered' = offered /\ rushed' = rushed
      /\ timer' = timer /\ pending' = pending /\ enabled' = enabled
  BY DEF ThreadStep, Begin, List, ListEnd, Probe, Finish, Post, window, answer
<1>c. Closed'
  BY <1>1 DEF DiscoveryInv, Closed
\* The thread at work is the only one, and goes on with its work.
<1>2. ASSUME thread[t] \in Active, busy' = busy,
             NEW label \in Active, thread' = [thread EXCEPT ![t] = label],
             label = "begin" => thread[t] = "begin"
      PROVE  /\ OneBusy' /\ Late' /\ thread' \in [Threads -> Label]
             /\ \A u \in Threads : thread'[u] = "begin" => thread[u] = "begin"
             /\ \A u \in Threads : thread'[u] \in Active => u = t
             /\ thread'[t] = label
  <2>1. \A u \in Threads : thread'[u] = IF u = t THEN label ELSE thread[u]
    BY <1>2, <1>t DEF TypeOK
  <2>2. busy /\ \A u \in Threads \ {t} : thread[u] \notin Active
    BY <1>2 DEF DiscoveryInv, OneBusy
  <2>3. OneBusy'
    BY <1>2, <2>1, <2>2 DEF OneBusy
  <2>4. Late'
    BY <1>1, <1>2, <2>1, <2>2 DEF DiscoveryInv, Late, Active
  <2>5. thread' \in [Threads -> Label]
    BY <1>2, <1>t DEF TypeOK, Label, Active
  <2> QED
    BY <1>2, <2>1, <2>2, <2>3, <2>4, <2>5
<1>3. CASE Begin(t)
  <2>1. /\ thread[t] = "begin" /\ thread' = [thread EXCEPT ![t] = "list"] /\ protocol' = Unknown
        /\ count' = 0 /\ answered' = asked /\ total' = 0 /\ turned' = (asked # Asks(form))
        /\ busy' = busy
    BY <1>3 DEF Begin, GoTo, window
  <2>2. OneBusy' /\ Late' /\ thread' \in [Threads -> Label]
        /\ \A u \in Threads : thread'[u] = "begin" => thread[u] = "begin"
    BY <1>2, <2>1 DEF Active
  <2>3. TypeOK'
    BY <1>1, <1>t, <2>1, <2>2 DEF TypeOK
  <2>4. Answers'
    <3>1. turned' \/ answered' = Asks(form)'
      BY <1>1, <2>1
    <3> QED
      BY <3>1 DEF Answers
  <2>5. Whole'
    BY <2>1 DEF Whole
  <2> QED
    BY <1>1, <1>c, <2>2, <2>3, <2>4, <2>5 DEF DiscoveryInv
<1>4. CASE List(t)
  <2>1. /\ thread[t] = "list" /\ thread' = thread /\ total < MaxModels /\ total' = total + 1
        /\ count' = count + 1 /\ protocol' = protocol /\ answered' = answered
        /\ turned' = turned /\ busy' = busy
    BY <1>4 DEF List, window
  <2>2. count <= total /\ (turned \/ count = total) /\ (turned \/ answered = Asks(form))
    BY <2>1 DEF DiscoveryInv, Whole, Answers
  <2>3. TypeOK'
    BY <1>1, <1>t, <2>1, <2>2, DiscoveryAssumption DEF TypeOK
  <2>4. OneBusy' /\ Late'
    BY <1>1, <2>1 DEF DiscoveryInv, OneBusy, Late
  <2>5. Answers' /\ Whole'
    BY <1>1, <1>t, <2>1, <2>2 DEF Answers, Whole
  <2> QED
    BY <1>1, <1>c, <2>1, <2>3, <2>4, <2>5 DEF DiscoveryInv
<1>5. CASE ListEnd(t) \/ Probe(t)
  <2>1. PICK label \in {"probe", "finish"} : thread' = [thread EXCEPT ![t] = label]
    BY <1>5 DEF ListEnd, Probe, GoTo
  <2>2. /\ thread[t] \in {"list", "probe"} /\ busy' = busy /\ count' = count /\ total' = total
        /\ answered' = answered /\ turned' = turned
        /\ protocol' \in {protocol, Compatible, Incompatible}
    BY <1>5 DEF ListEnd, Probe, window, answer
  <2>3. OneBusy' /\ Late' /\ thread' \in [Threads -> Label]
        /\ (\A u \in Threads : thread'[u] = "begin" => thread[u] = "begin")
        /\ (\A u \in Threads : thread'[u] \in Active => u = t) /\ thread'[t] = label
    BY <1>2, <2>1, <2>2 DEF Active
  <2>4. TypeOK'
    BY <1>1, <1>t, <2>2, <2>3 DEF TypeOK
  <2>5. turned \/ answered = Asks(form)
    BY <2>2 DEF DiscoveryInv, Answers
  <2>6. Answers'
    BY <1>1, <2>2, <2>5 DEF Answers
  <2>7. Whole'
    BY <2>1, <2>2, <2>3 DEF DiscoveryInv, Whole, Active
  <2> QED
    BY <1>1, <1>c, <2>3, <2>4, <2>6, <2>7 DEF DiscoveryInv
<1>6. CASE Finish(t) \/ Post(t)
  <2>1. PICK label \in {"post", "posted"} : thread' = [thread EXCEPT ![t] = label]
    BY <1>6 DEF Finish, Post, GoTo
  <2>2. /\ \/ thread[t] = "finish" /\ busy' = FALSE
           \/ thread[t] = "post" /\ busy' = busy
        /\ count' = count /\ total' = total /\ answered' = answered /\ turned' = turned
        /\ protocol' = protocol
    BY <1>6 DEF Finish, Post, window, answer
  <2>3. \A u \in Threads : thread'[u] = IF u = t THEN label ELSE thread[u]
    BY <1>t, <2>1 DEF TypeOK
  <2>4. thread[t] = "finish" => \A u \in Threads : thread'[u] \notin Active
    BY <2>3 DEF DiscoveryInv, OneBusy, Active
  <2>5. OneBusy' /\ Late'
    BY <1>1, <2>2, <2>3, <2>4 DEF DiscoveryInv, OneBusy, Late, Active
  <2>6. TypeOK'
    BY <1>1, <1>t, <2>1, <2>2 DEF TypeOK, Label
  <2>7. Answers' /\ Whole'
    BY <1>1, <2>2, <2>3 DEF DiscoveryInv, Answers, Whole
  <2> QED
    BY <1>1, <1>c, <2>3, <2>5, <2>6, <2>7 DEF DiscoveryInv
<1> QED
  BY <1>3, <1>4, <1>5, <1>6 DEF ThreadStep

\* Every step, with what it may do to the threads and to the lists of the form.
LEMMA InvStep ==
    ASSUME DiscoveryInv, [Next]_vars
    PROVE  /\ DiscoveryInv'
           /\ \A t \in Threads : thread[t] = "idle" /\ thread'[t] = "begin" => form.shown
           /\ offered' = "part" /\ offered # "part" => turned \/ rushed
<1>t. TypeOK
  BY DEF DiscoveryInv
<1>1. CASE \/ Show \/ Hide
           \/ \E g \in Gateways \cup {Incomplete} :
                Fill(g) \/ \E gateway \in BOOLEAN : Refill(g, gateway)
           \/ \E gateway \in BOOLEAN : UpdateProvider(gateway)
           \/ \E a \in Apps : UpdateApp(a)
  BY <1>1, <1>t, StepForm DEF TypeOK
<1>2. CASE Test \/ Ask \/ Tick
  BY <1>2, StepAsk
<1>3. ASSUME NEW t \in Threads, Complete(t)
      PROVE  /\ DiscoveryInv'
             /\ \A u \in Threads : thread[u] = "idle" /\ thread'[u] = "begin" => form.shown
             /\ offered' = "part" /\ offered # "part" => turned \/ rushed
  BY <1>3, <1>t, StepComplete DEF TypeOK
<1>4. ASSUME NEW t \in Threads, ThreadStep(t)
      PROVE  /\ DiscoveryInv'
             /\ \A u \in Threads : thread[u] = "idle" /\ thread'[u] = "begin" => form.shown
             /\ offered' = "part" /\ offered # "part" => turned \/ rushed
  BY <1>4, StepThread
<1>5. CASE UNCHANGED vars
  <2>1. DiscoveryInv'
    BY <1>5, <1>t, StepQuiet DEF vars, window, answer, TypeOK
  <2> QED
    BY <1>5, <2>1 DEF vars
<1> QED
  BY <1>1, <1>2, <1>3, <1>4, <1>5 DEF Next, UserStep

\* However the form, the threads and their messages interleave, DiscoveryInv holds.
THEOREM DiscoveryInvariant == Spec => []DiscoveryInv
BY InvInit, InvStep, PTL DEF Spec

-----------------------------------------------------------------------------
(* What the runs check                                                     *)

\* Every variable has its type: the list never outgrows the models that were named.
THEOREM TypeCorrect == Spec => []TypeOK
<1>1. DiscoveryInv => TypeOK
  BY DEF DiscoveryInv
<1> QED
  BY <1>1, DiscoveryInvariant, PTL

\* What save takes for the gateway's answer belongs to the agent, the address and the key
\* in the form, unless these were changed while model_discovery_thread was at work.
THEOREM AnswersTheForm == Spec => []AnswerForForm
<1>1. DiscoveryInv => AnswerForForm
  BY DEF DiscoveryInv, Answers, AnswerForForm
<1> QED
  BY <1>1, DiscoveryInvariant, PTL

\* No thread is started for a wizard that was closed, though its timer may still run.
THEOREM AsksWhileShown == Spec => NoProbeAfterClose
<1>1. DiscoveryInv /\ [Next]_vars =>
        [\A t \in Threads : thread[t] = "idle" /\ thread'[t] = "begin" => form.shown]_vars
  BY InvStep
<1> QED
  BY <1>1, DiscoveryInvariant, PTL DEF Spec, NoProbeAfterClose

\* The lists of the form show what one thread has written to the end, unless the form was
\* changed under it or a second test overtook its message.
THEOREM ShowsWholeLists == Spec => OffersWhole
<1>1. DiscoveryInv /\ [Next]_vars =>
        [offered' = "part" /\ offered # "part" => turned \/ rushed]_vars
  BY InvStep
<1> QED
  BY <1>1, DiscoveryInvariant, PTL DEF Spec, OffersWhole

-----------------------------------------------------------------------------
(* Profiles: lists of ids                                                  *)

\* Max finds the greatest element of a bounded set of numbers.
LEMMA HasMax ==
    ASSUME NEW n \in Nat, NEW S, S \subseteq 0 .. n, S # {}
    PROVE  Max(S) \in S /\ \A y \in S : Max(S) >= y
<1> DEFINE T == {z \in 0 .. n : n - z \in S}
<1>1. T \subseteq Nat /\ T # {}
  <2>1. PICK x \in S : TRUE
    OBVIOUS
  <2>2. n - x \in 0 .. n /\ n - (n - x) = x
    BY <2>1
  <2>3. n - x \in T
    BY <2>1, <2>2
  <2>4. T \subseteq 0 .. n /\ 0 .. n \subseteq Nat
    OBVIOUS
  <2> QED
    BY <2>3, <2>4
<1>2. PICK z \in T : \A y \in T : <<y, z>> \notin OpToRel(<, Nat)
  <2> HIDE DEF T
  <2>1. IsWellFoundedOn(OpToRel(<, Nat), Nat)
    BY NatLessThanWellFounded
  <2> QED
    BY <1>1, <2>1, WFMin
<1>3. n - z \in S /\ z \in 0 .. n
  BY <1>2
<1>4. ASSUME NEW x \in S PROVE n - z >= x
  <2>1. n - x \in T /\ n - x \in Nat
    BY <1>1
  <2>2. <<n - x, z>> \notin OpToRel(<, Nat)
    BY <1>2, <2>1
  <2>3. ~(n - x < z)
    BY <2>1, <2>2, <1>3 DEF OpToRel
  <2> QED
    BY <2>3, <1>3
<1> HIDE DEF T
<1>5. \E x \in S : \A y \in S : x >= y
  BY <1>3, <1>4
<1> QED
  BY <1>5 DEF Max

\* What it is to be a list of profiles, and what makes one.
LEMMA ListFacts ==
    ASSUME NEW s \in Lists
    PROVE  /\ s \in Seq(Id) /\ Len(s) \in 0 .. MaxProfiles + 1 /\ DOMAIN s = 1 .. Len(s)
           /\ \A k \in 1 .. Len(s) : s[k] \in Id
           /\ \A j, k \in 1 .. Len(s) : s[j] = s[k] => j = k
<1>1. s \in BoundedSeq(Id, MaxProfiles + 1) /\ IsInjective(s)
  BY DEF Lists
<1>2. PICK m \in 0 .. MaxProfiles + 1 : s \in [1 .. m -> Id]
  BY <1>1 DEF BoundedSeq, SeqOf
<1>3. s \in Seq(Id) /\ Len(s) = m
  BY <1>2
<1> QED
  BY <1>1, <1>2, <1>3 DEF IsInjective

LEMMA IsList ==
    ASSUME NEW s \in Seq(Id), MaxProfiles \in Nat, Len(s) <= MaxProfiles + 1,
           \A j, k \in 1 .. Len(s) : s[j] = s[k] => j = k
    PROVE  s \in Lists
<1>1. s \in [1 .. Len(s) -> Id] /\ Len(s) \in 0 .. MaxProfiles + 1
  OBVIOUS
<1>2. s \in BoundedSeq(Id, MaxProfiles + 1)
  BY <1>1 DEF BoundedSeq, SeqOf
<1> QED
  BY <1>2 DEF Lists, IsInjective

\* A list that is cut off, or not.
LEMMA Prefix ==
    ASSUME MaxProfiles \in Nat, NEW s \in Lists, NEW m \in 0 .. Len(s)
    PROVE  /\ SubSeq(s, 1, m) \in Lists /\ Len(SubSeq(s, 1, m)) = m
           /\ \A i \in ToSet(SubSeq(s, 1, m)) : i \in ToSet(s)
           /\ m = Len(s) => SubSeq(s, 1, m) = s
<1> DEFINE r == SubSeq(s, 1, m)
<1>1. s \in Seq(Id) /\ Len(s) \in Nat /\ Len(s) <= MaxProfiles + 1 /\ DOMAIN s = 1 .. Len(s)
      /\ \A j, k \in 1 .. Len(s) : s[j] = s[k] => j = k
  BY ListFacts
<1>2. r \in Seq(Id) /\ Len(r) = m /\ \A k \in 1 .. m : r[k] = s[k]
  BY <1>1
<1> HIDE DEF r
<1>3. DOMAIN r = 1 .. m
  BY <1>2
<1>4. r \in Lists
  <2>1. \A j, k \in 1 .. Len(r) : r[j] = r[k] => j = k
    BY <1>1, <1>2
  <2> QED
    BY <1>1, <1>2, <2>1, IsList
<1>5. \A i \in ToSet(r) : i \in ToSet(s)
  BY <1>1, <1>2, <1>3 DEF ToSet
<1>6. m = Len(s) => r = s
  BY <1>1, <1>2, SeqEqual
<1> QED
  BY <1>2, <1>4, <1>5, <1>6 DEF r

\* What load_profiles takes of the stored list.
LEMMA Loaded ==
    ASSUME ProfilesAssumption, NEW a \in Agents, stored[a] \in Lists
    PROVE  /\ Load(a) \in Lists /\ Len(Load(a)) <= MaxProfiles
           /\ \A i \in ToSet(Load(a)) : Listed(a, i)
           /\ Len(stored[a]) <= MaxProfiles => Load(a) = stored[a]
<1> DEFINE n == Min({Len(stored[a]), MaxProfiles})
<1>1. Len(stored[a]) \in Nat /\ MaxProfiles \in Nat
  BY ListFacts DEF ProfilesAssumption
<1>2. n = IF Len(stored[a]) <= MaxProfiles THEN Len(stored[a]) ELSE MaxProfiles
  BY <1>1 DEF Min
<1>3. n \in 0 .. Len(stored[a]) /\ n <= MaxProfiles
      /\ (Len(stored[a]) <= MaxProfiles => n = Len(stored[a]))
  BY <1>1, <1>2
<1>4. Load(a) = SubSeq(stored[a], 1, n)
  BY DEF Load
<1> HIDE DEF n
<1>5. /\ SubSeq(stored[a], 1, n) \in Lists /\ Len(SubSeq(stored[a], 1, n)) = n
      /\ \A i \in ToSet(SubSeq(stored[a], 1, n)) : i \in ToSet(stored[a])
      /\ n = Len(stored[a]) => SubSeq(stored[a], 1, n) = stored[a]
  BY <1>1, <1>3, Prefix
<1> QED
  BY <1>3, <1>4, <1>5 DEF Listed

\* Deleting the entry n takes out its id and no other.
LEMMA Removed ==
    ASSUME MaxProfiles \in Nat, NEW s \in Lists, NEW n \in 1 .. Len(s)
    PROVE  /\ RemoveAt(s, n) \in Lists /\ Len(RemoveAt(s, n)) <= Len(s)
           /\ \A i : i \in ToSet(RemoveAt(s, n)) <=> i \in ToSet(s) /\ i # s[n]
<1> DEFINE r == RemoveAt(s, n)
<1>1. s \in Seq(Id) /\ Len(s) \in Nat /\ Len(s) <= MaxProfiles + 1 /\ DOMAIN s = 1 .. Len(s)
      /\ \A j, k \in 1 .. Len(s) : s[j] = s[k] => j = k
  BY ListFacts
<1>2. /\ r \in Seq(Id) /\ Len(r) = Len(s) - 1
      /\ \A k \in 1 .. Len(r) : r[k] = IF k < n THEN s[k] ELSE s[k + 1]
  <2> DEFINE x == SubSeq(s, 1, n - 1)
             y == SubSeq(s, n + 1, Len(s))
  <2>1. x \in Seq(Id) /\ Len(x) = n - 1 /\ \A k \in 1 .. n - 1 : x[k] = s[k]
    BY <1>1
  <2>2. y \in Seq(Id) /\ Len(y) = Len(s) - n /\ \A k \in 1 .. Len(s) - n : y[k] = s[n + k]
    <3>1. n + 1 \in Int /\ Len(s) \in Int /\ \A k \in n + 1 .. Len(s) : s[k] \in Id
      BY <1>1
    <3>2. /\ y \in Seq(Id)
          /\ Len(y) = IF n + 1 <= Len(s) THEN Len(s) - (n + 1) + 1 ELSE 0
          /\ \A k \in 1 .. Len(s) - (n + 1) + 1 : y[k] = s[(n + 1) + k - 1]
      <4> HIDE DEF y
      <4> QED
        BY <3>1, SubSeqProperties DEF y
    <3> HIDE DEF y
    <3>3. ASSUME NEW k \in 1 .. Len(s) - n PROVE y[k] = s[n + k]
      <4>1. k \in 1 .. Len(s) - (n + 1) + 1 /\ (n + 1) + k - 1 = n + k
        BY <1>1
      <4> QED
        BY <4>1, <3>2
    <3>4. Len(y) = Len(s) - n
      <4>1. n \in Int /\ Len(s) \in Int /\ n <= Len(s)
        BY <1>1
      <4>2. Len(s) - n = IF n + 1 <= Len(s) THEN Len(s) - (n + 1) + 1 ELSE 0
        BY <4>1
      <4> QED
        BY <3>2, <4>2
    <3> QED
      BY <3>2, <3>3, <3>4
  <2>3. r = x \o y
    BY DEF RemoveAt
  <2> HIDE DEF x, y, r
  <2>4. r \in Seq(Id) /\ Len(r) = Len(s) - 1
    <3>1. x \o y \in Seq(Id) /\ Len(x \o y) = Len(x) + Len(y)
      BY <2>1, <2>2, ConcatProperties
    <3> QED
      BY <2>1, <2>2, <2>3, <3>1, <1>1
  <2>5. ASSUME NEW k \in 1 .. Len(r) PROVE r[k] = IF k < n THEN s[k] ELSE s[k + 1]
    <3>1. CASE k < n
      BY <3>1, <2>1, <2>2, <2>3, <2>4, <1>1
    <3>2. CASE k >= n
      <4>1. r[k] = y[k - (n - 1)]
        BY <3>2, <2>1, <2>2, <2>3, <2>4, <1>1
      <4>2. k - (n - 1) \in 1 .. Len(s) - n /\ n + (k - (n - 1)) = k + 1
        BY <3>2, <2>4, <1>1
      <4> QED
        BY <3>2, <4>1, <4>2, <2>2
    <3> QED
      BY <3>1, <3>2, <1>1, <2>4
  <2> QED
    BY <2>4, <2>5
<1> HIDE DEF r
<1>3. DOMAIN r = 1 .. Len(s) - 1
  BY <1>1, <1>2
<1>4. r \in Lists
  <2>1. ASSUME NEW j \in 1 .. Len(r), NEW k \in 1 .. Len(r), r[j] = r[k] PROVE j = k
    <3>1. /\ r[j] = s[IF j < n THEN j ELSE j + 1] /\ r[k] = s[IF k < n THEN k ELSE k + 1]
          /\ (IF j < n THEN j ELSE j + 1) \in 1 .. Len(s)
          /\ (IF k < n THEN k ELSE k + 1) \in 1 .. Len(s)
      BY <1>1, <1>2
    <3>2. (IF j < n THEN j ELSE j + 1) = (IF k < n THEN k ELSE k + 1)
      BY <1>1, <2>1, <3>1
    <3> QED
      BY <3>2
  <2> QED
    BY <1>1, <1>2, <2>1, IsList
<1>5. ASSUME NEW i, i \in ToSet(r) PROVE i \in ToSet(s) /\ i # s[n]
  <2>1. PICK k \in 1 .. Len(s) - 1 : i = r[k]
    BY <1>3, <1>5 DEF ToSet
  <2>2. i = s[IF k < n THEN k ELSE k + 1]
    BY <1>1, <1>2, <2>1
  <2>3. (IF k < n THEN k ELSE k + 1) \in 1 .. Len(s) /\ (IF k < n THEN k ELSE k + 1) # n
    BY <1>1, <2>1
  <2> QED
    BY <1>1, <2>2, <2>3 DEF ToSet
<1>6. ASSUME NEW i, i \in ToSet(s), i # s[n] PROVE i \in ToSet(r)
  <2>1. PICK k \in 1 .. Len(s) : i = s[k]
    BY <1>1, <1>6 DEF ToSet
  <2>2. k # n
    BY <1>6, <2>1
  <2>3. CASE k < n
    BY <1>1, <1>2, <1>3, <2>1, <2>3 DEF ToSet
  <2>4. CASE k > n
    <3>1. k - 1 \in 1 .. Len(s) - 1 /\ ~(k - 1 < n) /\ (k - 1) + 1 = k
      BY <1>1, <2>1, <2>4
    <3>2. r[k - 1] = s[k]
      BY <1>1, <1>2, <3>1
    <3> QED
      BY <1>3, <2>1, <3>1, <3>2 DEF ToSet
  <2> QED
    BY <1>1, <2>1, <2>2, <2>3, <2>4
<1> QED
  BY <1>1, <1>2, <1>4, <1>5, <1>6 DEF r

\* A new id goes to the end.
LEMMA Added ==
    ASSUME MaxProfiles \in Nat, NEW s \in Lists, NEW i \in Id, i \notin ToSet(s),
           Len(s) <= MaxProfiles
    PROVE  /\ Append(s, i) \in Lists /\ Len(Append(s, i)) = Len(s) + 1
           /\ \A j : j \in ToSet(Append(s, i)) <=> j \in ToSet(s) \/ j = i
<1> DEFINE r == Append(s, i)
<1>1. s \in Seq(Id) /\ Len(s) \in Nat /\ DOMAIN s = 1 .. Len(s)
      /\ \A j, k \in 1 .. Len(s) : s[j] = s[k] => j = k
  BY ListFacts
<1>2. r \in Seq(Id) /\ Len(r) = Len(s) + 1 /\ DOMAIN r = 1 .. Len(s) + 1
      /\ r[Len(s) + 1] = i /\ \A k \in 1 .. Len(s) : r[k] = s[k]
  BY <1>1
<1> HIDE DEF r
<1>3. \A k \in 1 .. Len(s) : s[k] # i
  BY <1>1 DEF ToSet
<1>4. r \in Lists
  <2>1. \A j, k \in 1 .. Len(r) : r[j] = r[k] => j = k
    BY <1>1, <1>2, <1>3
  <2> QED
    BY <1>1, <1>2, <2>1, IsList
<1>5. \A j : j \in ToSet(r) <=> j \in ToSet(s) \/ j = i
  BY <1>1, <1>2 DEF ToSet
<1> QED
  BY <1>2, <1>4, <1>5 DEF r

\* The id of a new profile is in use by none of the list.
LEMMA NewId ==
    ASSUME ProfilesAssumption, list \in Lists
    PROVE  NextId \notin ToSet(list)
<1> DEFINE S == ToSet(list) \cup {0}
<1>1. S \subseteq 0 .. MaxId /\ S # {} /\ MaxId \in Nat
  <2>1. ToSet(list) \subseteq 1 .. MaxId
    BY ListFacts DEF ToSet, Id
  <2> QED
    BY <2>1 DEF ProfilesAssumption
<1> HIDE DEF S
<1>2. Max(S) \in S /\ \A y \in S : Max(S) >= y
  BY <1>1, HasMax
<1> DEFINE n == Max(S)
<1>3. 1 + n \notin S
  <2>1. n \in S /\ \A y \in S : n >= y
    BY <1>2
  <2> HIDE DEF n
  <2> QED
    BY <1>1, <2>1
<1> QED
  BY <1>3 DEF NextId, S, n

-----------------------------------------------------------------------------
(* Profiles: lists and slots                                               *)

\* The ids in the lists are those of agents that have used them.
Used ==
    /\ \A a \in Agents, i \in Id : Listed(a, i) => a \in users[i]
    /\ \A i \in Id : i \in ToSet(list) => app \in users[i]

\* Unless a write failed, or a list grew past its end, the copy lists what is stored.
Same ==
    \A i \in Id \ spoiled :
        /\ i \in ToSet(list) => Listed(app, i)
        /\ Listed(app, i) => overrun \/ i \in ToSet(list)

\* Lists fit the array until one is remembered that did not.
Room == ~overrun => Len(list) <= MaxProfiles /\ \A a \in Agents : Len(stored[a]) <= MaxProfiles

ProfilesInv == ProfilesTypeOK /\ Used /\ Same /\ Room /\ SlotsMatchLists

LEMMA ProfilesInvInit ==
    ASSUME ProfilesAssumption, ProfilesInit
    PROVE  ProfilesInv
<1>1. <<>> \in Lists /\ ToSet(<<>>) = {} /\ Len(<<>>) = 0
  <2>1. MaxProfiles \in Nat /\ <<>> \in Seq(Id) /\ Len(<<>>) = 0 /\ DOMAIN <<>> = {}
    BY DEF ProfilesAssumption
  <2>2. Len(<<>>) <= MaxProfiles + 1 /\ 1 .. Len(<<>>) = {}
    BY <2>1
  <2>3. <<>> \in Lists
    BY <2>1, <2>2, IsList
  <2>4. ToSet(<<>>) = {}
    BY <2>1 DEF ToSet
  <2> QED
    BY <2>1, <2>3, <2>4
<1>2. ProfilesTypeOK
  <2>1. sel \in 0 .. Len(list)
    BY <1>1 DEF ProfilesInit
  <2> QED
    BY <1>1, <2>1 DEF ProfilesInit, ProfilesTypeOK
<1>3. Used /\ Same /\ Room
  BY <1>1 DEF ProfilesInit, Used, Same, Room, Listed, ProfilesAssumption
<1>4. SlotsMatchLists
  BY <1>1 DEF ProfilesInit, SlotsMatchLists, Listed, ProfilesAssumption
<1> QED
  BY <1>2, <1>3, <1>4 DEF ProfilesInv

\* A step that stores no list: a slot it changes is spoiled.
LEMMA Unstored ==
    ASSUME ProfilesAssumption, ProfilesInv, ProfilesTypeOK',
           stored' = stored, given' = given, users' = users, overrun' = overrun,
           spoiled \subseteq spoiled', \A i \in Id \ spoiled' : slot'[i] = slot[i],
           \/ app' = app /\ list' = list
           \/ list' = Load(app')
    PROVE  ProfilesInv'
<1>1. ProfilesTypeOK /\ app' \in Agents /\ \A a \in Agents : stored[a] \in Lists
  BY DEF ProfilesInv, ProfilesTypeOK
<1>2. \A a \in Agents, i \in Id : Listed(a, i)' <=> Listed(a, i)
  BY DEF Listed
<1>3. SlotsMatchLists'
  BY <1>2 DEF ProfilesInv, SlotsMatchLists, Holds
<1>4. CASE app' = app /\ list' = list
  BY <1>2, <1>3, <1>4 DEF ProfilesInv, Used, Same, Room, Listed
<1>5. CASE list' = Load(app')
  <2>1. /\ Len(list') <= MaxProfiles
        /\ \A i \in ToSet(list') : Listed(app', i)
        /\ Len(stored[app']) <= MaxProfiles => list' = stored[app']
    BY <1>1, <1>5, Loaded
  <2>2. Used'
    BY <1>1, <2>1 DEF ProfilesInv, Used, Listed
  <2>3. Room'
    BY <2>1 DEF ProfilesInv, Room
  <2>4. Same'
    <3>1. overrun \/ list' = stored[app']
      BY <1>1, <2>1 DEF ProfilesInv, Room
    <3> QED
      BY <2>1, <3>1 DEF Same, Listed
  <2> QED
    BY <1>3, <2>2, <2>3, <2>4 DEF ProfilesInv
<1> QED
  BY <1>4, <1>5

\* A handler that writes the slot of i and then the list, which differs in i at most.
LEMMA Handled ==
    ASSUME ProfilesAssumption, ProfilesInv, ProfilesTypeOK', NEW i \in Id,
           NEW whole \in BOOLEAN, spoiled' = Spoil(i, whole), app' = app,
           stored' \in {[stored EXCEPT ![app] = list'], stored},
           \A j \in Id \ {i} :
                /\ slot'[j] = slot[j] /\ users'[j] = users[j]
                /\ \A a \in Agents : given'[a][j] = given[a][j]
                /\ j \in ToSet(list') <=> j \in ToSet(list),
           users[i] \subseteq users'[i], app \in users'[i],
           overrun => overrun', ~overrun' => Len(list') <= MaxProfiles,
           whole => /\ stored'[app] = list'
                    /\ i \in ToSet(list') => Holds(app, i)'
                    /\ slot'[i] \in Keys => i \in ToSet(list')
    PROVE  ProfilesInv'
<1>1. ProfilesTypeOK /\ app \in Agents
  BY DEF ProfilesInv, ProfilesTypeOK
<1>2. /\ stored'[app] = list' \/ stored'[app] = stored[app]
      /\ \A a \in Agents \ {app} : stored'[a] = stored[a]
  BY <1>1 DEF ProfilesTypeOK
<1>3. /\ \A j \in Id : Listed(app, j)' => j \in ToSet(list') \/ Listed(app, j)
      /\ \A a \in Agents \ {app}, j \in Id : Listed(a, j)' <=> Listed(a, j)
  BY <1>2 DEF Listed
<1>4. Used'
  <2>1. ASSUME NEW j \in Id, j \in ToSet(list') PROVE app \in users'[j]
    BY <2>1 DEF ProfilesInv, Used
  <2>2. ASSUME NEW a \in Agents, NEW j \in Id, Listed(a, j)' PROVE a \in users'[j]
    <3>1. users[j] \subseteq users'[j]
      OBVIOUS
    <3>2. CASE Listed(a, j)
      BY <3>1, <3>2 DEF ProfilesInv, Used
    <3>3. CASE ~Listed(a, j)
      <4>1. a = app /\ j \in ToSet(list')
        BY <1>3, <2>2, <3>3
      <4> QED
        BY <2>1, <4>1
    <3> QED
      BY <3>2, <3>3
  <2> QED
    BY <2>1, <2>2 DEF Used
<1>5. Room'
  BY <1>2 DEF ProfilesInv, Room
<1>6. ASSUME NEW j \in Id \ spoiled'
      PROVE  /\ j \in ToSet(list') => Listed(app, j)'
             /\ Listed(app, j)' => overrun' \/ j \in ToSet(list')
             /\ \A a \in Agents : Listed(a, j)' /\ users'[j] = {a} => Holds(a, j)'
             /\ slot'[j] \in Keys => overrun' \/ \E a \in Agents : Listed(a, j)'
  <2>1. CASE j = i
    <3>1. whole
      BY <1>6, <2>1 DEF Spoil
    <3>2. Listed(app, i)' <=> i \in ToSet(list')
      BY <3>1 DEF Listed
    <3>3. \A a \in Agents : users'[i] = {a} => a = app
      OBVIOUS
    <3> QED
      BY <1>1, <2>1, <3>1, <3>2, <3>3
  <2>2. CASE j # i
    <3>1. j \in Id \ spoiled
      BY <1>6, <2>2 DEF Spoil
    <3>2. /\ slot'[j] = slot[j] /\ users'[j] = users[j]
          /\ \A a \in Agents : given'[a][j] = given[a][j]
          /\ j \in ToSet(list') <=> j \in ToSet(list)
      BY <2>2
    <3>3. \A a \in Agents : Holds(a, j)' <=> Holds(a, j)
      BY <3>2 DEF Holds
    <3>4. /\ j \in ToSet(list) => Listed(app, j)
          /\ Listed(app, j) => overrun \/ j \in ToSet(list)
      BY <3>1 DEF ProfilesInv, Same
    <3>5. /\ j \in ToSet(list') => Listed(app, j)'
          /\ Listed(app, j)' => Listed(app, j)
          /\ Listed(app, j) => overrun \/ Listed(app, j)'
      BY <1>2, <3>2, <3>4 DEF Listed
    <3>6. /\ \A a \in Agents : Listed(a, j) /\ users[j] = {a} => Holds(a, j)
          /\ slot[j] \in Keys => overrun \/ \E a \in Agents : Listed(a, j)
      BY <3>1 DEF ProfilesInv, SlotsMatchLists
    <3>7. \A a \in Agents : /\ Listed(a, j)' => Listed(a, j)
                            /\ Listed(a, j) => overrun \/ Listed(a, j)'
      BY <1>3, <3>5
    <3> QED
      BY <3>2, <3>3, <3>4, <3>5, <3>6, <3>7
  <2> QED
    BY <2>1, <2>2
<1>7. Same'
  BY <1>6 DEF Same
<1>8. SlotsMatchLists'
  BY <1>6 DEF SlotsMatchLists
<1> QED
  BY <1>4, <1>5, <1>7, <1>8 DEF ProfilesInv

LEMMA StepType ==
    ASSUME ProfilesAssumption, ProfilesInv, NEW k \in Keys \cup {None}, Type(k)
    PROVE  ProfilesInv'
<1>1. /\ stored' = stored /\ slot' = slot /\ app' = app /\ list' = list /\ sel' = sel
      /\ given' = given /\ users' = users /\ spoiled' = spoiled /\ overrun' = overrun
      /\ key' = k
  BY DEF Type, history
<1>2. ProfilesTypeOK'
  BY <1>1 DEF ProfilesInv, ProfilesTypeOK
<1> QED
  BY <1>1, <1>2, Unstored

LEMMA StepSelectApp ==
    ASSUME ProfilesAssumption, ProfilesInv, NEW a \in Agents, SelectApp(a)
    PROVE  ProfilesInv'
<1>1. /\ stored' = stored /\ slot' = slot /\ app' = a /\ list' = Load(a) /\ sel' = 0
      /\ given' = given /\ users' = users /\ spoiled' = spoiled /\ overrun' = overrun
      /\ key' \in Keys \cup {key}
  BY DEF SelectApp, history
<1>2. ProfilesTypeOK'
  <2>1. list' \in Lists /\ Len(list') \in Nat
    BY <1>1, Loaded, ListFacts DEF ProfilesInv, ProfilesTypeOK
  <2>2. sel' \in 0 .. Len(list')
    BY <1>1, <2>1
  <2> QED
    BY <1>1, <2>1, <2>2 DEF ProfilesInv, ProfilesTypeOK
<1> QED
  BY <1>1, <1>2, Unstored

LEMMA StepSelectProfile ==
    ASSUME ProfilesAssumption, ProfilesInv, NEW n, SelectProfile(n)
    PROVE  ProfilesInv'
<1>1. /\ stored' = stored /\ slot' = slot /\ app' = app /\ list' = list /\ sel' = n
      /\ given' = given /\ users' = users /\ spoiled' = spoiled /\ overrun' = overrun
      /\ n \in DOMAIN list /\ key' = slot[list[n]]
  BY DEF SelectProfile, history
<1>2. n \in 1 .. Len(list) /\ list[n] \in Id
  BY <1>1, ListFacts DEF ProfilesInv, ProfilesTypeOK
<1>3. ProfilesTypeOK'
  BY <1>1, <1>2 DEF ProfilesInv, ProfilesTypeOK
<1> QED
  BY <1>1, <1>3, Unstored

LEMMA StepSaveRefused ==
    ASSUME ProfilesAssumption, ProfilesInv, SaveRefused
    PROVE  ProfilesInv'
<1> DEFINE i == Target
<1>1. /\ stored' = stored /\ app' = app /\ list' = list /\ sel' = sel /\ key' = key
      /\ given' = given /\ users' = users /\ overrun' = overrun
      /\ i \in Id /\ slot' \in {[slot EXCEPT ![i] = key], slot}
      /\ spoiled' = IF slot' = slot THEN spoiled ELSE spoiled \cup {i}
  BY DEF SaveRefused, wizard, Written
<1> HIDE DEF i
<1>2. ProfilesTypeOK'
  BY <1>1 DEF ProfilesInv, ProfilesTypeOK
<1>3. \A j \in Id \ spoiled' : slot'[j] = slot[j]
  BY <1>1 DEF ProfilesInv, ProfilesTypeOK
<1> QED
  BY <1>1, <1>2, <1>3, Unstored

LEMMA StepRestart ==
    ASSUME ProfilesAssumption, ProfilesInv, Restart
    PROVE  ProfilesInv'
<1> DEFINE i == Target
<1>1. /\ stored' = stored /\ app' \in Agents /\ list' = Load(app') /\ sel' = 0
      /\ key' = None /\ given' = given /\ users' = users /\ overrun' = overrun
      /\ \/ slot' = slot /\ spoiled' = spoiled
         \/ /\ i \in Id /\ spoiled' = spoiled \cup {i}
            /\ \E k \in {key, Blank} : slot' = [slot EXCEPT ![i] = k]
  BY DEF Restart
<1> HIDE DEF i
<1>2. ProfilesTypeOK'
  <2>1. list' \in Lists /\ Len(list') \in Nat
    BY <1>1, Loaded, ListFacts DEF ProfilesInv, ProfilesTypeOK
  <2>2. sel' \in 0 .. Len(list')
    BY <1>1, <2>1
  <2>3. slot' \in [Id -> Keys \cup {None, Blank}] /\ spoiled' \subseteq Id
    BY <1>1 DEF ProfilesInv, ProfilesTypeOK
  <2> QED
    BY <1>1, <2>1, <2>2, <2>3 DEF ProfilesInv, ProfilesTypeOK
<1>3. spoiled \subseteq spoiled' /\ \A j \in Id \ spoiled' : slot'[j] = slot[j]
  BY <1>1 DEF ProfilesInv, ProfilesTypeOK
<1> QED
  BY <1>1, <1>2, <1>3, Unstored

LEMMA StepSaveAs ==
    ASSUME ProfilesAssumption, ProfilesInv, SaveAs
    PROVE  ProfilesInv'
<1>i. PICK i \in Id : i = Target
  BY DEF SaveAs
<1> DEFINE k == IF key = None THEN Blank ELSE key
           saved == IF key \in Keys THEN key ELSE None
<1>w. PICK whole \in BOOLEAN : whole <=> slot'[i] = k /\ stored'[app] = list'
  OBVIOUS
<1>t. ProfilesTypeOK /\ list \in Lists /\ app \in Agents /\ key \in Keys \cup {None, Blank}
      /\ MaxProfiles \in Nat /\ sel \in 0 .. Len(list) /\ Len(list) \in Nat
      /\ None \notin Keys /\ Blank \notin Keys
  BY ListFacts DEF ProfilesInv, ProfilesTypeOK, ProfilesAssumption
<1>1. /\ slot' \in {[slot EXCEPT ![i] = k], slot}
      /\ list' = IF sel = 0 THEN Append(list, i) ELSE list
      /\ sel' = IF sel = 0 THEN Len(list) + 1 ELSE sel
      /\ key' = None /\ app' = app
      /\ stored' \in {[stored EXCEPT ![app] = list'], stored}
      /\ given' = [given EXCEPT ![app][i] = saved]
      /\ users' = [users EXCEPT ![i] = @ \cup {app}]
      /\ spoiled' = Spoil(i, whole)
      /\ overrun' = (overrun \/ Len(list') > MaxProfiles)
      /\ Len(list') <= MaxProfiles + 1
  BY <1>i, <1>w DEF SaveAs, Written, Spoil
<1>2. i = IF sel = 0 THEN NextId ELSE list[sel]
  BY <1>i DEF Target
<1>k. k \in Keys \cup {Blank} /\ saved \in Keys \cup {None}
      /\ (saved = None => k = Blank) /\ (saved # None => k = saved)
  BY <1>t
<1> HIDE DEF k, saved
<1>3. /\ list' \in Lists /\ sel' \in 0 .. Len(list')
      /\ i \in ToSet(list') /\ Len(list') \in Nat
      /\ \A j \in Id \ {i} : j \in ToSet(list') <=> j \in ToSet(list)
  <2>1. CASE sel = 0
    <3>1. i \notin ToSet(list)
      BY <1>t, <1>2, <2>1, NewId
    <3>2. Len(list) <= MaxProfiles
      <4>1. Len(Append(list, i)) = Len(list) + 1
        BY <1>t, <1>1, ListFacts
      <4> QED
        BY <1>1, <1>t, <2>1, <4>1
    <3>3. /\ Append(list, i) \in Lists /\ Len(Append(list, i)) = Len(list) + 1
          /\ \A j : j \in ToSet(Append(list, i)) <=> j \in ToSet(list) \/ j = i
      BY <1>t, <1>1, <3>1, <3>2, Added
    <3> QED
      BY <1>1, <1>t, <2>1, <3>3
  <2>2. CASE sel # 0
    <3>1. sel \in 1 .. Len(list) /\ DOMAIN list = 1 .. Len(list)
      BY <1>t, <2>2, ListFacts
    <3> QED
      BY <1>1, <1>2, <1>t, <2>2, <3>1 DEF ToSet
  <2> QED
    BY <2>1, <2>2
<1>4. /\ stored' \in [Agents -> Lists]
      /\ slot' \in [Id -> Keys \cup {None, Blank}]
      /\ users' \in [Id -> SUBSET Agents] /\ spoiled' \subseteq Id
  BY <1>1, <1>3, <1>k, <1>t DEF ProfilesTypeOK, Spoil
<1>5. /\ given' \in [Agents -> [Id -> Keys \cup {None}]] /\ given'[app][i] = saved
      /\ \A j \in Id \ {i}, a \in Agents : given'[a][j] = given[a][j]
  <2> DEFINE g == [given[app] EXCEPT ![i] = saved]
  <2>1. g \in [Id -> Keys \cup {None}] /\ g[i] = saved
        /\ \A j \in Id \ {i} : g[j] = given[app][j]
    BY <1>1, <1>k, <1>t DEF ProfilesTypeOK
  <2>2. given' = [given EXCEPT ![app] = g]
    BY <1>1
  <2> HIDE DEF g
  <2> QED
    BY <2>1, <2>2, <1>t DEF ProfilesTypeOK
<1>6. ProfilesTypeOK'
  BY <1>1, <1>3, <1>4, <1>5, <1>t DEF ProfilesTypeOK
<1>7. /\ \A j \in Id \ {i} : slot'[j] = slot[j] /\ users'[j] = users[j]
      /\ users[i] \subseteq users'[i] /\ app \in users'[i]
  BY <1>1, <1>t DEF ProfilesTypeOK
<1>8. whole => Holds(app, i)'
  BY <1>1, <1>5, <1>k, <1>w DEF Holds
<1>9. (overrun => overrun') /\ (~overrun' => Len(list') <= MaxProfiles)
  <2>1. Len(list') > MaxProfiles <=> ~(Len(list') <= MaxProfiles)
    BY <1>3, <1>t
  <2> QED
    BY <1>1, <2>1
<1> QED
  BY <1>1, <1>3, <1>5, <1>6, <1>7, <1>8, <1>9, <1>w, Handled

LEMMA StepDelete ==
    ASSUME ProfilesAssumption, ProfilesInv, Delete
    PROVE  ProfilesInv'
<1>i. PICK i : i = list[sel]
  OBVIOUS
<1>w. PICK whole \in BOOLEAN : whole <=> slot'[i] = Blank /\ stored'[app] = list'
  OBVIOUS
<1>t. ProfilesTypeOK /\ list \in Lists /\ app \in Agents /\ MaxProfiles \in Nat
      /\ sel \in 0 .. Len(list) /\ Len(list) \in Nat /\ Blank \notin Keys
  BY ListFacts DEF ProfilesInv, ProfilesTypeOK, ProfilesAssumption
<1>1. /\ sel # 0 /\ slot' \in {[slot EXCEPT ![i] = Blank], slot}
      /\ list' = RemoveAt(list, sel) /\ sel' = 0
      /\ stored' \in {[stored EXCEPT ![app] = list'], stored}
      /\ given' = [given EXCEPT ![app][i] = None]
      /\ spoiled' = Spoil(i, whole)
      /\ app' = app /\ key' = key /\ users' = users /\ overrun' = overrun
  BY <1>i, <1>w DEF Delete, Written, Spoil
<1>2. sel \in 1 .. Len(list) /\ i \in Id /\ i \in ToSet(list)
  <2>1. sel \in 1 .. Len(list) /\ DOMAIN list = 1 .. Len(list)
    BY <1>1, <1>t, ListFacts
  <2> QED
    BY <1>i, <1>t, <2>1, ListFacts DEF ToSet
<1>3. /\ list' \in Lists /\ Len(list') \in Nat /\ Len(list') <= Len(list)
      /\ \A j : j \in ToSet(list') <=> j \in ToSet(list) /\ j # i
  <2>1. /\ RemoveAt(list, sel) \in Lists /\ Len(RemoveAt(list, sel)) <= Len(list)
        /\ \A j : j \in ToSet(RemoveAt(list, sel)) <=> j \in ToSet(list) /\ j # i
    BY <1>i, <1>2, <1>t, Removed
  <2> QED
    BY <1>1, <2>1, ListFacts
<1>4. /\ stored' \in [Agents -> Lists] /\ sel' \in 0 .. Len(list')
      /\ slot' \in [Id -> Keys \cup {None, Blank}] /\ spoiled' \subseteq Id
  <2>1. sel' \in 0 .. Len(list')
    BY <1>1, <1>3
  <2> QED
    BY <2>1, <1>1, <1>2, <1>3, <1>t DEF ProfilesTypeOK, Spoil
<1>5. /\ given' \in [Agents -> [Id -> Keys \cup {None}]]
      /\ \A j \in Id \ {i}, a \in Agents : given'[a][j] = given[a][j]
  <2> DEFINE g == [given[app] EXCEPT ![i] = None]
  <2>1. g \in [Id -> Keys \cup {None}] /\ \A j \in Id \ {i} : g[j] = given[app][j]
    BY <1>2, <1>t DEF ProfilesTypeOK
  <2>2. given' = [given EXCEPT ![app] = g]
    BY <1>1
  <2> HIDE DEF g
  <2> QED
    BY <2>1, <2>2, <1>t DEF ProfilesTypeOK
<1>6. ProfilesTypeOK'
  BY <1>1, <1>3, <1>4, <1>5, <1>t DEF ProfilesTypeOK
<1>7. /\ \A j \in Id \ {i} : slot'[j] = slot[j] /\ users'[j] = users[j]
      /\ users[i] \subseteq users'[i] /\ app \in users'[i]
  BY <1>1, <1>2, <1>t DEF ProfilesInv, Used, ProfilesTypeOK
<1>8. whole => slot'[i] \notin Keys
  BY <1>t, <1>w
<1>9. (overrun => overrun') /\ (~overrun' => Len(list') <= MaxProfiles)
  BY <1>1, <1>3, <1>t DEF ProfilesInv, Room
<1> QED
  BY <1>1, <1>2, <1>3, <1>5, <1>6, <1>7, <1>8, <1>9, <1>w, Handled

LEMMA ProfilesInvStep ==
    ASSUME ProfilesAssumption, ProfilesInv, [ProfilesNext]_profilesVars
    PROVE  ProfilesInv'
<1>1. CASE UNCHANGED profilesVars
  <2>1. /\ stored' = stored /\ slot' = slot /\ app' = app /\ list' = list /\ sel' = sel
        /\ key' = key /\ given' = given /\ users' = users /\ spoiled' = spoiled
        /\ overrun' = overrun
    BY <1>1 DEF profilesVars, wizard, history
  <2>2. ProfilesTypeOK'
    BY <2>1 DEF ProfilesInv, ProfilesTypeOK
  <2> QED
    BY <2>1, <2>2, Unstored
<1>2. CASE ProfilesNext
  BY <1>2, StepType, StepSelectApp, StepSelectProfile, StepSaveRefused, StepSaveAs,
     StepDelete, StepRestart DEF ProfilesNext
<1> QED
  BY <1>1, <1>2

\* However the user, failures and restarts follow each other, ProfilesInv holds.
THEOREM ProfilesInvariant == ProfilesSpec => []ProfilesInv
<1>1. ProfilesInit => ProfilesInv
  BY ProfilesAssumption, ProfilesInvInit
<1>2. ProfilesInv /\ [ProfilesNext]_profilesVars => ProfilesInv'
  BY ProfilesAssumption, ProfilesInvStep
<1> QED
  BY <1>1, <1>2, PTL DEF ProfilesSpec

\* Every variable of the profiles has its type: no list gets more than one entry behind
\* the end of the array.
THEOREM ProfilesTypeCorrect == ProfilesSpec => []ProfilesTypeOK
<1>1. ProfilesInv => ProfilesTypeOK
  BY DEF ProfilesInv
<1> QED
  BY <1>1, ProfilesInvariant, PTL

\* A profile whose id only its own agent has used is read back with its own key, and no
\* slot keeps the key of a profile that is gone, unless a write failed or the array was
\* overrun.
THEOREM SlotsFollowLists == ProfilesSpec => []SlotsMatchLists
<1>1. ProfilesInv => SlotsMatchLists
  BY DEF ProfilesInv
<1> QED
  BY <1>1, ProfilesInvariant, PTL
=============================================================================
