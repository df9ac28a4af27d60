--------------------------- MODULE ModelDiscovery --------------------------
(***************************************************************************)
(* Model discovery in AgentDock's configuration wizard (AgentDock.c): a    *)
(* thread asks a gateway for its models and probes its protocol, a timer   *)
(* debounces what the user types, a posted message brings the answer to    *)
(* the window.                                                             *)
(*                                                                         *)
(* The window's thread handles one message at a time, so each of its       *)
(* handlers is a step.  A discovery thread writes the list of models, its  *)
(* length and the protocol directly, while the window may reset them.      *)
(*                                                                         *)
(* "fields" stands for address and key in the form, and also for the       *)
(* gateway they belong to.  The discovery that is started by the timer     *)
(* never begins: the handler of the timer calls start_model_discovery as   *)
(* the input handlers do, which arms the timer again.                      *)
(*                                                                         *)
(* answered, total, turned and rushed are history variables.               *)
(***************************************************************************)
EXTENDS Integers

CONSTANTS
    Threads,        \* discovery threads whose messages may be waiting at a time
    Apps,           \* Claude Code, Codex
    Gateways,
    Incomplete,     \* fields without an address or without a key
    MaxModels       \* bound: models a gateway lists

ASSUME DiscoveryAssumption == MaxModels \in Nat /\ Incomplete \notin Gateways

VARIABLES
    form,           \* the wizard: is it shown, agent, address and key, provider
    timer,          \* g_model_discovery_timer
    pending,        \* g_model_discovery_pending
    busy,           \* g_model_fetch_busy
    enabled,        \* the button that starts a test
    asked,          \* g_model_fetch_app, _base and _secret
    thread,         \* where each thread is
    count,          \* g_model_count
    protocol,       \* g_model_gateway_protocol_state
    offered,        \* the lists of models in the form
    answered,       \* the question whose answer is being written or was written last
    total,          \* models that answer has named so far
    turned,         \* the form's question was changed while a thread was busy
    rushed          \* a test began while an earlier one's message was on its way

window == <<form, timer, pending, busy, enabled>>

answer == <<count, protocol, answered, total>>

vars == <<window, asked, thread, answer, offered, turned, rushed>>

-----------------------------------------------------------------------------

Form == [shown : BOOLEAN, app : Apps, fields : Gateways \cup {Incomplete},
         gateway : BOOLEAN]

Question == [app : Apps, fields : Gateways \cup {Incomplete}]

Unknown == 0
Compatible == 1
Incompatible == 2

Label == {"idle", "begin", "list", "probe", "finish", "post", "posted"}

Asks(f) == [app |-> f.app, fields |-> f.fields]

\* Address or key are set: the edit controls tell the wizard, which forgets the answer.
Forget ==
    /\ count' = 0
    /\ protocol' = Unknown
    /\ turned' = busy
    /\ UNCHANGED <<answered, total>>

GoTo(t, label) == thread' = [thread EXCEPT ![t] = label]

-----------------------------------------------------------------------------
(* Faults: forms the properties below would catch                          *)

\* The wizard is closed with its key in the form.
HideWithKey ==
    /\ form.shown
    /\ form' = [form EXCEPT !.shown = FALSE]
    /\ \/ pending' = FALSE /\ timer' = FALSE
       \/ ~busy /\ pending' = TRUE /\ timer' = TRUE
    /\ UNCHANGED <<busy, enabled, asked, thread, answer, offered, turned, rushed>>

\* Another agent is chosen and the answer for the last one is kept.
UpdateAppKeeping(a) ==
    /\ form.shown
    /\ form' = [form EXCEPT !.app = a, !.gateway = TRUE]
    /\ enabled' = ~busy
    /\ turned' = busy
    /\ UNCHANGED <<timer, pending, busy, asked, thread, answer, offered, rushed>>

\* A thread that cannot be created leaves the button as it is.
FailToStartSilently ==
    /\ pending' = FALSE
    /\ timer' = FALSE
    /\ protocol' = Unknown
    /\ enabled' = FALSE
    /\ UNCHANGED <<form, busy, asked, thread, count, answered, total, turned, rushed>>

\* The busy flag falls before the list is read.
BeginUnbusy(t) ==
    /\ thread[t] = "begin"
    /\ GoTo(t, "list")
    /\ protocol' = Unknown
    /\ count' = 0
    /\ answered' = asked
    /\ total' = 0
    /\ turned' = (asked # Asks(form))
    /\ busy' = FALSE
    /\ enabled' = TRUE
    /\ UNCHANGED <<form, timer, pending, asked, offered, rushed>>

\* The reply of the probe is stored as a code of its own.
ProbeRaw(t) ==
    /\ thread[t] = "probe"
    /\ protocol' \in {protocol, Compatible, 404}
    /\ GoTo(t, "finish")
    /\ UNCHANGED <<window, asked, count, answered, total, offered, turned, rushed>>

-----------------------------------------------------------------------------
(* The window                                                              *)

Init ==
    /\ form \in [shown : {FALSE}, app : Apps, fields : {Incomplete}, gateway : {TRUE}]
    /\ timer = FALSE /\ pending = FALSE /\ busy = FALSE /\ enabled = TRUE
    /\ asked = Asks(form)
    /\ thread = [t \in Threads |-> "idle"]
    /\ count = 0 /\ protocol = Unknown /\ answered = asked /\ total = 0
    /\ offered = "none"
    /\ turned = FALSE /\ rushed = FALSE

Show ==
    /\ ~form.shown
    /\ form' = [form EXCEPT !.shown = TRUE]
    /\ UNCHANGED <<timer, pending, busy, enabled, asked, thread, answer, offered, turned,
                   rushed>>

\* Closing, cancelling and saving: the key is cleared, the timer killed; the focus may
\* leave a field as the window goes, which asks for a discovery once more.
Hide ==
    /\ form.shown
    /\ form' = [form EXCEPT !.shown = FALSE, !.fields = Incomplete]
    /\ Forget
    /\ \/ pending' = FALSE /\ timer' = FALSE
       \/ ~busy /\ pending' = TRUE /\ timer' = TRUE
    /\ UNCHANGED <<busy, enabled, asked, thread, offered, rushed>>

\* The user types an address or a key.
Fill(g) ==
    /\ form.shown
    /\ form' = [form EXCEPT !.fields = g]
    /\ Forget
    /\ UNCHANGED <<timer, pending, busy, enabled, asked, thread, offered, rushed>>

\* A profile, or the recommended values, with the provider that goes with it.
Refill(g, gateway) ==
    /\ form.shown
    /\ form' = [form EXCEPT !.fields = g, !.gateway = gateway]
    /\ enabled' = (gateway /\ ~busy)
    /\ Forget
    /\ UNCHANGED <<timer, pending, busy, asked, thread, offered, rushed>>

UpdateProvider(gateway) ==
    /\ form.shown
    /\ form' = [form EXCEPT !.gateway = gateway]
    /\ enabled' = (gateway /\ ~busy)
    /\ protocol' = Unknown
    /\ UNCHANGED <<timer, pending, busy, asked, thread, count, answered, total, offered,
                   turned, rushed>>

\* Another agent, with a gateway as its provider; an empty form of an agent without
\* profiles is filled from the agent's configuration.
UpdateApp(a) ==
    /\ form.shown
    /\ \/ form' = [form EXCEPT !.app = a, !.gateway = TRUE]
       \/ /\ form.fields = Incomplete
          /\ \E g \in Gateways, gateway \in BOOLEAN :
                form' = [form EXCEPT !.app = a, !.fields = g, !.gateway = gateway]
    /\ enabled' = (form'.gateway /\ ~busy)
    /\ Forget
    /\ UNCHANGED <<timer, pending, busy, asked, thread, offered, rushed>>

\* The thread cannot be created: everything is as it was, and the key is zeroed.
FailToStart ==
    /\ pending' = FALSE
    /\ timer' = FALSE
    /\ protocol' = Unknown
    /\ enabled' = TRUE
    /\ UNCHANGED <<form, busy, asked, thread, count, answered, total, turned, rushed>>

StartThread(t) ==
    /\ thread[t] = "idle"
    /\ GoTo(t, "begin")
    /\ pending' = FALSE
    /\ timer' = FALSE
    /\ busy' = TRUE
    /\ enabled' = FALSE
    /\ asked' = Asks(form)
    /\ protocol' = Unknown
    /\ rushed' = (rushed \/ \E u \in Threads : thread[u] \in {"post", "posted"})
    /\ UNCHANGED <<form, count, answered, total, turned>>

\* Nothing to ask: another provider, or a field is empty.
Decline ==
    /\ pending' = FALSE
    /\ timer' = FALSE
    /\ protocol' = IF form.gateway THEN Unknown ELSE protocol
    /\ UNCHANGED <<form, busy, enabled, asked, thread, count, answered, total, turned, rushed>>

\* start_model_discovery, past the debouncing.
Start ==
    /\ IF form.gateway /\ form.fields # Incomplete
       THEN FailToStart \/ \E t \in Threads : StartThread(t)
       ELSE Decline
    /\ UNCHANGED offered

\* The button "test".
Test == form.shown /\ enabled /\ ~busy /\ Start

Arm ==
    /\ pending' = TRUE
    /\ timer' = TRUE
    /\ UNCHANGED <<form, busy, enabled, asked, thread, answer, offered, turned, rushed>>

\* A field loses the focus, or an empty list of models is opened.  Without a timer the
\* discovery starts at once.
Ask ==
    /\ form.shown
    /\ ~busy
    /\ \/ Arm
       \/ ~timer /\ Start

\* WM_TIMER arms the timer again, if it can.
Tick ==
    /\ timer
    /\ IF pending /\ ~busy
       THEN Arm \/ Start
       ELSE /\ timer' = FALSE
            /\ UNCHANGED <<form, pending, busy, enabled, asked, thread, answer, offered,
                           turned, rushed>>

\* The message of a thread that has ended.
Complete(t) ==
    /\ thread[t] = "posted"
    /\ GoTo(t, "idle")
    /\ enabled' = TRUE
    /\ offered' = IF count = 0 THEN offered
                  ELSE IF count = total /\ \A u \in Threads : thread[u] \notin {"begin", "list"}
                  THEN "whole" ELSE "part"
    /\ UNCHANGED <<form, timer, pending, busy, asked, answer, turned, rushed>>

-----------------------------------------------------------------------------
(* The thread                                                              *)

Begin(t) ==
    /\ thread[t] = "begin"
    /\ GoTo(t, "list")
    /\ protocol' = Unknown
    /\ count' = 0
    /\ answered' = asked
    /\ total' = 0
    /\ turned' = (asked # Asks(form))
    /\ UNCHANGED <<window, asked, offered, rushed>>

\* One more model of the gateway's list.
List(t) ==
    /\ thread[t] = "list"
    /\ total < MaxModels
    /\ total' = total + 1
    /\ count' = count + 1
    /\ UNCHANGED <<window, asked, thread, protocol, answered, offered, turned, rushed>>

ListEnd(t) ==
    /\ thread[t] = "list"
    /\ GoTo(t, "probe")
    /\ UNCHANGED <<window, asked, answer, offered, turned, rushed>>

\* No reply and a refused key leave the protocol unknown.
Probe(t) ==
    /\ thread[t] = "probe"
    /\ protocol' \in {protocol, Compatible, Incompatible}
    /\ GoTo(t, "finish")
    /\ UNCHANGED <<window, asked, count, answered, total, offered, turned, rushed>>

Finish(t) ==
    /\ thread[t] = "finish"
    /\ busy' = FALSE
    /\ GoTo(t, "post")
    /\ UNCHANGED <<form, timer, pending, enabled, asked, answer, offered, turned, rushed>>

Post(t) ==
    /\ thread[t] = "post"
    /\ GoTo(t, "posted")
    /\ UNCHANGED <<window, asked, answer, offered, turned, rushed>>

ThreadStep(t) ==
    Begin(t) \/ List(t) \/ ListEnd(t) \/ Probe(t) \/ Finish(t) \/ Post(t)

-----------------------------------------------------------------------------

UserStep ==
    \/ Show \/ Hide \/ Test \/ Ask
    \/ \E g \in Gateways \cup {Incomplete} :
        Fill(g) \/ \E gateway \in BOOLEAN : Refill(g, gateway)
    \/ \E gateway \in BOOLEAN : UpdateProvider(gateway)
    \/ \E a \in Apps : UpdateApp(a)

Next ==
    \/ UserStep
    \/ Tick
    \/ \E t \in Threads : Complete(t) \/ ThreadStep(t)

Spec == Init /\ [][Next]_vars

\* The scheduler runs the threads, and the window takes its messages.
FairSpec == Spec /\ \A t \in Threads : WF_vars(ThreadStep(t)) /\ WF_vars(Complete(t))

-----------------------------------------------------------------------------
(* Properties                                                              *)

\* Every variable has its type.
TypeOK ==
    /\ form \in Form
    /\ timer \in BOOLEAN /\ pending \in BOOLEAN /\ busy \in BOOLEAN /\ enabled \in BOOLEAN
    /\ asked \in Question
    /\ thread \in [Threads -> Label]
    /\ count \in 0 .. MaxModels
    /\ protocol \in {Unknown, Compatible, Incompatible}
    /\ offered \in {"none", "whole", "part"}
    /\ answered \in Question
    /\ total \in 0 .. MaxModels
    /\ turned \in BOOLEAN /\ rushed \in BOOLEAN

\* What save takes for the gateway's answer (AgentDock.c:4649 and 4691) was given for
\* the agent, the address and the key that are in the form, unless they were changed
\* while the thread was asking.
AnswerForForm ==
    count > 0 \/ protocol # Unknown => turned \/ answered = Asks(form)

\* No request goes out for a wizard that was closed, though the timer may be armed while
\* it closes (AgentDock.c:4622): its key is gone.
NoProbeAfterClose ==
    [][\A t \in Threads : thread[t] = "idle" /\ thread'[t] = "begin" => form.shown]_vars

\* The lists of the form never show a list that a thread is still writing, unless the
\* form was changed under it or a second test began before the first one's message.
OffersWhole ==
    [][offered' = "part" /\ offered # "part" => turned \/ rushed]_vars

\* While a gateway is chosen, the button that starts a test always comes back.
ButtonComesBack == []<>(enabled \/ ~form.gateway)
=============================================================================
