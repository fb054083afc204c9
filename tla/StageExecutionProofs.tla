------------------------ MODULE StageExecutionProofs ------------------------
(***************************************************************************)
(* Proofs about StageExecution, for any plans of configuration, voice and  *)
(* control plane, any scenarios and any scopes.                            *)
(***************************************************************************)
EXTENDS StageExecution, FiniteSetTheorems, WellFoundedInduction, TLAPS

A  == C!Action
AV == V!Action
AK == K!Action

\* The boundaries, in order.
Boundary == {"physical_delta", "configuration", "window", "voice", "signal", "control_plane",
             "forwarding", "reconciliation"}
Early    == {"physical_delta", "configuration", "window"}
Phones   == {"voice", "signal"}
Late     == {"control_plane", "forwarding", "reconciliation"}

\* A batch of the voice plan, of the control plan, and of the configuration.
InBatch    == pc \in {"call", "frontier", "reconcile", "conclude"}
InCall     == cPc \in {"dispatch", "redispatch"}
InScenario == {"scenario", "inject", "during", "restore", "after", "judge"}
Idling     == {"preflight", "refused"}

-----------------------------------------------------------------------------
(* Where the stage and its three applicators are.                          *)

CourseInv ==
    /\ scopes \in Scopes /\ attempt \in {1, 2}
    /\ where \in Boundary /\ outcome \in {"running", "failed", "verified"}
    /\ outcome = "verified" => where = "reconciliation"
    /\ where = "physical_delta" => cPc = "preflight"
    /\ where = "configuration" => cPc \in Idling \cup {"phase", "dispatch", "barrier", "after",
                                                       "returned"}
    /\ where = "signal" => cPc \in {"returned", "redispatch", "direct", "forwarding"}
    /\ where \notin {"physical_delta", "configuration", "signal"} => cPc = "returned"
    /\ where \in Early => pc = "preflight"
    /\ where = "voice" => pc \in Idling \cup {"dispatch", "call", "frontier", "reconcile",
                                 "conclude", "observed", "registration", "calls", "judge",
                                 "returned"}
    /\ where = "signal" => pc = "observed"
    /\ where = "control_plane" =>
          pc \in Idling \cup {"dispatch", "call", "observed", "behavior", "returned"} \cup InScenario
    /\ where \in {"forwarding", "reconciliation"} =>
          pc \in {"returned", "refused"} /\ status = "verified"

\* Payloads of the configuration, and messages of the other two and of the
\* scenarios.
Payloads == UNION {[B -> {"data", "full"}] : B \in SUBSET A}
Actions  == [kind : {"action"}, of : (SUBSET AV) \cup (SUBSET AK)]
Faults   == [kind : {"shutdown", "restore"}, of : K!Scenario]
\* Whether an action of the voice or the control plan is in a queue.
OnItsWay(a, q) == \E m \in Range(q) : "kind" \in DOMAIN m /\ m.kind = "action" /\ a \in m.of

ChannelInv == channel \in Seq(Payloads \cup Actions \cup Faults)

-----------------------------------------------------------------------------
(* The configuration.                                                      *)

CTypeOK ==
    /\ cScope \subseteq A /\ cPrepared \subseteq A /\ cDefer \in BOOLEAN
    /\ cCall \subseteq A /\ cLeft \subseteq cCall /\ cFull \in BOOLEAN
    /\ cResults \in [A -> C!Result] /\ cChecks \in [A -> C!Check]
    /\ cDevice \in [A -> {"none", "data", "full"}]
    /\ cSent \in [A -> [data : Nat, full : Nat]]

\* What is asked for, and what of it is left for the second attempt.
RequestInv ==
    /\ cDefer <=> scopes.voice # {}
    /\ cScope \subseteq scopes.configuration
    /\ cPrepared \subseteq Voice \cap scopes.configuration
    /\ cPrepared \cap cScope = {}
    /\ attempt = 1 => cScope = scopes.configuration /\ cPrepared = {}
    /\ attempt = 2 => \A a \in cScope : Expects[a] = "endpoint"
    /\ cPrepared # {} /\ ~cDefer => cPc \in Idling

\* The call the applicator is in: what is still to be sent is ready, and for
\* a signal has been sent without its voice VLAN.
CallInv ==
    /\ ~InCall => cLeft = {}
    /\ cPc = "redispatch" => cFull
    /\ cPc \in Idling \cup {"phase", "barrier"} => ~cFull
    /\ cPc \in Idling => \A a \in A : cResults[a] = "none"
    /\ cPc \notin Idling => \A a \in A : cResults[a] = "none" => a \in cScope
    /\ ~cFull => \A a \in cLeft :
          cResults[a] = "none" /\ \A d \in DependsOn[a] : cResults[d] = "applied"
    /\ cFull => \A a \in cLeft : a \in C!Deferred /\ Sent(a) > 0

\* How often an action has been sent, by what it has come to.
SentInv ==
    /\ \A a \in A \ scopes.configuration : cSent[a].data = 0 /\ cSent[a].full = 0
    /\ \A a \in A : cSent[a].data <= 1
    /\ \A a \in A \ Voice : cSent[a].data = 0 /\ cSent[a].full <= IF Expects[a] = "endpoint" THEN attempt ELSE 1
    /\ \A a \in Voice : cSent[a].full <= 1
    /\ \A a \in C!Deferred : (~cFull \/ a \in cLeft) /\ (cDefer \/ attempt = 1) => cSent[a].full = 0
    /\ \A a \in cScope : cResults[a] = "none" => cSent[a].data = 0 /\ cSent[a].full <= attempt - 1

\* What counts as applied was sent, and after what it depends on.
OrderInv ==
    /\ \A a \in scopes.configuration : cResults[a] \in {"applied", "partial"} => Sent(a) > 0
    /\ attempt = 2 => \A a \in scopes.configuration : Sent(a) > 0
    /\ \A a \in A : Sent(a) > 0 => \A d \in DependsOn[a] \cap scopes.configuration : Sent(d) > 0

\* A signal that was left for later, which only a completion can send.
IntendedInv ==
    cSignal = "intended" =>
        /\ cDefer
        /\ \A a \in C!Deferred : Sent(a) > 0
        /\ cPc = "returned" => ~cFull

DeferredInv == cDefer /\ where \in {"physical_delta", "configuration"} => ~cFull

\* A verification has seen what it tells, and finds getters absent only where
\* they are.
CheckInv ==
    \A a \in A : /\ cChecks[a] = "verified" \/ (Expects[a] = "endpoint" /\ cChecks[a] = "partial")
                    => cDevice[a] = "full"
                 /\ cChecks[a] = "absent" => a \in Mute

CInv == CTypeOK /\ RequestInv /\ CallInv /\ SentInv /\ OrderInv /\ IntendedInv /\ CheckInv

FoundationIsThere == \A a \in A : Expects[a] = "foundation" => cDevice[a] = "full"
PhonesAreBound    == \A b \in Bindings : vDevice[b]

\* The voice VLANs are sent over a network and phones that are there.
SignalInv ==
    /\ cSignal = "intended" => FoundationIsThere
    /\ cFull /\ cLeft # {} => FoundationIsThere /\ PhonesAreBound
    /\ cBasis \in {"none", "founded"}
    /\ \A a \in Voice : cSent[a].full > 0 => cBasis = "founded" /\ PhonesAreBound
    /\ "voice_signal_verified" \in cEvents => \A a \in Voice : cDevice[a] = "full"

\* What is accepted and can be read is there, but for the voice VLANs that are
\* left for later, and the rest was sent.
AcceptedInv ==
    where \notin {"physical_delta", "configuration"} =>
        /\ \A a \in A \ Voice : C!Readable(a) => cDevice[a] = "full"
        /\ \A a \in scopes.configuration : Sent(a) > 0

-----------------------------------------------------------------------------
(* The phones.                                                             *)

VTypeOK ==
    where \notin Late =>
        /\ scope = scopes.voice
        /\ results \in [AV -> V!Result]
        /\ batch \subseteq scope /\ call \subseteq batch
        /\ pc = "call" => call # {}
        /\ vDevice \in [AV -> BOOLEAN]

\* Nothing goes out before what it depends on.
VDependInv ==
    where \notin Late =>
        /\ pc \in Idling => \A a \in scope : ~vDevice[a] /\ ~OnItsWay(a, channel)
        /\ pc \notin Idling => \A a \in AV : results[a] = "none" => a \in scope
        /\ \A a \in scope : vDevice[a] \/ OnItsWay(a, channel) =>
              \A d \in VoiceDepends[a] : results[d] = "applied" /\ (InBatch => d \notin batch)
        /\ InBatch => /\ \A a \in batch : results[a] \in {"none", "applied"}
                      /\ \A a \in batch : \A d \in VoiceDepends[a] :
                            results[d] = "applied" /\ d \notin batch
                      /\ \A a, b \in batch : VoiceBatch[a] = VoiceBatch[b]

\* A binding that counts as applied has its row, or its batch is not over, or
\* there is a doubt, or a failure.
VBoundInv ==
    where \notin Late =>
        /\ \A a \in AV \ scope : vDevice[a]
        /\ pc \in {"frontier", "reconcile", "conclude"} => batch \subseteq Bindings
        /\ pc \in {"reconcile", "conclude"} =>
              DOMAIN initial = batch /\ \A b \in batch : initial[b] = "right" => vDevice[b]
        /\ pc \notin Idling => \A b \in Bindings :
              results[b] = "applied" => \/ vDevice[b] \/ b \in doubted \/ (InBatch /\ b \in batch)
                                        \/ \E a \in AV : results[a] = "failed"

\* What is sent again has left no row, and nothing of it is on its way.
ReconcileInv ==
    pc = "reconcile" =>
        /\ where = "voice" /\ call # {} /\ call \subseteq AV
        /\ \A b \in call : ~vDevice[b] /\ b \notin stale /\ ~OnItsWay(b, channel)

RegisteredInv == \A b \in Bindings : registered[b] = "verified" => vDevice[b]

VInv == VTypeOK /\ VDependInv /\ VBoundInv /\ ReconcileInv /\ RegisteredInv

-----------------------------------------------------------------------------
(* The control plane, and its scenarios.                                   *)

KTypeOK ==
    /\ kDevice \in [AK -> BOOLEAN]
    /\ where \in Late =>
        /\ scope = scopes.control
        /\ results \in [AK -> K!Result]
        /\ batch \subseteq scope /\ call \subseteq batch
        /\ where = "control_plane" /\ pc = "call" => call # {}

KDependInv ==
    where = "control_plane" =>
        /\ pc \in Idling => \A a \in scope : ~kDevice[a] /\ ~OnItsWay(a, channel)
        /\ pc \notin Idling => \A a \in AK : results[a] = "none" => a \in scope
        /\ \A a \in scope : kDevice[a] \/ OnItsWay(a, channel) =>
              \A d \in ControlDepends[a] : results[d] = "applied" /\ (pc = "call" => d \notin batch)
        /\ pc = "call" => \A a \in batch : \A d \in ControlDepends[a] :
              results[d] = "applied" /\ d \notin batch

\* The control plane is not touched before its turn, and then it stands on
\* what was verified.
GroundInv ==
    /\ where \notin Late => \A a \in scopes.control : ~kDevice[a] /\ ~OnItsWay(a, channel)
    /\ where \in Late => PhonesAreBound /\ \A a \in Voice : cDevice[a] = "full"
    /\ (where = "control_plane" /\ pc \notin Idling) \/ where \in {"forwarding", "reconciliation"} =>
          \A a \in ControlNeeds : cDevice[a] = "full"

KCheckInv ==
    /\ checks \in [K!Expectation -> K!Check]
    /\ \A e \in K!Expectation : checks[e] = "verified" => kDevice[e[1]]

\* What a verified result says.
KStatusInv ==
    where \in Late /\ status = "verified" =>
        /\ pc = "returned"
        /\ \A e \in K!Expectation : checks[e] = "verified"
        /\ \A x \in K!Scenario : scenarios[x].status = "verified"

KInv == KTypeOK /\ KDependInv /\ KCheckInv /\ KStatusInv

\* What was ordered down is ordered up before anything else is done.
RestoreInv ==
    /\ restored \subseteq faulted
    /\ faulted # {} => where \in Late
    /\ \A x \in faulted \ restored : s <= Len(Scenarios) /\ K!Current = x /\ pc \in {"during", "restore"}
    /\ where = "control_plane" /\ pc \in {"during", "restore"} /\ s <= Len(Scenarios) => K!Current \in faulted

Shutdown(x) == [kind |-> "shutdown", of |-> x]

KScenarioTypeOK ==
    /\ s \in Nat
    /\ up \in [K!Scenario -> BOOLEAN] /\ faulted \subseteq K!Scenario
    /\ where = "control_plane" /\ pc \in InScenario => s \in 1..Len(Scenarios) + 1
    /\ where \notin Late \/ pc \in Idling \cup {"dispatch", "call", "observed", "behavior"} => s \in {0, 1}
    /\ where = "control_plane" /\ pc \in InScenario \ {"scenario"} => s <= Len(Scenarios)
    /\ DOMAIN scenarios = K!Scenario

\* No shutdown of a link is in a queue, or just one.
Clear(x, q) == \A j \in 1..Len(q) : q[j] # Shutdown(x)
Sole(x, q)  == \A j, l \in 1..Len(q) : q[j] = Shutdown(x) /\ q[l] = Shutdown(x) => l = j

\* The link of a scenario that has not begun is up, one that is down has no
\* shutdown on its way, and a shutdown is sent once.
Unbegun(k) == k > s \/ (k = s /\ ~(where \in Late /\ pc \in {"during", "restore", "after", "judge"}))

LinkInv ==
    /\ \A k \in 1..Len(Scenarios) :
          Unbegun(k) => up[Scenarios[k]] /\ Clear(Scenarios[k], channel)
    /\ \A x \in K!Scenario : Sole(x, channel) /\ (~Clear(x, channel) => up[x])

\* What is known of the scenario the runtime is in.
RunInv ==
    /\ DOMAIN run = DOMAIN K!NoRun
    /\ where \notin Late \/ pc \in Idling \cup {"dispatch", "call", "observed", "behavior"} =>
          run = K!NoRun
    /\ where = "control_plane" =>
          /\ pc \in {"scenario", "inject", "during"} => run.during # "verified"
          /\ pc \in InScenario \ {"judge"} => run.after # "verified"
          /\ pc \in InScenario /\ run.during = "verified" =>
                Clear(K!Current, channel) /\ (run.after = "verified" => up[K!Current])

\* A scenario that was verified has left its link up.
ScenarioInv ==
    \A x \in K!Scenario : scenarios[x].status = "verified" =>
        /\ up[x] /\ Clear(x, channel)
        /\ \A k \in 1..Len(Scenarios) : Scenarios[k] = x => k < s

-----------------------------------------------------------------------------
\* A stage that is over has left no link down unasked.
StageInv == outcome # "running" => faulted = restored

-----------------------------------------------------------------------------
(* Steps.                                                                  *)

\* The stage goes on, or stops.
Turn == \/ Physical \/ Contradict \/ Accept \/ OpenWindow \/ EndControlPlane \/ Forward
        \/ ReconcileWorkspace

\* One of the three applicators takes a step.
CStep == Configure \/ BeginSignal \/ Signal
VStep == BindPhones \/ EndSignal
KStep == ConfigureControlPlane

\* Packet Tracer runs the next message.
CRun     == C!RunPayload /\ UNCHANGED <<applied, vVars, kVars, vDevice, kDevice, stage>>
VRun     == V!Run /\ UNCHANGED <<cVars, kVars, cDevice, kDevice, stage>>
KRun     == K!Run /\ UNCHANGED <<cVars, vVars, cDevice, vDevice, stage>>
FaultRun == K!RunFault /\ UNCHANGED <<cVars, vVars, cDevice, vDevice, stage>>

Step == Turn \/ CStep \/ VStep \/ KStep \/ Reassert \/ EndVoice \/ CRun \/ VRun \/ KRun \/ FaultRun

\* Every step of the stage is one of one applicator, of Packet Tracer, or of
\* the stage.
LEMMA Steps ==
    ASSUME [Next]_vars
    PROVE  Step \/ UNCHANGED vars
  BY DEF Next, Step, Turn, CStep, VStep, KStep, CRun, VRun, KRun, FaultRun, Deliver

\* The parts leave each other's state alone.
LEMMA TurnRests ==
    ASSUME Turn
    PROVE  UNCHANGED <<cVars, applied, stale, doubted, initial, resent, signal, registered, called,
                       kVars, devices, channel, scopes, attempt>>
  BY DEF Turn, Physical, Contradict, Accept, OpenWindow, EndControlPlane, Forward,
         ReconcileWorkspace, Stop, Proceed, Idle, vVars

\* A step of the configuration leaves voice and control plane alone.
LEMMA CRests ==
    ASSUME CStep
    PROVE  UNCHANGED <<applied, vVars, kVars, vDevice, kDevice, scopes, attempt>>
  BY DEF CStep, Configure, BeginSignal, Signal, Proceed, stage

\* A step of voice leaves configuration and control plane alone.
LEMMA VRests ==
    ASSUME VStep
    PROVE  UNCHANGED <<cVars, kVars, cDevice, kDevice, scopes, attempt>>
  BY DEF VStep, BindPhones, EndSignal, Proceed, stage

\* A step of the control plane leaves configuration and voice alone.
LEMMA KRests ==
    ASSUME KStep
    PROVE  UNCHANGED <<cVars, vVars, cDevice, vDevice, stage>>
  BY DEF KStep, ConfigureControlPlane

-----------------------------------------------------------------------------
(* The channel, and the order of the plans.                                *)

Anything == Payloads \cup Actions \cup Faults

\* Both applicators see the same channel.
LEMMA UnderwayIsOnItsWay ==
    ASSUME NEW a
    PROVE  (V!Underway(a) <=> OnItsWay(a, channel)) /\ (K!Underway(a) <=> OnItsWay(a, channel))
  BY DEF V!Underway, K!Underway, OnItsWay, Range, V!Range, K!Range

\* A message is put at the end, and taken from the front.
LEMMA Appended ==
    ASSUME NEW T, NEW q \in Seq(T), NEW m \in T
    PROVE  /\ Append(q, m) \in Seq(T)
           /\ Range(Append(q, m)) = Range(q) \cup {m}
           /\ Len(Append(q, m)) = Len(q) + 1 /\ Append(q, m)[Len(q) + 1] = m
           /\ \A j \in 1..Len(q) : Append(q, m)[j] = q[j]
<1>1. /\ Append(q, m) \in Seq(T) /\ DOMAIN Append(q, m) = 1..(Len(q) + 1) /\ Len(q) \in Nat
      /\ \A j \in 1..Len(q) : Append(q, m)[j] = q[j]
      /\ Append(q, m)[Len(q) + 1] = m /\ DOMAIN q = 1..Len(q)
  OBVIOUS
<1>2. Range(Append(q, m)) = Range(q) \cup {m}
  BY <1>1 DEF Range
<1> QED
  BY <1>1, <1>2

\* What a queue is without its first element.
LEMMA Taken ==
    ASSUME NEW T, NEW q \in Seq(T), q # <<>>
    PROVE  /\ Tail(q) \in Seq(T) /\ Head(q) \in T /\ Head(q) \in Range(q)
           /\ Range(Tail(q)) \subseteq Range(q)
           /\ Len(q) \in Nat \ {0} /\ Len(Tail(q)) = Len(q) - 1 /\ Head(q) = q[1]
           /\ \A j \in 1..Len(Tail(q)) : Tail(q)[j] = q[j + 1]
<1>1. /\ Len(q) \in Nat \ {0} /\ DOMAIN q = 1..Len(q)
      /\ Tail(q) \in Seq(T) /\ Len(Tail(q)) = Len(q) - 1
      /\ DOMAIN Tail(q) = 1..(Len(q) - 1)
      /\ Head(q) = q[1]
      /\ \A j \in 1..(Len(q) - 1) : Tail(q)[j] = q[j + 1]
  OBVIOUS
<1>2. Head(q) \in T /\ Head(q) \in Range(q)
  BY <1>1 DEF Range
<1>3. \A j \in 1..(Len(q) - 1) : j + 1 \in 1..Len(q)
  BY <1>1
<1>4. Range(Tail(q)) \subseteq Range(q)
  BY <1>1, <1>3 DEF Range
<1> QED
  BY <1>1, <1>2, <1>4

\* The payloads of the configuration are told from the others.
LEMMA MessagesDiffer ==
    /\ \A m \in Payloads : "kind" \notin DOMAIN m
    /\ \A m \in Actions : /\ "kind" \in DOMAIN m /\ m.kind = "action"
                          /\ m.of \in (SUBSET AV) \cup (SUBSET AK) /\ ~(DOMAIN m \subseteq A)
    /\ \A m \in Faults : /\ m.kind \in {"shutdown", "restore"} /\ m.of \in K!Scenario
                         /\ ~(DOMAIN m \subseteq A)
<1>1. "kind" \notin A
  BY StageAssumption DEF A
<1> QED
  BY <1>1 DEF Payloads, Actions, Faults

\* What is on its way when a message is put or taken.
LEMMA OnItsWayChanges ==
    ASSUME NEW q \in Seq(Anything), NEW a
    PROVE  /\ \A m \in Payloads \cup Faults : OnItsWay(a, Append(q, m)) <=> OnItsWay(a, q)
           /\ \A m \in Actions : OnItsWay(a, Append(q, m)) <=> OnItsWay(a, q) \/ a \in m.of
           /\ q # <<>> /\ OnItsWay(a, Tail(q)) => OnItsWay(a, q)
           /\ q # <<>> /\ Head(q) \in Actions /\ a \in Head(q).of => OnItsWay(a, q)
<1>1. \A m \in Anything : Range(Append(q, m)) = Range(q) \cup {m}
  BY Appended
<1>2. q # <<>> => Head(q) \in Range(q) /\ Range(Tail(q)) \subseteq Range(q)
  BY Taken
<1> QED
  BY <1>1, <1>2, MessagesDiffer DEF OnItsWay, Anything

\* A set of numbers that is not empty has a least one.
LEMMA LeastOfNumbers ==
    ASSUME NEW N \in SUBSET Nat, N # {}
    PROVE  \E m \in N : \A k \in N : m <= k
<1> DEFINE R == {ss \in Nat \X Nat : ss[1] < ss[2]}
<1>1. IsWellFoundedOn(R, Nat)
  BY NatLessThanWellFounded, Zenon DEF OpToRel
<1>2. PICK m \in N : \A k \in N : ~(<<k, m>> \in R)
  <2> HIDE DEF R
  <2> QED
    BY <1>1, WFMin
<1>3. ASSUME NEW k \in N
      PROVE  ~(k < m)
  <2>1. k < m => <<k, m>> \in R
    OBVIOUS
  <2> HIDE DEF R
  <2> QED
    BY <2>1, <1>2
<1>4. \A k \in N : k \in Nat /\ m \in Nat
  OBVIOUS
<1> HIDE DEF R
<1> QED
  BY <1>3, <1>4

\* Of some actions of a plan, one is the first.
LEMMA FirstInPlan ==
    ASSUME NEW T, NEW P \in Seq(T), NEW B \in SUBSET Range(P), B # {}
    PROVE  \E a \in B : \A b \in B : (CHOOSE k \in 1..Len(P) : P[k] = a)
                                       <= (CHOOSE k \in 1..Len(P) : P[k] = b)
<1> DEFINE Spot(a) == CHOOSE k \in 1..Len(P) : P[k] = a
           N == {Spot(a) : a \in B}
<1>1. \A a \in B : Spot(a) \in 1..Len(P)
  <2> SUFFICES ASSUME NEW a \in B
               PROVE  Spot(a) \in 1..Len(P)
    OBVIOUS
  <2>1. \E k \in 1..Len(P) : P[k] = a
    BY DEF Range
  <2> QED
    BY <2>1
<1>2. N \in SUBSET Nat /\ N # {}
  <2>1. Len(P) \in Nat /\ 1..Len(P) \subseteq Nat
    OBVIOUS
  <2> HIDE DEF Spot
  <2> QED
    BY <1>1, <2>1
<1>3. PICK m \in N : \A k \in N : m <= k
  <2> HIDE DEF N
  <2> QED
    BY <1>2, LeastOfNumbers
<1>4. PICK a \in B : m = Spot(a)
  BY <1>3
<1> QED
  BY <1>3, <1>4

\* The first of some actions is among them, in both plans.
LEMMA FirstIsOneOfThem ==
    /\ \A B \in SUBSET AV : B # {} => V!FirstOf(B) \in B
    /\ \A B \in SUBSET AK : B # {} => K!FirstOf(B) \in B
<1>1. VoicePlan \in Seq(AV) /\ AV = Range(VoicePlan)
  BY StageAssumption DEF V!VoiceAssumption, V!DispatchAssumption, AV, V!Action, Range, V!Range
<1>2. ControlPlan \in Seq(AK) /\ AK = Range(ControlPlan)
  BY StageAssumption DEF K!ControlPlaneAssumption, K!DispatchAssumption, AK, K!Action, Range,
     K!Range
<1>3. ASSUME NEW B \in SUBSET AV, B # {}
      PROVE  V!FirstOf(B) \in B
  <2>1. \E a \in B : \A b \in B : V!Place(a) <= V!Place(b)
    BY <1>1, <1>3, FirstInPlan DEF V!Place
  <2> QED
    BY <2>1 DEF V!FirstOf
<1>4. ASSUME NEW B \in SUBSET AK, B # {}
      PROVE  K!FirstOf(B) \in B
  <2>1. \E a \in B : \A b \in B : K!Place(a) <= K!Place(b)
    BY <1>2, <1>4, FirstInPlan DEF K!Place
  <2> QED
    BY <2>1 DEF K!FirstOf
<1> QED
  BY <1>3, <1>4

-----------------------------------------------------------------------------
(* The course of the stage.                                                *)

\* Where an application of the configuration may go.
LEMMA ConfigurationCourse ==
    ASSUME C!Apply, cPc \in Idling \cup {"phase", "dispatch", "barrier", "after", "returned"}
    PROVE  cPc' \in Idling \cup {"phase", "dispatch", "barrier", "after", "returned"}
  BY DEF C!Apply, C!Refuse, C!Begin, C!EnterPhase, C!Dispatch, C!DispatchDevice, C!DispatchFails,
         C!DispatchEnds, C!VerifyAll, C!VerifyBefore, C!Signal, C!DeferSignal, C!HoldSignal,
         C!VerifyAfter, C!Report, Idling

\* Where the completion of what was deferred may go.
LEMMA CompletionCourse ==
    ASSUME C!BeginCompletion \/ C!Complete,
           cPc \in {"returned", "redispatch", "direct", "forwarding"}
    PROVE  cPc' \in {"returned", "redispatch", "direct", "forwarding"}
<1>1. CASE C!BeginCompletion
  BY <1>1 DEF C!BeginCompletion, C!RefuseCompletion, C!CompleteDeferred, C!CompleteRetained
<1>2. CASE C!Dispatch
  BY <1>2 DEF C!Dispatch, C!DispatchDevice, C!DispatchFails, C!DispatchEnds
<1>3. CASE C!VerifyDirect \/ C!VerifyForwarding
  BY <1>3 DEF C!VerifyDirect, C!VerifyForwarding, C!Report
<1> QED
  BY <1>1, <1>2, <1>3 DEF C!Complete

VPlaces == Idling \cup {"dispatch", "call", "frontier", "reconcile", "conclude", "observed",
                        "registration", "calls", "judge", "returned"}

\* Where the voice application may go.
LEMMA VoiceCourse ==
    ASSUME V!Apply \/ V!CompleteSignal, pc \in VPlaces
    PROVE  pc' \in VPlaces
  BY DEF V!Apply, V!Refuse, V!Begin, V!Dispatch, V!NextBatch, V!DispatchEnds, V!SendControls,
         V!SendBinding, V!BatchFails, V!ReadFrontier, V!Reconcile, V!Conclude, V!PassSignal,
         V!Observe, V!Call, V!Judge, V!CompleteSignal, V!Finish, V!EndBatch, VPlaces, Idling

KPlaces == Idling \cup {"dispatch", "call", "observed", "behavior", "returned"} \cup InScenario

\* Where the control plane application may go.
LEMMA ControlCourse ==
    ASSUME K!Apply, pc \in KPlaces
    PROVE  pc' \in KPlaces
  BY DEF K!Apply, K!Refuse, K!Begin, K!Dispatch, K!NextBatch, K!SendAction, K!DispatchEnds,
         K!Verify, K!VerifyStage, K!PassScenario, K!RefuseScenario, K!Baseline, K!Inject,
         K!During, K!Restore, K!After, K!Judge, K!Return, K!Record, K!InScenario, KPlaces,
         InScenario, Idling

\* What Packet Tracer runs changes no applicator.
LEMMA RunsLeave ==
    ASSUME CRun \/ VRun \/ KRun \/ FaultRun
    PROVE  UNCHANGED <<pc, cVars, stage, scope, refused, batch, call, results, status>>
  BY DEF CRun, VRun, KRun, FaultRun, C!RunPayload, C!request, C!tool, V!Run, V!RunAction,
         V!dispatch, K!Run, K!RunAction, K!dispatch, K!own, K!RunFault, applied, cVars

-----------------------------------------------------------------------------
(* The configuration.                                                      *)

\* What the assumption says of the configuration plan.
LEMMA ConfigurationFacts ==
    ASSUME CourseInv
    PROVE  /\ DependsOn \in [A -> SUBSET A] /\ Voice \subseteq A
           /\ Expects \in [A -> {"foundation", "pool", "endpoint", "other", "none"}]
           /\ \A a \in Voice : Expects[a] = "other"
           /\ scopes.configuration \subseteq A
           /\ Mute \subseteq A /\ \A a \in Mute : Expects[a] = "endpoint"
  BY StageAssumption DEF CourseInv, C!ConfigurationAssumption, A

\* The actions of the configuration, one by one, keep its invariant: a plan
\* that is refused.
LEMMA RefuseKeeps ==
    ASSUME CourseInv, CInv, C!Refuse, UNCHANGED <<scopes, attempt, cDevice>>
    PROVE  CInv'
<1> USE ConfigurationFacts DEF CInv, C!Refuse, C!request, C!Deferred, C!Expected, C!Satisfied, Sent,
        InCall, Idling, A, C!Result, C!Check, C!Observed
<1>1. CTypeOK'
  BY DEF CTypeOK
<1>2. RequestInv'
  BY DEF RequestInv
<1>3. CallInv'
  BY DEF CTypeOK, RequestInv, CallInv, IntendedInv, OrderInv
<1>4. SentInv'
  BY DEF CTypeOK, RequestInv, CallInv, SentInv, IntendedInv
<1>5. OrderInv'
  BY DEF CTypeOK, RequestInv, CallInv, OrderInv
<1>6. IntendedInv'
  BY DEF CTypeOK, RequestInv, CallInv, IntendedInv, OrderInv
<1>7. CheckInv'
  BY DEF CTypeOK, CheckInv
<1> QED
  BY <1>1, <1>2, <1>3, <1>4, <1>5, <1>6, <1>7

\* An application that begins has told only of what is retained or skipped.
LEMMA BeginKeeps ==
    ASSUME CourseInv, CInv, C!Begin, UNCHANGED <<scopes, attempt, cDevice>>
    PROVE  CInv'
<1> USE ConfigurationFacts DEF CInv, C!Begin, C!request, C!Deferred, C!Expected, C!Satisfied, Sent,
        InCall, Idling, A, C!Result, C!Check, C!Observed
<1>1. CTypeOK'
  BY DEF CTypeOK
<1>2. RequestInv'
  BY DEF RequestInv, C!ScopeIsValid
<1>3. CallInv'
  BY DEF CTypeOK, RequestInv, CallInv, IntendedInv, OrderInv
<1>4. SentInv'
  BY DEF CTypeOK, RequestInv, CallInv, SentInv, IntendedInv
<1>5. OrderInv'
  BY DEF CourseInv, CTypeOK, RequestInv, CallInv, OrderInv
<1>6. IntendedInv'
  BY DEF CTypeOK, RequestInv, CallInv, IntendedInv, OrderInv
<1>7. CheckInv'
  BY DEF CTypeOK, CheckInv
<1> QED
  BY <1>1, <1>2, <1>3, <1>4, <1>5, <1>6, <1>7

\* A phase blocks what has lost a dependency.
LEMMA EnterPhaseKeeps ==
    ASSUME CourseInv, CInv, C!EnterPhase, UNCHANGED <<scopes, attempt, cDevice>>
    PROVE  CInv'
<1> USE ConfigurationFacts DEF CInv, C!EnterPhase, C!Pending, C!Ready, C!request, C!Deferred,
        C!Expected, C!Satisfied, Sent, InCall, Idling, A, C!Result, C!Check, C!Observed
<1>1. CTypeOK'
  BY DEF CTypeOK
<1>2. RequestInv'
  BY DEF RequestInv
<1>3. CallInv'
  BY DEF CTypeOK, RequestInv, CallInv, IntendedInv, OrderInv
<1>4. SentInv'
  BY DEF CTypeOK, RequestInv, CallInv, SentInv, IntendedInv
<1>5. OrderInv'
  BY DEF CTypeOK, RequestInv, CallInv, OrderInv
<1>6. IntendedInv'
  BY DEF CTypeOK, RequestInv, CallInv, IntendedInv, OrderInv
<1>7. CheckInv'
  BY DEF CTypeOK, CheckInv
<1> QED
  BY <1>1, <1>2, <1>3, <1>4, <1>5, <1>6, <1>7

\* A call that raises is a failure of all its actions.
LEMMA DispatchFailsKeeps ==
    ASSUME CourseInv, CInv, C!DispatchFails, UNCHANGED <<scopes, attempt, cDevice>>
    PROVE  CInv'
<1> USE ConfigurationFacts DEF CInv, C!DispatchFails, C!Told, C!Keep, C!request, C!Deferred,
        C!Expected, C!Satisfied, Sent, InCall, Idling, A, C!Result, C!Check, C!Observed
<1>1. CTypeOK'
  BY DEF CTypeOK
<1>2. RequestInv'
  BY DEF RequestInv
<1>3. CallInv'
  BY DEF CTypeOK, RequestInv, CallInv, IntendedInv, OrderInv
<1>4. SentInv'
  BY DEF CTypeOK, RequestInv, CallInv, SentInv, IntendedInv
<1>5. OrderInv'
  BY DEF CTypeOK, RequestInv, CallInv, OrderInv
<1>6. IntendedInv'
  BY DEF CTypeOK, RequestInv, CallInv, IntendedInv, OrderInv
<1>7. CheckInv'
  BY DEF CTypeOK, CheckInv
<1> QED
  BY <1>1, <1>2, <1>3, <1>4, <1>5, <1>6, <1>7

\* The dispatch ends when every device had its payload.
LEMMA DispatchEndsKeeps ==
    ASSUME CourseInv, CInv, C!DispatchEnds, UNCHANGED <<scopes, attempt, cDevice>>
    PROVE  CInv'
<1> USE ConfigurationFacts DEF CInv, C!DispatchEnds, C!Keep, C!request, C!Deferred, C!Expected,
        C!Satisfied, Sent, InCall, Idling, A, C!Result, C!Check, C!Observed
<1>1. CTypeOK'
  BY DEF CTypeOK
<1>2. RequestInv'
  BY DEF RequestInv
<1>3. CallInv'
  BY DEF CTypeOK, RequestInv, CallInv, IntendedInv, OrderInv
<1>4. SentInv'
  BY DEF CTypeOK, RequestInv, CallInv, SentInv, IntendedInv
<1>5. OrderInv'
  BY DEF CTypeOK, RequestInv, CallInv, OrderInv
<1>6. IntendedInv'
  BY DEF CTypeOK, RequestInv, CallInv, IntendedInv, OrderInv
<1>7. CheckInv'
  BY DEF CTypeOK, CheckInv
<1> QED
  BY <1>1, <1>2, <1>3, <1>4, <1>5, <1>6, <1>7

\* What a reading tells.
LEMMA ReadingTells ==
    ASSUME NEW a \in A, NEW v \in C!Reading(a)
    PROVE  /\ v = "verified" \/ (Expects[a] = "endpoint" /\ v = "partial") => cDevice[a] = "full"
           /\ v = "absent" => a \in Mute
  BY DEF C!Reading

\* A verification that takes its checks from readings.
LEMMA ReadingsKeep ==
    ASSUME CheckInv, UNCHANGED cDevice,
           \A a \in A : cChecks'[a] = cChecks[a] \/ cChecks'[a] = "blocked"
                       \/ cChecks'[a] \in C!Reading(a)
    PROVE  CheckInv'
  BY ReadingTells DEF CheckInv

\* The verification of a plan without voice VLANs.
LEMMA VerifyAllKeeps ==
    ASSUME CourseInv, CInv, C!VerifyAll, UNCHANGED <<scopes, attempt, cDevice>>
    PROVE  CInv'
<1> USE ConfigurationFacts DEF CInv, C!VerifyAll, C!Verify, C!Report, C!Reading, C!request,
        C!Deferred, C!Expected, C!Satisfied, Sent, InCall, Idling, A, C!Result, C!Check,
        C!Observed
<1>1. CTypeOK'
  BY DEF CTypeOK
<1>2. RequestInv'
  BY DEF RequestInv
<1>3. CallInv'
  BY DEF CTypeOK, RequestInv, CallInv, IntendedInv, OrderInv
<1>4. SentInv'
  BY DEF CTypeOK, RequestInv, CallInv, SentInv, IntendedInv
<1>5. OrderInv'
  BY DEF CTypeOK, RequestInv, CallInv, OrderInv
<1>6. IntendedInv'
  BY DEF CTypeOK, RequestInv, CallInv, IntendedInv, OrderInv
<1>7. CheckInv'
  BY DEF CTypeOK, CheckInv
<1> QED
  BY <1>1, <1>2, <1>3, <1>4, <1>5, <1>6, <1>7

\* The verification in front of the barrier.
LEMMA VerifyBeforeKeeps ==
    ASSUME CourseInv, CInv, C!VerifyBefore, UNCHANGED <<scopes, attempt, cDevice>>
    PROVE  CInv'
<1> USE ConfigurationFacts DEF CInv, C!VerifyBefore, C!Verify, C!Reading, C!request, C!Deferred,
        C!Expected, C!Satisfied, Sent, InCall, Idling, A, C!Result, C!Check, C!Observed
<1>1. CTypeOK'
  BY DEF CTypeOK
<1>2. RequestInv'
  BY DEF RequestInv
<1>3. CallInv'
  BY DEF CTypeOK, RequestInv, CallInv, IntendedInv, OrderInv
<1>4. SentInv'
  BY DEF CTypeOK, RequestInv, CallInv, SentInv, IntendedInv
<1>5. OrderInv'
  BY DEF CTypeOK, RequestInv, CallInv, OrderInv
<1>6. IntendedInv'
  BY DEF CTypeOK, RequestInv, CallInv, IntendedInv, OrderInv
<1>7. CheckInv'
  BY DEF CTypeOK, CheckInv
<1> QED
  BY <1>1, <1>2, <1>3, <1>4, <1>5, <1>6, <1>7

\* The voice VLANs behind the barrier.
LEMMA SignalKeeps ==
    ASSUME CourseInv, CInv, C!Signal, UNCHANGED <<scopes, attempt, cDevice>>
    PROVE  CInv'
<1> USE ConfigurationFacts DEF CInv, C!Signal, C!FoundationStatus, C!request, C!Deferred,
        C!Expected, C!Satisfied, Sent, InCall, Idling, A, C!Result, C!Check, C!Observed
<1>1. CTypeOK'
  BY DEF CTypeOK
<1>2. RequestInv'
  BY DEF RequestInv
<1>3. CallInv'
  BY DEF CTypeOK, RequestInv, CallInv, IntendedInv, OrderInv
<1>4. SentInv'
  BY DEF CTypeOK, RequestInv, CallInv, SentInv, IntendedInv
<1>5. OrderInv'
  BY DEF CTypeOK, RequestInv, CallInv, OrderInv
<1>6. IntendedInv'
  BY DEF CTypeOK, RequestInv, CallInv, IntendedInv, OrderInv
<1>7. CheckInv'
  BY DEF CTypeOK, CheckInv
<1> QED
  BY <1>1, <1>2, <1>3, <1>4, <1>5, <1>6, <1>7

\* Voice VLANs that are left to the voice application.
LEMMA DeferSignalKeeps ==
    ASSUME CourseInv, CInv, C!DeferSignal, UNCHANGED <<scopes, attempt, cDevice>>
    PROVE  CInv'
<1> USE ConfigurationFacts DEF CInv, C!DeferSignal, C!Told, C!Report, C!FoundationStatus, C!request,
        C!Deferred, C!Expected, C!Satisfied, Sent, InCall, Idling, A, C!Result, C!Check,
        C!Observed
<1>1. CTypeOK'
  BY DEF CTypeOK
<1>2. RequestInv'
  BY DEF RequestInv
<1>3. CallInv'
  BY DEF CTypeOK, RequestInv, CallInv, IntendedInv, OrderInv
<1>4. SentInv'
  BY DEF CTypeOK, RequestInv, CallInv, SentInv, IntendedInv
<1>5. OrderInv'
  BY DEF CTypeOK, RequestInv, CallInv, OrderInv
<1>6. IntendedInv'
  BY DEF CTypeOK, RequestInv, CallInv, IntendedInv, OrderInv
<1>7. CheckInv'
  BY DEF CTypeOK, CheckInv
<1> QED
  BY <1>1, <1>2, <1>3, <1>4, <1>5, <1>6, <1>7

\* Voice VLANs that are held back.
LEMMA HoldSignalKeeps ==
    ASSUME CourseInv, CInv, C!HoldSignal, UNCHANGED <<scopes, attempt, cDevice>>
    PROVE  CInv'
<1> USE ConfigurationFacts DEF CInv, C!HoldSignal, C!Told, C!request, C!Deferred, C!Expected,
        C!Satisfied, Sent, InCall, Idling, A, C!Result, C!Check, C!Observed
<1>1. CTypeOK'
  BY DEF CTypeOK
<1>2. RequestInv'
  BY DEF RequestInv
<1>3. CallInv'
  BY DEF CTypeOK, RequestInv, CallInv, IntendedInv, OrderInv
<1>4. SentInv'
  BY DEF CTypeOK, RequestInv, CallInv, SentInv, IntendedInv
<1>5. OrderInv'
  BY DEF CTypeOK, RequestInv, CallInv, OrderInv
<1>6. IntendedInv'
  BY DEF CTypeOK, RequestInv, CallInv, IntendedInv, OrderInv
<1>7. CheckInv'
  BY DEF CTypeOK, CheckInv
<1> QED
  BY <1>1, <1>2, <1>3, <1>4, <1>5, <1>6, <1>7

\* The verification behind the barrier.
LEMMA VerifyAfterKeeps ==
    ASSUME CourseInv, CInv, C!VerifyAfter, UNCHANGED <<scopes, attempt, cDevice>>
    PROVE  CInv'
<1> USE ConfigurationFacts DEF CInv, C!VerifyAfter, C!Verify, C!Report, C!Reading, C!SignalStatus,
        C!request, C!Deferred, C!Expected, C!Satisfied, Sent, InCall, Idling, A, C!Result,
        C!Check, C!Observed
<1>1. CTypeOK'
  BY DEF CTypeOK
<1>2. RequestInv'
  BY DEF RequestInv
<1>3. CallInv'
  BY DEF CTypeOK, RequestInv, CallInv, IntendedInv, OrderInv
<1>4. SentInv'
  BY DEF CTypeOK, RequestInv, CallInv, SentInv, IntendedInv
<1>5. OrderInv'
  BY DEF CTypeOK, RequestInv, CallInv, OrderInv
<1>6. IntendedInv'
  BY DEF CTypeOK, RequestInv, CallInv, IntendedInv, OrderInv
<1>7. CheckInv'
  <2>1. \A a \in A : cChecks'[a] = cChecks[a] \/ cChecks'[a] = "blocked"
                    \/ cChecks'[a] \in C!Reading(a)
    BY ONLY C!VerifyAfter DEF C!VerifyAfter, C!Verify, A
  <2> QED
    BY ONLY <2>1, CInv, UNCHANGED cDevice, ReadingsKeep DEF CInv
<1> QED
  BY <1>1, <1>2, <1>3, <1>4, <1>5, <1>6, <1>7

\* A completion that is refused.
LEMMA RefuseCompletionKeeps ==
    ASSUME CourseInv, CInv, C!RefuseCompletion, UNCHANGED <<scopes, attempt, cDevice>>
    PROVE  CInv'
<1> USE ConfigurationFacts DEF CInv, C!RefuseCompletion, C!request, C!Deferred, C!Expected,
        C!Satisfied, Sent, InCall, Idling, A, C!Result, C!Check, C!Observed
<1>1. CTypeOK'
  BY DEF CTypeOK
<1>2. RequestInv'
  BY DEF RequestInv
<1>3. CallInv'
  BY DEF CTypeOK, RequestInv, CallInv, IntendedInv, OrderInv
<1>4. SentInv'
  BY DEF CTypeOK, RequestInv, CallInv, SentInv, IntendedInv
<1>5. OrderInv'
  BY DEF CTypeOK, RequestInv, CallInv, OrderInv
<1>6. IntendedInv'
  BY DEF CTypeOK, RequestInv, CallInv, IntendedInv, OrderInv
<1>7. CheckInv'
  BY DEF CTypeOK, CheckInv
<1> QED
  BY <1>1, <1>2, <1>3, <1>4, <1>5, <1>6, <1>7

\* The completion of voice VLANs that were deferred.
LEMMA CompleteDeferredKeeps ==
    ASSUME CourseInv, CInv, C!CompleteDeferred, UNCHANGED <<scopes, attempt, cDevice>>
    PROVE  CInv'
<1> USE ConfigurationFacts DEF CInv, C!CompleteDeferred, C!Prepared, C!request, C!Deferred,
        C!Expected, C!Satisfied, Sent, InCall, Idling, A, C!Result, C!Check, C!Observed
<1>1. CTypeOK'
  BY DEF CTypeOK
<1>2. RequestInv'
  BY DEF RequestInv
<1>3. CallInv'
  BY DEF CTypeOK, RequestInv, CallInv, IntendedInv, OrderInv
<1>4. SentInv'
  BY DEF CTypeOK, RequestInv, CallInv, SentInv, IntendedInv
<1>5. OrderInv'
  BY DEF CTypeOK, RequestInv, CallInv, OrderInv
<1>6. IntendedInv'
  BY DEF CTypeOK, RequestInv, CallInv, IntendedInv, OrderInv
<1>7. CheckInv'
  BY DEF CTypeOK, CheckInv
<1> QED
  BY <1>1, <1>2, <1>3, <1>4, <1>5, <1>6, <1>7

\* The completion when they were retained.
LEMMA CompleteRetainedKeeps ==
    ASSUME CourseInv, CInv, C!CompleteRetained, UNCHANGED <<scopes, attempt, cDevice>>
    PROVE  CInv'
<1> USE ConfigurationFacts DEF CInv, C!CompleteRetained, C!request, C!Deferred, C!Expected,
        C!Satisfied, Sent, InCall, Idling, A, C!Result, C!Check, C!Observed
<1>1. CTypeOK'
  BY DEF CTypeOK
<1>2. RequestInv'
  BY DEF RequestInv
<1>3. CallInv'
  BY DEF CTypeOK, RequestInv, CallInv, IntendedInv, OrderInv
<1>4. SentInv'
  BY DEF CTypeOK, RequestInv, CallInv, SentInv, IntendedInv
<1>5. OrderInv'
  BY DEF CTypeOK, RequestInv, CallInv, OrderInv
<1>6. IntendedInv'
  BY DEF CTypeOK, RequestInv, CallInv, IntendedInv, OrderInv
<1>7. CheckInv'
  BY DEF CTypeOK, CheckInv
<1> QED
  BY <1>1, <1>2, <1>3, <1>4, <1>5, <1>6, <1>7

\* The direct verification of the completion.
LEMMA VerifyDirectKeeps ==
    ASSUME CourseInv, CInv, C!VerifyDirect, UNCHANGED <<scopes, attempt, cDevice>>
    PROVE  CInv'
<1> USE ConfigurationFacts DEF CInv, C!VerifyDirect, C!Reading, C!request, C!Deferred, C!Expected,
        C!Satisfied, Sent, InCall, Idling, A, C!Result, C!Check, C!Observed
<1>1. CTypeOK'
  BY DEF CTypeOK
<1>2. RequestInv'
  BY DEF RequestInv
<1>3. CallInv'
  BY DEF CTypeOK, RequestInv, CallInv, IntendedInv, OrderInv
<1>4. SentInv'
  BY DEF CTypeOK, RequestInv, CallInv, SentInv, IntendedInv
<1>5. OrderInv'
  BY DEF CTypeOK, RequestInv, CallInv, OrderInv
<1>6. IntendedInv'
  BY DEF CTypeOK, RequestInv, CallInv, IntendedInv, OrderInv
<1>7. CheckInv'
  <2>1. \A a \in A : cChecks'[a] = cChecks[a] \/ cChecks'[a] = "blocked"
                    \/ cChecks'[a] \in C!Reading(a)
    BY ONLY C!VerifyDirect DEF C!VerifyDirect, A
  <2> QED
    BY ONLY <2>1, CInv, UNCHANGED cDevice, ReadingsKeep DEF CInv
<1> QED
  BY <1>1, <1>2, <1>3, <1>4, <1>5, <1>6, <1>7

\* Its verification of forwarding.
LEMMA VerifyForwardingKeeps ==
    ASSUME CourseInv, CInv, C!VerifyForwarding, UNCHANGED <<scopes, attempt, cDevice>>
    PROVE  CInv'
<1> USE ConfigurationFacts DEF CInv, C!VerifyForwarding, C!Reading, C!Report, C!Merged,
        C!SignalStatus, C!request, C!Deferred, C!Expected, C!Satisfied, Sent, InCall, Idling, A,
        C!Result, C!Check, C!Observed
<1>1. CTypeOK'
  BY DEF CTypeOK
<1>2. RequestInv'
  BY DEF RequestInv
<1>3. CallInv'
  BY DEF CTypeOK, RequestInv, CallInv, IntendedInv, OrderInv
<1>4. SentInv'
  BY DEF CTypeOK, RequestInv, CallInv, SentInv, IntendedInv
<1>5. OrderInv'
  BY DEF CTypeOK, RequestInv, CallInv, OrderInv
<1>6. IntendedInv'
  BY DEF CTypeOK, RequestInv, CallInv, IntendedInv, OrderInv
<1>7. CheckInv'
  BY DEF CTypeOK, CheckInv
<1> QED
  BY <1>1, <1>2, <1>3, <1>4, <1>5, <1>6, <1>7

\* What a payload counts for.
LEMMA SendCounts ==
    ASSUME CTypeOK, NEW B \in SUBSET A, C!Send(B)
    PROVE  /\ cSent' \in [A -> [data : Nat, full : Nat]]
           /\ \A a \in A \ B : cSent'[a] = cSent[a]
           /\ \A a \in B : IF a \in C!Deferred /\ ~cFull
                           THEN cSent'[a].data = cSent[a].data + 1 /\ cSent'[a].full = cSent[a].full
                           ELSE cSent'[a].data = cSent[a].data /\ cSent'[a].full = cSent[a].full + 1
<1>1. cSent' = [a \in A |-> IF a \in B THEN [cSent[a] EXCEPT ![C!Mode(a)] = @ + 1] ELSE cSent[a]]
  BY DEF C!Send, A
<1>2. \A a \in A : /\ cSent[a] \in [data : Nat, full : Nat]
                   /\ C!Mode(a) = IF a \in C!Deferred /\ ~cFull THEN "data" ELSE "full"
  BY DEF CTypeOK, C!Mode
<1> QED
  BY <1>1, <1>2

\* What a device that has its turn changes.
LEMMA DeviceTurn ==
    ASSUME CTypeOK, NEW d, C!DispatchDevice(d)
    PROVE  /\ InCall /\ UNCHANGED <<cScope, cPrepared, cDefer, cRefused, cPc, cPhase, cCall, cFull,
                                    cChecks, cFoundation, cSignal, cStatus, cEvents, cDevice>>
           /\ \E B \in SUBSET cLeft :
                 /\ cLeft' = cLeft \ B
                 /\ \/ C!Send(B) /\ cResults' = C!Told(B, "applied")
                    \/ UNCHANGED <<channel, cSent, cBasis>> /\ cResults' = C!Told(B, "failed")
                    \/ C!Send(B) /\ cResults' = C!Told(B, "failed")
  BY DEF C!DispatchDevice, C!Keep, C!request, InCall

\* The payload of a device goes out after what its actions depend on.
LEMMA DispatchDeviceKeeps ==
    ASSUME CourseInv, CInv, NEW dev, C!DispatchDevice(dev), UNCHANGED <<scopes, attempt, cDevice>>
    PROVE  CInv'
<1>1. PICK B \in SUBSET cLeft :
         /\ cLeft' = cLeft \ B
         /\ \/ C!Send(B) /\ cResults' = C!Told(B, "applied")
            \/ UNCHANGED <<channel, cSent, cBasis>> /\ cResults' = C!Told(B, "failed")
            \/ C!Send(B) /\ cResults' = C!Told(B, "failed")
  BY DeviceTurn DEF CInv
<1>2. /\ InCall /\ UNCHANGED <<cScope, cPrepared, cDefer, cRefused, cPc, cPhase, cCall, cFull,
                                    cChecks, cFoundation, cSignal, cStatus, cEvents, cDevice>>
  BY DeviceTurn DEF CInv
<1>3. B \in SUBSET A /\ CTypeOK
  BY DEF CInv, CTypeOK
<1>4. CASE C!Send(B)
  <2> DEFINE Full(a) == cFull \/ a \notin C!Deferred
  <2>1. /\ cSent' \in [A -> [data : Nat, full : Nat]]
        /\ \A a \in A \ B : cSent'[a] = cSent[a]
        /\ \A a \in B : IF Full(a)
                        THEN cSent'[a].data = cSent[a].data /\ cSent'[a].full = cSent[a].full + 1
                        ELSE cSent'[a].data = cSent[a].data + 1 /\ cSent'[a].full = cSent[a].full
    BY <1>3, <1>4, SendCounts
  <2>2. \A a \in A : /\ cSent[a].data \in Nat /\ cSent[a].full \in Nat
                     /\ cSent'[a].data \in Nat /\ cSent'[a].full \in Nat
                     /\ Sent(a) > 0 => Sent(a)' > 0
                     /\ a \in B => Sent(a)' > 0
    BY <1>3, <2>1 DEF CTypeOK, Sent
  <2>3. \A a \in A : cResults'[a] = IF a \in B THEN cResults'[a] ELSE cResults[a]
    BY <1>1 DEF C!Told, A
  <2>4. /\ \A a \in B : cResults'[a] \in {"applied", "failed"}
        /\ cResults' \in [A -> C!Result]
    BY <1>1, <1>3 DEF C!Told, A, C!Result, CTypeOK
  <2> HIDE DEF Full
  <2>5. CTypeOK'
    BY <1>1, <1>2, <1>3, <2>1, <2>4 DEF CTypeOK
  <2>6. RequestInv'
    BY <1>2 DEF CInv, RequestInv
  <2>7. CallInv'
    BY <1>1, <1>2, <1>3, <2>2, <2>3, <2>4, ConfigurationFacts
       DEF CInv, CallInv, CTypeOK, InCall, Idling, C!Deferred
  <2>8. SentInv'
    <3>1. \A a \in B : ~cFull => a \in cScope /\ cResults[a] = "none" /\ (a \in Voice => ~Full(a))
      BY <1>2, <1>3 DEF CInv, CallInv, CTypeOK, InCall, Idling, Full, C!Deferred
    <3>2. \A a \in B : cFull => a \in C!Deferred /\ cSent[a].full = 0
      BY <1>2, <1>3, ConfigurationFacts
         DEF CInv, CourseInv, CallInv, RequestInv, SentInv, CTypeOK, InCall, Idling, C!Deferred
    <3>3. \A a \in B : Full(a) => cFull \/ a \notin Voice
      BY <3>1
    <3>4. cFull => \A a \in B : Full(a)
      BY DEF Full
    <3>5. /\ \A a \in A \ scopes.configuration : cSent'[a].data = 0 /\ cSent'[a].full = 0
          /\ \A a \in A : cSent'[a].data <= 1
      <4>1. \A a \in B : a \in scopes.configuration
        BY <3>1, <3>2 DEF CInv, RequestInv, C!Deferred
      <4> QED
        BY <4>1, <1>3, <2>1, <2>2, <3>1, <3>2, <3>4 DEF CInv, SentInv
    <3>6. \A a \in A \ Voice : /\ cSent'[a].data = 0
                              /\ cSent'[a].full <= IF Expects[a] = "endpoint" THEN attempt ELSE 1
      <4> SUFFICES ASSUME NEW a \in A \ Voice, a \in B
                   PROVE  /\ cSent'[a].data = 0
                          /\ cSent'[a].full <= IF Expects[a] = "endpoint" THEN attempt ELSE 1
        BY <2>1 DEF CInv, SentInv
      <4>1. ~cFull /\ Full(a) /\ a \in cScope /\ cResults[a] = "none"
        BY <3>1, <3>2 DEF Full, C!Deferred
      <4>2. cSent[a].data = 0 /\ cSent[a].full <= attempt - 1
        BY <4>1 DEF CInv, SentInv
      <4>3. attempt = 1 \/ (attempt = 2 /\ Expects[a] = "endpoint")
        BY <4>1 DEF CourseInv, CInv, RequestInv
      <4> QED
        BY <4>1, <4>2, <4>3, <2>1, <2>2
    <3>7. \A a \in Voice : cSent'[a].full <= 1
      BY <2>1, <2>2, <3>1, <3>2, ConfigurationFacts DEF CInv, SentInv
    <3>8. \A a \in C!Deferred : (~cFull \/ a \in cLeft') /\ (cDefer \/ attempt = 1) => cSent'[a].full = 0
      BY <1>1, <2>1, <2>2, <3>1, ConfigurationFacts DEF CInv, SentInv, C!Deferred, Full
    <3>9. \A a \in cScope : cResults'[a] = "none" => cSent'[a].data = 0 /\ cSent'[a].full <= attempt - 1
      BY <1>3, <2>1, <2>3, <2>4 DEF CInv, SentInv, CTypeOK
    <3> QED
      BY <1>2, <3>5, <3>6, <3>7, <3>8, <3>9 DEF SentInv, C!Deferred
  <2>9. OrderInv'
    <3>1. \A a \in scopes.configuration : cResults'[a] \in {"applied", "partial"} => Sent(a)' > 0
      BY <1>3, <2>2, <2>3, ConfigurationFacts DEF CInv, OrderInv
    <3>2. ASSUME NEW a \in B, ~cFull, NEW d \in DependsOn[a] \cap scopes.configuration
          PROVE  Sent(d) > 0
      BY <3>2 DEF CInv, CallInv, OrderInv
    <3>3. ASSUME NEW a \in B, cFull
          PROVE  Sent(a) > 0
      BY <3>3 DEF CInv, CallInv
    <3>4. \A a \in A : Sent(a)' > 0 => Sent(a) > 0 \/ a \in B
      BY <2>1 DEF Sent
    <3>5. \A a \in A : Sent(a)' > 0 => \A d \in DependsOn[a] \cap scopes.configuration : Sent(d)' > 0
      BY <1>3, <2>2, <3>2, <3>3, <3>4, ConfigurationFacts DEF CInv, OrderInv
    <3> QED
      BY <2>2, <3>1, <3>5, ConfigurationFacts DEF CInv, OrderInv
  <2>10. IntendedInv'
    BY <1>2, <2>2, ConfigurationFacts DEF CInv, IntendedInv, C!Deferred
  <2>11. CheckInv'
    BY <1>2 DEF CInv, CheckInv
  <2> QED
    BY <2>5, <2>6, <2>7, <2>8, <2>9, <2>10, <2>11 DEF CInv
<1>5. CASE ~C!Send(B)
  <2> USE <1>1, <1>2, <1>3, <1>5, ConfigurationFacts DEF CInv, C!Told, C!Deferred, Sent, InCall, Idling, A, C!Result
  <2>1. CTypeOK'
    BY DEF CTypeOK
  <2>2. RequestInv'
    BY DEF RequestInv
  <2>3. CallInv'
    BY DEF CTypeOK, CallInv
  <2>4. SentInv'
    BY DEF CTypeOK, SentInv
  <2>5. OrderInv'
    BY DEF CTypeOK, OrderInv
  <2>6. IntendedInv' /\ CheckInv'
    BY DEF IntendedInv, CheckInv
  <2> QED
    BY <2>1, <2>2, <2>3, <2>4, <2>5, <2>6
<1> QED
  BY <1>4, <1>5

\* The second attempt, for hosts without an address.
LEMMA ReassertKeeps ==
    ASSUME CourseInv, CInv, DeferredInv, Reassert
    PROVE  CInv'
<1> USE ConfigurationFacts DEF CInv, Reassert, Reassertion, At, C!Expected, C!Satisfied, Sent, InCall,
        Idling, A, C!Result, C!Check, C!Observed, devices
<1>1. /\ attempt = 1 /\ attempt' = 2 /\ ~cFull' /\ cPc' = "preflight"
      /\ cScope' \subseteq cScope /\ \A a \in cScope' : Expects[a] = "endpoint"
      /\ cDefer => ~cFull
  BY DEF MayReassert, Unaddressed, DeferredInv
<1>2. C!Deferred' = C!Deferred /\ cPrepared' = C!Deferred
  BY <1>1 DEF C!Deferred, RequestInv
<1>3. \A a \in A : cResults[a] \in {"applied", "partial"}
  BY DEF MayReassert, ResultsAreExact
<1>4. CTypeOK'
  BY <1>1, <1>2 DEF CTypeOK, C!Deferred
<1>5. RequestInv'
  BY <1>1, <1>2 DEF RequestInv, C!Deferred
<1>6. CallInv'
  BY <1>1 DEF CallInv
<1>7. SentInv'
  <2>1. \A a \in cScope' : a \in A \ Voice
    BY <1>1 DEF CTypeOK
  <2>2. \A a \in A : cSent[a].full \in Nat
    BY DEF CTypeOK
  <2>3. \A a \in A \ Voice : cSent[a].full <= IF Expects[a] = "endpoint" THEN 2 ELSE 1
    BY <1>1, <2>2 DEF SentInv
  <2>4. \A a \in C!Deferred : cDefer => cSent[a].full = 0
    BY <1>1 DEF SentInv
  <2>5. \A a \in cScope' : cSent[a].data = 0 /\ cSent[a].full <= 1
    BY <1>1, <2>1 DEF SentInv
  <2> QED
    BY <1>1, <1>2, <2>3, <2>4, <2>5 DEF SentInv
<1>8. OrderInv'
  BY <1>1, <1>3 DEF OrderInv
<1>9. IntendedInv' /\ CheckInv'
  BY DEF IntendedInv, CheckInv
<1> QED
  BY <1>4, <1>5, <1>6, <1>7, <1>8, <1>9

\* What Packet Tracer runs of the configuration.
LEMMA PayloadRuns ==
    ASSUME CourseInv, CTypeOK, ChannelInv, C!RunPayload
    PROVE  /\ cDevice' \in [A -> {"none", "data", "full"}]
           /\ \A a \in A : cDevice[a] = "full" => cDevice'[a] = "full"
<1>1. Head(channel) \in Payloads \cup Actions \cup Faults /\ DOMAIN Head(channel) \subseteq A
  BY DEF ChannelInv, C!RunPayload, A
<1>2. Head(channel) \in Payloads
  BY <1>1, StageAssumption DEF Actions, Faults, A
<1>3. PICK B \in SUBSET A : Head(channel) \in [B -> {"data", "full"}]
  BY <1>2 DEF Payloads
<1>4. PICK ok \in SUBSET B :
         cDevice' = [a \in A |-> IF a \in ok /\ cDevice[a] # "full" THEN Head(channel)[a]
                                 ELSE cDevice[a]]
  BY <1>3 DEF C!RunPayload, A
<1> QED
  BY <1>3, <1>4 DEF CTypeOK

\* A payload of the configuration runs, however late.
LEMMA RunPayloadKeeps ==
    ASSUME CourseInv, CInv, ChannelInv, CRun
    PROVE  CInv'
<1>1. UNCHANGED <<cVars, scopes, attempt>>
  BY RunsLeave DEF stage
<1>2. /\ cDevice' \in [A -> {"none", "data", "full"}]
      /\ \A a \in A : cDevice[a] = "full" => cDevice'[a] = "full"
  BY PayloadRuns DEF CInv, CRun
<1> QED
  BY <1>1, <1>2 DEF CInv, cVars, CTypeOK, RequestInv, CallInv, SentInv, OrderInv, IntendedInv,
     CheckInv, C!Deferred, Sent, InCall

\* A step that is of another applicator.
LEMMA ConfigurationRests ==
    ASSUME CInv, UNCHANGED <<cVars, cDevice, scopes, attempt>>
    PROVE  CInv'
  BY DEF CInv, cVars, CTypeOK, RequestInv, CallInv, SentInv, OrderInv, IntendedInv, CheckInv,
     C!Deferred, Sent, InCall

\* All of them together.
LEMMA ApplicatorKeeps ==
    ASSUME CourseInv, CInv, C!Apply \/ C!BeginCompletion \/ C!Complete, UNCHANGED <<scopes, attempt>>
    PROVE  CInv'
<1>1. UNCHANGED cDevice
  BY DEF C!Apply, C!BeginCompletion, C!Complete, C!Dispatch, C!Refuse, C!Begin, C!EnterPhase,
     C!DispatchDevice, C!DispatchFails, C!DispatchEnds, C!VerifyAll, C!VerifyBefore, C!Signal,
     C!DeferSignal, C!HoldSignal, C!VerifyAfter, C!RefuseCompletion, C!CompleteDeferred,
     C!CompleteRetained, C!VerifyDirect, C!VerifyForwarding
<1> QED
  BY <1>1, RefuseKeeps, BeginKeeps, EnterPhaseKeeps, DispatchDeviceKeeps, DispatchFailsKeeps,
     DispatchEndsKeeps, VerifyAllKeeps, VerifyBeforeKeeps, SignalKeeps, DeferSignalKeeps,
     HoldSignalKeeps, VerifyAfterKeeps, RefuseCompletionKeeps, CompleteDeferredKeeps,
     CompleteRetainedKeeps, VerifyDirectKeeps, VerifyForwardingKeeps
     DEF C!Apply, C!BeginCompletion, C!Complete, C!Dispatch

\* Every step of the stage keeps the invariant of the configuration.
LEMMA ConfigurationStep ==
    ASSUME CourseInv, CInv, DeferredInv, ChannelInv, Step
    PROVE  CInv'
<1>1. CASE Turn
  BY <1>1, TurnRests, ConfigurationRests DEF devices
<1>2. CASE CStep
  BY <1>2, CRests, ApplicatorKeeps DEF CStep, Configure, BeginSignal, Signal
<1>3. CASE VStep
  BY <1>3, VRests, ConfigurationRests
<1>4. CASE KStep
  BY <1>4, KRests, ConfigurationRests DEF stage
<1>5. CASE Reassert
  BY <1>5, ReassertKeeps
<1>6. CASE EndVoice
  BY <1>6, ConfigurationRests DEF EndVoice, Stop, Proceed, Idle, devices
<1>7. CASE CRun
  BY <1>7, RunPayloadKeeps
<1>8. CASE VRun \/ KRun \/ FaultRun
  BY <1>8, RunsLeave, ConfigurationRests DEF VRun, KRun, FaultRun, stage
<1> QED
  BY <1>1, <1>2, <1>3, <1>4, <1>5, <1>6, <1>7, <1>8 DEF Step

\* While the stage configures and defers, no voice VLAN is sent.
LEMMA DeferredStep ==
    ASSUME CourseInv, CInv, DeferredInv, Step
    PROVE  DeferredInv'
<1> USE DEF DeferredInv, cVars, stage
<1>1. CASE Turn
  BY <1>1, TurnRests DEF Turn, Physical, Contradict, Accept, OpenWindow, EndControlPlane, Forward,
     ReconcileWorkspace, Stop, Proceed, At
<1>2. CASE Configure
  <2>1. cFull' => cFull \/ ~cDefer
    BY <1>2 DEF Configure, C!Apply, C!Refuse, C!Begin, C!EnterPhase, C!Dispatch, C!DispatchDevice,
       C!DispatchFails, C!DispatchEnds, C!VerifyAll, C!VerifyBefore, C!Signal, C!DeferSignal,
       C!HoldSignal, C!VerifyAfter
  <2>2. UNCHANGED <<cDefer, where>>
    BY <1>2 DEF Configure, C!Apply, C!Refuse, C!Begin, C!EnterPhase, C!Dispatch, C!DispatchDevice,
       C!DispatchFails, C!DispatchEnds, C!VerifyAll, C!VerifyBefore, C!Signal, C!DeferSignal,
       C!HoldSignal, C!VerifyAfter, C!request
  <2> QED
    BY <2>1, <2>2
<1>3. CASE BeginSignal \/ Signal
  BY <1>3 DEF BeginSignal, Signal, Proceed, At
<1>4. CASE VStep
  BY <1>4, VRests DEF VStep, BindPhones, EndSignal, Proceed
<1>5. CASE KStep
  BY <1>5, KRests
<1>6. CASE Reassert
  BY <1>6 DEF Reassert
<1>7. CASE EndVoice
  BY <1>7 DEF EndVoice, Stop, Proceed, Idle, At
<1>8. CASE CRun \/ VRun \/ KRun \/ FaultRun
  BY <1>8, RunsLeave
<1> QED
  BY <1>1, <1>2, <1>3, <1>4, <1>5, <1>6, <1>7, <1>8 DEF Step, CStep

\* The applicators follow each other, and each is where the stage has put it.
LEMMA CourseStep ==
    ASSUME CourseInv, Step
    PROVE  CourseInv'
<1> USE DEF Boundary, Early, Idling, At, Stop, Proceed
<1>1. CASE Turn
  <2>1. UNCHANGED <<cPc, pc, status, scopes, attempt>>
    BY <1>1, TurnRests DEF cVars, applied
  <2> QED
    BY <1>1, <2>1 DEF CourseInv, Turn, Physical, Contradict, Accept, Accepted, Configured,
       OpenWindow, EndControlPlane, ControlPlaneIsUp, Forward, ReconcileWorkspace
<1>2. CASE CStep
  <2>1. UNCHANGED <<pc, status, scopes, attempt>>
    BY <1>2, CRests DEF applied
  <2>2. CASE Configure
    BY <2>1, <2>2, ConfigurationCourse DEF CourseInv, Configure, stage
  <2>3. CASE BeginSignal \/ Signal
    BY <2>1, <2>3, CompletionCourse DEF CourseInv, BeginSignal, Signal, MaySignal, stage
  <2> QED
    BY <1>2, <2>2, <2>3 DEF CStep
<1>3. CASE VStep
  <2>1. UNCHANGED <<cPc, scopes, attempt>>
    BY <1>3, VRests DEF cVars
  <2>2. CASE BindPhones
    BY <2>1, <2>2, VoiceCourse DEF CourseInv, BindPhones, VPlaces, stage
  <2>3. CASE EndSignal
    BY <2>1, <2>3, VoiceCourse DEF CourseInv, EndSignal, VPlaces
  <2> QED
    BY <1>3, <2>2, <2>3 DEF VStep
<1>4. CASE KStep
  BY <1>4, KRests, ControlCourse DEF CourseInv, KStep, ConfigureControlPlane, KPlaces, InScenario,
     cVars, stage
<1>5. CASE Reassert
  BY <1>5 DEF CourseInv, Reassert, applied
<1>6. CASE EndVoice
  BY <1>6 DEF CourseInv, EndVoice, Idle, cVars, applied
<1>7. CASE CRun \/ VRun \/ KRun \/ FaultRun
  BY <1>7, RunsLeave DEF CourseInv, cVars, stage
<1> QED
  BY <1>1, <1>2, <1>3, <1>4, <1>5, <1>6, <1>7 DEF Step

-----------------------------------------------------------------------------
(* What is sent.                                                           *)

Action(B) == [kind |-> "action", of |-> B]

\* The scopes of voice and control plane are apart.
LEMMA ScopeFacts ==
    ASSUME CourseInv
    PROVE  scopes.voice \subseteq AV /\ scopes.control \subseteq AK /\ AV \cap AK = {}
  BY StageAssumption DEF CourseInv, AV, AK

\* The configuration puts one payload at a time.
LEMMA ConfigurationSends ==
    ASSUME CTypeOK, CStep
    PROVE  UNCHANGED channel \/ \E m \in Payloads : channel' = Append(channel, m)
<1>1. ASSUME NEW B \in SUBSET A, C!Send(B)
      PROVE  \E m \in Payloads : channel' = Append(channel, m)
  <2>1. C!Payload(B) \in [B -> {"data", "full"}]
    BY DEF C!Payload, C!Mode
  <2> QED
    BY <1>1, <2>1 DEF C!Send, Payloads
<1>2. ASSUME NEW d, C!DispatchDevice(d)
      PROVE  UNCHANGED channel \/ \E m \in Payloads : channel' = Append(channel, m)
  BY <1>1, <1>2, DeviceTurn DEF CTypeOK
<1>3. CASE C!Dispatch
  BY <1>2, <1>3 DEF C!Dispatch, C!DispatchFails, C!DispatchEnds, C!Keep
<1>4. CASE ~C!Dispatch
  BY <1>4 DEF CStep, Configure, BeginSignal, Signal, C!Apply, C!BeginCompletion, C!Complete,
     C!Refuse, C!Begin, C!EnterPhase, C!VerifyAll, C!VerifyBefore, C!Signal, C!DeferSignal,
     C!HoldSignal, C!VerifyAfter, C!RefuseCompletion, C!CompleteDeferred, C!CompleteRetained,
     C!VerifyDirect, C!VerifyForwarding
<1> QED
  BY <1>3, <1>4

\* A send puts its message or does not.
LEMMA ConfiguredPuts ==
    ASSUME NEW m, NEW c \in V!Configured(m)
    PROVE  c[1] = channel \/ c[1] = Append(channel, m)
<1>1. c = <<Append(channel, m), TRUE>> \/ c = <<channel, FALSE>> \/ c = <<Append(channel, m), FALSE>>
  BY Zenon DEF V!Configured
<1>2. \A q, x : <<q, x>>[1] = q
  OBVIOUS
<1> QED
  BY <1>1, <1>2, Zenon

\* A send of the phones, or of a reconciliation, is one of what is to be sent.
LEMMA PhonesSend ==
    ASSUME CourseInv, VTypeOK, ReconcileInv, VStep
    PROVE  \/ UNCHANGED channel
           \/ /\ pc \in {"call", "reconcile"}
              /\ \E B \in SUBSET call : channel' = Append(channel, Action(B))
<1>1. where \notin Late
  BY DEF VStep, BindPhones, EndSignal, At, Late
<1>2. pc \in {"call", "reconcile"} => V!FirstOf(call) \in call
  BY <1>1, FirstIsOneOfThem, ScopeFacts DEF VTypeOK, ReconcileInv
<1>4. CASE V!SendControls
  BY ConfiguredPuts, <1>4 DEF V!SendControls, V!Message, Action
<1>5. CASE V!SendBinding
  BY <1>2, ConfiguredPuts, <1>5 DEF V!SendBinding, V!Message, Action
<1>6. CASE V!Reconcile
  BY <1>2, ConfiguredPuts, <1>6 DEF V!Reconcile, V!Message, Action
<1>7. CASE ~(V!SendControls \/ V!SendBinding \/ V!Reconcile)
  BY <1>7 DEF VStep, BindPhones, EndSignal, V!Apply, V!Refuse, V!Begin, V!Dispatch, V!NextBatch,
     V!DispatchEnds, V!BatchFails, V!ReadFrontier, V!Conclude, V!PassSignal, V!Observe, V!Call,
     V!Judge, V!CompleteSignal
<1> QED
  BY <1>4, <1>5, <1>6, <1>7

\* The control plane puts an action, a shutdown or a restore.
LEMMA ControlSends ==
    ASSUME CourseInv, KTypeOK, KStep
    PROVE  \/ UNCHANGED channel
           \/ pc = "call" /\ channel' = Append(channel, Action({K!FirstOf(call)}))
              /\ K!FirstOf(call) \in call
           \/ K!Inject /\ channel' = Append(channel, Shutdown(K!Current))
           \/ K!Restore /\ channel' = Append(channel, [kind |-> "restore", of |-> K!Current])
<1>1. where = "control_plane"
  BY DEF KStep, ConfigureControlPlane, At
<1>2. pc = "call" => K!FirstOf(call) \in call
  BY <1>1, FirstIsOneOfThem, ScopeFacts DEF KTypeOK, Late
<1>3. \A k : \A c \in K!Configure(k) : c.to \in {channel, Append(channel, [kind |-> k, of |-> K!Current])}
  BY DEF K!Configure
<1>4. CASE K!SendAction
  BY <1>2, <1>4 DEF K!SendAction, K!Message, Action
<1>5. CASE K!Inject
  BY <1>3, <1>5 DEF K!Inject, Shutdown
<1>6. CASE K!Restore
  BY <1>3, <1>6 DEF K!Restore
<1>7. CASE ~(K!SendAction \/ K!Inject \/ K!Restore)
  BY <1>7 DEF KStep, ConfigureControlPlane, K!Apply, K!Refuse, K!Begin, K!Dispatch, K!NextBatch,
     K!DispatchEnds, K!Verify, K!VerifyStage, K!PassScenario, K!RefuseScenario, K!Baseline,
     K!During, K!After, K!Judge, K!Return
<1> QED
  BY <1>4, <1>5, <1>6, <1>7

\* Packet Tracer takes what is first.
LEMMA RunsTake ==
    ASSUME CRun \/ VRun \/ KRun \/ FaultRun
    PROVE  channel # <<>> /\ channel' = Tail(channel)
  BY DEF CRun, VRun, KRun, FaultRun, C!RunPayload, V!Run, V!RunAction, V!Awaits, K!Run, K!RunAction,
     K!RunFault, K!Awaits

\* The stage itself sends nothing.
LEMMA OthersAreSilent ==
    ASSUME Turn \/ Reassert \/ EndVoice
    PROVE  UNCHANGED <<channel, devices>>
<1>1. CASE Turn
  BY <1>1, TurnRests
<1>2. CASE Reassert \/ EndVoice
  BY <1>2 DEF Reassert, EndVoice, Idle
<1> QED
  BY <1>1, <1>2

\* The scenarios, and the one the runtime is in.
LEMMA ScenarioFacts ==
    /\ Scenarios \in Seq(K!Scenario) /\ Len(Scenarios) \in Nat
    /\ \A k \in 1..Len(Scenarios) : Scenarios[k] \in K!Scenario
    /\ \A x \in K!Scenario : \E k \in 1..Len(Scenarios) : Scenarios[k] = x
    /\ \A k, l \in 1..Len(Scenarios) : Scenarios[k] = Scenarios[l] => k = l
<1>1. Scenarios \in Seq(K!Scenario) /\ K!IsInjective(Scenarios)
  BY StageAssumption DEF K!ControlPlaneAssumption
<1>2. DOMAIN Scenarios = 1..Len(Scenarios) /\ Len(Scenarios) \in Nat
  BY <1>1
<1> QED
  BY <1>1, <1>2 DEF K!Scenario, K!Range, Range, K!IsInjective

\* The current scenario is one of the list.
LEMMA CurrentIsOne ==
    ASSUME CourseInv, KScenarioTypeOK, where = "control_plane", pc \in InScenario, s <= Len(Scenarios)
    PROVE  s \in 1..Len(Scenarios) /\ K!Current = Scenarios[s] /\ K!Current \in K!Scenario
<1>1. s \in 1..Len(Scenarios)
  BY ScenarioFacts DEF KScenarioTypeOK
<1> QED
  BY <1>1, ScenarioFacts DEF K!Current

\* The channel holds payloads, actions and faults, each of its applicator.
LEMMA ChannelStep ==
    ASSUME CourseInv, CTypeOK, VTypeOK, KTypeOK, KScenarioTypeOK, ReconcileInv, ChannelInv, Step
    PROVE  ChannelInv'
<1> USE DEF ChannelInv, Anything
<1>1. CASE Turn \/ Reassert \/ EndVoice
  BY <1>1, OthersAreSilent DEF Payloads, Actions, Faults
<1>2. CASE CStep
  BY <1>2, ConfigurationSends, Appended
<1>3. CASE VStep
  <2>1. call \subseteq AV
    BY <1>3, ScopeFacts DEF VTypeOK, VStep, BindPhones, EndSignal, At, Late
  <2>2. \A B \in SUBSET call : Action(B) \in Actions
    BY <2>1 DEF Action, Actions
  <2> QED
    BY <1>3, <2>2, PhonesSend, Appended
<1>4. CASE KStep
  <2>1. where = "control_plane"
    BY <1>4 DEF KStep, ConfigureControlPlane, At
  <2>2. call \subseteq AK
    BY <2>1, ScopeFacts DEF KTypeOK, Late
  <2>3. \A a \in call : Action({a}) \in Actions
    BY <2>2 DEF Action, Actions
  <2>4. K!Inject \/ K!Restore => K!Current \in K!Scenario
    BY <2>1, CurrentIsOne DEF K!Inject, K!Restore, K!InScenario, InScenario
  <2>5. K!Inject \/ K!Restore => /\ Shutdown(K!Current) \in Faults
                                /\ [kind |-> "restore", of |-> K!Current] \in Faults
    BY <2>4 DEF Shutdown, Faults
  <2> QED
    BY <1>4, <2>3, <2>5, ControlSends, Appended
<1>5. CASE CRun \/ VRun \/ KRun \/ FaultRun
  BY <1>5, RunsTake, Taken
<1> QED
  BY <1>1, <1>2, <1>3, <1>4, <1>5 DEF Step

-----------------------------------------------------------------------------
(* The phones.                                                             *)

\* What the assumption says of the voice plan.
LEMMA VoiceFacts ==
    /\ VoiceDepends \in [AV -> SUBSET AV] /\ Bindings \subseteq AV
    /\ \A a, b \in AV : VoiceBatch[a] = VoiceBatch[b] => (a \in Bindings <=> b \in Bindings)
  BY StageAssumption DEF V!VoiceAssumption, V!DispatchAssumption, AV

\* A voice application that begins, or is refused.
LEMMA BeginVoice ==
    ASSUME CourseInv, VInv, V!Refuse \/ V!Begin, where = "voice", UNCHANGED <<scopes, where>>
    PROVE  VInv'
<1> USE VoiceFacts, ScopeFacts DEF VInv, V!Refuse, V!Begin, V!dispatch, V!own, V!Given, InBatch, Idling,
        Late, AV, V!Result
<1>1. VTypeOK'
  BY DEF VTypeOK
<1>2. VDependInv'
  BY DEF VTypeOK, VDependInv
<1>3. VBoundInv'
  BY DEF VTypeOK, VBoundInv
<1>4. ReconcileInv' /\ RegisteredInv'
  BY DEF ReconcileInv, RegisteredInv
<1> QED
  BY <1>1, <1>2, <1>3, <1>4

\* What is blocked was not sent.
LEMMA VoiceBlocked ==
    ASSUME results \in [AV -> V!Result]
    PROVE  /\ V!Blocked(results) \in [AV -> V!Result]
           /\ \A a \in AV : /\ V!Blocked(results)[a] = "none" => results[a] = "none"
                            /\ V!Blocked(results)[a] \in {results[a], "blocked"}
                            /\ results[a] # "none" => V!Blocked(results)[a] = results[a]
  BY DEF V!Blocked, AV, V!Result

\* A batch takes what is ready and was not told of.
LEMMA NextVoiceBatch ==
    ASSUME CourseInv, VInv, V!NextBatch, where = "voice",
           UNCHANGED <<scopes, where, doubted, initial, registered, stale>>
    PROVE  VInv'
<1> DEFINE rs == V!Blocked(results)
<1>1. /\ results \in [AV -> V!Result] /\ scope \subseteq AV /\ pc = "dispatch" /\ pc' = "call"
      /\ UNCHANGED <<scope, channel, vDevice>>
  BY ScopeFacts DEF VInv, VTypeOK, V!NextBatch, Late
<1>2. /\ rs \in [AV -> V!Result]
      /\ \A a \in AV : /\ rs[a] = "none" => results[a] = "none"
                       /\ results[a] # "none" => rs[a] = results[a]
                       /\ rs[a] \in {results[a], "blocked"}
  BY <1>1, VoiceBlocked
<1>3. results' = rs /\ batch' = call'
  BY DEF V!NextBatch
<1>4. /\ \A a \in call' : /\ a \in AV /\ rs[a] = "none" /\ \A d \in VoiceDepends[a] : rs[d] = "applied"
      /\ \A a, b \in call' : VoiceBatch[a] = VoiceBatch[b]
  BY DEF V!NextBatch, V!Ready, V!Satisfied, AV
<1>5. call' # {}
  <2>1. V!Ready(rs) # {} /\ V!Ready(rs) \in SUBSET AV
    BY DEF V!NextBatch, V!Ready, AV
  <2>2. V!FirstOf(V!Ready(rs)) \in V!Ready(rs)
    BY <2>1, FirstIsOneOfThem
  <2> QED
    BY <2>2 DEF V!NextBatch
<1> HIDE DEF rs
<1> USE <1>1, <1>2, <1>3, <1>4, VoiceFacts DEF VInv, InBatch, Idling, Late
<1>6. VTypeOK'
  BY <1>5 DEF VTypeOK, VDependInv
<1>7. VDependInv'
  BY DEF VTypeOK, VDependInv
<1>8. VBoundInv'
  BY DEF VBoundInv
<1>9. ReconcileInv' /\ RegisteredInv'
  BY DEF ReconcileInv, RegisteredInv
<1> QED
  BY <1>6, <1>7, <1>8, <1>9

\* The dispatch of voice ends.
LEMMA VoiceDispatchEnds ==
    ASSUME CourseInv, VInv, V!DispatchEnds("observed"), where = "voice",
           UNCHANGED <<scopes, where, doubted, initial, registered, stale>>
    PROVE  VInv'
<1> USE VoiceFacts, ScopeFacts DEF VInv, V!DispatchEnds, InBatch, Idling, Late, AV, V!Result
<1>1. VTypeOK'
  BY DEF VTypeOK
<1>2. VDependInv'
  BY DEF VTypeOK, VDependInv
<1>3. VBoundInv'
  BY DEF VTypeOK, VBoundInv
<1>4. ReconcileInv' /\ RegisteredInv'
  BY DEF ReconcileInv, RegisteredInv
<1> QED
  BY <1>1, <1>2, <1>3, <1>4

\* A batch with a failure or a doubt blocks the rest, and changes no result
\* that was there.
LEMMA VoiceTold ==
    ASSUME NEW rs \in [AV -> V!Result], NEW D
    PROVE  /\ V!Told(rs, D) \in [AV -> V!Result]
           /\ \A a \in AV : /\ rs[a] # "none" => V!Told(rs, D)[a] = rs[a]
                            /\ V!Told(rs, D)[a] = "none" => rs[a] = "none"
                            /\ rs[a] = "none" => V!Told(rs, D)[a] \in {"none", "blocked"}
  BY DEF V!Told, AV, V!Result

\* A batch is over: what counts as applied is bound, in doubt, or next to a
\* failure.
LEMMA VoiceBatchEnds ==
    ASSUME CourseInv, VInv, where = "voice", pc \in {"call", "frontier", "conclude"},
           NEW rs \in [AV -> V!Result], NEW D, V!EndBatch(rs, D),
           UNCHANGED <<scopes, where, scope, batch, vDevice, initial, registered, stale>>,
           \A a \in AV \ batch : rs[a] = results[a],
           \A a \in AV : rs[a] = "none" => results[a] = "none",
           \A a \in scope : OnItsWay(a, channel') => OnItsWay(a, channel) \/ a \in batch,
           \A b \in batch \cap Bindings :
              rs[b] = "applied" => vDevice[b] \/ b \in D \/ \E a \in AV : rs[a] = "failed"
    PROVE  VInv'
<1>1. /\ results' \in [AV -> V!Result] /\ pc' = "dispatch" /\ call' = {}
      /\ \A a \in AV : /\ rs[a] # "none" => results'[a] = rs[a]
                       /\ results'[a] = "none" => rs[a] = "none"
                       /\ rs[a] = "none" => results'[a] \in {"none", "blocked"}
      /\ doubted' = doubted \cup D
  BY VoiceTold DEF V!EndBatch
<1>2. scope \subseteq AV /\ batch \subseteq scope /\ InBatch /\ ~InBatch' /\ pc \notin Idling /\ where \notin Late
  BY <1>1, ScopeFacts DEF VInv, VTypeOK, Late, InBatch, Idling
<1> USE VoiceFacts DEF VInv
<1>3. VTypeOK'
  BY <1>1, <1>2 DEF VTypeOK
<1>4. VDependInv'
  <2>1. \A a \in scope : vDevice[a] \/ OnItsWay(a, channel') =>
           \A d \in VoiceDepends[a] : results[d] = "applied" /\ d \notin batch
    BY <1>2 DEF VDependInv
  <2>2. \A a \in scope : vDevice[a] \/ OnItsWay(a, channel') =>
           \A d \in VoiceDepends[a] : results'[d] = "applied"
    BY <1>1, <1>2, <2>1
  <2>3. \A a \in AV : results'[a] = "none" => a \in scope
    BY <1>1, <1>2 DEF VDependInv
  <2> QED
    BY <1>1, <1>2, <2>2, <2>3 DEF VDependInv, Idling
<1>5. VBoundInv'
  <2> SUFFICES ASSUME NEW b \in Bindings, results'[b] = "applied"
               PROVE  vDevice[b] \/ b \in doubted' \/ \E a \in AV : results'[a] = "failed"
    BY <1>1, <1>2 DEF VBoundInv, Idling, InBatch
  <2>1. rs[b] # "none" /\ rs[b] = "applied"
    BY <1>1, VoiceFacts
  <2>2. (\E a \in AV : rs[a] = "failed") => \E a \in AV : results'[a] = "failed"
    BY <1>1
  <2>3. CASE b \in batch
    BY <1>1, <2>1, <2>2, <2>3
  <2>4. CASE b \notin batch
    <3>1. \A a \in AV : results[a] = "failed" => rs[a] = "failed"
      BY <1>2 DEF VDependInv
    <3> QED
      BY <1>1, <1>2, <2>1, <2>2, <2>4, <3>1 DEF VBoundInv
  <2> QED
    BY <2>3, <2>4
<1>6. ReconcileInv' /\ RegisteredInv'
  BY <1>1 DEF ReconcileInv, RegisteredInv
<1> QED
  BY <1>3, <1>4, <1>5, <1>6

\* The one payload of a batch of call controls.
LEMMA VoiceSendsControls ==
    ASSUME CourseInv, VInv, ChannelInv, V!SendControls, where = "voice", UNCHANGED <<scopes, where>>
    PROVE  VInv'
<1>1. /\ pc = "call" /\ call \subseteq batch /\ batch \subseteq scope /\ scope \subseteq AV
      /\ results \in [AV -> V!Result] /\ where \notin Late /\ InBatch
  BY ScopeFacts DEF VInv, VTypeOK, V!SendControls, Late, InBatch
<1>2. PICK c \in V!Configured(V!Message(call)) :
         /\ channel' = c[1]
         /\ V!EndBatch([a \in AV |-> IF a \notin batch THEN results[a]
                                     ELSE IF c[2] THEN "applied" ELSE "failed"], {})
  BY DEF V!SendControls, AV
<1> DEFINE rs == [a \in AV |-> IF a \notin batch THEN results[a]
                               ELSE IF c[2] THEN "applied" ELSE "failed"]
<1>3. /\ rs \in [AV -> V!Result] /\ V!EndBatch(rs, {})
      /\ \A a \in AV \ batch : rs[a] = results[a]
      /\ \A a \in AV : rs[a] = "none" => results[a] = "none"
  BY <1>1, <1>2 DEF V!Result
<1>4. channel' = channel \/ channel' = Append(channel, Action(call))
  BY <1>2, ConfiguredPuts DEF V!Message, Action
<1>5. Action(call) \in Actions
  BY <1>1 DEF Action, Actions
<1>6. \A a \in scope : OnItsWay(a, channel') => OnItsWay(a, channel) \/ a \in batch
  BY <1>1, <1>4, <1>5, OnItsWayChanges DEF ChannelInv, Anything, Action
<1>7. batch \cap Bindings = {}
  BY <1>1, VoiceFacts DEF V!SendControls, V!IsBindingBatch, VInv, VDependInv
<1> HIDE DEF rs
<1> QED
  BY <1>1, <1>3, <1>6, <1>7, VoiceBatchEnds DEF V!SendControls

\* A batch that raises.
LEMMA VoiceBatchFails ==
    ASSUME CourseInv, VInv, V!BatchFails, where = "voice", UNCHANGED <<scopes, where>>
    PROVE  VInv'
<1>1. /\ pc \in {"call", "frontier"} /\ batch \subseteq scope /\ scope \subseteq AV
      /\ results \in [AV -> V!Result]
  BY ScopeFacts DEF VInv, VTypeOK, V!BatchFails, Late
<1> DEFINE rs == [a \in AV |-> IF a \in batch THEN "failed" ELSE results[a]]
<1>2. /\ rs \in [AV -> V!Result] /\ V!EndBatch(rs, {})
      /\ \A a \in AV \ batch : rs[a] = results[a]
      /\ \A a \in AV : rs[a] = "none" => results[a] = "none"
      /\ \A b \in batch \cap Bindings : rs[b] # "applied"
  BY <1>1 DEF V!Result, V!BatchFails, AV
<1> HIDE DEF rs
<1> QED
  BY <1>1, <1>2, VoiceBatchEnds DEF V!BatchFails

\* The next binding of a batch.
LEMMA VoiceSendsBinding ==
    ASSUME CourseInv, VInv, ChannelInv, V!SendBinding, where = "voice", UNCHANGED <<scopes, where>>
    PROVE  VInv'
<1> DEFINE b == V!FirstOf(call)
<1>1. /\ pc = "call" /\ call \subseteq batch /\ batch \subseteq scope /\ scope \subseteq AV
      /\ results \in [AV -> V!Result] /\ where \notin Late /\ InBatch /\ call # {}
      /\ batch \subseteq Bindings
  BY ScopeFacts DEF VInv, VTypeOK, V!SendBinding, V!IsBindingBatch, Late, InBatch
<1>2. b \in call
  BY <1>1, FirstIsOneOfThem
<1>3. PICK c \in V!Configured(V!Message({b})) :
         /\ channel' = c[1]
         /\ IF c[2]
            THEN /\ results' = [results EXCEPT ![b] = "applied"]
                 /\ call' = call \ {b}
                 /\ pc' = IF call' = {} THEN "frontier" ELSE "call"
                 /\ UNCHANGED doubted
            ELSE V!EndBatch([a \in AV |-> IF a \in call THEN "failed" ELSE results[a]], {})
  BY DEF V!SendBinding, AV
<1> HIDE DEF b
<1>4. channel' = channel \/ channel' = Append(channel, Action({b}))
  BY <1>3, ConfiguredPuts DEF V!Message, Action
<1>5. Action({b}) \in Actions /\ \A a \in Action({b}).of : a \in batch
  BY <1>1, <1>2 DEF Action, Actions
<1>6. \A a \in scope : OnItsWay(a, channel') => OnItsWay(a, channel) \/ a \in batch
  BY <1>4, <1>5, OnItsWayChanges DEF ChannelInv, Anything
<1>7. UNCHANGED <<scope, batch, vDevice, initial, registered, stale>>
  BY DEF V!SendBinding
<1>8. CASE c[2]
  <2>1. /\ results' \in [AV -> V!Result] /\ results'[b] = "applied"
        /\ \A a \in AV \ {b} : results'[a] = results[a]
        /\ pc' \in {"call", "frontier"}
        /\ pc' = "call" => call' # {}
        /\ call' = call \ {b} /\ doubted' = doubted
    <3>1. /\ results' = [results EXCEPT ![b] = "applied"] /\ call' = call \ {b}
          /\ pc' = IF call' = {} THEN "frontier" ELSE "call"
          /\ UNCHANGED doubted
      BY <1>3, <1>8, Zenon
    <3> QED
      BY <1>1, <1>2, <3>1 DEF V!Result
  <2>2. InBatch' /\ pc' \notin Idling /\ where' = where /\ scope' = scope /\ batch' = batch
    BY <1>7, <2>1 DEF InBatch, Idling
  <2>3. VTypeOK'
    BY <1>1, <1>7, <2>1 DEF VInv, VTypeOK
  <2>4. VDependInv'
    <3>1. \A a \in AV : results'[a] = "none" => a \in scope
      BY <1>1, <2>1 DEF VInv, VDependInv, Idling
    <3>2. \A a \in scope : vDevice[a] \/ OnItsWay(a, channel') =>
             \A d \in VoiceDepends[a] : results'[d] = "applied" /\ d \notin batch
      <4>1. \A a \in scope : vDevice[a] \/ OnItsWay(a, channel') =>
               \A d \in VoiceDepends[a] : results[d] = "applied" /\ d \notin batch
        BY <1>1, <1>6 DEF VInv, VDependInv
      <4> QED
        BY <1>1, <2>1, <4>1, VoiceFacts
    <3>3. \A a \in batch : \A d \in VoiceDepends[a] : results'[d] = "applied" /\ d \notin batch
      BY <1>1, <1>2, <2>1, VoiceFacts DEF VInv, VDependInv
    <3>4. \A a \in batch : results'[a] \in {"none", "applied"}
      BY <1>1, <2>1 DEF VInv, VDependInv
    <3> QED
      BY <1>1, <1>7, <2>2, <3>1, <3>2, <3>3, <3>4 DEF VInv, VDependInv
  <2>5. VBoundInv'
    <3>1. \A a \in AV : results[a] = "failed" => results'[a] = "failed"
      BY <1>1, <1>2, <2>1 DEF VInv, VDependInv
    <3>2. \A x \in Bindings : results'[x] = "applied" => results[x] = "applied" \/ x \in batch
      BY <1>1, <1>2, <2>1, VoiceFacts
    <3> QED
      BY <1>1, <1>7, <2>1, <2>2, <3>1, <3>2 DEF VInv, VBoundInv, Idling
  <2>6. ReconcileInv' /\ RegisteredInv'
    BY <1>7, <2>1 DEF VInv, ReconcileInv, RegisteredInv
  <2> QED
    BY <2>3, <2>4, <2>5, <2>6 DEF VInv
<1>9. CASE ~c[2]
  <2> DEFINE rs == [a \in AV |-> IF a \in call THEN "failed" ELSE results[a]]
  <2>1. /\ rs \in [AV -> V!Result] /\ V!EndBatch(rs, {})
        /\ \A a \in AV \ batch : rs[a] = results[a]
        /\ \A a \in AV : rs[a] = "none" => results[a] = "none"
        /\ b \in AV /\ rs[b] = "failed"
    BY <1>1, <1>2, <1>3, <1>9 DEF V!Result
  <2> HIDE DEF rs
  <2> QED
    BY <1>1, <1>6, <1>7, <2>1, VoiceBatchEnds
<1> QED
  BY <1>8, <1>9

\* The frontier of a batch, which is read when nothing is on its way.
LEMMA VoiceReadsFrontier ==
    ASSUME CourseInv, VInv, V!ReadFrontier, where = "voice", UNCHANGED <<scopes, where>>
    PROVE  VInv'
<1>1. /\ pc = "frontier" /\ call \subseteq batch /\ batch \subseteq scope /\ scope \subseteq AV
      /\ batch \subseteq Bindings /\ where \notin Late /\ InBatch /\ InBatch'
      /\ pc' \in {"reconcile", "conclude"}
      /\ UNCHANGED <<scope, refused, batch, results, channel, vDevice, stale, doubted, registered>>
  BY ScopeFacts DEF VInv, VTypeOK, VBoundInv, V!ReadFrontier, Late, InBatch
<1>2. DOMAIN initial' = batch /\ \A b \in batch : initial'[b] \in {V!RowOf(b), "unread"}
  BY DEF V!ReadFrontier, V!Readings
<1>3. \A b \in batch : /\ V!RowOf(b) = "right" => vDevice[b]
                       /\ V!RowOf(b) = "absent" => ~vDevice[b] /\ b \notin stale
  BY DEF V!RowOf
<1>4. \A a : ~OnItsWay(a, channel)
  BY DEF V!ReadFrontier, OnItsWay, Range
<1>5. pc' = "reconcile" => call' # {} /\ call' = {b \in batch : initial'[b] = "absent"}
  BY <1>2 DEF V!ReadFrontier, V!Absent
<1>6. call' \subseteq batch
  BY <1>1, <1>5 DEF V!ReadFrontier
<1> USE <1>1 DEF VInv
<1>7. VTypeOK'
  BY <1>6 DEF VTypeOK
<1>8. VDependInv'
  BY DEF VDependInv, Idling
<1>9. VBoundInv'
  BY <1>2, <1>3 DEF VBoundInv, Idling
<1>10. ReconcileInv'
  BY <1>2, <1>3, <1>4, <1>5 DEF ReconcileInv
<1>11. RegisteredInv'
  BY DEF RegisteredInv
<1> QED
  BY <1>7, <1>8, <1>9, <1>10, <1>11

\* A binding without a row is sent once more.
LEMMA VoiceReconciles ==
    ASSUME CourseInv, VInv, ChannelInv, V!Reconcile, where = "voice", UNCHANGED <<scopes, where>>
    PROVE  VInv'
<1> DEFINE b == V!FirstOf(call)
<1>1. /\ pc = "reconcile" /\ call \subseteq batch /\ batch \subseteq scope /\ scope \subseteq AV
      /\ where \notin Late /\ InBatch /\ call # {} /\ batch \subseteq Bindings
      /\ UNCHANGED <<scope, refused, batch, results, vDevice, stale, doubted, initial, registered>>
  BY ScopeFacts DEF VInv, VTypeOK, VBoundInv, ReconcileInv, V!Reconcile, Late, InBatch
<1>2. b \in call
  BY <1>1, FirstIsOneOfThem
<1>3. PICK c \in V!Configured(V!Message({b})) :
         /\ channel' = c[1]
         /\ call' = IF c[2] THEN call \ {b} ELSE {}
         /\ pc' = IF call' = {} THEN "conclude" ELSE "reconcile"
  BY DEF V!Reconcile
<1> HIDE DEF b
<1>4. channel' = channel \/ channel' = Append(channel, Action({b}))
  BY <1>3, ConfiguredPuts DEF V!Message, Action
<1>5. Action({b}) \in Actions /\ \A a \in Action({b}).of : a = b
  BY <1>1, <1>2 DEF Action, Actions
<1>6. \A a : OnItsWay(a, channel') => OnItsWay(a, channel) \/ a = b
  BY <1>4, <1>5, OnItsWayChanges DEF ChannelInv, Anything
<1>7. /\ call' \subseteq call \ {b} /\ pc' \in {"conclude", "reconcile"}
      /\ pc' = "reconcile" => call' # {}
  BY <1>3
<1>8. InBatch' /\ pc' \notin Idling
  BY <1>7 DEF InBatch, Idling
<1>9. VTypeOK'
  BY <1>1, <1>7 DEF VInv, VTypeOK
<1>10. VDependInv'
  <2>1. \A a \in scope : vDevice[a] \/ OnItsWay(a, channel') =>
           \A d \in VoiceDepends[a] : results[d] = "applied" /\ d \notin batch
    BY <1>1, <1>2, <1>6 DEF VInv, VDependInv
  <2> QED
    BY <1>1, <1>8, <2>1 DEF VInv, VDependInv, Idling
<1>11. VBoundInv'
  BY <1>1, <1>7, <1>8 DEF VInv, VBoundInv, Idling
<1>12. ReconcileInv' /\ RegisteredInv'
  BY <1>1, <1>6, <1>7 DEF VInv, ReconcileInv, RegisteredInv
<1> QED
  BY <1>9, <1>10, <1>11, <1>12 DEF VInv

\* The reread of the bindings concludes the frontier.
LEMMA VoiceConcludes ==
    ASSUME CourseInv, VInv, V!Conclude, where = "voice", UNCHANGED <<scopes, where>>
    PROVE  VInv'
<1>1. /\ pc = "conclude" /\ batch \subseteq scope /\ scope \subseteq AV
      /\ results \in [AV -> V!Result] /\ where \notin Late /\ InBatch
      /\ DOMAIN initial = batch /\ \A b \in batch : initial[b] = "right" => vDevice[b]
  BY ScopeFacts DEF VInv, VTypeOK, VBoundInv, V!Conclude, Late, InBatch
<1>2. PICK final \in IF V!Reread THEN V!Readings ELSE {initial} :
         V!EndBatch(results, {b \in batch : final[b] # "right" \/ (b \in DOMAIN resent /\ ~resent[b])})
  BY DEF V!Conclude
<1>3. \A b \in batch : final[b] = "right" => vDevice[b]
  <2>1. \A read \in V!Readings : \A b \in batch : read[b] = "right" => vDevice[b]
    BY DEF V!Readings, V!RowOf
  <2> QED
    BY <1>1, <1>2, <2>1
<1> DEFINE D == {b \in batch : final[b] # "right" \/ (b \in DOMAIN resent /\ ~resent[b])}
<1>4. \A b \in batch : vDevice[b] \/ b \in D
  BY <1>3
<1>5. V!EndBatch(results, D)
  BY <1>2
<1> HIDE DEF D
<1> QED
  BY <1>1, <1>4, <1>5, VoiceBatchEnds DEF V!Conclude

\* The rest changes nothing that was sent.
LEMMA VoiceObserves ==
    ASSUME CourseInv, VInv, where = "voice", UNCHANGED <<scopes, where>>,
           V!PassSignal \/ V!Observe \/ V!Call \/ V!Judge \/ V!CompleteSignal
    PROVE  VInv'
<1>1. /\ UNCHANGED <<scope, batch, call, results, channel, vDevice, stale, doubted, initial>>
      /\ pc \in {"observed", "registration", "calls", "judge"}
      /\ pc' \in {"registration", "calls", "judge", "returned"}
      /\ \A b \in Bindings : registered'[b] = "verified" => registered[b] = "verified" \/ vDevice[b]
  BY DEF V!PassSignal, V!Observe, V!Call, V!Judge, V!CompleteSignal, V!Finish, V!dispatch
<1>2. ~InBatch /\ ~InBatch' /\ pc \notin Idling /\ pc' \notin Idling /\ where \notin Late
  BY <1>1 DEF InBatch, Idling, Late
<1> USE <1>1, <1>2 DEF VInv
<1>3. VTypeOK'
  BY DEF VTypeOK
<1>4. VDependInv'
  BY DEF VDependInv
<1>5. VBoundInv'
  BY DEF VBoundInv
<1>6. ReconcileInv' /\ RegisteredInv'
  BY DEF ReconcileInv, RegisteredInv
<1> QED
  BY <1>3, <1>4, <1>5, <1>6

\* What the channel holds after each step of another part.
LEMMA RunsShorten ==
    ASSUME ChannelInv, CRun \/ VRun \/ KRun \/ FaultRun
    PROVE  /\ \A a : OnItsWay(a, channel') => OnItsWay(a, channel)
           /\ Head(channel) \in Anything
           /\ Head(channel) \in Actions => \A a \in Head(channel).of : OnItsWay(a, channel)
  BY RunsTake, Taken, OnItsWayChanges DEF ChannelInv, Anything

\* What runs of voice was on its way.
LEMMA VoiceRuns ==
    ASSUME ChannelInv, VRun
    PROVE  /\ \E ok \in SUBSET AV : /\ vDevice' = [a \in AV |-> vDevice[a] \/ a \in ok]
                                   /\ \A a \in ok : OnItsWay(a, channel)
           /\ stale' \subseteq stale
<1>1. /\ "kind" \in DOMAIN Head(channel) /\ Head(channel).kind = "action"
      /\ Head(channel).of \subseteq AV
  BY DEF VRun, V!Run, V!RunAction, V!Awaits, AV
<1>2. Head(channel) \in Actions
  BY <1>1, RunsShorten, MessagesDiffer DEF Anything
<1>3. stale' \subseteq stale
  BY DEF VRun, V!Run
<1>4. PICK ok \in SUBSET Head(channel).of : vDevice' = [a \in AV |-> vDevice[a] \/ a \in ok]
  BY DEF VRun, V!Run, V!RunAction, AV
<1> QED
  BY <1>1, <1>2, <1>3, <1>4, RunsShorten

\* A step that is of another applicator.
LEMMA VoiceRests ==
    ASSUME VInv, CourseInv', where' \in Late \/ where \notin Late,
           UNCHANGED <<pc, scope, batch, call, results, vDevice, stale, doubted, initial, registered,
                       scopes>>,
           \A a : OnItsWay(a, channel') => OnItsWay(a, channel)
    PROVE  VInv'
<1>1. pc' = "reconcile" => where' = "voice"
  BY DEF CourseInv, Boundary, Early, Idling, InScenario
<1> USE DEF VInv, InBatch
<1>2. VTypeOK'
  BY DEF VTypeOK
<1>3. VDependInv'
  BY DEF VDependInv
<1>4. VBoundInv'
  BY DEF VBoundInv
<1>5. ReconcileInv' /\ RegisteredInv'
  BY <1>1 DEF ReconcileInv, RegisteredInv
<1> QED
  BY <1>2, <1>3, <1>4, <1>5

\* After the phones had their turn.
LEMMA VoiceIsOver ==
    ASSUME VInv, CourseInv', where' \in Late, UNCHANGED <<vDevice, registered>>
    PROVE  VInv'
<1>1. pc' # "reconcile"
  BY DEF CourseInv, Late, Idling, InScenario
<1> QED
  BY <1>1 DEF VInv, VTypeOK, VDependInv, VBoundInv, ReconcileInv, RegisteredInv

\* A message of voice runs, however late.
LEMMA VoiceRunKeeps ==
    ASSUME CourseInv, VInv, ChannelInv, VRun
    PROVE  VInv'
<1>1. UNCHANGED <<pc, scope, batch, call, results, doubted, initial, registered, scopes, where>>
  BY RunsLeave DEF VRun, V!Run, stage
<1>2. PICK ok \in SUBSET AV : /\ vDevice' = [a \in AV |-> vDevice[a] \/ a \in ok]
                              /\ \A a \in ok : OnItsWay(a, channel)
  BY VoiceRuns
<1>3. \A a \in AV : vDevice'[a] <=> vDevice[a] \/ a \in ok
  BY <1>2
<1>4. stale' \subseteq stale /\ \A a : OnItsWay(a, channel') => OnItsWay(a, channel)
  BY VoiceRuns, RunsShorten
<1> USE VoiceFacts DEF VInv, InBatch
<1>5. VTypeOK'
  BY <1>1, <1>2 DEF VTypeOK
<1>6. VDependInv'
  <2> SUFFICES ASSUME where \notin Late
               PROVE  VDependInv'
    BY <1>1 DEF VDependInv
  <2>1. scope \subseteq AV
    BY ScopeFacts DEF VTypeOK
  <2>2. \A a \in scope \cap AV : vDevice'[a] \/ OnItsWay(a, channel') => vDevice[a] \/ OnItsWay(a, channel)
    BY <1>2, <1>3, <1>4
  <2> QED
    BY <1>1, <2>1, <2>2 DEF VDependInv, VTypeOK
<1>7. VBoundInv'
  BY <1>1, <1>3, VoiceFacts DEF VBoundInv, VTypeOK
<1>8. ReconcileInv' /\ RegisteredInv'
  BY <1>1, <1>2, <1>3, <1>4 DEF ReconcileInv, RegisteredInv
<1> QED
  BY <1>5, <1>6, <1>7, <1>8

\* Every step of the stage keeps the invariant of voice.
LEMMA VoiceStep ==
    ASSUME CourseInv, CourseInv', CTypeOK, VInv, ChannelInv, Step
    PROVE  VInv'
<1>1. CASE Turn
  <2>1. UNCHANGED <<pc, scope, batch, call, results, vDevice, stale, doubted, initial, registered,
                    scopes, channel>>
    BY <1>1, TurnRests DEF applied, devices
  <2>2. where' \in Late \/ where \notin Late
    BY <1>1 DEF Turn, Physical, Contradict, Accept, OpenWindow, EndControlPlane, Forward,
       ReconcileWorkspace, Configured, Stop, Proceed, At, Late
  <2> QED
    BY <2>1, <2>2, VoiceRests
<1>2. CASE CStep
  <2>1. UNCHANGED <<pc, scope, batch, call, results, vDevice, stale, doubted, initial, registered,
                    scopes>>
    BY <1>2, CRests DEF applied, vVars
  <2>2. where \notin Late
    BY <1>2 DEF CStep, Configure, BeginSignal, Signal, At, Late
  <2>3. \A a : OnItsWay(a, channel') => OnItsWay(a, channel)
    BY <1>2, ConfigurationSends, OnItsWayChanges DEF ChannelInv, Anything
  <2> QED
    BY <2>1, <2>2, <2>3, VoiceRests
<1>3. CASE BindPhones
  <2>1. where = "voice" /\ UNCHANGED <<scopes, where>>
    BY <1>3 DEF BindPhones, At, stage
  <2>2. CASE V!Refuse \/ V!Begin
    BY <2>1, <2>2, BeginVoice
  <2>3. CASE V!Dispatch
    BY <2>1, <2>3, NextVoiceBatch, VoiceDispatchEnds DEF V!Dispatch, V!own
  <2>4. CASE V!SendControls \/ V!SendBinding \/ V!BatchFails
    BY <2>1, <2>4, VoiceSendsControls, VoiceSendsBinding, VoiceBatchFails
  <2>5. CASE V!ReadFrontier \/ V!Reconcile \/ V!Conclude
    BY <2>1, <2>5, VoiceReadsFrontier, VoiceReconciles, VoiceConcludes
  <2>6. CASE V!PassSignal \/ V!Observe \/ V!Call \/ V!Judge
    BY <2>1, <2>6, VoiceObserves
  <2> QED
    BY <1>3, <2>2, <2>3, <2>4, <2>5, <2>6 DEF BindPhones, V!Apply
<1>4. CASE EndSignal
  <2>1. /\ where = "signal" /\ where' = "voice" /\ V!CompleteSignal /\ UNCHANGED <<scopes, vDevice>>
        /\ pc = "observed" /\ pc' \in {"registration", "returned"}
        /\ UNCHANGED <<scope, batch, call, results, channel, stale, doubted, initial, registered>>
    BY <1>4, VRests DEF EndSignal, At, Proceed, V!CompleteSignal, V!Finish, V!dispatch, CourseInv
  <2> USE <2>1 DEF VInv, InBatch, Idling, Late
  <2>2. VTypeOK' /\ VBoundInv'
    BY DEF VTypeOK, VBoundInv
  <2>3. VDependInv'
    BY DEF VDependInv
  <2>4. ReconcileInv' /\ RegisteredInv'
    BY DEF ReconcileInv, RegisteredInv
  <2> QED
    BY <2>2, <2>3, <2>4
<1>5. CASE KStep
  BY <1>5, KRests, VoiceIsOver DEF KStep, ConfigureControlPlane, At, stage, vVars, Late
<1>6. CASE Reassert
  <2>1. UNCHANGED <<pc, scope, batch, call, results, vDevice, stale, doubted, initial, registered,
                    scopes, channel, where>>
    BY <1>6 DEF Reassert, applied, vVars, devices
  <2> QED
    BY <2>1, VoiceRests
<1>7. CASE EndVoice
  <2>1. UNCHANGED <<vDevice, stale, doubted, initial, registered, channel, scopes>>
    BY <1>7 DEF EndVoice, Idle, vVars, devices, Stop, Proceed
  <2>2. CASE where' \in Late
    BY <2>1, <2>2, VoiceIsOver
  <2>3. CASE where' \notin Late
    BY <1>7, <2>1, <2>3, VoiceRests DEF EndVoice, Stop, Proceed, At, Late, applied
  <2> QED
    BY <2>2, <2>3
<1>8. CASE VRun
  BY <1>8, VoiceRunKeeps
<1>9. CASE CRun \/ KRun \/ FaultRun
  BY <1>9, RunsLeave, RunsShorten, VoiceRests DEF CRun, KRun, FaultRun, vVars, stage
<1> QED
  BY <1>1, <1>2, <1>3, <1>4, <1>5, <1>6, <1>7, <1>8, <1>9 DEF Step, CStep, VStep, KStep

-----------------------------------------------------------------------------
(* The voice VLANs, and what is accepted.                                  *)

\* Nothing that is in effect is lost.
LEMMA EffectsStay ==
    ASSUME CourseInv, CTypeOK, ChannelInv, Step
    PROVE  /\ \A a \in A : cDevice[a] = "full" => cDevice'[a] = "full"
           /\ \A a \in AV : vDevice[a] => vDevice'[a]
<1>1. CASE CRun
  BY <1>1, PayloadRuns DEF CRun
<1>2. CASE VRun
  BY <1>2, VoiceRuns DEF VRun
<1>3. CASE CStep
  <2>1. UNCHANGED <<cDevice, vDevice>>
    BY <1>3, CRests DEF CStep, Configure, BeginSignal, Signal, C!Apply, C!BeginCompletion, C!Complete,
     C!Dispatch, C!Refuse, C!Begin, C!EnterPhase,
     C!DispatchDevice, C!DispatchFails, C!DispatchEnds, C!VerifyAll, C!VerifyBefore, C!Signal,
     C!DeferSignal, C!HoldSignal, C!VerifyAfter, C!RefuseCompletion, C!CompleteDeferred,
     C!CompleteRetained, C!VerifyDirect, C!VerifyForwarding
  <2> QED
    BY <2>1
<1>4. CASE VStep
  <2>1. UNCHANGED <<cDevice, vDevice>>
    BY <1>4, VRests DEF VStep, BindPhones, EndSignal, V!Apply, V!Refuse, V!Begin, V!Dispatch,
       V!NextBatch, V!DispatchEnds, V!SendControls, V!SendBinding, V!BatchFails, V!ReadFrontier,
       V!Reconcile, V!Conclude, V!PassSignal, V!Observe, V!Call, V!Judge, V!CompleteSignal
  <2> QED
    BY <2>1
<1>5. CASE KStep
  BY <1>5, KRests
<1>6. CASE Turn \/ Reassert \/ EndVoice
  BY <1>6, OthersAreSilent DEF devices
<1>7. CASE KRun \/ FaultRun
  BY <1>7 DEF KRun, FaultRun
<1> QED
  BY <1>1, <1>2, <1>3, <1>4, <1>5, <1>6, <1>7 DEF Step

\* Nothing that was sent is forgotten.
LEMMA SendsStay ==
    ASSUME CTypeOK, Step
    PROVE  \A a \in A : Sent(a) > 0 => Sent(a)' > 0
<1>1. CASE \E d : C!DispatchDevice(d)
  <2>1. PICK d : C!DispatchDevice(d)
    BY <1>1
  <2>2. PICK B \in SUBSET cLeft : C!Send(B) \/ UNCHANGED cSent
    BY <2>1, DeviceTurn
  <2>3. CASE UNCHANGED cSent
    BY <2>3 DEF Sent
  <2>4. CASE C!Send(B)
    <3>1. \A a \in A : /\ cSent[a].data \in Nat /\ cSent[a].full \in Nat
                       /\ cSent'[a].data \in Nat /\ cSent'[a].full \in Nat
                       /\ cSent'[a].data >= cSent[a].data /\ cSent'[a].full >= cSent[a].full
      <4>1. B \in SUBSET A
        BY DEF CTypeOK
      <4>2. /\ cSent' \in [A -> [data : Nat, full : Nat]]
            /\ \A a \in A \ B : cSent'[a] = cSent[a]
            /\ \A a \in B : IF a \in C!Deferred /\ ~cFull
                            THEN cSent'[a].data = cSent[a].data + 1 /\ cSent'[a].full = cSent[a].full
                            ELSE cSent'[a].data = cSent[a].data /\ cSent'[a].full = cSent[a].full + 1
        BY <2>4, <4>1, SendCounts
      <4> QED
        BY <4>2 DEF CTypeOK
    <3> QED
      BY <3>1 DEF Sent
  <2> QED
    BY <2>2, <2>3, <2>4
<1>2. CASE ~(\E d : C!DispatchDevice(d))
  <2>1. UNCHANGED cSent
    <3>1. CASE CStep
      BY <1>2, <3>1 DEF CStep, Configure, BeginSignal, Signal, C!Apply, C!BeginCompletion, C!Complete,
         C!Dispatch, C!Keep, C!Refuse, C!Begin, C!EnterPhase, C!DispatchFails, C!DispatchEnds,
         C!VerifyAll, C!VerifyBefore, C!Signal, C!DeferSignal, C!HoldSignal, C!VerifyAfter,
         C!RefuseCompletion, C!CompleteDeferred, C!CompleteRetained, C!VerifyDirect,
         C!VerifyForwarding
    <3>2. CASE VStep
      BY <3>2, VRests DEF cVars
    <3>3. CASE KStep
      BY <3>3, KRests DEF cVars
    <3>4. CASE Turn
      BY <3>4, TurnRests DEF cVars
    <3>5. CASE Reassert \/ EndVoice
      BY <3>5 DEF Reassert, EndVoice, Idle, cVars
    <3>6. CASE CRun \/ VRun \/ KRun \/ FaultRun
      BY <3>6, RunsLeave DEF cVars
    <3> QED
      BY <3>1, <3>2, <3>3, <3>4, <3>5, <3>6 DEF Step
  <2> QED
    BY <2>1 DEF Sent
<1> QED
  BY <1>1, <1>2

\* A bootstrap that has applied has bound its phones.
LEMMA BootstrapBinds ==
    ASSUME VInv, where \notin Late, pc \in {"observed", "returned"}, V!ApplicationStatus = "applied"
    PROVE  PhonesAreBound
<1>1. /\ doubted = {} /\ \A a \in AV : results[a] # "failed" /\ results[a] = "applied"
  BY DEF V!ApplicationStatus, V!Satisfied, AV
<1> QED
  BY <1>1, VoiceFacts DEF VInv, VBoundInv, PhonesAreBound, InBatch, Idling

\* A verified foundation is there.
LEMMA FoundationHolds ==
    ASSUME CourseInv, CheckInv, C!FoundationStatus = "verified"
    PROVE  FoundationIsThere
<1> SUFFICES ASSUME NEW a \in A, Expects[a] = "foundation"
             PROVE  cDevice[a] = "full"
  BY DEF FoundationIsThere
<1>1. a \in C!Expected(A) \ C!Deferred
  BY ConfigurationFacts DEF C!Expected, C!Deferred
<1>2. cChecks[a] = "verified"
  BY <1>1 DEF C!FoundationStatus, A
<1> QED
  BY <1>2 DEF CheckInv

\* Most steps of the configuration do not touch the signal.
SignalRests ==
    /\ cSignal' = "intended" => cSignal = "intended"
    /\ cFull' /\ cLeft' # {} => cFull /\ cLeft # {}
    /\ UNCHANGED <<cSent, cBasis>>
    /\ "voice_signal_verified" \in cEvents' => "voice_signal_verified" \in cEvents

\* A step that touches no voice VLAN keeps their ground.
LEMMA SignalStays ==
    ASSUME CourseInv, CTypeOK, ChannelInv, SignalInv, Step, SignalRests
    PROVE  SignalInv'
<1>1. FoundationIsThere => FoundationIsThere'
  BY EffectsStay DEF FoundationIsThere
<1>2. PhonesAreBound => PhonesAreBound'
  BY EffectsStay, VoiceFacts DEF PhonesAreBound
<1>3. \A a \in Voice : cDevice[a] = "full" => cDevice'[a] = "full"
  BY EffectsStay, ConfigurationFacts
<1> QED
  BY <1>1, <1>2, <1>3 DEF SignalInv, SignalRests

\* Most steps of the configuration touch none.
LEMMA MostStepsRest ==
    ASSUME \/ C!Refuse \/ C!Begin \/ C!EnterPhase \/ C!DispatchFails \/ C!DispatchEnds
           \/ C!VerifyAll \/ C!VerifyBefore \/ C!HoldSignal \/ C!VerifyAfter
           \/ C!RefuseCompletion \/ C!CompleteRetained \/ C!VerifyForwarding \/ Reassert
    PROVE  SignalRests
<1> USE DEF SignalRests, C!Keep, C!Report
<1>1. CASE C!Refuse \/ C!Begin \/ C!EnterPhase \/ C!DispatchFails \/ C!DispatchEnds
  BY <1>1 DEF C!Refuse, C!Begin, C!EnterPhase, C!DispatchFails, C!DispatchEnds
<1>2. CASE C!VerifyAll \/ C!VerifyBefore \/ C!HoldSignal
  BY <1>2 DEF C!VerifyAll, C!VerifyBefore, C!HoldSignal
<1>3. CASE C!VerifyAfter \/ C!VerifyForwarding
  <2>1. \A E, b : C!SignalStatus(E, b) # "intended"
    BY DEF C!SignalStatus
  <2> QED
    BY <1>3, <2>1 DEF C!VerifyAfter, C!VerifyForwarding
<1>4. CASE C!RefuseCompletion \/ C!CompleteRetained \/ Reassert
  BY <1>4 DEF C!RefuseCompletion, C!CompleteRetained, Reassert
<1> QED
  BY <1>1, <1>2, <1>3, <1>4

\* A signal begins, or is left for later, over a verified foundation.
LEMMA SignalBegins ==
    ASSUME CourseInv, CInv, VInv, ChannelInv, SignalInv, Step,
           \/ Configure /\ (C!Signal \/ C!DeferSignal)
           \/ BeginSignal /\ C!CompleteDeferred
    PROVE  SignalInv'
<1>1. UNCHANGED <<cDevice, cSent, cBasis, cEvents, vDevice>>
  BY CRests DEF CStep, C!Signal, C!DeferSignal, C!CompleteDeferred
<1>2. FoundationIsThere
  <2>1. CASE C!FoundationStatus = "verified"
    BY <2>1, FoundationHolds DEF CInv
  <2> QED
    BY <2>1 DEF C!Signal, C!DeferSignal, C!CompleteDeferred, C!Prepared, SignalInv
<1>3. cFull' /\ cLeft' # {} => (cFull /\ cLeft # {}) \/ PhonesAreBound
  <2>1. CASE C!Signal /\ Configure
    <3>1. where \notin Late /\ scopes.voice = {}
      BY <2>1 DEF C!Signal, Configure, At, Late, CInv, RequestInv, CTypeOK
    <3> QED
      BY <3>1, VoiceFacts DEF VInv, VTypeOK, VBoundInv, PhonesAreBound
  <2>2. CASE C!CompleteDeferred /\ BeginSignal
    BY <2>2, BootstrapBinds DEF BeginSignal, MaySignal, At, Late
  <2>3. CASE C!DeferSignal
    BY <2>3 DEF C!DeferSignal
  <2> QED
    BY <2>1, <2>2, <2>3
<1>4. FoundationIsThere' /\ (PhonesAreBound => PhonesAreBound')
  BY <1>1, <1>2 DEF FoundationIsThere, PhonesAreBound
<1> QED
  BY <1>1, <1>3, <1>4 DEF SignalInv

\* A voice VLAN is sent only in a signal.
LEMMA SignalIsSent ==
    ASSUME CourseInv, CInv, SignalInv, NEW d, C!DispatchDevice(d), UNCHANGED vDevice
    PROVE  SignalInv'
<1>1. PICK B \in SUBSET cLeft :
         /\ cLeft' = cLeft \ B
         /\ \/ C!Send(B)
            \/ UNCHANGED <<channel, cSent, cBasis>>
  BY DeviceTurn DEF CInv
<1>2. InCall /\ UNCHANGED <<cScope, cPrepared, cFull, cSignal, cEvents, cDevice>>
  BY DeviceTurn DEF CInv
<1>3. FoundationIsThere' = FoundationIsThere /\ PhonesAreBound' = PhonesAreBound
  BY <1>2 DEF FoundationIsThere, PhonesAreBound
<1>4. CASE UNCHANGED <<cSent, cBasis>>
  BY <1>1, <1>2, <1>3, <1>4 DEF SignalInv
<1>5. CASE C!Send(B)
  <2>1. B \in SUBSET A /\ CTypeOK
    BY DEF CInv, CTypeOK
  <2>2. /\ \A a \in A \ B : cSent'[a] = cSent[a]
        /\ \A a \in B : IF a \in C!Deferred /\ ~cFull
                        THEN cSent'[a].data = cSent[a].data + 1 /\ cSent'[a].full = cSent[a].full
                        ELSE cSent'[a].data = cSent[a].data /\ cSent'[a].full = cSent[a].full + 1
    BY <1>5, <2>1, SendCounts
  <2>3. cBasis' = IF cBasis = "none" /\ cFull /\ B # {}
                  THEN IF FoundationIsThere THEN "founded" ELSE "unfounded"
                  ELSE cBasis
    BY <1>5 DEF C!Send, FoundationIsThere, A
  <2>4. cFull /\ B # {} => FoundationIsThere /\ PhonesAreBound
    BY DEF SignalInv
  <2>5. cBasis' \in {"none", "founded"} /\ (cBasis = "founded" => cBasis' = "founded")
    BY <2>3, <2>4 DEF SignalInv
  <2>6. \A a \in Voice : cSent'[a].full > 0 => cBasis' = "founded" /\ PhonesAreBound
    <3> SUFFICES ASSUME NEW a \in Voice, cSent'[a].full > 0
                 PROVE  cBasis' = "founded" /\ PhonesAreBound
      OBVIOUS
    <3>1. CASE cSent'[a].full = cSent[a].full
      BY <2>5, <3>1 DEF SignalInv
    <3>2. CASE cSent'[a].full # cSent[a].full
      <4>1. a \in B /\ (a \notin C!Deferred \/ cFull)
        BY <2>2, <3>2, ConfigurationFacts
      <4>2. cFull
        BY <1>2, <2>1, <4>1 DEF CInv, CallInv, CTypeOK, InCall, Idling, C!Deferred
      <4> QED
        BY <2>3, <2>4, <4>1, <4>2 DEF SignalInv
    <3> QED
      BY <3>1, <3>2
  <2> QED
    BY <1>1, <1>2, <1>3, <2>5, <2>6 DEF SignalInv
<1> QED
  BY <1>1, <1>4, <1>5

\* The event says that the voice VLANs were read.
LEMMA SignalIsRead ==
    ASSUME CourseInv, CInv, SignalInv, C!VerifyDirect, UNCHANGED <<vDevice, scopes, attempt>>
    PROVE  SignalInv'
<1>1. /\ UNCHANGED <<cScope, cPrepared, cFull, cLeft, cSignal, cDevice, cSent, cBasis>>
      /\ "voice_signal_verified" \in cEvents' => "voice_signal_verified" \in cEvents \/ C!Announced
  BY DEF C!VerifyDirect, C!request
<1>2. CheckInv'
  BY <1>1, VerifyDirectKeeps DEF CInv
<1>3. C!Announced => \A a \in Voice : cDevice[a] = "full"
  <2>1. \A a \in Voice : a \in C!Expected(Voice) /\ a \in A
    BY ConfigurationFacts DEF C!Expected
  <2> QED
    BY <1>1, <1>2, <2>1 DEF C!Announced, CheckInv
<1>4. FoundationIsThere' = FoundationIsThere /\ PhonesAreBound' = PhonesAreBound
  BY <1>1 DEF FoundationIsThere, PhonesAreBound
<1> QED
  BY <1>1, <1>3, <1>4 DEF SignalInv

\* The voice signal goes out over its network and bound phones, at every step.
LEMMA SignalStep ==
    ASSUME CourseInv, CInv, VInv, ChannelInv, SignalInv, Step
    PROVE  SignalInv'
<1>1. CTypeOK
  BY DEF CInv
<1>2. CASE CStep
  <2>1. UNCHANGED <<vDevice, scopes, attempt>>
    BY <1>2, CRests
  <2>2. CASE SignalRests
    BY <1>1, <2>2, SignalStays
  <2>3. CASE C!VerifyDirect
    BY <2>1, <2>3, SignalIsRead
  <2>4. ASSUME NEW d, C!DispatchDevice(d)
        PROVE  SignalInv'
    BY <2>1, <2>4, SignalIsSent
  <2>5. CASE \/ Configure /\ (C!Signal \/ C!DeferSignal)
             \/ BeginSignal /\ C!CompleteDeferred
    BY <2>5, SignalBegins
  <2> QED
    BY <1>2, <2>2, <2>3, <2>4, <2>5, MostStepsRest DEF CStep, Configure, BeginSignal, Signal, C!Apply,
       C!BeginCompletion, C!Complete, C!Dispatch
<1>3. CASE Reassert
  BY <1>1, <1>3, SignalStays, MostStepsRest
<1>4. CASE Turn \/ VStep \/ KStep \/ EndVoice \/ CRun \/ VRun \/ KRun \/ FaultRun
  <2>1. UNCHANGED cVars
    BY <1>4, TurnRests, VRests, KRests, RunsLeave DEF EndVoice, Idle
  <2>2. SignalRests
    BY <2>1 DEF SignalRests, cVars
  <2> QED
    BY <1>1, <2>2, SignalStays
<1> QED
  BY <1>2, <1>3, <1>4 DEF Step

\* What was accepted is in effect, at every step.
LEMMA AcceptedStep ==
    ASSUME CourseInv, CInv, ChannelInv, AcceptedInv, Step
    PROVE  AcceptedInv'
<1>1. CTypeOK
  BY DEF CInv
<1>2. /\ \A a \in A : cDevice[a] = "full" => cDevice'[a] = "full"
      /\ \A a \in A : Sent(a) > 0 => Sent(a)' > 0
      /\ scopes' = scopes /\ scopes.configuration \subseteq A
  <2>1. scopes' = scopes
    BY RunsLeave, TurnRests, CRests, VRests, KRests DEF Step, stage, Reassert, EndVoice, Stop, Proceed
  <2> QED
    BY <1>1, <2>1, EffectsStay, SendsStay, ConfigurationFacts
<1>3. CASE where \notin {"physical_delta", "configuration"} \/ where' \in {"physical_delta", "configuration"}
  BY <1>2, <1>3 DEF AcceptedInv, C!Readable
<1>4. CASE where \in {"physical_delta", "configuration"} /\ where' \notin {"physical_delta", "configuration"}
  <2>1. Accept /\ Accepted(cDefer)
    <3>1. \/ Physical \/ Configure \/ Reassert \/ Contradict \/ Accept \/ CRun \/ VRun \/ KRun \/ FaultRun
      BY <1>4 DEF Step, Turn, CStep, VStep, KStep, OpenWindow, BindPhones, BeginSignal, Signal,
         EndSignal, EndVoice, ConfigureControlPlane, EndControlPlane, Forward, ReconcileWorkspace, At
    <3>2. CASE CRun \/ VRun \/ KRun \/ FaultRun
      BY <1>4, <3>2, RunsLeave DEF stage
    <3>3. CASE Physical \/ Configure \/ Reassert \/ Contradict
      BY <1>4, <3>3 DEF Physical, Configure, Reassert, Contradict, Stop, Proceed, stage
    <3>4. CASE Accept
      BY <1>4, <3>4 DEF Accept, Stop, Proceed
    <3> QED
      BY <3>1, <3>2, <3>3, <3>4
  <2>2. ASSUME NEW a \in A \ Voice, C!Readable(a)
        PROVE  cDevice[a] = "full"
    <3>1. a \in C!Expected(A) /\ a \notin Pending
      BY <2>2 DEF C!Expected, Pending, C!Deferred, C!Readable
    <3>2. cChecks[a] \in IF Expects[a] = "endpoint" THEN {"partial", "absent"} ELSE {"verified"}
      BY <2>1, <2>2, <3>1 DEF Accepted, ChecksAreExact, Ceiling, C!Readable, A
    <3> QED
      BY <2>2, <3>2 DEF CInv, CheckInv, C!Readable
  <2>3. ASSUME NEW a \in scopes.configuration
        PROVE  Sent(a) > 0
    <3>1. cResults[a] \in {"applied", "partial"}
      BY <1>2, <2>1 DEF Accepted, ResultsAreExact, C!Satisfied, A
    <3> QED
      BY <3>1 DEF CInv, OrderInv
  <2> QED
    BY <1>2, <2>2, <2>3 DEF AcceptedInv, C!Readable
<1> QED
  BY <1>3, <1>4

-----------------------------------------------------------------------------
(* The control plane.                                                      *)

\* What the assumption says of the control plane.
LEMMA ControlFacts == ControlDepends \in [AK -> SUBSET AK]
  BY StageAssumption DEF K!ControlPlaneAssumption, K!DispatchAssumption, AK

\* A control plane application that begins, or is refused.
LEMMA BeginControl ==
    ASSUME CourseInv, KInv, K!Refuse \/ K!Begin, where = "control_plane", UNCHANGED <<scopes, where>>
    PROVE  KInv'
<1> USE ControlFacts, ScopeFacts DEF KInv, K!Refuse, K!Begin, K!dispatch, K!own, K!Given, Idling, Late,
        AK, K!Result
<1>1. KTypeOK'
  BY DEF KTypeOK
<1>2. KDependInv'
  BY DEF KTypeOK, KDependInv
<1>3. KCheckInv'
  BY DEF KCheckInv
<1>4. KStatusInv'
  BY DEF KStatusInv
<1> QED
  BY <1>1, <1>2, <1>3, <1>4

\* Blocking changes no result that was there.
LEMMA ControlBlocked ==
    ASSUME results \in [AK -> K!Result]
    PROVE  /\ K!Blocked(results) \in [AK -> K!Result]
           /\ \A a \in AK : /\ K!Blocked(results)[a] = "none" => results[a] = "none"
                            /\ results[a] # "none" => K!Blocked(results)[a] = results[a]
                            /\ K!Blocked(results)[a] \in {results[a], "blocked"}
  BY DEF K!Blocked, AK, K!Result

\* A batch takes what is ready and was not told of.
LEMMA NextControlBatch ==
    ASSUME CourseInv, KInv, K!NextBatch, where = "control_plane",
           UNCHANGED <<scopes, where, status, checks, scenarios>>
    PROVE  KInv'
<1> DEFINE rs == K!Blocked(results)
<1>1. /\ results \in [AK -> K!Result] /\ scope \subseteq AK /\ pc = "dispatch" /\ pc' = "call"
      /\ UNCHANGED <<scope, channel, kDevice>> /\ where \in Late
  BY ScopeFacts DEF KInv, KTypeOK, K!NextBatch, Late
<1>2. /\ rs \in [AK -> K!Result]
      /\ \A a \in AK : /\ rs[a] = "none" => results[a] = "none"
                       /\ results[a] # "none" => rs[a] = results[a]
                       /\ rs[a] \in {results[a], "blocked"}
  BY <1>1, ControlBlocked
<1>3. results' = rs /\ batch' = call'
  BY DEF K!NextBatch
<1>4. \A a \in call' : a \in AK /\ rs[a] = "none" /\ \A d \in ControlDepends[a] : rs[d] = "applied"
  BY DEF K!NextBatch, K!Ready, K!Satisfied, AK
<1>5. call' # {}
  <2>1. K!Ready(rs) # {} /\ K!Ready(rs) \in SUBSET AK
    BY DEF K!NextBatch, K!Ready, AK
  <2>2. K!FirstOf(K!Ready(rs)) \in K!Ready(rs)
    BY <2>1, FirstIsOneOfThem
  <2> QED
    BY <2>2 DEF K!NextBatch
<1> HIDE DEF rs
<1> USE <1>1, <1>2, <1>3, <1>4, ControlFacts DEF KInv, Idling
<1>6. KTypeOK'
  BY <1>5 DEF KTypeOK, KDependInv
<1>7. KDependInv'
  BY DEF KTypeOK, KDependInv
<1>8. KCheckInv' /\ KStatusInv'
  BY DEF KCheckInv, KStatusInv
<1> QED
  BY <1>6, <1>7, <1>8

\* The dispatch of the control plane ends.
LEMMA ControlDispatchEnds ==
    ASSUME CourseInv, KInv, K!DispatchEnds("observed"), where = "control_plane",
           UNCHANGED <<scopes, where, status, checks, scenarios>>
    PROVE  KInv'
<1> USE ControlFacts, ScopeFacts DEF KInv, K!DispatchEnds, Idling, Late, AK, K!Result
<1>1. KTypeOK'
  BY DEF KTypeOK
<1>2. KDependInv'
  BY DEF KTypeOK, KDependInv
<1>3. KCheckInv' /\ KStatusInv'
  BY DEF KCheckInv, KStatusInv
<1> QED
  BY <1>1, <1>2, <1>3

\* An action goes out after what it depends on.
LEMMA ControlSendsAction ==
    ASSUME CourseInv, KInv, ChannelInv, K!SendAction, where = "control_plane",
           UNCHANGED <<scopes, where, status, checks, scenarios>>
    PROVE  KInv'
<1> DEFINE b == K!FirstOf(call)
<1>1. /\ pc = "call" /\ call \subseteq batch /\ batch \subseteq scope /\ scope \subseteq AK
      /\ results \in [AK -> K!Result] /\ where \in Late /\ call # {}
      /\ UNCHANGED <<scope, batch, kDevice>>
  BY ScopeFacts DEF KInv, KTypeOK, K!SendAction, Late
<1>2. b \in call
  BY <1>1, FirstIsOneOfThem
<1>3. /\ channel' = channel \/ channel' = Append(channel, Action({b}))
      /\ \E r \in {"applied", "failed"} : results' = [results EXCEPT ![b] = r]
      /\ call' = call \ {b}
      /\ pc' = IF call' = {} THEN "dispatch" ELSE "call"
  BY DEF K!SendAction, K!Message, Action
<1> HIDE DEF b
<1>4. Action({b}) \in Actions /\ \A a \in Action({b}).of : a \in batch
  BY <1>1, <1>2 DEF Action, Actions
<1>5. \A a : OnItsWay(a, channel') => OnItsWay(a, channel) \/ a \in batch
  BY <1>3, <1>4, OnItsWayChanges DEF ChannelInv, Anything
<1>6. results' \in [AK -> K!Result] /\ results'[b] # "none" /\ \A a \in AK \ {b} : results'[a] = results[a]
  BY <1>1, <1>2, <1>3 DEF K!Result
<1>7. KTypeOK'
  BY <1>1, <1>3, <1>6 DEF KInv, KTypeOK
<1>8. KDependInv'
  <2>1. \A a \in AK : results'[a] = "none" => a \in scope
    BY <1>1, <1>6 DEF KInv, KDependInv, Idling
  <2>2. \A a \in scope : kDevice[a] \/ OnItsWay(a, channel') =>
           \A d \in ControlDepends[a] : results'[d] = "applied" /\ d \notin batch
    <3>1. \A a \in scope : kDevice[a] \/ OnItsWay(a, channel') =>
             \A d \in ControlDepends[a] : results[d] = "applied" /\ d \notin batch
      BY <1>1, <1>5 DEF KInv, KDependInv
    <3> QED
      BY <1>1, <1>2, <1>6, <3>1, ControlFacts
  <2>3. \A a \in batch : \A d \in ControlDepends[a] : results'[d] = "applied" /\ d \notin batch
    BY <1>1, <1>2, <1>6, ControlFacts DEF KInv, KDependInv
  <2> QED
    BY <1>1, <1>3, <2>1, <2>2, <2>3 DEF KInv, KDependInv, Idling
<1>9. KCheckInv' /\ KStatusInv'
  BY <1>1, <1>3 DEF KInv, KCheckInv, KStatusInv
<1> QED
  BY <1>7, <1>8, <1>9 DEF KInv

\* The verification tells only of what is in effect.
LEMMA ControlVerifies ==
    ASSUME CourseInv, KInv, K!Verify, where = "control_plane", UNCHANGED <<scopes, where>>
    PROVE  KInv'
<1>1. PICK k \in {"observed", "behavior"}, n \in {"behavior", "scenario"} : K!VerifyStage(k, n)
  BY DEF K!Verify
<1>2. /\ UNCHANGED <<scope, batch, call, results, channel, kDevice, status, scenarios>>
      /\ pc \in {"observed", "behavior"} /\ pc' \in {"behavior", "scenario"}
  BY <1>1 DEF K!VerifyStage, K!dispatch
<1>3. KTypeOK' /\ KDependInv'
  BY <1>2 DEF KInv, KTypeOK, KDependInv, Idling
<1>4. KCheckInv'
  <2> DEFINE ofKind == {e \in K!Expectation : e[2] = k}
             able  == {e \in ofKind : K!Prerequisites(e)}
  <2>1. PICK read \in [able -> K!Check] :
           /\ \A e \in able : read[e] \in K!Reading(e[1])
           /\ checks' = [e \in K!Expectation |-> IF e \in able THEN read[e]
                                                ELSE IF e \in ofKind THEN "blocked"
                                                ELSE checks[e]]
    BY <1>1 DEF K!VerifyStage
  <2>2. \A e \in able : read[e] = "verified" => kDevice[e[1]]
    BY <2>1 DEF K!Reading
  <2> HIDE DEF ofKind, able
  <2> QED
    BY <1>2, <2>1, <2>2 DEF KInv, KCheckInv, K!Check
<1>5. KStatusInv'
  BY <1>2 DEF KInv, KStatusInv
<1> QED
  BY <1>3, <1>4, <1>5 DEF KInv

\* The steps of a scenario.
Enacts == \/ K!PassScenario \/ K!RefuseScenario \/ K!Baseline \/ K!Inject \/ K!During
          \/ K!Restore \/ K!After \/ K!Judge

\* A scenario leaves actions and their results alone.
LEMMA ScenariosRest ==
    ASSUME Enacts
    PROVE  /\ UNCHANGED <<scope, refused, batch, call, results, kDevice, checks, status>>
           /\ pc \in InScenario /\ pc' \in InScenario /\ s <= Len(Scenarios)
  BY DEF Enacts, K!PassScenario, K!RefuseScenario, K!Baseline, K!Inject, K!During, K!Restore, K!After,
         K!Judge, K!Record, K!InScenario, K!dispatch, InScenario

\* A scenario keeps the invariant of the actions.
LEMMA ControlEnacts ==
    ASSUME CourseInv, KInv, ChannelInv, KScenarioTypeOK, KStep, Enacts
    PROVE  KInv'
<1>1. /\ UNCHANGED <<scope, refused, batch, call, results, kDevice, checks, status, scopes, where>>
      /\ pc \in InScenario /\ pc' \in InScenario /\ s <= Len(Scenarios) /\ where = "control_plane"
  BY ScenariosRest DEF KStep, ConfigureControlPlane, At, stage
<1>2. \A a : OnItsWay(a, channel') => OnItsWay(a, channel)
  <2>1. K!Current \in K!Scenario
    BY <1>1, CurrentIsOne
  <2>2. Shutdown(K!Current) \in Faults /\ [kind |-> "restore", of |-> K!Current] \in Faults
    BY <2>1 DEF Shutdown, Faults
  <2>3. pc # "call"
    BY <1>1 DEF InScenario
  <2>4. channel' = channel \/ \E m \in Faults : channel' = Append(channel, m)
    BY <2>2, <2>3, ControlSends DEF KInv
  <2> QED
    BY <2>4, OnItsWayChanges DEF ChannelInv, Anything
<1> USE <1>1, <1>2 DEF KInv, InScenario, Idling
<1>3. KTypeOK'
  BY DEF KTypeOK
<1>4. KDependInv'
  BY DEF KDependInv
<1>5. KCheckInv' /\ KStatusInv'
  BY DEF KCheckInv, KStatusInv
<1> QED
  BY <1>3, <1>4, <1>5

\* The result.
LEMMA VerifiedResult ==
    ASSUME K!Overall = "verified"
    PROVE  /\ \A e \in K!Expectation : checks[e] = "verified"
           /\ \A x \in K!Scenario : scenarios[x].status = "verified"
  BY DEF K!Overall

\* The control plane application returns.
LEMMA ControlReturns ==
    ASSUME CourseInv, KInv, K!Return, where = "control_plane", UNCHANGED <<scopes, where>>
    PROVE  KInv'
<1>1. /\ UNCHANGED <<scope, batch, call, results, channel, kDevice, checks, scenarios>>
      /\ pc = "scenario" /\ pc' = "returned" /\ status' = K!Overall
  BY DEF K!Return, K!dispatch
<1>2. KTypeOK' /\ KDependInv'
  BY <1>1 DEF KInv, KTypeOK, KDependInv, Idling
<1>3. KCheckInv'
  BY <1>1 DEF KInv, KCheckInv
<1>4. KStatusInv'
  BY <1>1, VerifiedResult DEF KStatusInv
<1> QED
  BY <1>2, <1>3, <1>4 DEF KInv

\* What runs of the control plane was on its way.
LEMMA ControlRuns ==
    ASSUME ChannelInv, KRun
    PROVE  \E ok \in SUBSET AK : /\ kDevice' = [a \in AK |-> kDevice[a] \/ a \in ok]
                                /\ \A a \in ok : OnItsWay(a, channel)
<1>1. /\ "kind" \in DOMAIN Head(channel) /\ Head(channel).kind = "action"
      /\ Head(channel).of \subseteq AK
  BY DEF KRun, K!Run, K!RunAction, K!Awaits, AK
<1>2. Head(channel) \in Actions
  BY <1>1, RunsShorten, MessagesDiffer DEF Anything
<1>3. PICK ok \in SUBSET Head(channel).of : kDevice' = [a \in AK |-> kDevice[a] \/ a \in ok]
  BY DEF KRun, K!Run, K!RunAction, AK
<1> QED
  BY <1>1, <1>2, <1>3, RunsShorten

\* A message of the control plane runs, however late.
LEMMA ControlRunKeeps ==
    ASSUME CourseInv, KInv, ChannelInv, KRun
    PROVE  KInv'
<1>1. UNCHANGED <<pc, scope, batch, call, results, status, checks, scenarios, scopes, where>>
  BY RunsLeave DEF KRun, K!Run, K!own, stage
<1>2. PICK ok \in SUBSET AK : /\ kDevice' = [a \in AK |-> kDevice[a] \/ a \in ok]
                              /\ \A a \in ok : OnItsWay(a, channel)
  BY ControlRuns
<1>3. \A a \in AK : kDevice'[a] <=> kDevice[a] \/ a \in ok
  BY <1>2
<1>4. \A a : OnItsWay(a, channel') => OnItsWay(a, channel)
  BY RunsShorten
<1> USE ControlFacts DEF KInv
<1>5. KTypeOK'
  BY <1>1, <1>2 DEF KTypeOK
<1>6. KDependInv'
  <2> SUFFICES ASSUME where = "control_plane"
               PROVE  KDependInv'
    BY <1>1 DEF KDependInv
  <2>1. scope \subseteq AK
    BY ScopeFacts DEF KTypeOK, Late
  <2>2. \A a \in scope : kDevice'[a] \/ OnItsWay(a, channel') => kDevice[a] \/ OnItsWay(a, channel)
    BY <1>2, <1>3, <1>4, <2>1
  <2> QED
    BY <1>1, <2>1, <2>2 DEF KDependInv, KTypeOK
<1>7. KCheckInv'
  BY <1>1, <1>3 DEF KCheckInv, K!Expectation, AK
<1>8. KStatusInv'
  BY <1>1 DEF KStatusInv
<1> QED
  BY <1>5, <1>6, <1>7, <1>8

\* A step that is of another applicator.
LEMMA ControlRests ==
    ASSUME KInv,
           \/ where' = where
           \/ where \in Late /\ where' \in {"forwarding", "reconciliation"}
           \/ where' \notin Late,
           where \in Late => UNCHANGED <<pc, scope, batch, call, results, status, scenarios>>,
           UNCHANGED <<kDevice, checks, scopes>>,
           \A a : OnItsWay(a, channel') => OnItsWay(a, channel)
    PROVE  KInv'
<1> USE DEF KInv, Late
<1>1. KTypeOK'
  BY DEF KTypeOK
<1>2. KDependInv'
  BY DEF KDependInv
<1>3. KCheckInv' /\ KStatusInv'
  BY DEF KCheckInv, KStatusInv
<1> QED
  BY <1>1, <1>2, <1>3

\* Every step of the stage keeps the invariant of the control plane.
LEMMA ControlStep ==
    ASSUME CourseInv, CTypeOK, VInv, KInv, GroundInv, KScenarioTypeOK, ChannelInv, Step
    PROVE  KInv'
<1>1. CASE Turn
  <2>1. UNCHANGED <<pc, scope, batch, call, results, status, scenarios, kDevice, checks, scopes, channel>>
    BY <1>1, TurnRests DEF applied, kVars, devices
  <2>2. \/ where' = where
        \/ where \in Late /\ where' \in {"forwarding", "reconciliation"}
        \/ where' \notin Late
    BY <1>1 DEF Turn, Physical, Contradict, Accept, OpenWindow, EndControlPlane, Forward,
       ReconcileWorkspace, Configured, Stop, Proceed, At, Late
  <2> QED
    BY <2>1, <2>2, ControlRests
<1>2. CASE CStep
  <2>1. UNCHANGED <<kDevice, checks, scopes>>
    BY <1>2, CRests DEF kVars
  <2>2. where \notin Late /\ where' \notin Late
    BY <1>2 DEF CStep, Configure, BeginSignal, Signal, At, Late, Proceed, stage
  <2>3. \A a : OnItsWay(a, channel') => OnItsWay(a, channel)
    BY <1>2, ConfigurationSends, OnItsWayChanges DEF ChannelInv, Anything
  <2> QED
    BY <2>1, <2>2, <2>3, ControlRests DEF Late
<1>3. CASE VStep
  <2>1. UNCHANGED <<kDevice, checks>> /\ where \notin Late /\ where' \notin Late
    BY <1>3, VRests DEF VStep, BindPhones, EndSignal, At, Late, Proceed, stage, kVars
  <2> QED
    BY <2>1 DEF KInv, KTypeOK, KDependInv, KCheckInv, KStatusInv, Late
<1>4. CASE KStep
  <2>1. where = "control_plane" /\ UNCHANGED <<scopes, where>>
    BY <1>4 DEF KStep, ConfigureControlPlane, At, stage
  <2>2. CASE K!Refuse \/ K!Begin
    BY <2>1, <2>2, BeginControl
  <2>3. CASE K!Dispatch
    BY <2>1, <2>3, NextControlBatch, ControlDispatchEnds, ControlSendsAction DEF K!Dispatch, K!own
  <2>4. CASE K!Verify
    BY <2>1, <2>4, ControlVerifies
  <2>5. CASE Enacts
    BY <1>4, <2>5, ControlEnacts
  <2>6. CASE K!Return
    BY <2>1, <2>6, ControlReturns
  <2> QED
    BY <1>4, <2>2, <2>3, <2>4, <2>5, <2>6 DEF KStep, ConfigureControlPlane, K!Apply, Enacts
<1>5. CASE Reassert
  <2>1. UNCHANGED <<pc, scope, batch, call, results, status, scenarios, kDevice, checks, scopes, channel,
                    where>>
    BY <1>5 DEF Reassert, applied, kVars, devices
  <2> QED
    BY <2>1, ControlRests
<1>6. CASE EndVoice
  <2>1. UNCHANGED <<kDevice, checks, scenarios, channel, scopes>> /\ where = "voice"
    BY <1>6 DEF EndVoice, Idle, kVars, devices, Stop, Proceed, At
  <2>2. CASE where' = where
    BY <2>1, <2>2, ControlRests DEF Late
  <2>3. CASE where' # where
    <3>1. /\ where' = "control_plane" /\ scope' = scopes.control /\ pc' = "preflight"
          /\ batch' = {} /\ call' = {} /\ status' = "none" /\ results' = [a \in AK |-> "none"]
      BY <1>6, <2>3 DEF EndVoice, Stop, Proceed, AK
    <3>2. KTypeOK'
      BY <2>1, <3>1 DEF KInv, KTypeOK, K!Result
    <3>3. KDependInv'
      BY <2>1, <3>1 DEF KInv, KDependInv, GroundInv, Late, Idling
    <3>4. KCheckInv' /\ KStatusInv'
      BY <2>1, <3>1 DEF KInv, KCheckInv, KStatusInv
    <3> QED
      BY <3>2, <3>3, <3>4 DEF KInv
  <2> QED
    BY <2>2, <2>3
<1>7. CASE KRun
  BY <1>7, ControlRunKeeps
<1>8. CASE CRun \/ VRun \/ FaultRun
  BY <1>8, RunsLeave, RunsShorten, ControlRests
     DEF CRun, VRun, FaultRun, K!RunFault, kVars, stage
<1> QED
  BY <1>1, <1>2, <1>3, <1>4, <1>5, <1>6, <1>7, <1>8 DEF Step, CStep, VStep, KStep

\* The control plane has its turn over a network and phones that are there.
LEMMA ControlIsFounded ==
    ASSUME CourseInv, CheckInv, Founded(ControlNeeds)
    PROVE  \A a \in ControlNeeds : cDevice[a] = "full"
<1>1. ControlNeeds \subseteq A
  BY StageAssumption DEF A
<1> QED
  BY <1>1 DEF Founded, CheckInv

\* The control plane is not touched before its ground is there, at every step.
LEMMA GroundStep ==
    ASSUME CourseInv, CourseInv', CInv, VInv, KInv, SignalInv, GroundInv, ChannelInv, Step
    PROVE  GroundInv'
<1>1. CTypeOK
  BY DEF CInv
<1>2. /\ \A a \in A : cDevice[a] = "full" => cDevice'[a] = "full"
      /\ \A a \in AV : vDevice[a] => vDevice'[a]
      /\ ControlNeeds \subseteq A /\ Voice \subseteq A /\ Bindings \subseteq AV
  BY <1>1, EffectsStay, ConfigurationFacts, VoiceFacts, StageAssumption DEF A
<1>3. scopes' = scopes
  BY TurnRests, CRests, VRests, KRests, RunsLeave DEF Step, stage, Reassert, EndVoice, Stop, Proceed
<1>4. where' \notin Late => where \notin Late
  BY RunsLeave DEF Step, Turn, Physical, Contradict, Accept, OpenWindow, EndControlPlane, Forward,
     ReconcileWorkspace, Configured, CStep, Configure, BeginSignal, Signal, VStep, BindPhones,
     EndSignal, KStep, ConfigureControlPlane, Reassert, EndVoice, Stop, Proceed, At, Late, stage
<1>5. ASSUME where' \notin Late, NEW a \in scopes.control
      PROVE  ~kDevice'[a] /\ ~OnItsWay(a, channel')
  <2>1. ~kDevice[a] /\ ~OnItsWay(a, channel) /\ a \in AK /\ a \notin AV /\ where \notin Late
    BY <1>4, <1>5, ScopeFacts DEF GroundInv
  <2>2. CASE Turn \/ Reassert \/ EndVoice
    BY <2>1, <2>2, OthersAreSilent DEF devices
  <2>3. CASE CStep
    BY <2>1, <2>3, CRests, ConfigurationSends, <1>1, OnItsWayChanges DEF ChannelInv, Anything
  <2>4. CASE VStep
    <3>1. call \subseteq AV
      BY <2>1, ScopeFacts DEF VInv, VTypeOK
    <3>2. \A B \in SUBSET call : Action(B) \in Actions /\ a \notin Action(B).of
      BY <2>1, <3>1 DEF Action, Actions
    <3> QED
      BY <2>1, <2>4, <3>2, VRests, PhonesSend, OnItsWayChanges DEF VInv, ChannelInv, Anything
  <2>5. CASE KStep
    BY <2>1, <2>5 DEF KStep, ConfigureControlPlane, At, Late
  <2>6. CASE CRun \/ VRun \/ FaultRun
    BY <2>1, <2>6, RunsShorten DEF CRun, VRun, FaultRun, K!RunFault
  <2>7. CASE KRun
    BY <2>1, <2>7, RunsShorten, ControlRuns
  <2> QED
    BY <2>2, <2>3, <2>4, <2>5, <2>6, <2>7 DEF Step
<1>6. ASSUME where' \in Late
      PROVE  PhonesAreBound' /\ \A a \in Voice : cDevice'[a] = "full"
  <2>1. CASE where \in Late
    BY <1>2, <2>1 DEF GroundInv, PhonesAreBound
  <2>2. CASE where \notin Late
    <3>1. EndVoice /\ VoiceCloses
      BY <1>6, <2>2, RunsLeave DEF Step, Turn, Physical, Contradict, Accept, OpenWindow,
         EndControlPlane, Forward, ReconcileWorkspace, Configured, CStep, Configure, BeginSignal,
         Signal, VStep, BindPhones, EndSignal, KStep, ConfigureControlPlane, Reassert, EndVoice, Stop,
         Proceed, At, Late, stage
    <3>2. PhonesAreBound
      BY <2>2, <3>1, BootstrapBinds DEF VoiceCloses
    <3>3. \A a \in Voice : cDevice[a] = "full"
      BY <3>1 DEF VoiceCloses, SignalInv
    <3> QED
      BY <1>2, <3>2, <3>3 DEF PhonesAreBound
  <2> QED
    BY <2>1, <2>2
<1>7. ASSUME (where' = "control_plane" /\ pc' \notin Idling) \/ where' \in {"forwarding", "reconciliation"}
      PROVE  \A a \in ControlNeeds : cDevice'[a] = "full"
  <2>1. CASE (where = "control_plane" /\ pc \notin Idling) \/ where \in {"forwarding", "reconciliation"}
    BY <1>2, <2>1 DEF GroundInv
  <2>2. CASE ~((where = "control_plane" /\ pc \notin Idling) \/ where \in {"forwarding", "reconciliation"})
    <3>1. \/ KStep /\ pc \in Idling /\ pc' \notin Idling
          \/ EndControlPlane /\ ControlPlaneIsUp /\ pc \in Idling
      <4>1. CASE KStep
        BY <1>7, <2>2, <4>1 DEF KStep, ConfigureControlPlane, At, stage
      <4>2. CASE EndControlPlane
        BY <1>7, <2>2, <4>2 DEF EndControlPlane, Stop, Proceed, At, applied
      <4>3. CASE CRun \/ VRun \/ KRun \/ FaultRun
        BY <1>7, <2>2, <4>3, RunsLeave DEF stage
      <4>4. CASE CStep \/ VStep \/ Reassert
        BY <1>7, <2>2, <4>4 DEF CStep, Configure, BeginSignal, Signal, VStep, BindPhones, EndSignal,
           Reassert, Stop, Proceed, At, stage
      <4>5. CASE EndVoice
        BY <1>7, <2>2, <4>5 DEF EndVoice, Stop, Proceed, At, Idling
      <4>6. CASE Turn /\ ~EndControlPlane
        BY <1>7, <2>2, <4>6 DEF Turn, Physical, Contradict, Accept, OpenWindow, Forward,
           ReconcileWorkspace, Configured, Stop, Proceed, Idle, At, Idling, applied
      <4> QED
        BY <4>1, <4>2, <4>3, <4>4, <4>5, <4>6 DEF Step
    <3>2. ~(EndControlPlane /\ ControlPlaneIsUp /\ pc \in Idling)
      BY DEF EndControlPlane, ControlPlaneIsUp, At, KInv, KStatusInv, Late, Idling
    <3>3. KStep /\ pc = "preflight" /\ pc' = "dispatch"
      BY <3>1, <3>2, ScenariosRest DEF KStep, ConfigureControlPlane, K!Apply, K!Refuse, K!Begin,
         K!Dispatch, K!NextBatch, K!SendAction, K!DispatchEnds, K!Verify, K!VerifyStage, Enacts,
         K!Return, Idling, InScenario
    <3>4. Founded(ControlNeeds)
      BY <3>3 DEF KStep, ConfigureControlPlane
    <3> QED
      BY <1>2, <3>4, ControlIsFounded DEF CInv
  <2> QED
    BY <2>1, <2>2
<1> QED
  BY <1>3, <1>5, <1>6, <1>7 DEF GroundInv

-----------------------------------------------------------------------------
(* The failure scenarios.                                                  *)

scenarioVars == <<s, run, scenarios, up, faulted, restored>>

\* The steps that concern no scenario.
LEMMA ScenariosAreLeft ==
    ASSUME CourseInv, Step, ~(KStep /\ Enacts), ~(KStep /\ K!Verify), ~FaultRun
    PROVE  UNCHANGED scenarioVars
<1> USE DEF scenarioVars
<1>1. CASE KStep
  BY <1>1 DEF KStep, ConfigureControlPlane, K!Apply, Enacts, K!Refuse, K!Begin, K!Dispatch, K!own,
     K!Return
<1>2. CASE Turn \/ CStep \/ VStep
  BY <1>2, TurnRests, CRests, VRests DEF kVars
<1>3. CASE Reassert \/ EndVoice
  BY <1>3 DEF Reassert, EndVoice, Idle, kVars
<1>4. CASE CRun \/ VRun \/ KRun
  BY <1>4 DEF CRun, VRun, KRun, K!Run, K!own, kVars
<1> QED
  BY <1>1, <1>2, <1>3, <1>4 DEF Step

\* The verification leads to the first scenario.
LEMMA VerificationLeaves ==
    ASSUME KStep, K!Verify
    PROVE  /\ s' = 1 /\ UNCHANGED <<run, scenarios, up, faulted, restored, channel, where, outcome, status>>
           /\ \/ pc = "observed" /\ pc' = "behavior"
              \/ pc = "behavior" /\ pc' = "scenario"
           /\ where = "control_plane"
  BY DEF KStep, ConfigureControlPlane, K!Verify, K!VerifyStage, stage, At

\* A fault that runs changes its link and nothing else.
LEMMA FaultRunLeaves ==
    ASSUME ChannelInv, FaultRun
    PROVE  /\ UNCHANGED <<s, run, scenarios, faulted, restored, pc, status, where, outcome, kDevice>>
           /\ Head(channel) \in Faults
           /\ \E ok \in BOOLEAN :
                 up' = [up EXCEPT ![Head(channel).of] = IF ok THEN Head(channel).kind = "restore" ELSE @]
<1>1. Head(channel) \in Anything
  BY RunsShorten
<1>2. "kind" \in DOMAIN Head(channel) /\ Head(channel).kind \in {"shutdown", "restore"}
  BY DEF FaultRun, K!RunFault, K!Awaits
<1>3. Head(channel) \in Faults
  BY <1>1, <1>2, MessagesDiffer DEF Anything
<1> QED
  BY <1>3, RunsLeave DEF FaultRun, K!RunFault, stage

\* A scenario that ends goes on to the next one.
Ends == K!PassScenario \/ K!RefuseScenario \/ K!Judge
        \/ (K!Baseline /\ pc' = "scenario")

\* A scenario that ends leads to the next one.
LEMMA ScenarioEnds ==
    ASSUME Ends
    PROVE  /\ s' = s + 1 /\ run' = K!NoRun /\ pc' = "scenario"
           /\ \E r : scenarios' = [scenarios EXCEPT ![K!Current] = r]
           /\ pc \in {"scenario", "judge"}
           /\ UNCHANGED <<channel, up, faulted, restored>>
<1>1. CASE K!PassScenario
  BY <1>1 DEF K!PassScenario, K!Record, K!InScenario
<1>2. CASE K!RefuseScenario
  BY <1>2 DEF K!RefuseScenario, K!Record, K!InScenario
<1>3. CASE K!Judge
  BY <1>3 DEF K!Judge, K!Record, K!InScenario
<1>4. CASE K!Baseline /\ pc' = "scenario"
  BY <1>4 DEF K!Baseline, K!Record, K!InScenario
<1> QED
  BY <1>1, <1>2, <1>3, <1>4 DEF Ends

\* A scenario that goes on.
LEMMA ScenarioGoesOn ==
    ASSUME Enacts, ~Ends
    PROVE  /\ UNCHANGED <<s, scenarios, up>>
           /\ \/ K!Baseline /\ pc = "scenario" /\ pc' = "inject" /\ UNCHANGED <<channel, faulted, restored>>
              \/ K!Inject /\ pc = "inject" /\ pc' \in {"during", "restore"} /\ UNCHANGED restored
                 /\ faulted' = faulted \cup {K!Current}
              \/ K!During /\ pc = "during" /\ pc' = "restore" /\ UNCHANGED <<channel, faulted, restored>>
              \/ K!Restore /\ pc = "restore" /\ pc' = "after" /\ UNCHANGED faulted
                 /\ restored' = restored \cup {K!Current}
              \/ K!After /\ pc = "after" /\ pc' = "judge" /\ UNCHANGED <<channel, faulted, restored>>
<1>1. CASE K!Baseline
  <2>1. PICK v \in K!Probe(K!Current, TRUE) :
           IF v = "verified"
           THEN run' = [run EXCEPT !.before = v] /\ pc' = "inject" /\ UNCHANGED <<scenarios, s>>
           ELSE K!Record(K!Current, [K!NoResult EXCEPT !.status = "failed", !.code = "other"])
    BY <1>1 DEF K!Baseline
  <2> QED
    BY <1>1, <2>1 DEF K!Baseline, K!Record, K!InScenario, Ends
<1>2. CASE K!Inject
  BY <1>2 DEF K!Inject, K!InScenario
<1>3. CASE K!During
  BY <1>3 DEF K!During, K!InScenario
<1>4. CASE K!Restore
  BY <1>4 DEF K!Restore, K!InScenario
<1>5. CASE K!After
  BY <1>5 DEF K!After, K!InScenario
<1> QED
  BY <1>1, <1>2, <1>3, <1>4, <1>5 DEF Enacts, Ends

\* How the other steps leave the control plane.
LEMMA ScenariosAreLeftAt ==
    ASSUME CourseInv, Step, ~KStep
    PROVE  /\ where = "control_plane" =>
                 \/ where' = where /\ pc' = pc
                 \/ EndControlPlane /\ where' = "forwarding" /\ pc' = pc
           /\ where \in {"forwarding", "reconciliation"} =>
                 where' \in {"forwarding", "reconciliation"} /\ pc' = pc
           /\ where \notin Late => \/ where' \notin Late
                                   \/ EndVoice /\ where' = "control_plane" /\ pc' = "preflight"
<1>1. CASE Turn
  <2>1. pc' = pc
    BY <1>1, TurnRests DEF applied
  <2> QED
    BY <1>1, <2>1 DEF Turn, Physical, Contradict, Accept, OpenWindow, EndControlPlane, Forward,
       ReconcileWorkspace, Configured, Stop, Proceed, At, Late
<1>2. CASE CStep \/ VStep \/ Reassert \/ EndVoice
  BY <1>2 DEF CStep, Configure, BeginSignal, Signal, VStep, BindPhones, EndSignal, Reassert, EndVoice,
     Stop, Proceed, At, Late, stage
<1>3. CASE CRun \/ VRun \/ KRun \/ FaultRun
  BY <1>3, RunsLeave DEF stage
<1> QED
  BY <1>1, <1>2, <1>3 DEF Step

\* The steps of the control plane before its scenarios and after them.
LEMMA ControlOutside ==
    ASSUME KStep, ~Enacts, ~K!Verify
    PROVE  /\ where = "control_plane" /\ UNCHANGED <<where, outcome>> /\ UNCHANGED scenarioVars
           /\ \/ pc \in {"preflight", "dispatch", "call"}
                 /\ pc' \in Idling \cup {"dispatch", "call", "observed"}
              \/ pc = "scenario" /\ pc' = "returned" /\ s > Len(Scenarios)
  BY DEF KStep, ConfigureControlPlane, K!Apply, Enacts, K!Refuse, K!Begin, K!Dispatch, K!NextBatch,
     K!SendAction, K!DispatchEnds, K!Return, K!own, At, stage, Idling, scenarioVars

\* Every step keeps the types of the scenarios.
LEMMA ScenarioTypeStep ==
    ASSUME CourseInv, ChannelInv, KScenarioTypeOK, Step
    PROVE  KScenarioTypeOK'
<1> USE DEF KScenarioTypeOK
<1>1. Len(Scenarios) \in Nat
  BY ScenarioFacts
<1>2. CASE ~KStep /\ ~FaultRun
  <2>1. UNCHANGED scenarioVars
    BY <1>2, ScenariosAreLeft
  <2> QED
    BY <1>2, <2>1, ScenariosAreLeftAt DEF scenarioVars, Late, Idling, InScenario
<1>3. CASE FaultRun
  <2>1. UNCHANGED <<s, scenarios, faulted, pc, where>> /\ up' \in [K!Scenario -> BOOLEAN]
    BY <1>3, FaultRunLeaves
  <2> QED
    BY <2>1
<1>4. CASE KStep /\ K!Verify
  BY <1>1, <1>4, VerificationLeaves DEF InScenario, Idling, Late
<1>5. CASE KStep /\ ~Enacts /\ ~K!Verify
  BY <1>5, ControlOutside DEF scenarioVars, InScenario, Idling, Late
<1>6. CASE KStep /\ Enacts
  <2>1. /\ where = "control_plane" /\ where' = where /\ pc \in InScenario /\ pc' \in InScenario
        /\ s \in 1..Len(Scenarios) /\ K!Current \in K!Scenario
    BY <1>6, ScenariosRest, CurrentIsOne DEF KStep, ConfigureControlPlane, At, stage
  <2>2. CASE Ends
    <3>1. /\ s' = s + 1 /\ pc' = "scenario" /\ UNCHANGED <<up, faulted>>
          /\ DOMAIN scenarios' = DOMAIN scenarios
      BY <2>2, ScenarioEnds
    <3> QED
      BY <1>1, <2>1, <3>1 DEF InScenario, Idling, Late
  <2>3. CASE ~Ends
    BY <1>1, <1>6, <2>1, <2>3, ScenarioGoesOn DEF InScenario, Idling, Late
  <2> QED
    BY <2>2, <2>3
<1> QED
  BY <1>2, <1>3, <1>4, <1>5, <1>6

\* Whatever was ordered down is ordered up first.
LEMMA RestoreStep ==
    ASSUME CourseInv, ChannelInv, KScenarioTypeOK, RestoreInv, Step
    PROVE  RestoreInv'
<1> USE DEF RestoreInv
<1>1. faulted # {} => where \in Late
  OBVIOUS
<1>2. CASE ~KStep /\ ~FaultRun
  <2>1. UNCHANGED scenarioVars /\ (K!Current)' = K!Current
    BY <1>2, ScenariosAreLeft DEF scenarioVars, K!Current
  <2>2. faulted \ restored # {} => where = "control_plane" /\ pc' = pc
    <3> HAVE faulted \ restored # {}
    <3>1. where \in Late /\ pc \in {"during", "restore"}
      OBVIOUS
    <3>2. where = "control_plane"
      BY <3>1 DEF CourseInv, Late
    <3> QED
      BY <1>2, <3>2, ScenariosAreLeftAt
  <2>3. faulted # {} => where' \in Late
    BY <1>2, ScenariosAreLeftAt DEF Late
  <2>4. where' = "control_plane" /\ pc' \in {"during", "restore"} => where = "control_plane" /\ pc' = pc
    BY <1>2, ScenariosAreLeftAt DEF Late
  <2> QED
    BY <2>1, <2>2, <2>3, <2>4 DEF scenarioVars
<1>3. CASE FaultRun
  <2>1. UNCHANGED <<s, faulted, restored, pc, where>> /\ (K!Current)' = K!Current
    BY <1>3, FaultRunLeaves DEF K!Current
  <2> QED
    BY <2>1
<1>4. CASE KStep /\ K!Verify
  <2>1. UNCHANGED <<faulted, restored, where>> /\ pc \notin {"during", "restore"}
        /\ pc' \notin {"during", "restore"}
    BY <1>4, VerificationLeaves
  <2> QED
    BY <2>1
<1>5. CASE KStep /\ ~Enacts /\ ~K!Verify
  <2>1. UNCHANGED scenarioVars /\ pc \notin {"during", "restore"} /\ pc' \notin {"during", "restore"}
        /\ UNCHANGED where
    BY <1>5, ControlOutside DEF Idling
  <2>2. UNCHANGED <<s, faulted, restored>> /\ (K!Current)' = K!Current
    BY <2>1 DEF scenarioVars, K!Current
  <2> QED
    BY <2>1, <2>2
<1>6. CASE KStep /\ Enacts
  <2>1. /\ where = "control_plane" /\ where' = where /\ where \in Late
        /\ s \in 1..Len(Scenarios) /\ s <= Len(Scenarios) /\ K!Current \in K!Scenario
    BY <1>6, ScenariosRest, CurrentIsOne DEF KStep, ConfigureControlPlane, At, stage, Late
  <2>2. CASE Ends
    <3>1. /\ UNCHANGED <<faulted, restored>> /\ pc \notin {"during", "restore"}
          /\ pc' \notin {"during", "restore"}
      BY <2>2, ScenarioEnds
    <3> QED
      BY <2>1, <3>1
  <2>3. CASE ~Ends
    <3>1. s' = s /\ (K!Current)' = K!Current
      BY <1>6, <2>3, ScenarioGoesOn DEF K!Current
    <3> QED
      BY <1>6, <2>1, <2>3, <3>1, ScenarioGoesOn
  <2> QED
    BY <2>2, <2>3
<1> QED
  BY <1>2, <1>3, <1>4, <1>5, <1>6

\* A shutdown in the channel.
LEMMA ShutdownsDiffer ==
    ASSUME NEW x
    PROVE  /\ \A m \in Payloads \cup Actions : m # Shutdown(x)
           /\ \A m \in [kind : {"restore"}, of : K!Scenario] : m # Shutdown(x)
           /\ \A y : Shutdown(x) = Shutdown(y) => x = y
           /\ Shutdown(x).kind = "shutdown" /\ Shutdown(x).of = x
<1>1. Shutdown(x).kind = "shutdown" /\ "kind" \in DOMAIN Shutdown(x) /\ Shutdown(x).of = x
  BY DEF Shutdown
<1>2. \A m \in Payloads \cup Actions : m # Shutdown(x)
  BY <1>1, MessagesDiffer
<1>3. \A m \in [kind : {"restore"}, of : K!Scenario] : m # Shutdown(x)
  BY <1>1
<1>4. \A y : Shutdown(x) = Shutdown(y) => x = y
  BY DEF Shutdown
<1> QED
  BY <1>1, <1>2, <1>3, <1>4

\* Whether a shutdown is on its way when a message is put.
LEMMA ClearWhenAppended ==
    ASSUME NEW q \in Seq(Anything), NEW m \in Anything, NEW x
    PROVE  /\ m # Shutdown(x) => /\ Clear(x, q) => Clear(x, Append(q, m))
                                 /\ Sole(x, q) => Sole(x, Append(q, m))
                                 /\ ~Clear(x, Append(q, m)) => ~Clear(x, q)
           /\ Clear(x, q) => Sole(x, Append(q, m))
<1>1. /\ Len(q) \in Nat /\ Len(Append(q, m)) = Len(q) + 1 /\ Append(q, m)[Len(q) + 1] = m
      /\ \A j \in 1..Len(q) : Append(q, m)[j] = q[j]
  BY Appended
<1> DEFINE r == Append(q, m)
<1> HIDE DEF r
<1>2. /\ Len(q) \in Nat /\ Len(r) = Len(q) + 1 /\ r[Len(q) + 1] = m
      /\ \A j \in 1..Len(q) : r[j] = q[j]
  BY <1>1 DEF r
<1>3. \A j \in 1..Len(r) : j \in 1..Len(q) \/ j = Len(q) + 1
  BY <1>2
<1>4. (m # Shutdown(x) /\ Clear(x, q)) => Clear(x, r)
  BY <1>2, <1>3 DEF Clear
<1>5. (m # Shutdown(x) /\ Sole(x, q)) => Sole(x, r)
  BY <1>2, <1>3 DEF Sole
<1>6. Clear(x, q) => Sole(x, r)
  BY <1>2, <1>3 DEF Clear, Sole
<1> QED
  BY <1>4, <1>5, <1>6 DEF r

\* Whether a shutdown is on its way when a message is taken.
LEMMA ClearWhenTaken ==
    ASSUME NEW q \in Seq(Anything), q # <<>>, NEW x
    PROVE  /\ Clear(x, q) => Clear(x, Tail(q)) /\ Head(q) # Shutdown(x)
           /\ Sole(x, q) => Sole(x, Tail(q))
           /\ Sole(x, q) /\ Head(q) = Shutdown(x) => Clear(x, Tail(q))
<1> DEFINE r == Tail(q)
<1>1. /\ Len(q) \in Nat \ {0} /\ Len(r) = Len(q) - 1 /\ Head(q) = q[1]
      /\ \A j \in 1..Len(r) : r[j] = q[j + 1]
  BY Taken
<1> HIDE DEF r
<1>2. /\ 1 \in 1..Len(q)
      /\ \A j \in 1..Len(r) : j \in Nat /\ j + 1 \in 1..Len(q) /\ j + 1 # 1
  BY <1>1
<1>3. Clear(x, q) => Clear(x, r) /\ Head(q) # Shutdown(x)
  BY <1>1, <1>2 DEF Clear
<1>4. Sole(x, q) => Sole(x, r)
  <2> SUFFICES ASSUME Sole(x, q), NEW j \in 1..Len(r), NEW l \in 1..Len(r),
                      r[j] = Shutdown(x), r[l] = Shutdown(x)
               PROVE  l = j
    BY DEF Sole
  <2>1. l + 1 = j + 1
    BY <1>1, <1>2 DEF Sole
  <2>2. l \in Nat /\ j \in Nat
    BY <1>2
  <2> QED
    BY <2>1, <2>2
<1>5. Sole(x, q) /\ Head(q) = Shutdown(x) => Clear(x, r)
  BY <1>1, <1>2 DEF Clear, Sole
<1> QED
  BY <1>3, <1>4, <1>5 DEF r

\* Only an injection adds a shutdown.
LEMMA ShutdownsAreInjected ==
    ASSUME CourseInv, CTypeOK, VTypeOK, KTypeOK, KScenarioTypeOK, ReconcileInv, ChannelInv, Step,
           ~(KStep /\ K!Inject), NEW x
    PROVE  /\ Clear(x, channel) => Clear(x, channel')
           /\ Sole(x, channel) => Sole(x, channel')
           /\ ~Clear(x, channel') => ~Clear(x, channel)
<1> USE DEF ChannelInv, Anything
<1>1. CASE UNCHANGED channel
  BY <1>1 DEF Clear, Sole
<1>2. ASSUME NEW m \in Payloads \cup Actions \cup [kind : {"restore"}, of : K!Scenario],
             channel' = Append(channel, m)
      PROVE  /\ Clear(x, channel) => Clear(x, channel')
             /\ Sole(x, channel) => Sole(x, channel')
             /\ ~Clear(x, channel') => ~Clear(x, channel)
  <2>1. m \in Anything
    BY <1>2 DEF Faults
  <2>2. m # Shutdown(x)
    BY <1>2, ShutdownsDiffer
  <2> QED
    BY <1>2, <2>1, <2>2, ClearWhenAppended
<1>3. CASE channel # <<>> /\ channel' = Tail(channel)
  <2>1. channel \in Seq(Anything)
    OBVIOUS
  <2>2. /\ Clear(x, channel) => Clear(x, Tail(channel))
        /\ Sole(x, channel) => Sole(x, Tail(channel))
    BY <1>3, <2>1, ClearWhenTaken
  <2> QED
    BY <1>3, <2>2
<1>4. CASE VStep
  <2>1. call \subseteq AV
    BY <1>4, ScopeFacts DEF VTypeOK, VStep, BindPhones, EndSignal, At, Late
  <2>2. \A B \in SUBSET call : Action(B) \in Actions
    BY <2>1 DEF Action, Actions
  <2> QED
    BY <1>1, <1>2, <1>4, <2>2, PhonesSend
<1>5. CASE KStep
  <2>1. where = "control_plane"
    BY <1>5 DEF KStep, ConfigureControlPlane, At
  <2>2. call \subseteq AK
    BY <2>1, ScopeFacts DEF KTypeOK, Late
  <2>3. \A a \in call : Action({a}) \in Actions
    BY <2>2 DEF Action, Actions
  <2>4. K!Restore => [kind |-> "restore", of |-> K!Current] \in [kind : {"restore"}, of : K!Scenario]
    BY <2>1, CurrentIsOne DEF K!Restore, K!InScenario, InScenario
  <2> QED
    BY <1>1, <1>2, <1>5, <2>3, <2>4, ControlSends
<1> QED
  BY <1>1, <1>2, <1>3, <1>4, <1>5, OthersAreSilent, ConfigurationSends, RunsTake DEF Step

\* A link with no shutdown on its way stays up.
LEMMA FaultRuns ==
    ASSUME ChannelInv, KScenarioTypeOK, LinkInv, FaultRun, NEW x \in K!Scenario
    PROVE  /\ up[x] /\ Clear(x, channel) => up'[x] /\ Clear(x, channel')
           /\ Sole(x, channel') /\ (~Clear(x, channel') => up'[x])
<1> DEFINE h == Head(channel)
<1>1. /\ channel # <<>> /\ channel' = Tail(channel) /\ channel \in Seq(Anything)
      /\ Sole(x, channel) /\ (~Clear(x, channel) => up[x]) /\ up \in [K!Scenario -> BOOLEAN]
  BY RunsTake DEF ChannelInv, Anything, LinkInv, KScenarioTypeOK
<1>2. PICK ok \in BOOLEAN : up' = [up EXCEPT ![h.of] = IF ok THEN h.kind = "restore" ELSE @]
  BY FaultRunLeaves
<1>3. h \in Faults
  BY FaultRunLeaves
<1>4. /\ Clear(x, channel) => Clear(x, channel') /\ h # Shutdown(x)
      /\ Sole(x, channel')
      /\ h = Shutdown(x) => Clear(x, channel')
  BY <1>1, ClearWhenTaken
<1>5. h # Shutdown(x) /\ h.of = x => h.kind = "restore"
  BY <1>3 DEF Faults, Shutdown
<1> HIDE DEF h
<1>6. h # Shutdown(x) /\ up[x] => up'[x]
  <2> HAVE h # Shutdown(x) /\ up[x]
  <2>1. CASE h.of = x
    BY <1>1, <1>2, <1>5, <2>1
  <2>2. CASE h.of # x
    BY <1>1, <1>2, <2>2
  <2> QED
    BY <2>1, <2>2
<1>7. ~Clear(x, channel') => ~Clear(x, channel) /\ h # Shutdown(x)
  BY <1>4
<1> QED
  BY <1>1, <1>4, <1>6, <1>7

\* A scenario that has not begun had not begun before.
LEMMA UnbegunBefore ==
    ASSUME CourseInv, ChannelInv, KScenarioTypeOK, Step, NEW k \in 1..Len(Scenarios), Unbegun(k)'
    PROVE  Unbegun(k) /\ (KStep /\ K!Inject => k # s)
<1> USE DEF Unbegun
<1>1. k \in Nat /\ k >= 1 /\ Len(Scenarios) \in Nat /\ s \in Nat
  BY ScenarioFacts DEF KScenarioTypeOK
<1>2. CASE ~KStep /\ ~FaultRun
  <2>1. s' = s
    BY <1>2, ScenariosAreLeft DEF scenarioVars
  <2> QED
    BY <1>2, <2>1, ScenariosAreLeftAt DEF Late
<1>3. CASE FaultRun
  <2>1. UNCHANGED <<s, pc, where>>
    BY <1>3, FaultRunLeaves
  <2>2. KStep /\ K!Inject => FALSE
    BY <2>1 DEF K!Inject, K!InScenario
  <2> QED
    BY <2>1, <2>2
<1>4. CASE KStep /\ K!Verify
  <2>1. s' = 1 /\ pc \in {"observed", "behavior"} /\ s \in {0, 1}
    BY <1>4, VerificationLeaves DEF KScenarioTypeOK
  <2>2. ~K!Inject
    BY <2>1 DEF K!Inject, K!InScenario
  <2>3. k > s \/ k = s
    BY <1>1, <2>1
  <2> QED
    BY <2>1, <2>2, <2>3
<1>5. CASE KStep /\ ~Enacts /\ ~K!Verify
  <2>1. s' = s /\ where' = where /\ pc \notin {"during", "restore", "after", "judge"}
    BY <1>5, ControlOutside DEF scenarioVars
  <2> QED
    BY <1>5, <2>1 DEF Enacts
<1>6. CASE KStep /\ Enacts
  <2>1. where = "control_plane" /\ where' = where /\ where \in Late
    BY <1>6 DEF KStep, ConfigureControlPlane, At, stage, Late
  <2>2. CASE Ends
    <3>1. s' = s + 1 /\ pc' = "scenario"
      BY <2>2, ScenarioEnds
    <3>2. k > s
      BY <1>1, <3>1
    <3> QED
      BY <1>1, <3>2
  <2>3. CASE ~Ends
    <3>1. s' = s /\ ~(K!Inject /\ pc' \notin {"during", "restore"})
      BY <1>6, <2>3, ScenarioGoesOn DEF K!Inject
    <3>2. pc \in {"during", "restore", "after"} => pc' \in {"restore", "after", "judge"}
      BY <1>6, <2>3, ScenarioGoesOn
    <3>3. pc # "judge"
      BY <1>6, <2>3, ScenarioGoesOn
    <3> QED
      BY <1>1, <2>1, <3>1, <3>2, <3>3
  <2> QED
    BY <2>2, <2>3
<1> QED
  BY <1>2, <1>3, <1>4, <1>5, <1>6

\* The steps that leave the links alone.
LEMMA LinksAreLeft ==
    ASSUME CourseInv, Step, ~FaultRun
    PROVE  up' = up
<1>1. CASE KStep /\ Enacts
  BY <1>1, ScenarioEnds, ScenarioGoesOn
<1>2. CASE KStep /\ K!Verify
  BY <1>2, VerificationLeaves
<1>3. CASE ~(KStep /\ Enacts) /\ ~(KStep /\ K!Verify)
  BY <1>3, ScenariosAreLeft DEF scenarioVars
<1> QED
  BY <1>1, <1>2, <1>3

\* A link is up while its shutdown is on its way, at every step.
LEMMA LinkStep ==
    ASSUME CourseInv, CTypeOK, VTypeOK, KTypeOK, KScenarioTypeOK, ReconcileInv, ChannelInv, LinkInv,
           Step
    PROVE  LinkInv'
<1>1. ASSUME NEW k \in 1..Len(Scenarios), Unbegun(k)'
      PROVE  up'[Scenarios[k]] /\ Clear(Scenarios[k], channel')
  <2>1. /\ Unbegun(k) /\ (KStep /\ K!Inject => k # s)
        /\ up[Scenarios[k]] /\ Clear(Scenarios[k], channel) /\ Scenarios[k] \in K!Scenario
    BY <1>1, UnbegunBefore, ScenarioFacts DEF LinkInv
  <2>2. CASE FaultRun
    BY <2>1, <2>2, FaultRuns
  <2>3. CASE ~FaultRun
    <3>1. up' = up
      BY <2>3, LinksAreLeft
    <3>2. CASE KStep /\ K!Inject
      <4>1. where = "control_plane" /\ pc \in InScenario /\ s <= Len(Scenarios)
        BY <3>2 DEF KStep, ConfigureControlPlane, At, K!Inject, K!InScenario, InScenario
      <4>2. s \in 1..Len(Scenarios) /\ K!Current = Scenarios[s] /\ K!Current \in K!Scenario
        BY <4>1, CurrentIsOne
      <4>3. Scenarios[k] # K!Current
        BY <2>1, <3>2, <4>2, ScenarioFacts
      <4>4. Shutdown(K!Current) \in Anything /\ Shutdown(K!Current) # Shutdown(Scenarios[k])
        BY <4>2, <4>3, ShutdownsDiffer DEF Anything, Faults, Shutdown
      <4>5. UNCHANGED channel \/ channel' = Append(channel, Shutdown(K!Current))
        <5>1. pc # "call" /\ ~K!Restore
          BY <3>2 DEF K!Inject, K!Restore, K!InScenario
        <5> QED
          BY <3>2, <5>1, ControlSends
      <4>6. Clear(Scenarios[k], channel')
        <5>1. channel \in Seq(Anything)
          BY DEF ChannelInv, Anything
        <5> QED
          BY <2>1, <4>4, <4>5, <5>1, ClearWhenAppended
      <4> QED
        BY <2>1, <3>1, <4>6
    <3>3. CASE ~(KStep /\ K!Inject)
      BY <2>1, <3>1, <3>3, ShutdownsAreInjected
    <3> QED
      BY <3>2, <3>3
  <2> QED
    BY <2>2, <2>3
<1>2. ASSUME NEW x \in K!Scenario
      PROVE  Sole(x, channel') /\ (~Clear(x, channel') => up'[x])
  <2>1. Sole(x, channel) /\ (~Clear(x, channel) => up[x])
    BY DEF LinkInv
  <2>2. CASE FaultRun
    BY <2>2, FaultRuns
  <2>3. CASE ~FaultRun
    <3>1. up' = up
      BY <2>3, LinksAreLeft
    <3>2. CASE KStep /\ K!Inject
      <4>1. where = "control_plane" /\ pc \in InScenario /\ s <= Len(Scenarios) /\ pc = "inject"
        BY <3>2 DEF KStep, ConfigureControlPlane, At, K!Inject, K!InScenario, InScenario
      <4>2. s \in 1..Len(Scenarios) /\ K!Current = Scenarios[s] /\ K!Current \in K!Scenario
        BY <4>1, CurrentIsOne
      <4>3. up[K!Current] /\ Clear(K!Current, channel)
        <5>1. Unbegun(s)
          BY <4>1 DEF Unbegun
        <5> QED
          BY <4>2, <5>1 DEF LinkInv
      <4>4. Shutdown(K!Current) \in Anything
        BY <4>2 DEF Anything, Faults, Shutdown
      <4>5. UNCHANGED channel \/ channel' = Append(channel, Shutdown(K!Current))
        <5>1. pc # "call" /\ ~K!Restore
          BY <3>2 DEF K!Inject, K!Restore, K!InScenario
        <5> QED
          BY <3>2, <5>1, ControlSends
      <4>6. channel \in Seq(Anything)
        BY DEF ChannelInv, Anything
      <4>7. CASE x = K!Current
        BY <2>1, <3>1, <4>3, <4>4, <4>5, <4>6, <4>7, ClearWhenAppended
      <4>8. CASE x # K!Current
        <5>1. Shutdown(K!Current) # Shutdown(x)
          BY <4>8, ShutdownsDiffer
        <5>2. CASE UNCHANGED channel
          BY <2>1, <3>1, <5>2
        <5>3. CASE channel' = Append(channel, Shutdown(K!Current))
          <6>1. /\ Sole(x, channel) => Sole(x, Append(channel, Shutdown(K!Current)))
                /\ ~Clear(x, Append(channel, Shutdown(K!Current))) => ~Clear(x, channel)
            BY <4>4, <4>6, <5>1, ClearWhenAppended
          <6> QED
            BY <2>1, <3>1, <5>3, <6>1
        <5> QED
          BY <4>5, <5>2, <5>3
      <4> QED
        BY <4>7, <4>8
    <3>3. CASE ~(KStep /\ K!Inject)
      BY <2>1, <3>1, <3>3, ShutdownsAreInjected
    <3> QED
      BY <3>2, <3>3
  <2> QED
    BY <2>2, <2>3
<1> QED
  BY <1>1, <1>2 DEF LinkInv

\* A reading of a link and of what it carries.
LEMMA RunIsTyped ==
    /\ DOMAIN K!NoRun = {"before", "injection", "during", "restore", "after", "raised"}
    /\ K!NoRun.during = "none" /\ K!NoRun.after = "none"
    /\ \A x : \A v \in K!Effect(x, TRUE) : v = "verified" => up[x] # TRUE
    /\ \A x : \A v \in K!Effect(x, FALSE) : v = "verified" => up[x] # FALSE
  BY DEF K!NoRun, K!Effect

\* The readings of a scenario say what the link was.
LEMMA ScenarioReads ==
    ASSUME CourseInv, CTypeOK, VTypeOK, KTypeOK, KScenarioTypeOK, ReconcileInv, ChannelInv, LinkInv,
           RunInv, KStep, Enacts, ~Ends
    PROVE  RunInv'
<1>1. /\ where = "control_plane" /\ where' = where /\ where \in Late /\ pc \in InScenario
      /\ s' = s /\ up' = up /\ (K!Current)' = K!Current /\ Step
  BY ScenarioGoesOn, ScenariosRest DEF KStep, ConfigureControlPlane, At, stage, Late, K!Current, Step
<1>2. /\ K!Current \in K!Scenario /\ up[K!Current] \in BOOLEAN
  BY <1>1, CurrentIsOne, ScenariosRest DEF KScenarioTypeOK
<1>3. ~K!Inject => (Clear(K!Current, channel) => Clear(K!Current, channel'))
  BY <1>1, ShutdownsAreInjected
<1>4. /\ DOMAIN run = {"before", "injection", "during", "restore", "after", "raised"}
      /\ pc \in {"scenario", "inject", "during"} => run.during # "verified"
      /\ pc \in InScenario \ {"judge"} => run.after # "verified"
      /\ pc \in InScenario /\ run.during = "verified" =>
            Clear(K!Current, channel) /\ (run.after = "verified" => up[K!Current])
  BY <1>1, RunIsTyped DEF RunInv
<1>5. CASE K!Baseline /\ pc = "scenario" /\ pc' = "inject"
  <2>1. \E v : run' = [run EXCEPT !.before = v]
    BY <1>5 DEF K!Baseline, K!Record
  <2>2. DOMAIN run' = DOMAIN run /\ run'.during = run.during /\ run'.after = run.after
    BY <1>4, <2>1
  <2> QED
    BY <1>1, <1>4, <1>5, <2>2, RunIsTyped DEF RunInv, InScenario, Idling
<1>6. CASE K!Inject /\ pc = "inject" /\ pc' \in {"during", "restore"}
  <2>1. \E v, w : w # "verified" /\ run' = [run EXCEPT !.injection = v, !.during = w]
    BY <1>6 DEF K!Inject
  <2>2. DOMAIN run' = DOMAIN run /\ run'.during # "verified" /\ run'.after = run.after
    BY <1>4, <2>1
  <2> QED
    BY <1>1, <1>4, <1>6, <2>2, RunIsTyped DEF RunInv, InScenario, Idling
<1>7. CASE K!During /\ pc = "during" /\ pc' = "restore"
  <2>1. /\ DOMAIN run' = DOMAIN run /\ run'.after = run.after
        /\ run'.during = "verified" => ~up[K!Current]
    <3>1. CASE run' = [run EXCEPT !.raised = TRUE]
      BY <1>4, <1>7, <3>1
    <3>2. CASE \E effect \in K!Effect(K!Current, TRUE), v \in K!Probe(K!Current, K!Current \in Survives) :
                  run' = [run EXCEPT !.during = IF effect = "verified" THEN v ELSE "blocked"]
      <4>1. PICK effect \in K!Effect(K!Current, TRUE), v \in K!Probe(K!Current, K!Current \in Survives) :
                  run' = [run EXCEPT !.during = IF effect = "verified" THEN v ELSE "blocked"]
        BY <3>2
      <4>2. effect = "verified" => ~up[K!Current]
        BY <1>2, RunIsTyped
      <4> QED
        BY <1>4, <4>1, <4>2
    <3> QED
      BY <1>7, <3>1, <3>2 DEF K!During
  <2>2. run'.during = "verified" => Clear(K!Current, channel')
    BY <1>2, <1>3, <1>7, <2>1 DEF LinkInv, K!During, K!Inject, K!InScenario
  <2>3. run'.after # "verified"
    BY <1>4, <1>7, <2>1 DEF InScenario
  <2> QED
    BY <1>1, <1>4, <1>7, <2>1, <2>2, <2>3, RunIsTyped DEF RunInv, InScenario, Idling
<1>8. CASE K!Restore /\ pc = "restore" /\ pc' = "after"
  <2>1. \E v : run' = [run EXCEPT !.restore = v]
    BY <1>8 DEF K!Restore
  <2>2. DOMAIN run' = DOMAIN run /\ run'.during = run.during /\ run'.after = run.after
    BY <1>4, <2>1
  <2>3. run'.after # "verified" /\ (run'.during = "verified" => Clear(K!Current, channel'))
    BY <1>3, <1>4, <1>8, <2>2 DEF InScenario, K!Inject, K!InScenario
  <2> QED
    BY <1>1, <1>4, <1>8, <2>2, <2>3, RunIsTyped DEF RunInv, InScenario, Idling
<1>9. CASE K!After /\ pc = "after" /\ pc' = "judge"
  <2>1. /\ DOMAIN run' = DOMAIN run /\ run'.during = run.during
        /\ run'.after = "verified" => up[K!Current]
    <3>1. CASE run' = run
      BY <1>4, <1>9, <3>1 DEF InScenario
    <3>2. CASE \E effect \in K!Effect(K!Current, FALSE), v \in K!Probe(K!Current, TRUE) :
                  run' = [run EXCEPT !.after = IF effect = "verified" THEN v ELSE "blocked"]
      <4>1. PICK effect \in K!Effect(K!Current, FALSE), v \in K!Probe(K!Current, TRUE) :
                  run' = [run EXCEPT !.after = IF effect = "verified" THEN v ELSE "blocked"]
        BY <3>2
      <4>2. effect = "verified" => up[K!Current]
        BY <1>2, RunIsTyped
      <4> QED
        BY <1>4, <4>1, <4>2
    <3> QED
      BY <1>9, <3>1, <3>2 DEF K!After
  <2>2. run'.during = "verified" => Clear(K!Current, channel')
    BY <1>1, <1>3, <1>4, <1>9, <2>1 DEF K!Inject, K!InScenario
  <2> QED
    BY <1>1, <1>4, <1>9, <2>1, <2>2, RunIsTyped DEF RunInv, InScenario, Idling
<1> QED
  BY <1>5, <1>6, <1>7, <1>8, <1>9, ScenarioGoesOn

\* Every step of the stage keeps what is known of the current scenario.
LEMMA RunStep ==
    ASSUME CourseInv, CTypeOK, VTypeOK, KTypeOK, KScenarioTypeOK, ReconcileInv, ChannelInv, LinkInv,
           RunInv, Step
    PROVE  RunInv'
<1>1. CASE ~KStep /\ ~FaultRun
  <2>1. UNCHANGED <<run, s, up>> /\ (K!Current)' = K!Current
    BY <1>1, ScenariosAreLeft DEF scenarioVars, K!Current
  <2>2. Clear(K!Current, channel) => Clear(K!Current, channel')
    BY <1>1, ShutdownsAreInjected
  <2> QED
    BY <1>1, <2>1, <2>2, ScenariosAreLeftAt DEF RunInv, Late, Idling, InScenario
<1>2. CASE FaultRun
  <2>1. UNCHANGED <<run, s, pc, where>> /\ (K!Current)' = K!Current
    BY <1>2, FaultRunLeaves DEF K!Current
  <2>2. ASSUME where = "control_plane", pc \in InScenario, run.during = "verified"
        PROVE  Clear(K!Current, channel') /\ (run.after = "verified" => up'[K!Current])
    <3>1. pc # "scenario"
      BY <2>2 DEF RunInv
    <3>2. K!Current \in K!Scenario
      BY <2>2, <3>1, CurrentIsOne DEF KScenarioTypeOK
    <3>3. Clear(K!Current, channel) /\ (run.after = "verified" => up[K!Current])
      BY <2>2 DEF RunInv
    <3>4. Clear(K!Current, channel')
      <4>1. channel # <<>> /\ channel' = Tail(channel) /\ channel \in Seq(Anything)
        BY <1>2, RunsTake DEF ChannelInv, Anything
      <4> QED
        BY <3>3, <4>1, ClearWhenTaken
    <3> QED
      BY <1>2, <3>2, <3>3, <3>4, FaultRuns
  <2> QED
    BY <2>1, <2>2 DEF RunInv
<1>3. CASE KStep /\ K!Verify
  <2>1. /\ UNCHANGED <<run, where>> /\ pc \in {"observed", "behavior"} /\ where = "control_plane"
        /\ pc' \in {"behavior", "scenario"} /\ run = K!NoRun
    BY <1>3, VerificationLeaves DEF RunInv
  <2> QED
    BY <2>1, RunIsTyped DEF RunInv
<1>4. CASE KStep /\ ~Enacts /\ ~K!Verify
  <2>1. /\ where = "control_plane" /\ UNCHANGED <<where, run>>
        /\ \/ pc \in {"preflight", "dispatch", "call"}
              /\ pc' \in Idling \cup {"dispatch", "call", "observed"}
           \/ pc' = "returned"
    BY <1>4, ControlOutside DEF scenarioVars
  <2>2. pc \in {"preflight", "dispatch", "call"} => run = K!NoRun
    BY DEF RunInv, Idling
  <2> QED
    BY <2>1, <2>2, RunIsTyped DEF RunInv, InScenario, Idling, Late
<1>5. CASE KStep /\ Enacts /\ Ends
  <2>1. run' = K!NoRun /\ pc' = "scenario"
    BY <1>5, ScenarioEnds
  <2> QED
    BY <2>1, RunIsTyped DEF RunInv
<1>6. CASE KStep /\ Enacts /\ ~Ends
  BY <1>6, ScenarioReads
<1> QED
  BY <1>1, <1>2, <1>3, <1>4, <1>5, <1>6

\* Only what was seen down and seen up again is told to be verified.
LEMMA ScenarioTold ==
    ASSUME Ends
    PROVE  \E r : /\ scenarios' = [scenarios EXCEPT ![K!Current] = r]
                  /\ r.status = "verified" =>
                        pc = "judge" /\ run.during = "verified" /\ run.after = "verified"
<1>1. ASSUME NEW v, v # "verified"
      PROVE  /\ [K!NoResult EXCEPT !.status = v].status # "verified"
             /\ \A c, w : /\ [K!NoResult EXCEPT !.status = v, !.code = c].status # "verified"
                          /\ [K!NoResult EXCEPT !.status = v, !.code = c, !.restore = w].status # "verified"
                          /\ [K!NoResult EXCEPT !.status = v, !.code = c, !.injection = w].status # "verified"
  BY <1>1 DEF K!NoResult
<1>2. CASE K!PassScenario
  <2>1. PICK v \in {"blocked", "unobservable"} :
           K!Record(K!Current, [K!NoResult EXCEPT !.status = v])
    BY <1>2 DEF K!PassScenario
  <2>2. [K!NoResult EXCEPT !.status = v].status # "verified"
    BY <1>1
  <2> QED
    BY <2>1, <2>2 DEF K!Record
<1>3. CASE K!RefuseScenario
  <2>1. PICK r \in {[K!NoResult EXCEPT !.status = "failed", !.code = "cleanup", !.restore = "unknown"],
                    [K!NoResult EXCEPT !.status = "failed", !.code = "other", !.injection = "failed"]} :
           K!Record(K!Current, r)
    BY <1>3 DEF K!RefuseScenario
  <2>2. r.status # "verified"
    BY <2>1 DEF K!NoResult
  <2> QED
    BY <2>1, <2>2 DEF K!Record
<1>4. CASE K!Baseline /\ pc' = "scenario"
  <2>1. PICK v \in K!Probe(K!Current, TRUE) :
           IF v = "verified"
           THEN run' = [run EXCEPT !.before = v] /\ pc' = "inject" /\ UNCHANGED <<scenarios, s>>
           ELSE K!Record(K!Current, [K!NoResult EXCEPT !.status = "failed", !.code = "other"])
    BY <1>4 DEF K!Baseline
  <2>2. K!Record(K!Current, [K!NoResult EXCEPT !.status = "failed", !.code = "other"])
    BY <1>4, <2>1
  <2>3. [K!NoResult EXCEPT !.status = "failed", !.code = "other"].status # "verified"
    BY <1>1
  <2> QED
    BY <2>2, <2>3 DEF K!Record
<1>5. CASE K!Judge
  <2>1. K!Judgement.status = "verified" => run.during = "verified" /\ run.after = "verified"
    <3>1. CASE run.raised
      BY <3>1 DEF K!Judgement, K!NoResult
    <3>2. CASE ~run.raised
      BY <3>2 DEF K!Judgement
    <3> QED
      BY <3>1, <3>2
  <2> QED
    BY <1>5, <2>1 DEF K!Judge, K!Record, K!InScenario
<1> QED
  BY <1>2, <1>3, <1>4, <1>5 DEF Ends

\* A scenario that was verified has left its link up, at every step.
LEMMA ScenarioStep ==
    ASSUME CourseInv, CTypeOK, VTypeOK, KTypeOK, KScenarioTypeOK, ReconcileInv, ChannelInv, LinkInv,
           RunInv, ScenarioInv, Step
    PROVE  ScenarioInv'
<1>1. Len(Scenarios) \in Nat /\ s \in Nat
  BY ScenarioFacts DEF KScenarioTypeOK
<1> SUFFICES ASSUME NEW x \in K!Scenario, scenarios'[x].status = "verified"
             PROVE  /\ up'[x] /\ Clear(x, channel')
                    /\ \A k \in 1..Len(Scenarios) : Scenarios[k] = x => k < s'
  BY DEF ScenarioInv
<1>2. CASE scenarios'[x] = scenarios[x]
  <2>1. up[x] /\ Clear(x, channel) /\ \A k \in 1..Len(Scenarios) : Scenarios[k] = x => k < s
    BY <1>2 DEF ScenarioInv
  <2>2. CASE FaultRun
    BY <2>1, <2>2, FaultRuns, FaultRunLeaves
  <2>3. CASE ~FaultRun
    <3>1. up'[x]
      BY <2>1, <2>3, LinksAreLeft
    <3>2. ~(KStep /\ K!Inject /\ K!Current = x)
      <4> SUFFICES ASSUME KStep, K!Inject, K!Current = x
                   PROVE  FALSE
        OBVIOUS
      <4>1. s \in 1..Len(Scenarios) /\ x = Scenarios[s]
        BY CurrentIsOne DEF KStep, ConfigureControlPlane, At, K!Inject, K!InScenario, InScenario
      <4> QED
        BY <1>1, <2>1, <4>1
    <3>3. Clear(x, channel')
      <4>1. CASE KStep /\ K!Inject
        <5>1. K!Current \in K!Scenario
          BY <4>1, CurrentIsOne DEF KStep, ConfigureControlPlane, At, K!Inject, K!InScenario, InScenario
        <5>2. Shutdown(K!Current) \in Anything /\ Shutdown(K!Current) # Shutdown(x)
          BY <3>2, <4>1, <5>1, ShutdownsDiffer DEF Anything, Faults, Shutdown
        <5>3. UNCHANGED channel \/ channel' = Append(channel, Shutdown(K!Current))
          <6>1. pc # "call" /\ ~K!Restore
            BY <4>1 DEF K!Inject, K!Restore, K!InScenario
          <6> QED
            BY <4>1, <6>1, ControlSends
        <5>4. channel \in Seq(Anything)
          BY DEF ChannelInv, Anything
        <5> QED
          BY <2>1, <5>2, <5>3, <5>4, ClearWhenAppended
      <4>2. CASE ~(KStep /\ K!Inject)
        BY <2>1, <4>2, ShutdownsAreInjected
      <4> QED
        BY <4>1, <4>2
    <3>4. \A k \in 1..Len(Scenarios) : Scenarios[k] = x => k < s'
      <4>1. CASE KStep /\ Enacts
        <5>1. s' = s \/ s' = s + 1
          BY <4>1, ScenarioEnds, ScenarioGoesOn
        <5> QED
          BY <1>1, <2>1, <5>1
      <4>2. CASE KStep /\ K!Verify
        <5>1. s \in {0, 1} /\ s' = 1
          BY <4>2, VerificationLeaves DEF KScenarioTypeOK
        <5> QED
          BY <1>1, <2>1, <5>1
      <4>3. CASE ~(KStep /\ Enacts) /\ ~(KStep /\ K!Verify)
        BY <2>1, <2>3, <4>3, ScenariosAreLeft DEF scenarioVars
      <4> QED
        BY <4>1, <4>2, <4>3
    <3> QED
      BY <3>1, <3>3, <3>4
  <2> QED
    BY <2>2, <2>3
<1>3. CASE scenarios'[x] # scenarios[x]
  <2>1. KStep /\ Enacts /\ Ends
    <3>1. CASE FaultRun
      BY <1>3, <3>1, FaultRunLeaves
    <3>2. CASE KStep /\ K!Verify
      BY <1>3, <3>2, VerificationLeaves
    <3>3. CASE ~(KStep /\ Enacts) /\ ~(KStep /\ K!Verify) /\ ~FaultRun
      BY <1>3, <3>3, ScenariosAreLeft DEF scenarioVars
    <3> QED
      BY <1>3, <3>1, <3>2, <3>3, ScenarioGoesOn
  <2>2. PICK r : /\ scenarios' = [scenarios EXCEPT ![K!Current] = r]
                 /\ r.status = "verified" =>
                       pc = "judge" /\ run.during = "verified" /\ run.after = "verified"
    BY <2>1, ScenarioTold
  <2>3. x = K!Current /\ scenarios'[x] = r
    BY <1>3, <2>2 DEF KScenarioTypeOK
  <2>4. /\ where = "control_plane" /\ pc = "judge" /\ run.during = "verified" /\ run.after = "verified"
        /\ s' = s + 1 /\ UNCHANGED <<up, channel>>
    BY <2>1, <2>2, <2>3, ScenarioEnds DEF KStep, ConfigureControlPlane, At
  <2>5. up[x] /\ Clear(x, channel)
    BY <2>3, <2>4 DEF RunInv, InScenario
  <2>6. s \in 1..Len(Scenarios) /\ x = Scenarios[s]
    BY <2>3, <2>4, CurrentIsOne DEF KScenarioTypeOK, InScenario
  <2>7. \A k \in 1..Len(Scenarios) : Scenarios[k] = x => k < s + 1
    <3> SUFFICES ASSUME NEW k \in 1..Len(Scenarios), Scenarios[k] = x
                 PROVE  k < s + 1
      OBVIOUS
    <3>1. k = s
      BY <2>6, ScenarioFacts
    <3> QED
      BY <1>1, <3>1
  <2> QED
    BY <2>4, <2>5, <2>7
<1> QED
  BY <1>2, <1>3

\* A stage that has ended has ordered up every link it ordered down.
LEMMA StageStep ==
    ASSUME CourseInv, ChannelInv, KScenarioTypeOK, RestoreInv, StageInv, Step
    PROVE  StageInv'
<1> SUFFICES ASSUME outcome' # "running"
             PROVE  faulted' = restored'
  BY DEF StageInv
<1>1. CASE FaultRun
  BY <1>1, FaultRunLeaves DEF StageInv, RestoreInv
<1>2. CASE ~FaultRun
  <2>1. ~KStep /\ (Turn \/ EndVoice \/ UNCHANGED outcome)
    BY RunsLeave DEF Step, CStep, Configure, BeginSignal, Signal, VStep, BindPhones, EndSignal, KStep,
       ConfigureControlPlane, Reassert, Proceed, At, stage
  <2>2. UNCHANGED <<faulted, restored>>
    BY <1>2, <2>1, ScenariosAreLeft DEF scenarioVars
  <2>3. faulted = restored
    <3>1. CASE outcome # "running"
      BY <3>1 DEF StageInv
    <3>2. CASE outcome = "running"
      <4> SUFFICES ASSUME faulted # restored
                   PROVE  FALSE
        OBVIOUS
      <4>1. faulted \ restored # {}
        BY DEF RestoreInv
      <4>2. pc \in {"during", "restore"} /\ where \in Late
        BY <4>1 DEF RestoreInv
      <4>3. where = "control_plane"
        BY <4>2 DEF CourseInv, Late
      <4> QED
        BY <2>1, <3>2, <4>2, <4>3 DEF Turn, Physical, Contradict, Accept, OpenWindow, EndControlPlane,
           Forward, ReconcileWorkspace, Configured, EndVoice, At
    <3> QED
      BY <3>1, <3>2
  <2> QED
    BY <2>2, <2>3
<1> QED
  BY <1>1, <1>2

-----------------------------------------------------------------------------
(* The stage as a whole.                                                   *)

Inv ==
    /\ CourseInv /\ ChannelInv /\ CInv /\ DeferredInv /\ VInv /\ KInv
    /\ SignalInv /\ AcceptedInv /\ GroundInv
    /\ KScenarioTypeOK /\ RestoreInv /\ LinkInv /\ RunInv /\ ScenarioInv /\ StageInv

\* The stage before it does anything.
LEMMA InitInv == Init => Inv
<1> SUFFICES ASSUME Init
             PROVE  Inv
  OBVIOUS
<1>1. /\ scopes \in Scopes /\ scopes.configuration \subseteq A /\ scopes.voice \subseteq AV
      /\ scopes.control \subseteq AK
  BY StageAssumption DEF Init, A, AV, AK
<1>2. channel = <<>>
  BY DEF Init, C!Init
<1>3. /\ \A a : ~OnItsWay(a, channel)
      /\ \A x : Clear(x, channel) /\ Sole(x, channel)
  BY <1>2 DEF OnItsWay, Range, Clear, Sole
<1>4. CourseInv /\ ChannelInv
  BY <1>1, <1>2 DEF Init, C!Init, V!Init, V!DispatchInit, CourseInv, ChannelInv, Boundary, Early, Late,
     Idling
<1>5. CInv /\ DeferredInv
  <2> USE <1>1, ConfigurationFacts, <1>4 DEF Init, C!Init, A
  <2>1. CTypeOK
    BY DEF CTypeOK, C!Result, C!Check, C!Observed
  <2>a. cDefer <=> scopes.voice # {}
    BY Zenon DEF Init
  <2>b. /\ cScope = scopes.configuration /\ cPrepared = {} /\ attempt = 1
        /\ \A a \in A : cSent[a].data = 0 /\ cSent[a].full = 0
    OBVIOUS
  <2>2. RequestInv
    <3> HIDE DEF Init, C!Init
    <3> QED
      BY <2>a, <2>b DEF RequestInv
  <2>3. CallInv
    BY DEF CallInv, InCall, Idling
  <2>4. SentInv
    <3>1. scopes.configuration \subseteq A /\ Voice \subseteq A /\ C!Deferred \subseteq A
      BY DEF C!Deferred
    <3> HIDE DEF Init, C!Init
    <3> QED
      BY <2>b, <3>1 DEF SentInv
  <2>5. OrderInv
    BY DEF OrderInv, Sent
  <2>6. IntendedInv /\ CheckInv /\ DeferredInv
    BY DEF IntendedInv, CheckInv, DeferredInv
  <2> QED
    BY <2>1, <2>2, <2>3, <2>4, <2>5, <2>6 DEF CInv
<1>6. VInv
  <2> USE <1>1, <1>3, VoiceFacts DEF Init, V!Init, V!DispatchInit, AV, Idling, InBatch
  <2>1. VTypeOK
    BY DEF VTypeOK, V!Result
  <2>2. VDependInv /\ VBoundInv
    BY DEF VDependInv, VBoundInv
  <2>3. ReconcileInv /\ RegisteredInv
    BY DEF ReconcileInv, RegisteredInv
  <2> QED
    BY <2>1, <2>2, <2>3 DEF VInv
<1>7. KInv
  BY <1>1 DEF Init, KInv, KTypeOK, KDependInv, KCheckInv, KStatusInv, K!Check, AK, Late
<1>8. SignalInv /\ AcceptedInv /\ GroundInv
  <2>1. SignalInv
    <3>1. /\ cSignal = "none" /\ cFull = FALSE /\ cBasis = "none" /\ cEvents = {}
          /\ \A a \in A : cSent[a].full = 0
      BY DEF Init, C!Init, A
    <3>2. Voice \subseteq A
      BY <1>4, ConfigurationFacts
    <3> QED
      BY <3>1, <3>2 DEF SignalInv
  <2>2. AcceptedInv
    BY DEF Init, AcceptedInv
  <2>3. GroundInv
    BY <1>1, <1>3 DEF Init, GroundInv, Late, AK
  <2> QED
    BY <2>1, <2>2, <2>3
<1>9. KScenarioTypeOK /\ RestoreInv /\ StageInv
  BY DEF Init, V!Init, V!DispatchInit, KScenarioTypeOK, RestoreInv, StageInv, InScenario, Late
<1>10. LinkInv /\ RunInv
  <2>1. \A k \in 1..Len(Scenarios) : up[Scenarios[k]]
    BY ScenarioFacts DEF Init
  <2> QED
    BY <1>3, <2>1, RunIsTyped DEF Init, LinkInv, RunInv, Late
<1>11. ScenarioInv
  BY DEF Init, ScenarioInv, K!NoResult
<1> QED
  BY <1>4, <1>5, <1>6, <1>7, <1>8, <1>9, <1>10, <1>11 DEF Inv

\* The invariant is inductive.
LEMMA NextInv == Inv /\ [Next]_vars => Inv'
<1> SUFFICES ASSUME Inv, [Next]_vars
             PROVE  Inv'
  OBVIOUS
<1>1. CASE Step
  <2> USE <1>1 DEF Inv
  <2>1. CTypeOK /\ VTypeOK /\ KTypeOK /\ ReconcileInv
    BY DEF CInv, VInv, KInv
  <2>2. CourseInv' /\ ChannelInv'
    BY <2>1, CourseStep, ChannelStep
  <2>3. CInv' /\ DeferredInv'
    BY ConfigurationStep, DeferredStep
  <2>4. VInv' /\ KInv'
    BY <2>1, <2>2, VoiceStep, ControlStep
  <2>5. SignalInv' /\ AcceptedInv' /\ GroundInv'
    BY <2>2, SignalStep, AcceptedStep, GroundStep
  <2>6. KScenarioTypeOK' /\ RestoreInv' /\ LinkInv'
    BY <2>1, ScenarioTypeStep, RestoreStep, LinkStep
  <2>7. RunInv' /\ ScenarioInv' /\ StageInv'
    BY <2>1, RunStep, ScenarioStep, StageStep
  <2> QED
    BY <2>2, <2>3, <2>4, <2>5, <2>6, <2>7
<1>2. CASE UNCHANGED vars
  <2> USE <1>2 DEF Inv, vars, cVars, applied, vVars, kVars, devices, stage
  <2>1. CourseInv' /\ ChannelInv' /\ DeferredInv'
    BY DEF CourseInv, ChannelInv, DeferredInv
  <2>2. CInv'
    BY DEF CInv, CTypeOK, RequestInv, CallInv, SentInv, OrderInv, IntendedInv, CheckInv, InCall, Sent,
       C!Deferred
  <2>3. VInv'
    BY DEF VInv, VTypeOK, VDependInv, VBoundInv, ReconcileInv, RegisteredInv, InBatch
  <2>4. KInv'
    BY DEF KInv, KTypeOK, KDependInv, KCheckInv, KStatusInv
  <2>5. SignalInv' /\ AcceptedInv' /\ GroundInv'
    BY DEF SignalInv, AcceptedInv, GroundInv, FoundationIsThere, PhonesAreBound, C!Readable, Sent
  <2>6. KScenarioTypeOK' /\ RestoreInv' /\ LinkInv'
    BY DEF KScenarioTypeOK, RestoreInv, LinkInv, Unbegun, K!Current
  <2>7. RunInv' /\ ScenarioInv' /\ StageInv'
    BY DEF RunInv, ScenarioInv, StageInv, K!Current
  <2> QED
    BY <2>1, <2>2, <2>3, <2>4, <2>5, <2>6, <2>7
<1> QED
  BY <1>1, <1>2, Steps

\* Every reachable state satisfies the inductive invariant: what each of the
\* applicators has told is what Packet Tracer has done, or has still to do.
THEOREM InvHolds == Spec => []Inv
  BY InitInv, NextInv, PTL DEF Spec

\* A verified stage is there as far as it can be read, all of it was sent, and
\* none of its scenarios can still take a link down (execute;
\* canonical_stage_configuration_error).
THEOREM VerifiedStagesAreThere == Spec => []VerifiedStageIsThere
<1>1. ASSUME Inv
      PROVE  VerifiedStageIsThere
  <2> SUFFICES ASSUME outcome = "verified"
               PROVE  VerifiedStageIsThere
    BY DEF VerifiedStageIsThere
  <2>1. where = "reconciliation" /\ where \in Late /\ status = "verified"
    BY <1>1 DEF Inv, CourseInv, Late
  <2>2. /\ \A a \in A : C!Readable(a) => cDevice[a] = "full"
        /\ \A a \in scopes.configuration : Sent(a) > 0
    BY <1>1, <2>1 DEF Inv, AcceptedInv, GroundInv
  <2>3. PhonesAreBound
    BY <1>1, <2>1 DEF Inv, GroundInv
  <2>4. \A e \in K!Expectation : kDevice[e[1]]
    BY <1>1, <2>1 DEF Inv, KInv, KStatusInv, KCheckInv
  <2>5. ASSUME NEW x \in K!Scenario
        PROVE  up[x] /\ Shutdown(x) \notin Range(channel)
    <3>1. up[x] /\ Clear(x, channel)
      BY <1>1, <2>1 DEF Inv, KInv, KStatusInv, ScenarioInv
    <3>2. DOMAIN channel = 1..Len(channel)
      BY <1>1 DEF Inv, ChannelInv
    <3> QED
      BY <3>1, <3>2 DEF Clear, Range
  <2> QED
    BY <2>2, <2>3, <2>4, <2>5 DEF VerifiedStageIsThere, PhonesAreBound, A, Shutdown
<1> QED
  BY <1>1, InvHolds, PTL

\* No voice VLAN goes out before its network and its phones are there
\* (defer_voice_signal_until_bootstrap, complete_voice_signal).
THEOREM SignalsHaveTheirGround == Spec => []VoiceSignalHasItsGround
<1>1. Inv => VoiceSignalHasItsGround
  BY DEF Inv, SignalInv, VoiceSignalHasItsGround, PhonesAreBound
<1> QED
  BY <1>1, InvHolds, PTL

\* The control plane is not touched before the network it needs, the voice
\* VLANs and the phones are there (execute; _foundation_errors).
THEOREM ControlPlanesHaveTheirGround == Spec => []ControlPlaneHasItsGround
<1>1. ASSUME Inv
      PROVE  ControlPlaneHasItsGround
  <2> SUFFICES ASSUME NEW a \in scopes.control, kDevice[a] \/ OnItsWay(a, channel)
               PROVE  /\ \A b \in Voice \cup ControlNeeds : cDevice[b] = "full"
                      /\ PhonesAreBound
    BY UnderwayIsOnItsWay DEF ControlPlaneHasItsGround, PhonesAreBound
  <2>1. where \in Late
    BY <1>1 DEF Inv, GroundInv
  <2>2. where = "control_plane" => pc \notin Idling
    BY <1>1, <2>1 DEF Inv, KInv, KTypeOK, KDependInv
  <2> QED
    BY <1>1, <2>1, <2>2 DEF Inv, GroundInv, Late
<1> QED
  BY <1>1, InvHolds, PTL

\* What was retained is not sent, and nothing is sent twice but a host that is
\* told once more to ask for an address (canonical_stage_mutation_replay_audit).
THEOREM NoReplay == Spec => []NothingIsReplayed
<1>1. ASSUME Inv
      PROVE  NothingIsReplayed
  <2>1. CourseInv /\ CTypeOK /\ SentInv
    BY <1>1 DEF Inv, CInv
  <2>2. \A a \in A \ scopes.configuration : Sent(a) = 0
    BY <2>1 DEF SentInv, Sent
  <2>3. \A a \in A : /\ cSent[a].data <= 1
                     /\ cSent[a].full <= IF Expects[a] = "endpoint" THEN attempt ELSE 1
    <3>1. \A a \in A \ Voice : /\ cSent[a].data <= 1
                               /\ cSent[a].full <= IF Expects[a] = "endpoint" THEN attempt ELSE 1
      BY <2>1 DEF SentInv
    <3>2. \A a \in Voice : cSent[a].data <= 1 /\ cSent[a].full <= 1 /\ Expects[a] = "other"
      BY <2>1, ConfigurationFacts DEF SentInv
    <3> QED
      BY <3>1, <3>2
  <2> QED
    BY <2>2, <2>3 DEF NothingIsReplayed, A
<1> QED
  BY <1>1, InvHolds, PTL

\* What an action depends on is retained or was sent before it, in each of the
\* three plans (satisfies_apply_dependency).
THEOREM DependenciesAreFirst == Spec => []DependenciesGoFirst
<1>1. ASSUME Inv
      PROVE  DependenciesGoFirst
  <2>1. \A a \in A : Sent(a) > 0 => \A d \in DependsOn[a] \cap scopes.configuration : Sent(d) > 0
    BY <1>1 DEF Inv, CInv, OrderInv
  <2>2. where \in {"voice", "signal"} => V!DispatchedAfterDependencies
    BY <1>1, UnderwayIsOnItsWay DEF Inv, VInv, VDependInv, V!DispatchedAfterDependencies, Late
  <2>3. where = "control_plane" => K!DispatchedAfterDependencies
    BY <1>1, UnderwayIsOnItsWay DEF Inv, KInv, KDependInv, K!DispatchedAfterDependencies
  <2> QED
    BY <2>1, <2>2, <2>3 DEF DependenciesGoFirst, A
<1> QED
  BY <1>1, InvHolds, PTL

\* No scenario starts, and the stage does not end, while a link that was
\* ordered down has not been ordered up (FailureScenarioExecutor.execute).
THEOREM FaultsAreFollowedByRestores == Spec => []FaultIsFollowedByRestore
<1>1. Inv => FaultIsFollowedByRestore
  BY DEF Inv, RestoreInv, StageInv, FaultIsFollowedByRestore, K!FaultIsFollowedByRestore
<1> QED
  BY <1>1, InvHolds, PTL

\* A binding is sent again only where the first one left no row, in whatever
\* order the payloads before it run (_verify_dispatched_binding_frontier).
THEOREM BindingsAreNotRewritten == Spec => NoBindingIsRewritten
<1> DEFINE Rewrites == pc = "reconcile" /\ Len(channel') > Len(channel)
                       => LET b == V!FirstOf(call) IN ~vDevice[b] /\ b \notin stale
<1>1. ASSUME Inv
      PROVE  Rewrites
  <2>1. ReconcileInv
    BY <1>1 DEF Inv, VInv
  <2>2. pc = "reconcile" => V!FirstOf(call) \in call
    BY <2>1, FirstIsOneOfThem DEF ReconcileInv
  <2> QED
    BY <2>1, <2>2 DEF ReconcileInv
<1>2. Inv /\ [Next]_vars => [Rewrites]_V!vars
  BY <1>1
<1> QED
  BY <1>2, InvHolds, PTL DEF Spec, NoBindingIsRewritten, V!NoBindingIsRewritten

=============================================================================
