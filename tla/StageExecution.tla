---------------------------- MODULE StageExecution ----------------------------
(***************************************************************************)
(* CPScaleStageExecutor (application/cp_scale_live/stage_executor.py): one *)
(* stage of the CP-SCALE run configures the network, boots the phones,     *)
(* signals their VLANs, configures the control plane, and accepts nothing  *)
(* that was not read back.  It composes the applicators of configuration   *)
(* (C), voice (V) and control plane (K).                                   *)
(*                                                                         *)
(* The three applicators take turns, but Packet Tracer does not: all their *)
(* payloads go into one channel, and what one of them has sent may run     *)
(* while the next is at work, or after the stage is over.                  *)
(***************************************************************************)
EXTENDS Naturals, Sequences, FiniteSets, SequencesExt

CONSTANTS
    Plan, PhaseOf, DeviceOf, DependsOn, Critical, Voice, Expects, Mute,
                        \* the configuration plan
    Ports,              \* its actions that configure an access port
    VoicePlan, VoiceBatch, VoiceDepends, Bindings, Calls,
                        \* the voice plan
    ControlPlan, ControlBatch, ControlDepends, ControlExpects,
    Scenarios, AnchorOf, Survives,
                        \* the control-plane plan
    VoiceNeeds, ControlNeeds,
                        \* foundational_requirements of the two
    MayDoubt,           \* whether a send may report failure although the
                        \* payload is in the channel
    Scopes              \* what a stage may have to do: everything, or the
                        \* delta to the stage before

VARIABLES
    cScope, cPrepared, cDefer, cRefused, cPc, cPhase, cCall, cLeft, cFull, cResults,
    cChecks, cFoundation, cSignal, cStatus, cEvents, cDevice, cSent, cBasis,
    scope, refused, pc, batch, call, results, status, channel,
    wanted, stale, doubted, initial, resent, signal, registered, called, vDevice,
    checks, s, run, scenarios, verdict, up, faulted, restored, kDevice,
    scopes,     \* CPScaleMutationScope
    where,      \* the boundary the executor is at
    attempt,    \* number of configuration attempts
    outcome     \* "running", "failed" or "verified"

C == INSTANCE ConfigurationApply WITH
        scope <- cScope, prepared <- cPrepared, defer <- cDefer, refused <- cRefused,
        pc <- cPc, phase <- cPhase, call <- cCall, left <- cLeft, full <- cFull,
        results <- cResults, checks <- cChecks, foundation <- cFoundation,
        signal <- cSignal, status <- cStatus, events <- cEvents, device <- cDevice,
        sent <- cSent, basis <- cBasis

V == INSTANCE VoiceApply WITH
        Plan <- VoicePlan, BatchOf <- VoiceBatch, DependsOn <- VoiceDepends,
        device <- vDevice

K == INSTANCE ControlPlaneApply WITH
        Plan <- ControlPlan, BatchOf <- ControlBatch, DependsOn <- ControlDepends,
        Expects <- ControlExpects, device <- kDevice

cVars   == <<cScope, cPrepared, cDefer, cRefused, cPc, cPhase, cCall, cLeft, cFull,
             cResults, cChecks, cFoundation, cSignal, cStatus, cEvents, cSent, cBasis>>
\* Voice and control plane are applied one after the other.
applied == <<scope, refused, pc, batch, call, results, status>>
vVars   == <<wanted, stale, doubted, initial, resent, signal, registered, called>>
kVars   == <<checks, s, run, scenarios, verdict, up, faulted, restored>>
devices == <<cDevice, vDevice, kDevice>>
stage   == <<scopes, where, attempt, outcome>>
vars    == <<cVars, applied, vVars, kVars, devices, stage, channel>>

ASSUME StageAssumption ==
    /\ C!ConfigurationAssumption /\ V!VoiceAssumption /\ K!ControlPlaneAssumption
    /\ Ports \subseteq C!Action
    /\ VoiceNeeds \subseteq C!Action /\ ControlNeeds \subseteq C!Action
    /\ V!Action \cap K!Action = {}
    \* A voice port is read back as an access port, and the identity of an
    \* action is not a field of a message.
    /\ \A a \in Voice : Expects[a] = "other"
    /\ "kind" \notin C!Action
    \* What was retained was accepted by the stage before.
    /\ \A g \in Scopes : g.configuration \subseteq C!Action /\ g.voice \subseteq V!Action
                         /\ g.control \subseteq K!Action

\* stage_mutation_scope.  The voice signal is left for later if phones are to
\* be bound.
Init ==
    /\ scopes \in Scopes
    /\ cScope = scopes.configuration /\ cPrepared = {} /\ cDefer = (scopes.voice # {})
    \* What was retained and could not be read may not be there.
    /\ cDevice \in [C!Action -> {"none", "full"}]
    /\ \A a \in C!Action \ cScope : C!Readable(a) => cDevice[a] = "full"
    /\ C!Init
    /\ scope = scopes.voice /\ wanted = FALSE
    /\ vDevice = [a \in V!Action |-> a \notin scope]
    /\ V!Init
    /\ checks = [e \in K!Expectation |-> "none"]
    /\ s = 0 /\ run = K!NoRun
    /\ scenarios = [x \in K!Scenario |-> K!NoResult]
    /\ verdict = "none"
    /\ up = [x \in K!Scenario |-> TRUE]
    /\ faulted = {} /\ restored = {}
    /\ kDevice = [a \in K!Action |-> a \notin scopes.control]
    /\ where = "physical_delta" /\ attempt = 1 /\ outcome = "running"

At(boundary) == outcome = "running" /\ where = boundary

\* _StageStopped, or an observation that raises, at the boundary it is at.
Stop ==
    /\ outcome' = "failed"
    /\ UNCHANGED <<scopes, where, attempt>>

Proceed(boundary) ==
    /\ where' = boundary
    /\ UNCHANGED <<scopes, attempt, outcome>>

Idle == UNCHANGED <<cVars, vVars, kVars, devices, channel>>

-----------------------------------------------------------------------------
(* Configuration: CPScaleConfigurationStage.execute.                       *)

\* The deployment, and the orientation of the serial links.
Physical ==
    /\ At("physical_delta")
    /\ Stop \/ Proceed("configuration")
    /\ Idle /\ UNCHANGED applied

Configure ==
    /\ At("configuration")
    /\ C!Apply
    /\ UNCHANGED <<applied, vVars, kVars, vDevice, kDevice, stage>>

\* configuration_application_contradiction.
Contradicted ==
    \/ cStatus = "failed"
    \/ \E a \in C!Action : cResults[a] = "failed" \/ cChecks[a] = "failed"

\* The deferred voice actions, if they are to be pending.
Pending == IF cDefer THEN C!Deferred ELSE {}

ResultsAreExact ==
    \A a \in C!Action : \/ C!Satisfied(cResults[a])
                        \/ a \in Pending /\ cResults[a] = "partial"

\* What a check may say: exactly as much as can be read of its expectation.
\* Of an endpoint that is its address and mask, or that its port has no
\* getters; an interface that was not found will not do.
Ceiling(a) == CASE a \in Pending            -> {"partial"}
                [] Expects[a] = "endpoint" -> {"partial", "absent"}
                [] Expects[a] = "pool"     -> {"unobservable"}
                [] OTHER                   -> {"verified"}

ChecksAreExact(A) == \A a \in C!Expected(A) : cChecks[a] \in Ceiling(a)

\* canonical_stage_configuration_error.
Accepted(deferred) ==
    /\ cPc # "refused" /\ cStatus # "failed"
    /\ deferred => cFoundation = "verified" /\ cSignal = "intended"
    /\ ResultsAreExact
    /\ ChecksAreExact(C!Action)

Unaddressed == {a \in C!Action : cChecks[a] = "failed"}

\* retryable_endpoint_dhcp_absence: all that is wrong is that hosts behind a
\* verified port have no address yet.
MayReassert ==
    /\ attempt = 1 /\ cPc = "returned"
    /\ Unaddressed # {}
    /\ \A a \in Unaddressed :
          /\ Expects[a] = "endpoint" /\ a \in cScope /\ C!Satisfied(cResults[a])
          /\ \E d \in Ports : DependsOn[a] \cap Ports = {d} /\ cChecks[d] = "verified"
    /\ cDefer => C!Deferred # {}
    /\ ResultsAreExact
    /\ \A a \in C!Expected(C!Action) \ (Unaddressed \cup Pending) : ChecksAreExact({a})

\* Mutant: the whole of the first attempt is sent again.
Reassertion_Whole == cScope

\* endpoint_dhcp_reassertion_scope.
Reassertion == Unaddressed

\* The hosts ask for an address once more; the rest is retained.
Reassert ==
    /\ At("configuration") /\ MayReassert
    /\ cScope' = Reassertion
    /\ cPrepared' = C!Deferred \ Reassertion /\ cRefused' = {}
    /\ cPc' = "preflight" /\ cPhase' = 0 /\ cCall' = {} /\ cLeft' = {} /\ cFull' = FALSE
    /\ cResults' = [a \in C!Action |-> "none"]
    /\ cChecks' = [a \in C!Action |-> "none"]
    /\ cFoundation' = "none" /\ cSignal' = "none" /\ cStatus' = "none"
    /\ attempt' = 2
    /\ UNCHANGED <<cDefer, cEvents, cSent, cBasis, applied, vVars, kVars, devices, channel,
                   scopes, where, outcome>>

Configured == At("configuration") /\ cPc \in {"returned", "refused"}

\* A contradiction that is not, or not exactly, that of an unaddressed host.
Contradict ==
    /\ Configured /\ Contradicted
    /\ Stop
    /\ Idle /\ UNCHANGED applied

\* The serial links are waited for and the result is accepted as a whole.
Accept ==
    /\ Configured /\ ~Contradicted
    /\ Stop \/ (Accepted(cDefer) /\ Proceed("window"))
    /\ Idle /\ UNCHANGED applied

-----------------------------------------------------------------------------
(* Voice: CPScaleVoiceStage.apply and complete_voice_signal.               *)

\* derive_foundational_statuses and the preflight of the applicators: of an
\* endpoint no more than its address and mask is ever read.
Founded(needs) ==
    \A a \in needs : cChecks[a] = IF Expects[a] = "endpoint" THEN "partial" ELSE "verified"

\* The phones are only bound in real time.
OpenWindow ==
    /\ At("window")
    /\ \/ Stop /\ UNCHANGED wanted
       \/ Proceed("voice") /\ wanted' = (cSignal = "intended" \/ scopes.voice = {})
    /\ UNCHANGED <<cVars, applied, stale, doubted, initial, resent, signal, registered, called,
                   kVars, devices, channel>>

BindPhones ==
    /\ At("voice")
    /\ V!Apply
    /\ pc = "preflight" /\ pc' = "dispatch" => Founded(VoiceNeeds)
    /\ UNCHANGED <<cVars, kVars, cDevice, kDevice, stage>>

\* Mutant: the phones need not all be bound.
MaySignal_Bound == pc = "observed" /\ wanted /\ V!ApplicationStatus # "failed"

MaySignal == pc = "observed" /\ wanted /\ V!ApplicationStatus = "applied"

\* The bootstrap has applied: the voice applicator calls the configuration
\* applicator back.
BeginSignal ==
    /\ At("voice") /\ MaySignal
    /\ C!BeginCompletion
    /\ Proceed("signal")
    /\ UNCHANGED <<applied, vVars, kVars, vDevice, kDevice>>

Signal ==
    /\ At("signal")
    /\ C!Complete
    /\ UNCHANGED <<applied, vVars, kVars, vDevice, kDevice, stage>>

\* The completed result is accepted, or the voice applicator gets an
\* exception.
EndSignal ==
    /\ At("signal") /\ cPc = "returned"
    /\ V!CompleteSignal
    /\ signal' = IF Accepted(FALSE) THEN "open" ELSE "closed"
    /\ Founded(VoiceNeeds) /\ signal' = "open" => pc' = "registration"
    /\ Proceed("voice")
    /\ UNCHANGED <<cVars, kVars, cDevice, kDevice>>

\* voice_error and canonical_cp_scale_voice_evidence: the phones are
\* registered behind verified, forwarding ports, and no call failed.
VoiceCloses ==
    /\ pc = "returned"
    /\ V!ApplicationStatus = "applied"
    /\ cFoundation = "verified" /\ cSignal = "verified"
    /\ cEvents = {"voice_signal_verified", "phone_access_fwd_verified"}
    /\ \A b \in Bindings : registered[b] = "verified"
    /\ \A c \in Calls : called[c] # "failed"

\* The window is closed, leases are read, and the control plane has its turn.
EndVoice ==
    /\ At("voice") /\ pc \in {"returned", "refused"}
    /\ \/ Stop /\ UNCHANGED applied
       \/ /\ VoiceCloses
          /\ Proceed("control_plane")
          /\ scope' = scopes.control /\ refused' \in SUBSET scopes.control
          /\ pc' = "preflight" /\ batch' = {} /\ call' = {}
          /\ results' = [a \in K!Action |-> "none"]
          /\ status' = "none"
    /\ Idle

-----------------------------------------------------------------------------
(* Control plane, forwarding, reconciliation.                              *)

ConfigureControlPlane ==
    /\ At("control_plane")
    /\ K!Apply
    /\ pc = "preflight" /\ pc' = "dispatch" => Founded(ControlNeeds)
    /\ UNCHANGED <<cVars, vVars, cDevice, vDevice, stage>>

\* Mutant: evidence that is incomplete will do.
ControlPlaneIsUp_Partial == status \in {"verified", "partial"}

ControlPlaneIsUp == status = "verified"

EndControlPlane ==
    /\ At("control_plane") /\ pc \in {"returned", "refused"}
    /\ IF ControlPlaneIsUp THEN Proceed("forwarding") ELSE Stop
    /\ Idle /\ UNCHANGED applied

\* CPScaleForwardingStage.execute.
Forward ==
    /\ At("forwarding")
    /\ Stop \/ Proceed("reconciliation")
    /\ Idle /\ UNCHANGED applied

\* CPScaleReconciliation.execute: the workspace is as it should be, twice.
ReconcileWorkspace ==
    /\ At("reconciliation")
    /\ outcome' \in {"failed", "verified"}
    /\ UNCHANGED <<scopes, where, attempt>>
    /\ Idle /\ UNCHANGED applied

-----------------------------------------------------------------------------
\* Packet Tracer runs the next message, whoever has sent it.
Deliver ==
    \/ C!RunPayload /\ UNCHANGED <<applied, vVars, kVars, vDevice, kDevice, stage>>
    \/ V!Run /\ UNCHANGED <<cVars, kVars, cDevice, kDevice, stage>>
    \/ K!Run /\ UNCHANGED <<cVars, vVars, cDevice, vDevice, stage>>
    \/ K!RunFault /\ UNCHANGED <<cVars, vVars, cDevice, vDevice, stage>>

Next ==
    \/ Physical \/ Configure \/ Reassert \/ Contradict \/ Accept
    \/ OpenWindow \/ BindPhones \/ BeginSignal \/ Signal \/ EndSignal \/ EndVoice
    \/ ConfigureControlPlane \/ EndControlPlane \/ Forward \/ ReconcileWorkspace
    \/ Deliver

Spec == Init /\ [][Next]_vars

-----------------------------------------------------------------------------
(* Properties.                                                             *)

Sent(a) == cSent[a].data + cSent[a].full

\* A verified stage is there: every action that can be read back is in effect,
\* every phone is bound, every link that was taken down is up again, and no
\* shutdown is on its way.  Of what cannot be read back (the lease of a pool,
\* an endpoint whose port has no address getters) it says no more than that
\* it was sent (execute; canonical_stage_configuration_error).
VerifiedStageIsThere ==
    outcome = "verified" =>
        /\ \A a \in C!Action : C!Readable(a) => cDevice[a] = "full"
        /\ \A a \in scopes.configuration : Sent(a) > 0
        /\ \A b \in Bindings : vDevice[b]
        /\ \A e \in K!Expectation : kDevice[e[1]]
        /\ \A x \in K!Scenario :
              x \in faulted => up[x] /\ [kind |-> "shutdown", of |-> x] \notin Range(channel)

\* No voice VLAN goes out before the network under it is in effect and every
\* phone of the stage is bound, in whichever attempt
\* (defer_voice_signal_until_bootstrap, complete_voice_signal).
VoiceSignalHasItsGround ==
    (\E a \in Voice : cSent[a].full > 0) =>
        cBasis = "founded" /\ \A b \in Bindings : vDevice[b]

\* The control plane is not touched before the network it needs and the voice
\* VLANs are in effect (execute; _foundation_errors).
ControlPlaneHasItsGround ==
    (\E a \in scopes.control : kDevice[a] \/ K!Underway(a)) =>
        /\ \A a \in Voice \cup ControlNeeds : cDevice[a] = "full"
        /\ \A b \in Bindings : vDevice[b]

\* NO_MUTATION_REPLAY: what was retained is not sent, and nothing is sent
\* twice but a host that is told once more to ask for an address
\* (canonical_stage_mutation_replay_audit).
NothingIsReplayed ==
    \A a \in C!Action :
        IF a \notin scopes.configuration THEN Sent(a) = 0
        ELSE /\ cSent[a].data <= 1
             /\ cSent[a].full <= IF Expects[a] = "endpoint" THEN attempt ELSE 1

\* What an action depends on is retained or was sent before it, across the
\* attempts and in each of the three plans (satisfies_apply_dependency).
DependenciesGoFirst ==
    /\ \A a \in C!Action : Sent(a) > 0 =>
          \A d \in DependsOn[a] \cap scopes.configuration : Sent(d) > 0
    /\ where \in {"voice", "signal"} => V!DispatchedAfterDependencies
    /\ where = "control_plane" => K!DispatchedAfterDependencies

\* "the runtime attempts restore in finally after every attempted injection":
\* no scenario starts, and the stage does not end, while a link that was
\* ordered down has not been ordered up (FailureScenarioExecutor.execute).
FaultIsFollowedByRestore ==
    /\ K!FaultIsFollowedByRestore
    /\ outcome # "running" => faulted = restored

\* A binding is sent again only where the first one left no row, although
\* everything before it is still on its way (_verify_dispatched_binding_frontier).
NoBindingIsRewritten == V!NoBindingIsRewritten
=============================================================================
