-------------------------- MODULE ConfigurationApply --------------------------
(***************************************************************************)
(* ConfigurationApplicator (application/use_cases/apply_configuration.py)  *)
(* over the runtime of enterprise_configuration_runtime.py: a compiled     *)
(* plan is checked, dispatched phase by phase, verified, and its voice     *)
(* VLANs are signalled behind a barrier, at once or later.                 *)
(*                                                                         *)
(* A dispatch is asynchronous: the payload of a device goes into the       *)
(* channel and Packet Tracer runs it some time later, or rejects it.  What *)
(* a verification reads is true when it is read.                           *)
(***************************************************************************)
EXTENDS Naturals, Sequences, FiniteSets, SequencesExt

CONSTANTS
    Plan,       \* plan.actions, in dependency order
    PhaseOf,    \* action.phase
    DeviceOf,   \* action.device_id
    DependsOn,  \* action.depends_on
    Critical,   \* actions without which the plan is not to be started
    Voice,      \* access ports with a voice VLAN
    Expects,    \* what the expectation of an action is: "foundation", "pool",
                \* "endpoint", "other", or "none"
    Mute,       \* endpoints whose port has no address getters
    MayDoubt    \* whether a send may report failure although the payload is
                \* in the channel, or raise after others were sent

Action == Range(Plan)
Expected(A) == {a \in A : Expects[a] # "none"}

ConfigurationAssumption ==
    /\ DOMAIN PhaseOf = Action /\ DOMAIN DeviceOf = Action
    /\ DependsOn \in [Action -> SUBSET Action]
    /\ \A i \in 1..Len(Plan) : DependsOn[Plan[i]] \subseteq Range(SubSeq(Plan, 1, i - 1))
    /\ PhaseOf \in [Action -> Nat]
    /\ Critical \subseteq Action /\ Voice \subseteq Action
    /\ Expects \in [Action -> {"foundation", "pool", "endpoint", "other", "none"}]
    /\ Mute \subseteq {a \in Action : Expects[a] = "endpoint"}
    /\ MayDoubt \in BOOLEAN

VARIABLES
    \* What the caller asked for.
    scope,      \* mutation_ids
    prepared,   \* retained_deferred_voice_action_ids
    defer,      \* defer_voice_signal_until_bootstrap
    refused,    \* actions whose capability is not SUPPORTED
    \* The applicator.
    pc,         \* where it is
    phase,      \* the phase it is in
    call,       \* the actions of the apply_actions it is in
    left,       \* those of them whose device has not had its turn
    full,       \* whether that call sends the voice VLANs
    results,    \* status of each action
    checks,     \* status of each expectation
    foundation, \* foundation_status of the barrier
    signal,     \* signal_status of the barrier, "none" without a barrier
    status,     \* status of the result
    events,     \* what the lifecycle observer was told
    \* The channel and Packet Tracer.
    channel,    \* payloads on their way
    device,     \* what each action has come to on its device
    \* History.
    sent,       \* how often an action's payload, data-only and full, was sent
    basis       \* what held in Packet Tracer when the first voice VLAN was sent

request == <<scope, prepared, defer, refused>>
tool    == <<pc, phase, call, left, full, results, checks, foundation, signal, status,
             events>>
vars    == <<request, tool, channel, device, sent, basis>>

Result   == {"none", "applied", "failed", "blocked", "skipped", "partial"}
Observed == {"verified", "partial", "failed", "unobservable", "unknown",
             "absent"}  \* unobservable: structured_endpoint_getters_absent
Check    == Observed \cup {"none", "blocked"}

\* satisfies_apply_dependency.
Satisfied(s) == s = "applied"

-----------------------------------------------------------------------------
(* Preflight.                                                              *)

\* _unexecutable_closure, in one pass along the order of the plan.
Unexecutable ==
    FoldLeft(LAMBDA blocked, a : IF DependsOn[a] \cap blocked # {} THEN blocked \cup {a}
                                 ELSE blocked,
             refused, Plan)

\* _mutation_scope and the check of the deferred voice actions.  The caller
\* gives a result for each retained action; those here were applied.
ScopeIsValid(retained) ==
    /\ \A a \in retained : DependsOn[a] \cap scope = {}
    /\ prepared \subseteq retained \cap Voice
    /\ prepared # {} => defer

\* The plan is refused before anything is sent: identity, environment, order,
\* targets, the inventory, or a critical action that cannot run.
Refuse ==
    /\ pc = "preflight"
    /\ pc' = "refused"
    /\ status' = "failed"
    /\ UNCHANGED <<request, phase, call, left, full, results, checks, foundation, signal,
                   events, channel, device, sent, basis>>

\* The actions of scope whose capability is not supported are skipped.
Begin ==
    /\ pc = "preflight"
    /\ ScopeIsValid(Action \ scope)
    /\ Critical \cap Unexecutable = {}
    /\ results' = [a \in Action |-> IF a \notin scope THEN "applied"
                                    ELSE IF a \in refused THEN "skipped" ELSE "none"]
    /\ pc' = "phase"
    /\ UNCHANGED <<request, phase, call, left, full, checks, foundation, signal, status,
                   events, channel, device, sent, basis>>

\* What a retained action was found to be is what it came to before.
Init ==
    /\ scope \in SUBSET Action
    /\ prepared \in SUBSET (Voice \ scope)
    /\ defer \in BOOLEAN
    /\ refused \in SUBSET scope
    /\ pc = "preflight" /\ phase = 0 /\ call = {} /\ left = {} /\ full = FALSE
    /\ results = [a \in Action |-> "none"]
    /\ checks = [a \in Action |-> "none"]
    /\ foundation = "none" /\ signal = "none" /\ status = "none"
    /\ events = {}
    /\ channel = <<>>
    /\ device \in [Action -> {"none", "data", "full"}]
    /\ \A a \in Action : CASE a \in scope -> device[a] = "none"
                           [] a \in prepared -> device[a] # "full"
                           [] OTHER -> device[a] # "data"
    /\ sent = [a \in Action |-> [data |-> 0, full |-> 0]]
    /\ basis = "none"

-----------------------------------------------------------------------------
(* Dispatch: apply_actions, device by device.                              *)

\* deferred_voice_actions.
Deferred == Voice \cap (scope \cup prepared)

Phases == {PhaseOf[a] : a \in Action}
Pending(p) == {a \in Action : PhaseOf[a] = p /\ results[a] = "none"}

\* Mutant: an action waits for its dependencies to be tried.
Ready_Tried(a) == \A d \in DependsOn[a] : results[d] # "none"

Ready(a) == \A d \in DependsOn[a] : Satisfied(results[d])

\* The next phase: what cannot run is blocked, the rest is one apply_actions.
EnterPhase ==
    /\ pc = "phase"
    /\ \E p \in Phases :
          /\ p > phase /\ \A q \in Phases : q > phase => p <= q
          /\ phase' = p
          /\ results' = [a \in Action |-> IF a \in Pending(p) /\ ~Ready(a) THEN "blocked"
                                          ELSE results[a]]
          /\ call' = {a \in Pending(p) : Ready(a)}
          /\ left' = call'
          /\ full' = FALSE
    /\ pc' = IF call' = {} THEN "phase" ELSE "dispatch"
    /\ UNCHANGED <<request, checks, foundation, signal, status, events,
                   channel, device, sent, basis>>

\* A payload of the actions A: what is sent of each.
Mode(a) == IF a \in Deferred /\ ~full THEN "data" ELSE "full"
Payload(A) == [a \in A |-> Mode(a)]

Send(A) ==
    /\ channel' = Append(channel, Payload(A))
    /\ sent' = [a \in Action |-> IF a \in A THEN [sent[a] EXCEPT ![Mode(a)] = @ + 1] ELSE sent[a]]
    /\ basis' = IF basis = "none" /\ full /\ A # {}
                THEN IF \A a \in Action : Expects[a] = "foundation" => device[a] = "full"
                     THEN "founded" ELSE "unfounded"
                ELSE basis

Keep == UNCHANGED <<channel, sent, basis>>
Told(A, s) == [a \in Action |-> IF a \in A THEN s ELSE results[a]]

\* One device: not ready, sent, refused, or in the channel and reported as
\* refused.
DispatchDevice(d) ==
    LET batch == {a \in left : DeviceOf[a] = d} IN
    /\ pc \in {"dispatch", "redispatch"} /\ batch # {}
    /\ left' = left \ batch
    /\ \/ Send(batch) /\ results' = Told(batch, "applied")
       \/ Keep /\ results' = Told(batch, "failed")
       \/ MayDoubt /\ Send(batch) /\ results' = Told(batch, "failed")
    /\ UNCHANGED <<request, pc, phase, call, full, checks, foundation, signal, status,
                   events, device>>

\* The call raises, or refuses before the first device what it cannot render:
\* a failure of all its actions.
DispatchFails ==
    /\ pc \in {"dispatch", "redispatch"} /\ left # {}
    /\ left = call \/ MayDoubt
    /\ left' = {}
    /\ results' = Told(call, "failed")
    /\ Keep
    /\ UNCHANGED <<request, pc, phase, call, full, checks, foundation, signal, status,
                   events, device>>

DispatchEnds ==
    /\ pc \in {"dispatch", "redispatch"} /\ left = {}
    /\ pc' = IF pc = "redispatch" THEN "direct" ELSE IF full THEN "after" ELSE "phase"
    /\ UNCHANGED <<request, phase, call, left, full, results, checks, foundation, signal,
                   status, events, device>>
    /\ Keep

\* Packet Tracer runs the next payload; what it rejects has no effect.
RunPayload ==
    /\ channel # <<>> /\ DOMAIN Head(channel) \subseteq Action
    /\ channel' = Tail(channel)
    /\ \E ok \in SUBSET DOMAIN Head(channel) :
          device' = [a \in Action |-> IF a \in ok /\ device[a] # "full" THEN Head(channel)[a]
                                      ELSE device[a]]
    /\ UNCHANGED <<request, tool, sent, basis>>

-----------------------------------------------------------------------------
(* Verification.                                                           *)

\* Mutant: what was sent is taken for what is there.
Reading_Sent(a) ==
    IF Satisfied(results[a]) THEN {IF Expects[a] = "endpoint" THEN "partial" ELSE "verified"}
    ELSE {"failed"}

\* What runtime.verify may say of an expectation: VERIFIED only of what is
\* there.  The lease of a pool is never observed; of an endpoint no more than
\* its address and mask are, and nothing where the port has no getters.
Reading(a) ==
    LET best == IF Expects[a] = "endpoint" THEN "partial" ELSE "verified"
    IN IF Expects[a] = "pool" THEN {"unobservable"}
       ELSE {"failed", "unobservable", "unknown"}
            \cup IF a \in Mute THEN {"absent"} ELSE {v \in {best} : device[a] = "full"}

\* What a verification can read of at all.
Readable(a) == Expects[a] \notin {"pool", "none"} /\ a \notin Mute

\* verify_subset.
Verify(A) ==
    LET ready == {a \in A : Satisfied(results[a])}
    IN \E read \in [ready -> Observed] :
        /\ \A a \in ready : read[a] \in Reading(a)
        /\ checks' = [a \in Action |-> IF a \in ready THEN read[a]
                                       ELSE IF a \in A THEN "blocked" ELSE checks[a]]

\* Mutant: what was not observed does not hold the signal up.
FoundationStatus_Unobserved ==
    IF \/ \E a \in Deferred : ~Satisfied(results[a])
       \/ \E a \in Expected(Action) \ Deferred : checks[a] = "failed"
    THEN "failed" ELSE "verified"

\* _voice_signal_foundation_status.
FoundationStatus ==
    LET before     == Expected(Action) \ Deferred
        F          == {a \in before : Expects[a] \in {"foundation", "pool"}}
        unresolved == {a \in F : /\ checks[a] # "verified"
                                 /\ Expects[a] = "pool" => checks[a] # "unobservable"}
    IN IF \E a \in Deferred : ~Satisfied(results[a]) THEN "failed"
       ELSE IF F = {} THEN "unobservable"
       ELSE IF \E a \in before : checks[a] \in {"failed", "unknown", "blocked"} THEN "failed"
       ELSE IF unresolved # {} THEN "unobservable"
       ELSE "verified"

\* _voice_signal_status, of the results and checks of the voice actions V.
SignalStatus(V, base) ==
    LET E == Expected(V)
    IN IF base # "verified" THEN "blocked"
       ELSE IF V = {} \/ \E a \in V : ~Satisfied(results[a]) THEN "failed"
       ELSE IF E = {} THEN "unobservable"
       ELSE IF \A a \in E : checks'[a] = "verified" THEN "verified"
       ELSE IF \E a \in E : checks'[a] = "failed" THEN "failed"
       ELSE "unobservable"

\* _overall_status.
Overall(rs, cs) ==
    IF \E a \in Action : rs[a] = "failed" THEN "failed"
    ELSE IF \/ \E a \in Action : rs[a] \in {"skipped", "blocked"}
            \/ \E a \in Expected(Action) : cs[a] # "verified" THEN "partial"
    ELSE IF Expected(Action) # {} THEN "verified"
    ELSE IF Action # {} THEN "applied"
    ELSE "skipped"

\* The result.
Report(next) ==
    /\ pc' = next
    /\ status' = Overall(results', checks')

-----------------------------------------------------------------------------
(* The voice signal barrier.                                               *)

\* Without voice actions there is none.
VerifyAll ==
    /\ pc = "phase" /\ \A p \in Phases : p <= phase
    /\ Deferred = {}
    /\ Verify(Expected(Action))
    /\ UNCHANGED results
    /\ Report("returned")
    /\ UNCHANGED <<request, phase, call, left, full, foundation, signal, events,
                   channel, device, sent, basis>>

\* Everything else is verified before the voice VLANs are signalled.
VerifyBefore ==
    /\ pc = "phase" /\ \A p \in Phases : p <= phase
    /\ Deferred # {}
    /\ Verify(Expected(Action) \ Deferred)
    /\ pc' = "barrier"
    /\ UNCHANGED <<request, phase, call, left, full, results, foundation, signal, status,
                   events, channel, device, sent, basis>>

\* The foundation holds: signal at once...
Signal ==
    /\ pc = "barrier"
    /\ FoundationStatus = "verified" /\ ~defer
    /\ foundation' = "verified"
    /\ call' = Deferred /\ left' = Deferred /\ full' = TRUE
    /\ pc' = "dispatch"
    /\ UNCHANGED <<request, phase, results, checks, signal, status, events,
                   channel, device, sent, basis>>

\* ...or after the voice bootstrap.
DeferSignal ==
    /\ pc = "barrier"
    /\ FoundationStatus = "verified" /\ defer
    /\ foundation' = "verified" /\ signal' = "intended"
    /\ results' = Told(Deferred, "partial")
    /\ checks' = [a \in Action |-> IF a \in Expected(Deferred) THEN "partial" ELSE checks[a]]
    /\ Report("returned")
    /\ UNCHANGED <<request, phase, call, left, full, events, channel, device, sent, basis>>

\* It does not hold: the ports stay without a voice VLAN.
HoldSignal ==
    /\ pc = "barrier"
    /\ FoundationStatus # "verified"
    /\ foundation' = FoundationStatus
    /\ results' = Told({a \in Deferred : Satisfied(results[a])}, "partial")
    /\ pc' = "after"
    /\ UNCHANGED <<request, phase, call, left, full, checks, signal, status, events, channel, device, sent, basis>>

VerifyAfter ==
    /\ pc = "after"
    /\ Verify(Expected(Deferred))
    /\ signal' = SignalStatus(Deferred, foundation)
    /\ UNCHANGED results
    /\ Report("returned")
    /\ UNCHANGED <<request, phase, call, left, full, foundation, events, channel, device,
                   sent, basis>>

-----------------------------------------------------------------------------
(* complete_deferred_voice_signals, on the result apply has returned.      *)

\* A barrier that was left for later.
Prepared == signal = "intended" /\ foundation = "verified"

\* Every voice port is retained, and nothing is to be sent.
Retained == signal = "none" /\ Voice # {} /\ Voice \cap scope = {}

\* The wrong result, or the targets cannot be resolved.
RefuseCompletion ==
    /\ pc = "returned"
    /\ status' = "failed"
    /\ signal' = IF signal = "none" THEN "none" ELSE "failed"
    /\ UNCHANGED <<request, pc, phase, call, left, full, results, checks, foundation,
                   events, channel, device, sent, basis>>

\* The voice VLANs that were left for later are sent.
CompleteDeferred ==
    /\ pc = "returned" /\ Prepared
    /\ call' = Deferred /\ left' = Deferred /\ full' = TRUE
    /\ pc' = "redispatch"
    /\ UNCHANGED <<request, phase, results, checks, foundation, signal, status, events, channel, device, sent, basis>>

CompleteRetained ==
    /\ pc = "returned" /\ Retained
    /\ foundation' = FoundationStatus
    /\ call' = {} /\ left' = {}
    /\ pc' = "direct"
    /\ UNCHANGED <<request, phase, full, results, checks, signal, status, events, channel, device, sent, basis>>

\* VOICE_SIGNAL_VERIFIED.
Announced ==
    /\ \A a \in Voice : Satisfied(results[a])
    /\ Expected(Voice) # {}
    /\ \A a \in Expected(Voice) : checks'[a] = "verified"

\* All voice ports are read directly, whatever became of their actions.
VerifyDirect ==
    /\ pc = "direct"
    /\ \E read \in [Expected(Voice) -> Observed] :
          /\ \A a \in Expected(Voice) : read[a] \in Reading(a)
          /\ checks' = [a \in Action |-> IF a \in Expected(Voice) THEN read[a] ELSE checks[a]]
    /\ events' = IF Announced THEN events \cup {"voice_signal_verified"} ELSE events
    /\ pc' = "forwarding"
    /\ UNCHANGED <<request, phase, call, left, full, results, foundation, signal, status,
                   channel, device, sent, basis>>

\* _merge_voice_signal_verification.
Merged(direct, forwarding) ==
    IF "failed" \in {direct, forwarding} THEN "failed"
    ELSE IF direct = "verified" /\ forwarding = "verified" THEN "verified"
    ELSE "partial"

\* wait_for_voice_access_forwarding, and the result.
VerifyForwarding ==
    /\ pc = "forwarding"
    /\ \E read \in [Expected(Voice) -> {"verified", "failed", "unobservable"}] :
          /\ \A a \in Expected(Voice) : read[a] \in Reading(a)
          /\ checks' = [a \in Action |-> IF a \in Expected(Voice) THEN Merged(checks[a], read[a])
                                         ELSE checks[a]]
          /\ events' = IF Expected(Voice) # {} /\ \A a \in Expected(Voice) : read[a] = "verified"
                       THEN events \cup {"phone_access_fwd_verified"} ELSE events
    /\ signal' = SignalStatus(Voice, foundation)
    /\ UNCHANGED results
    /\ Report("returned")
    /\ UNCHANGED <<request, phase, call, left, full, foundation, channel, device, sent, basis>>

-----------------------------------------------------------------------------
\* apply_actions, which both calls use.
Dispatch ==
    \/ \E d \in Range(DeviceOf) : DispatchDevice(d)
    \/ DispatchFails \/ DispatchEnds

\* apply.
Apply ==
    \/ Refuse \/ Begin \/ EnterPhase \/ Dispatch
    \/ VerifyAll \/ VerifyBefore \/ Signal \/ DeferSignal \/ HoldSignal \/ VerifyAfter

\* complete_deferred_voice_signals.
BeginCompletion == RefuseCompletion \/ CompleteDeferred \/ CompleteRetained
Complete == Dispatch \/ VerifyDirect \/ VerifyForwarding

Next == Apply \/ BeginCompletion \/ Complete \/ RunPayload

Spec == Init /\ [][Next]_vars

=============================================================================
