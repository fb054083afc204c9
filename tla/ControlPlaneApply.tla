-------------------------- MODULE ControlPlaneApply --------------------------
(***************************************************************************)
(* ControlPlaneApplicator (application/use_cases/apply_control_plane.py)   *)
(* over enterprise_control_plane_runtime.py: a control-plane plan is       *)
(* dispatched, its state and its behaviour are verified, and then each     *)
(* failure scenario takes a link down, observes the failover, and brings   *)
(* the link back.                                                          *)
(*                                                                         *)
(* A scenario is the one place where the program breaks a working network  *)
(* on purpose: whatever happens on the way, the link has to come back, or  *)
(* the result has to say that it may not have.                             *)
(***************************************************************************)
EXTENDS PlanDispatch

CONSTANTS
    Expects,    \* action -> the kinds of expectation it has:
                \* a subset of {"observed", "behavior"}
    Scenarios,  \* plan.failure_scenarios, in order
    AnchorOf,   \* scenario -> the action its expectations are anchored at
    Survives    \* scenarios with expected_surviving_link_ids

Scenario == Range(Scenarios)

ControlPlaneAssumption ==
    /\ DispatchAssumption
    /\ Expects \in [Action -> SUBSET {"observed", "behavior"}]
    /\ Scenarios \in Seq(Scenario) /\ IsInjective(Scenarios)
    /\ AnchorOf \in [Scenario -> Action]
    /\ Survives \subseteq Scenario

VARIABLES
    checks,     \* status of each expectation
    s,          \* index of the scenario the runtime is in
    run,        \* what the runtime knows of it
    scenarios,  \* the result of each scenario
    status,     \* status of the result
    verdict,    \* the verdict the journal got, if any
    up,         \* whether the link of each scenario is up in Packet Tracer
    faulted,    \* history: scenarios whose shutdown was attempted
    restored    \* history: scenarios whose restore was attempted

own  == <<checks, s, run, scenarios, status, verdict, up, faulted, restored>>
vars == <<dispatch, pc, channel, device, own>>

Check == {"none", "verified", "failed", "unobservable", "blocked", "unknown"}
Expectation == {e \in Action \X {"observed", "behavior"} : e[2] \in Expects[e[1]]}

\* injection, during, restore and after of RuntimeFailureScenarioResult.
NoRun == [before |-> "none", injection |-> "none", during |-> "none",
          restore |-> "none", after |-> "none", raised |-> FALSE]

\* FailureScenarioResult.
NoResult == [status |-> "none", code |-> "none", injection |-> "none",
             restore |-> "none", recovery |-> "none"]

Init ==
    /\ DispatchInit
    /\ checks = [e \in Expectation |-> "none"]
    /\ s = 0 /\ run = NoRun
    /\ scenarios = [x \in Scenario |-> NoResult]
    /\ status = "none" /\ verdict = "none"
    /\ up = [x \in Scenario |-> TRUE]
    /\ faulted = {} /\ restored = {}

-----------------------------------------------------------------------------
(* Preflight and dispatch.                                                 *)

\* _source_mismatch, _foundation_errors, the manifest, the order, the targets.
Refuse ==
    /\ pc = "preflight"
    /\ pc' = "refused" /\ status' = "failed"
    /\ UNCHANGED <<dispatch, channel, device, checks, s, run, scenarios, verdict, up,
                   faulted, restored>>

Begin ==
    /\ pc = "preflight" /\ ScopeIsValid
    /\ results' = Given
    /\ pc' = "dispatch"
    /\ UNCHANGED <<scope, refused, batch, call, channel, device, own>>

Dispatch == (NextBatch \/ SendAction \/ DispatchEnds("observed")) /\ UNCHANGED own

Run == RunAction /\ UNCHANGED own

-----------------------------------------------------------------------------
(* Verification.                                                           *)

\* What a reading of an expectation of a may be: VERIFIED only of what is.
Reading(a) == {"failed", "unobservable", "unknown"} \cup {v \in {"verified"} : device[a]}

\* prerequisites_satisfied: the action dispatched, and for a behaviour the
\* state it rests on verified.
Prerequisites(e) ==
    /\ Satisfied(results[e[1]])
    /\ e[2] = "behavior" /\ "observed" \in Expects[e[1]]
       => checks[<<e[1], "observed">>] = "verified"

\* _verify_stage.
VerifyStage(k, next) ==
    LET stage == {e \in Expectation : e[2] = k}
        able  == {e \in stage : Prerequisites(e)}
    IN /\ pc = k
       /\ \E read \in [able -> Check] :
             /\ \A e \in able : read[e] \in Reading(e[1])
             /\ checks' = [e \in Expectation |-> IF e \in able THEN read[e]
                                                 ELSE IF e \in stage THEN "blocked"
                                                 ELSE checks[e]]
       /\ pc' = next
       /\ s' = 1
       /\ UNCHANGED <<dispatch, channel, device, run, scenarios, status, verdict, up,
                      faulted, restored>>

Verify == VerifyStage("observed", "behavior") \/ VerifyStage("behavior", "scenario")

-----------------------------------------------------------------------------
(* A failure scenario: FailureScenarioExecutor.execute.                    *)

Current == Scenarios[s]
InScenario(where) == pc = where /\ s <= Len(Scenarios)

Record(x, r) ==
    /\ scenarios' = [scenarios EXCEPT ![x] = r]
    /\ s' = s + 1 /\ run' = NoRun
    /\ pc' = "scenario"

\* The prerequisites of the failure expectation.
MayRun(x) == Satisfied(results[AnchorOf[x]])

\* The scenario is not run: its prerequisites or its capabilities fail.
PassScenario ==
    /\ InScenario("scenario")
    /\ \E v \in {"blocked", "unobservable"} :
          /\ v = "blocked" <=> ~MayRun(Current)
          /\ Record(Current, [NoResult EXCEPT !.status = v])
    /\ UNCHANGED <<dispatch, channel, device, checks, status, verdict, up, faulted, restored>>

\* The runtime raises before it touches anything, or renders nothing.
RefuseScenario ==
    /\ InScenario("scenario") /\ MayRun(Current)
    /\ \/ Record(Current, [NoResult EXCEPT !.status = "failed", !.code = "cleanup",
                                           !.restore = "unknown"])
       \/ Record(Current, [NoResult EXCEPT !.status = "failed", !.code = "other",
                                           !.injection = "failed"])
    /\ UNCHANGED <<dispatch, channel, device, checks, status, verdict, up, faulted, restored>>

\* Whether the probe of x finds its destination.
Reachable(x) == up[x] \/ (x \in Survives /\ \E y \in Scenario \ {x} : up[y])

\* _stable_probe.
Probe(x, expected) ==
    {"failed", "unobservable"} \cup {v \in {"verified"} : Reachable(x) = expected}

\* The baseline: without it no fault is injected.
Baseline ==
    /\ InScenario("scenario") /\ MayRun(Current)
    /\ \E v \in Probe(Current, TRUE) :
          IF v = "verified"
          THEN run' = [run EXCEPT !.before = v] /\ pc' = "inject" /\ UNCHANGED <<scenarios, s>>
          ELSE Record(Current, [NoResult EXCEPT !.status = "failed", !.code = "other"])
    /\ UNCHANGED <<dispatch, channel, device, checks, status, verdict, up, faulted, restored>>

\* _configure: sent, refused, or in the channel and reported as refused.
Configure(kind) ==
    {[to |-> Append(channel, [kind |-> kind, of |-> Current]), as |-> "applied"],
     [to |-> channel, as |-> "failed"]}
    \cup {[to |-> Append(channel, [kind |-> kind, of |-> Current]), as |-> "failed"] :
             doubt \in {1} \cap (IF MayDoubt THEN {1} ELSE {})}

Inject ==
    /\ InScenario("inject")
    /\ \E c \in Configure("shutdown") :
          /\ channel' = c.to
          /\ run' = [run EXCEPT !.injection = c.as,
                                !.during = IF c.as = "failed" THEN "unobservable" ELSE "none"]
          /\ pc' = IF c.as = "failed" THEN "restore" ELSE "during"
    /\ faulted' = faulted \cup {Current}
    /\ UNCHANGED <<dispatch, device, checks, s, scenarios, status, verdict, up, restored>>

\* _interface_effect.
Effect(x, down) == {"failed", "unobservable"} \cup {v \in {"verified"} : up[x] # down}

\* The effect is read back, then the behaviour without the link; an exception
\* in between leaves no observation.
During ==
    /\ InScenario("during")
    /\ \/ \E effect \in Effect(Current, TRUE), v \in Probe(Current, Current \in Survives) :
             run' = [run EXCEPT !.during = IF effect = "verified" THEN v ELSE "blocked"]
       \/ run' = [run EXCEPT !.raised = TRUE]
    /\ pc' = "restore"
    /\ UNCHANGED <<dispatch, channel, device, checks, s, scenarios, status, verdict, up,
                   faulted, restored>>

\* Mutant: a fault that was refused needs no restore.
Restore_IfInjected ==
    /\ InScenario("restore")
    /\ IF run.injection = "applied"
       THEN /\ \E c \in Configure("restore") :
                  channel' = c.to /\ run' = [run EXCEPT !.restore = c.as]
            /\ restored' = restored \cup {Current}
       ELSE UNCHANGED <<channel, run, restored>>
    /\ pc' = "after"
    /\ UNCHANGED <<dispatch, device, checks, s, scenarios, status, verdict, up, faulted>>

\* finally: the restore is always attempted.
Restore ==
    /\ InScenario("restore")
    /\ \E c \in Configure("restore") :
          channel' = c.to /\ run' = [run EXCEPT !.restore = c.as]
    /\ restored' = restored \cup {Current}
    /\ pc' = "after"
    /\ UNCHANGED <<dispatch, device, checks, s, scenarios, status, verdict, up, faulted>>

\* The link and the behaviour after the restore.
After ==
    /\ InScenario("after")
    /\ IF run.restore = "applied"
       THEN \E effect \in Effect(Current, FALSE), v \in Probe(Current, TRUE) :
               run' = [run EXCEPT !.after = IF effect = "verified" THEN v ELSE "blocked"]
       ELSE run' = run
    /\ pc' = "judge"
    /\ UNCHANGED <<dispatch, channel, device, checks, s, scenarios, status, verdict, up,
                   faulted, restored>>

\* _scenario_result; without a verified failover there is no recovery to
\* speak of.
Judgement ==
    LET recovery == IF run.during = "verified" THEN run.after ELSE "blocked"
        ok == run.injection = "applied" /\ run.during = "verified" /\ recovery = "verified"
    IN IF run.raised
       THEN [NoResult EXCEPT !.status = "failed", !.code = "cleanup", !.restore = "unknown"]
       ELSE [status    |-> IF run.restore = "applied" /\ ok THEN "verified" ELSE "failed",
             code      |-> IF run.restore # "applied" THEN "cleanup"
                           ELSE IF ok THEN "none" ELSE "other",
             injection |-> run.injection, restore |-> run.restore, recovery |-> recovery]

Judge ==
    /\ InScenario("judge")
    /\ Record(Current, Judgement)
    /\ UNCHANGED <<dispatch, channel, device, checks, status, verdict, up, faulted, restored>>

\* Packet Tracer runs a shutdown or a restore, or rejects it.
RunFault ==
    /\ Awaits({"shutdown", "restore"})
    /\ channel' = Tail(channel)
    /\ \E ok \in BOOLEAN :
          up' = [up EXCEPT ![Head(channel).of] = IF ok THEN Head(channel).kind = "restore" ELSE @]
    /\ UNCHANGED <<dispatch, pc, device, checks, s, run, scenarios, status, verdict,
                   faulted, restored>>

-----------------------------------------------------------------------------
(* The result.                                                             *)

\* _overall.
Overall ==
    LET ran == {scenarios[x].status : x \in Scenario}
    IN IF \/ \E a \in Action : results[a] = "failed"
          \/ "failed" \in ran THEN "failed"
       ELSE IF \/ \E a \in Action : results[a] \in {"skipped", "blocked"}
               \/ \E e \in Expectation : checks[e] # "verified"
               \/ ran \ {"verified"} # {} THEN "partial"
       ELSE IF Expectation # {} \/ Scenario # {} THEN "verified"
       ELSE "applied"

\* _record_scenario_restore.
Verdict ==
    LET injected == {x \in Scenario : Satisfied(scenarios[x].injection)}
    IN IF \E x \in Scenario : scenarios[x].code = "cleanup" /\ scenarios[x].restore = "unknown"
       THEN "unknown"
       ELSE IF injected = {} THEN "none"
       ELSE IF \E x \in injected : ~Satisfied(scenarios[x].restore) THEN "failed"
       ELSE IF \E x \in injected : scenarios[x].recovery # "verified" THEN "unknown"
       ELSE "succeeded"

Return ==
    /\ pc = "scenario" /\ s > Len(Scenarios)
    /\ status' = Overall /\ verdict' = Verdict
    /\ pc' = "returned"
    /\ UNCHANGED <<dispatch, channel, device, checks, s, run, scenarios, up, faulted, restored>>

-----------------------------------------------------------------------------
Apply ==
    \/ Refuse \/ Begin \/ Dispatch \/ Verify
    \/ PassScenario \/ RefuseScenario \/ Baseline \/ Inject \/ During \/ Restore \/ After
    \/ Judge \/ Return

Next == Apply \/ Run \/ RunFault

Spec == Init /\ [][Next]_vars

-----------------------------------------------------------------------------
(* Properties.                                                             *)

\* "the runtime attempts restore in finally after every attempted injection":
\* no scenario starts, and nothing is returned, while a link that was ordered
\* down has not been ordered up (FailureScenarioExecutor.execute).
FaultIsFollowedByRestore ==
    \A x \in faulted \ restored : s <= Len(Scenarios) /\ Current = x /\ pc \in {"during", "restore"}

=============================================================================
