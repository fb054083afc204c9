---------------------------- MODULE SecurityApply ----------------------------
(***************************************************************************)
(* SecurityApplicator (application/use_cases/apply_security.py) over       *)
(* enterprise_security_runtime.py: what a policy forbids is first shown to *)
(* work, then the policies are dispatched, read back and put to the test,  *)
(* and, when the run is a control, taken away again and the traffic shown  *)
(* to be back.  A batch is what is ready of one phase, on every device.    *)
(***************************************************************************)
EXTENDS PlanDispatch

CONSTANTS
    Denies,     \* actions with a deny expectation, whose baseline is required
    Readable,   \* actions with a direct read-back
    Recovers,   \* actions whose behaviour is probed again after the cleanup
    MayRaise    \* whether apply_actions or cleanup_actions may raise after
                \* some of their actions were sent

SecurityAssumption ==
    /\ DispatchAssumption
    /\ Denies \subseteq Action /\ Readable \subseteq Action
    /\ Recovers \subseteq Denies
    /\ MayRaise \in BOOLEAN

VARIABLES
    control,    \* cleanup_control
    baseline,   \* baseline_status of each expectation
    direct,     \* direct_status
    enforced,   \* enforcement_status
    recovered,  \* cleanup_status
    undone,     \* status of the cleanup of each action
    status,     \* status of the result
    verdict,    \* the verdict the journal got, if any
    worked      \* history: denied traffic that was seen to flow before

own  == <<control, baseline, direct, enforced, recovered, undone, status, verdict, worked>>
vars == <<dispatch, pc, channel, device, own>>

Check == {"skipped", "verified", "failed", "unobservable", "blocked", "unknown"}

\* Security plans have no retained actions.
Init ==
    /\ DispatchInit /\ scope = Action
    /\ control \in BOOLEAN
    /\ baseline = [a \in Denies |-> "skipped"]
    /\ direct = [a \in Readable |-> "skipped"]
    /\ enforced = [a \in Denies |-> "skipped"]
    /\ recovered = [a \in Recovers |-> "skipped"]
    /\ undone = [a \in Action |-> "none"]
    /\ status = "none" /\ verdict = "none"
    /\ worked = {}

-----------------------------------------------------------------------------
(* The baseline, before anything is sent.                                  *)

\* Source hashes, the manifest, the order, the foundations, the targets.
Refuse ==
    /\ pc = "preflight"
    /\ pc' = "refused" /\ status' = "failed"
    /\ UNCHANGED <<dispatch, channel, device, control, baseline, direct, enforced,
                   recovered, undone, verdict, worked>>

\* What a probe finds: traffic flows unless its policy is in effect, and any
\* probe may come to nothing.
Probe(a, flows) ==
    {"failed", "unobservable", "unknown"} \cup {v \in {"verified"} : device[a] # flows}

BaselineHolds(read) == \A a \in Denies : read[a] = "verified"

Baseline ==
    /\ pc = "preflight"
    /\ \E read \in [Denies -> Check] :
          /\ \A a \in Denies : read[a] \in Probe(a, TRUE)
          /\ baseline' = read
          /\ worked' = {a \in Denies : read[a] = "verified"}
          /\ IF BaselineHolds(read)
             THEN pc' = "dispatch" /\ results' = Given /\ UNCHANGED status
             ELSE pc' = "refused" /\ status' = "failed" /\ UNCHANGED results
    /\ UNCHANGED <<scope, refused, batch, call, channel, device, control, direct, enforced,
                   recovered, undone, verdict>>

-----------------------------------------------------------------------------
(* Dispatch.                                                               *)

\* apply_actions: an action whose device is not ready is not sent.
Send ==
    /\ SendAction /\ UNCHANGED own

Raise == MayRaise /\ CallRaises /\ UNCHANGED own

Dispatch == (NextBatch \/ DispatchEnds("observed")) /\ UNCHANGED own

Run == RunAction /\ UNCHANGED own

-----------------------------------------------------------------------------
(* Verification: _run_verification_stage.                                  *)

\* The direct state of what was dispatched.
VerifyDirect ==
    /\ pc = "observed"
    /\ \E read \in [Readable -> Check] :
          /\ \A a \in Readable :
                read[a] \in IF Satisfied(results[a]) THEN Probe(a, FALSE) ELSE {"blocked"}
          /\ direct' = read
    /\ pc' = "behavior"
    /\ UNCHANGED <<dispatch, channel, device, control, baseline, enforced, recovered, undone,
                   status, verdict, worked>>

\* The prerequisites of a behaviour: the action, and its read-back.
MayProbe(a) == Satisfied(results[a]) /\ (a \in Readable => direct[a] = "verified")

VerifyBehavior ==
    /\ pc = "behavior"
    /\ \E read \in [Denies -> Check] :
          /\ \A a \in Denies : read[a] \in IF MayProbe(a) THEN Probe(a, FALSE) ELSE {"blocked"}
          /\ enforced' = read
    /\ pc' = IF control THEN "cleanup" ELSE "judge"
    /\ call' = {a \in Action : control /\ Satisfied(results[a])}
    /\ batch' = call'
    /\ UNCHANGED <<scope, refused, results, channel, device, control, baseline, direct,
                   recovered, undone, status, verdict, worked>>

-----------------------------------------------------------------------------
(* Cleanup of a control: cleanup_actions.                                  *)

LastOf(A) == CHOOSE a \in A : \A b \in A : Place(b) <= Place(a)

\* The inverse of one action, from the last of the plan to the first.
Cleanup ==
    /\ pc = "cleanup" /\ call # {}
    /\ LET a == LastOf(call) IN
       /\ \/ /\ channel' = Append(channel, [kind |-> "cleanup", of |-> a])
             /\ \E s \in {"applied"} \cup {t \in {"failed"} : MayDoubt} :
                   undone' = [undone EXCEPT ![a] = s]
          \/ /\ undone' = [undone EXCEPT ![a] = "failed"]
             /\ UNCHANGED channel
       /\ call' = call \ {a}
    /\ UNCHANGED <<scope, refused, batch, results, pc, device, control, baseline, direct,
                   enforced, recovered, status, verdict, worked>>

\* The runtime raises: no cleanup is told to have been sent.
CleanupRaises ==
    /\ MayRaise
    /\ pc = "cleanup" /\ call # {}
    /\ undone' = [a \in Action |-> IF a \in batch THEN "failed" ELSE undone[a]]
    /\ call' = {}
    /\ UNCHANGED <<scope, refused, batch, results, pc, channel, device, control, baseline,
                   direct, enforced, recovered, status, verdict, worked>>

\* Packet Tracer runs the next cleanup, or rejects it.
RunCleanup ==
    /\ Awaits({"cleanup"})
    /\ channel' = Tail(channel)
    /\ \E ok \in BOOLEAN : device' = [device EXCEPT ![Head(channel).of] = @ /\ ~ok]
    /\ UNCHANGED <<dispatch, pc, own>>

CleanedUp == \A a \in batch : Satisfied(undone[a])

\* The traffic is probed again, if every cleanup was sent.
VerifyRecovery ==
    /\ pc = "cleanup" /\ call = {}
    /\ \E read \in [Recovers -> Check] :
          /\ \A a \in Recovers :
                read[a] \in IF ~CleanedUp THEN {"skipped"}
                            ELSE IF Satisfied(results[a]) THEN Probe(a, TRUE) ELSE {"blocked"}
          /\ recovered' = read
    /\ pc' = "judge"
    /\ UNCHANGED <<dispatch, channel, device, control, baseline, direct, enforced, undone,
                   status, verdict, worked>>

-----------------------------------------------------------------------------
(* The result.                                                             *)

\* Mutant: a traffic that did not come back is incomplete evidence.
Overall_NoRecovery ==
    IF \/ \E a \in Action : results[a] = "failed"
       \/ control /\ ~CleanedUp
       \/ \E a \in Denies : enforced[a] \in {"failed", "unknown"}
       \/ \E a \in Readable : direct[a] = "failed" THEN "failed"
    ELSE IF \/ \E a \in Action : results[a] \in {"skipped", "blocked"}
            \/ \E a \in Denies : enforced[a] = "unobservable"
            \/ \E a \in Readable : direct[a] \in {"unknown", "unobservable"} THEN "partial"
    ELSE "verified"

\* _overall.
Overall ==
    IF \/ \E a \in Action : results[a] = "failed"
       \/ control /\ ~CleanedUp
       \/ \E a \in Denies : enforced[a] \in {"failed", "unknown"}
       \/ control /\ \E a \in Recovers : recovered[a] \notin {"skipped", "verified"}
       \/ \E a \in Readable : direct[a] = "failed" THEN "failed"
    ELSE IF \/ \E a \in Action : results[a] \in {"skipped", "blocked"}
            \/ \E a \in Denies : enforced[a] = "unobservable"
            \/ \E a \in Readable : direct[a] \in {"unknown", "unobservable"} THEN "partial"
    ELSE IF Denies \cup Readable # {} THEN "verified"
    ELSE "applied"

\* mark_cleanup.  A cleanup without a disposition leaves it unknown.
Verdict ==
    LET recovery == {a \in Recovers : Satisfied(results[a])}
    IN IF ~control \/ batch = {} THEN "none"
       ELSE IF CleanedUp /\ \A a \in recovery : recovered[a] = "verified" THEN "succeeded"
       ELSE "unknown"

Judge ==
    /\ pc = "judge"
    /\ status' = Overall /\ verdict' = Verdict
    /\ pc' = "returned"
    /\ UNCHANGED <<dispatch, channel, device, control, baseline, direct, enforced, recovered,
                   undone, worked>>

-----------------------------------------------------------------------------
Next ==
    \/ Refuse \/ Baseline \/ Dispatch \/ Send \/ Raise \/ Run
    \/ VerifyDirect \/ VerifyBehavior
    \/ Cleanup \/ CleanupRaises \/ RunCleanup \/ VerifyRecovery
    \/ Judge

Spec == Init /\ [][Next]_vars

-----------------------------------------------------------------------------
(* Properties.                                                             *)

\* What VERIFIED says of a plan is so: the traffic it denies flowed before any
\* policy was sent, and the policies are in effect, or, for a control, those
\* that were probed again are gone, scripts that run late or are rejected
\* included (_overall; apply, the baseline and recovery stages).
VerifiedIsSo ==
    status = "verified" =>
        /\ worked = Denies
        /\ IF control THEN \A a \in Recovers : ~device[a]
           ELSE \A a \in Denies \cup Readable : device[a]

=============================================================================
