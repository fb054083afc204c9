----------------------------- MODULE Applications -----------------------------
(***************************************************************************)
(* The applicators that no stage of the CP-SCALE run composes: security,   *)
(* services, and the calls between phones.  They have nothing to do with   *)
(* each other: a behaviour is one of one of them, chosen at the start, and *)
(* the others rest.                                                        *)
(***************************************************************************)
EXTENDS Naturals, Sequences

CONSTANTS
    Policies, PolicyBatch, PolicyDepends,           \* a security plan
    Denies, Readable, Recovers, MayDoubt, MayRaise,
    Records, RecordBatch, RecordDepends,            \* a service plan
    Expectations, KindOf, ActionOf, ServiceOf, ClientOf, AddressOf, Mentions,
    Needs,
    Calls, MaxRestarts                              \* the calls to make

VARIABLES
    which,      \* "security", "service" or "phone"
    scope, refused, pc, batch, call, results, channel, device, status,
    control, baseline, direct, enforced, recovered, undone, verdict, worked,
    i, since, checks, running, typed, text,
    next, at, observed, answers, expired, requests, receipts, work, restarts, line, told

S == INSTANCE SecurityApply WITH
        Plan <- Policies, BatchOf <- PolicyBatch, DependsOn <- PolicyDepends

V == INSTANCE ServiceApply WITH
        Plan <- Records, BatchOf <- RecordBatch, DependsOn <- RecordDepends,
        MayDoubt <- FALSE

P == INSTANCE PhoneCalls WITH pc <- at, results <- answers

ASSUME ApplicationsAssumption ==
    S!SecurityAssumption /\ V!ServiceAssumption /\ P!CallsAssumption

shared   == <<scope, refused, pc, batch, call, results, channel, device, status>>
security == <<control, baseline, direct, enforced, recovered, undone, verdict, worked>>
service  == <<i, since, checks, running, typed, text>>
phone    == <<next, at, observed, answers, expired, requests, receipts, work, restarts, line,
              told>>
vars     == <<which, shared, security, service, phone>>

SharedRests ==
    /\ scope = "" /\ refused = "" /\ pc = "" /\ batch = "" /\ call = "" /\ results = ""
    /\ channel = "" /\ device = "" /\ status = ""
SecurityRests ==
    /\ control = "" /\ baseline = "" /\ direct = "" /\ enforced = "" /\ recovered = "" /\ undone = ""
    /\ verdict = "" /\ worked = ""
ServiceRests ==
    /\ i = "" /\ since = "" /\ checks = "" /\ running = "" /\ typed = "" /\ text = ""
PhoneRests ==
    /\ next = "" /\ at = "" /\ observed = "" /\ answers = "" /\ expired = "" /\ requests = ""
    /\ receipts = "" /\ work = "" /\ restarts = "" /\ line = "" /\ told = ""

Init ==
    \/ which = "security" /\ S!Init /\ ServiceRests /\ PhoneRests
    \/ which = "service" /\ V!Init /\ SecurityRests /\ PhoneRests
    \/ which = "phone" /\ P!Init /\ SharedRests /\ SecurityRests /\ ServiceRests

Security == which = "security" /\ S!Next /\ UNCHANGED <<which, service, phone>>
Service  == which = "service" /\ V!Next /\ UNCHANGED <<which, security, phone>>
Driver   == which = "phone" /\ P!Driver /\ UNCHANGED <<which, shared, security, service>>
Passes(k) == which = "phone" /\ P!Expire(k) /\ UNCHANGED <<which, shared, security, service>>
Outside  == which = "phone" /\ (P!Controller \/ P!Restart \/ \E k \in P!Number : P!EndCall(k))
            /\ UNCHANGED <<which, shared, security, service>>

Next == Security \/ Service \/ Driver \/ Outside \/ \E k \in P!Number : Passes(k)

\* The fairness of PhoneCalls.
Spec == Init /\ [][Next]_vars /\ WF_vars(Driver) /\ \A k \in P!Number : WF_vars(Passes(k))

\* What VERIFIED says of a security plan is so (SecurityApply, _overall).
VerifiedIsSo == which = "security" => S!VerifiedIsSo

\* What depends on an action runs, however late its script, only where that
\* action is in effect (ServiceApply, satisfies_apply_dependency in apply).
LateScriptFindsItsGround == which = "service" => V!LateScriptFindsItsGround

\* A verified DNS expectation that can tell its answer from those before it was
\* answered by its own ping (ServiceApply, _fresh_command_window).
EvidenceIsItsOwn == which = "service" => V!EvidenceIsItsOwn

\* A verified call was set up and ended before its deadline, by its own
\* attempt (PhoneCalls, _observation).
VerifiedCallWasMade == which = "phone" => P!VerifiedCallWasMade

\* Whatever the controller does, the driver answers for every call
\* (PhoneCalls, the deadline of __call__).
DriverEnds == which = "phone" => <>(at = "end")
=============================================================================
