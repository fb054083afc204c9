----------------------------- MODULE ServiceApply -----------------------------
(***************************************************************************)
(* ServiceApplicator (application/use_cases/apply_services.py) over        *)
(* enterprise_service_runtime.py.  A batch of service actions is one       *)
(* script that changes and reads back; its answer may come too late, and   *)
(* the script still runs.  Then each expectation is verified in turn; the  *)
(* DNS ones type a ping into the one command prompt of the client and read *)
(* what the prompt shows after it, which may be what an earlier ping still *)
(* had to say.                                                             *)
(***************************************************************************)
EXTENDS PlanDispatch

CONSTANTS
    Expectations,   \* plan.verification_expectations, in the order they run
    KindOf,         \* "direct", "resolution", "negative", "fetch"
    ActionOf,       \* expectation.action_id
    ServiceOf,      \* expectation.service_id
    ClientOf,       \* expectation.client_device_id
    AddressOf,      \* the address a resolution expects
    Mentions,       \* address -> those that are found in the text of a ping to
                    \* it: itself, and any that is a part of it, as 10.0.0.1 is
                    \* of 10.0.0.10
    Needs           \* expectation.depends_on

Expectation == Range(Expectations)
Service     == Range(ServiceOf)
Client      == Range(ClientOf)
Address     == Range(AddressOf)

\* An expectation has an id of its own, and order_verification_expectations
\* goes by ids: "svc/verify-dns-negative/..." is before "svc/verify-dns/...".
ServiceAssumption ==
    /\ DispatchAssumption
    /\ Expectations \in Seq(Expectation)
    /\ \A j, k \in 1..Len(Expectations) : j < k =>
          /\ Expectations[j] # Expectations[k]
          /\ ~(KindOf[Expectations[j]] = "resolution" /\ KindOf[Expectations[k]] = "negative")
    /\ KindOf \in [Expectation -> {"direct", "resolution", "negative", "fetch"}]
    /\ ActionOf \in [Expectation -> Action]
    /\ DOMAIN ServiceOf = Expectation /\ DOMAIN ClientOf = Expectation
    /\ DOMAIN AddressOf = Expectation
    /\ Mentions \in [Address -> SUBSET Address]
    /\ \A a \in Address : a \in Mentions[a]
    /\ Needs \in [Expectation -> SUBSET Expectation]

VARIABLES
    i,          \* the expectation that is next
    since,      \* length of the prompt's text when the ping was typed
    checks,     \* status of each expectation
    status,     \* status of the result
    running,    \* client -> the ping its prompt is running, if any
    typed,      \* client -> pings the prompt has still to run
    text        \* client -> what the pings have said

own  == <<i, since, checks, status, running, typed, text>>
vars == <<dispatch, pc, channel, device, own>>

Check == {"none", "verified", "failed", "unobservable", "blocked", "partial", "unknown"}

Init ==
    /\ DispatchInit /\ scope = Action
    /\ \A a \in Action : ~device[a]
    /\ i = 1 /\ since = 0
    /\ checks = [e \in Expectation |-> "none"]
    /\ status = "none"
    /\ running = [c \in Client |-> "none"]
    /\ typed = [c \in Client |-> <<>>]
    /\ text = [c \in Client |-> <<>>]

-----------------------------------------------------------------------------
(* Dispatch.                                                               *)

\* Source hashes, the manifest, the order, the foundations, the targets.
Refuse ==
    /\ pc = "preflight"
    /\ pc' = "refused" /\ status' = "failed"
    /\ UNCHANGED <<dispatch, channel, device, i, since, checks, running, typed, text>>

Begin ==
    /\ pc = "preflight"
    /\ results' = Given /\ pc' = "dispatch"
    /\ UNCHANGED <<scope, refused, batch, call, channel, device, own>>

Dispatch == (NextBatch \/ DispatchEnds("observed")) /\ UNCHANGED own

Awaited == [kind |-> "script", of |-> batch]

\* apply_actions: one script for the batch, and its answer is awaited.
SendScript ==
    /\ pc = "call"
    /\ channel' = Append(channel, Awaited)
    /\ pc' = "wait"
    /\ UNCHANGED <<dispatch, device, own>>

\* The script cannot be sent, or what comes back is not what was asked for.
ScriptRaises == CallRaises /\ UNCHANGED own

\* _json_result of no answer: none of the batch was applied.
ScriptTimesOut ==
    /\ pc = "wait"
    /\ results' = [a \in Action |-> IF a \in batch THEN "failed" ELSE results[a]]
    /\ call' = {} /\ pc' = "dispatch"
    /\ UNCHANGED <<scope, refused, batch, channel, device, own>>

\* Packet Tracer runs the script: each action takes effect or does not, and is
\* read back at once.
RunScript ==
    /\ Awaits({"script"})
    /\ channel' = Tail(channel)
    /\ \E done \in SUBSET Head(channel).of :
          /\ device' = [a \in Action |-> device[a] \/ a \in done]
          /\ IF pc = "wait" /\ Tail(channel) = <<>>
             THEN /\ results' = [a \in Action |-> IF a \notin batch THEN results[a]
                                                  ELSE IF device'[a] THEN "applied" ELSE "failed"]
                  /\ call' = {} /\ pc' = "dispatch"
             ELSE UNCHANGED <<results, call, pc>>
    /\ UNCHANGED <<scope, refused, batch, own>>

-----------------------------------------------------------------------------
(* Verification: _verify, one expectation after the other.                 *)

Current == Expectations[i]
At(where) == pc = where /\ i <= Len(Expectations)

Conclude(v) ==
    /\ checks' = [checks EXCEPT ![Current] = v]
    /\ i' = i + 1 /\ pc' = "observed"

Prerequisites ==
    /\ Satisfied(results[ActionOf[Current]])
    /\ \A e \in Needs[Current] : checks[e] = "verified"

\* Prerequisites, readiness and support.
PassExpectation ==
    /\ At("observed")
    /\ \E v \in {"blocked", "unobservable", "unknown", "partial"} :
          (v = "blocked" <=> ~Prerequisites) /\ Conclude(v)
    /\ UNCHANGED <<dispatch, channel, device, since, status, running, typed, text>>

\* _verify_direct and _verify_http: the state of the server, and what a client
\* of its own gets from it.
Read ==
    /\ At("observed") /\ Prerequisites
    /\ KindOf[Current] \in {"direct", "fetch"}
    /\ \E v \in {"failed"} \cup {x \in {"verified"} : device[ActionOf[Current]]} : Conclude(v)
    /\ UNCHANGED <<dispatch, channel, device, since, status, running, typed, text>>

\* _verify_dns: the script that types the ping is sent.
TypePing ==
    /\ At("observed") /\ Prerequisites
    /\ KindOf[Current] \in {"resolution", "negative"}
    /\ channel' = Append(channel, [kind |-> "ping", of |-> Current])
    /\ pc' = "typing"
    /\ UNCHANGED <<dispatch, device, own>>

\* The prompt takes the command; one typed over a running ping waits, or is
\* lost.
RunTyping ==
    /\ Awaits({"ping"})
    /\ LET e == Head(channel).of  c == ClientOf[e] IN
       /\ channel' = Tail(channel)
       /\ IF running[c] = "none"
          THEN running' = [running EXCEPT ![c] = e] /\ UNCHANGED typed
          ELSE /\ UNCHANGED running
               /\ \/ typed' = [typed EXCEPT ![c] = Append(@, e)]
                  \/ UNCHANGED typed
       /\ IF pc = "typing" /\ e = Current
          THEN pc' = "polling" /\ since' = Len(text[c])
          ELSE UNCHANGED <<pc, since>>
    /\ UNCHANGED <<dispatch, device, i, checks, status, text>>

\* "did not start": no answer, no prompt, or its pager is in the way.  The
\* script, the last in the channel, is still to run or does not type.
PingDoesNotStart ==
    /\ At("typing")
    /\ \/ UNCHANGED channel
       \/ channel' = Front(channel)
    /\ Conclude("failed")
    /\ UNCHANGED <<dispatch, device, since, status, running, typed, text>>

\* Whether the ping of a prompt has said where it goes.
HasResolved(c) ==
    \E k \in 1..Len(text[c]) : text[c][k].of = running[c] /\ text[c][k].says # "not found"

Line(e, says, sent) == [of |-> e, says |-> says, sent |-> sent]

\* A ping says which address its name has...
PingResolves(c) ==
    LET e == running[c] IN
    /\ e # "none" /\ ~HasResolved(c)
    /\ KindOf[e] = "resolution" /\ device[ActionOf[e]]
    /\ text' = [text EXCEPT ![c] = Append(@, Line(e, AddressOf[e], "no"))]
    /\ UNCHANGED <<dispatch, pc, channel, device, i, since, checks, status, running, typed>>

\* ...and ends with its statistics, or has found no host.
PingEnds(c) ==
    LET e == running[c] IN
    /\ e # "none"
    /\ text' = [text EXCEPT ![c] = Append(@, IF HasResolved(c) THEN Line(e, AddressOf[e], "yes")
                                             ELSE Line(e, "not found", "no"))]
    /\ running' = [running EXCEPT ![c] = IF typed[c] = <<>> THEN "none" ELSE Head(typed[c])]
    /\ typed' = [typed EXCEPT ![c] = IF @ = <<>> THEN @ ELSE Tail(@)]
    /\ UNCHANGED <<dispatch, pc, channel, device, i, since, checks, status>>

\* _fresh_command_window.
Window == SubSeq(text[ClientOf[Current]], since + 1, Len(text[ClientOf[Current]]))

NotFound     == \E k \in 1..Len(Window) : Window[k].says = "not found"
IsFound(a)   == \E k \in 1..Len(Window) : Window[k].says # "not found" /\ a \in Mentions[Window[k].says]
PacketsSent  == \E k \in 1..Len(Window) : Window[k].sent = "yes"

\* Mutant: any answer will do.
Matched_Any == IF KindOf[Current] = "negative" THEN NotFound ELSE ~NotFound /\ PacketsSent

\* The window is searched as a whole: what says where a ping goes and what says
\* that it has ended may be of two pings, and of another address.
Matched == IF KindOf[Current] = "negative" THEN NotFound
           ELSE ~NotFound /\ IsFound(AddressOf[Current]) /\ PacketsSent

\* _poll: until the window is complete or the time is over.
PollPing ==
    /\ At("polling")
    /\ Conclude(IF Matched THEN "verified" ELSE "failed")
    /\ UNCHANGED <<dispatch, channel, device, since, status, running, typed, text>>

-----------------------------------------------------------------------------
(* The result.                                                             *)

\* _outcomes: a service is as usable as its behaviour; without one, as what
\* was applied, which is never VERIFIED.
Usability(s) ==
    LET behavior == {e \in Expectation : ServiceOf[e] = s /\ KindOf[e] # "direct"}
    IN IF behavior # {} /\ \A e \in behavior : checks[e] = "verified" THEN "verified"
       ELSE IF \E e \in behavior : checks[e] = "failed" THEN "failed"
       ELSE "partial"

\* _overall.
Overall ==
    IF \E a \in Action : results[a] = "failed" THEN "failed"
    ELSE IF /\ \A a \in Action : Satisfied(results[a])
            /\ \A s \in Service : Usability(s) = "verified" THEN "verified"
    ELSE "partial"

Return ==
    /\ pc = "observed" /\ i > Len(Expectations)
    /\ status' = Overall
    /\ pc' = "returned"
    /\ UNCHANGED <<dispatch, channel, device, i, since, checks, running, typed, text>>

-----------------------------------------------------------------------------
Next ==
    \/ Refuse \/ Begin \/ Dispatch \/ SendScript \/ ScriptRaises \/ ScriptTimesOut \/ RunScript
    \/ PassExpectation \/ Read \/ TypePing \/ RunTyping \/ PingDoesNotStart
    \/ (\E c \in Client : PingResolves(c) \/ PingEnds(c)) \/ PollPing
    \/ Return

Spec == Init /\ [][Next]_vars

-----------------------------------------------------------------------------
(* Properties.                                                             *)

\* What depends on an action runs, even late, only where that action is in
\* effect: a batch that was given up holds up all that rests on it
\* (satisfies_apply_dependency in apply).
LateScriptFindsItsGround ==
    \A a \in Action :
        device[a] \/ (\E k \in 1..Len(channel) : channel[k].kind = "script" /\ a \in channel[k].of)
        => \A d \in DependsOn[a] : device[d]

\* What an expectation wants to read is in no answer to an earlier one of its
\* client: no name before it has an address that contains its own, and no two
\* names do not exist.
IsDistinct(e) ==
    \A j, k \in 1..Len(Expectations) :
        LET f == Expectations[j] IN
        j < k /\ Expectations[k] = e /\ ClientOf[f] = ClientOf[e] /\ KindOf[f] = KindOf[e]
        => KindOf[e] = "resolution" /\ AddressOf[e] \notin Mentions[AddressOf[f]]

\* The ping of a DNS expectation has itself said what was expected.
AnsweredItself(e) ==
    \E k \in 1..Len(text[ClientOf[e]]) :
        LET said == text[ClientOf[e]][k] IN
        said.of = e /\ said.says = IF KindOf[e] = "negative" THEN "not found" ELSE AddressOf[e]

VerifiedByPing(e) == KindOf[e] \in {"resolution", "negative"} /\ checks[e] = "verified"

\* A verified DNS expectation that can tell its answer from those to the pings
\* before it was answered by its own ping, as expected
\* (_fresh_command_window).
EvidenceIsItsOwn ==
    \A e \in Expectation : VerifiedByPing(e) /\ IsDistinct(e) => AnsweredItself(e)
=============================================================================
