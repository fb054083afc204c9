------------------------------ MODULE VoiceApply ------------------------------
(***************************************************************************)
(* VoiceApplicator (application/use_cases/apply_voice.py) over             *)
(* enterprise_voice_runtime.py: call controls and then phone bindings are  *)
(* dispatched; the bindings of a batch are read back together, and those   *)
(* that are seen to be absent are sent once more.  Only when all of it is  *)
(* applied is the deferred voice signal completed, and registrations and   *)
(* calls observed.  The first failure stops the dispatch.                  *)
(***************************************************************************)
EXTENDS PlanDispatch, TLC

CONSTANTS
    Bindings,   \* actions that bind a phone
    Calls       \* calls to verify, as pairs of bindings

\* Phones are bound in a phase of their own (VoicePhase.PHONE_BINDINGS).
VoiceAssumption ==
    /\ DispatchAssumption
    /\ Bindings \subseteq Action /\ Calls \subseteq Bindings \X Bindings
    /\ \A a, b \in Action : BatchOf[a] = BatchOf[b] => (a \in Bindings <=> b \in Bindings)

VARIABLES
    wanted,     \* whether complete_voice_signal is given
    stale,      \* bindings whose row another phone holds
    doubted,    \* applied, with a failure code
    initial,    \* the first grouped read of the bindings of the batch
    resent,     \* reconciliation: binding -> whether it was accepted
    signal,     \* whether voice signalling was completed
    registered, \* status of each registration
    called,     \* status of each call
    status      \* status of the result

own  == <<wanted, stale, doubted, initial, resent, signal, registered, called, status>>
vars == <<dispatch, pc, channel, device, own>>

Row == {"right", "wrong", "absent", "unread"}

Init ==
    /\ DispatchInit
    /\ wanted \in BOOLEAN
    /\ stale \in SUBSET (Bindings \cap scope)
    /\ doubted = {}
    /\ initial = << >> /\ resent = << >>
    /\ signal = "closed"
    /\ registered = [b \in Bindings |-> "none"]
    /\ called = [c \in Calls |-> "none"]
    /\ status = "none"

-----------------------------------------------------------------------------
(* Preflight and dispatch.                                                 *)

Finish(v) == pc' = "returned" /\ status' = v

\* Hashes, the manifest, the order, the foundations, the targets.
Refuse ==
    /\ pc = "preflight"
    /\ pc' = "refused" /\ status' = "failed"
    /\ UNCHANGED <<dispatch, channel, device, wanted, stale, doubted, initial, resent, signal,
                   registered, called>>

Begin ==
    /\ pc = "preflight" /\ ScopeIsValid
    /\ results' = Given /\ pc' = "dispatch"
    /\ UNCHANGED <<scope, refused, batch, call, channel, device, own>>

Dispatch == (NextBatch \/ DispatchEnds("observed")) /\ UNCHANGED own

\* _apply_actions: the first batch with a failure or a doubt is the last.
Told(rs, doubts) ==
    IF \E a \in batch : ~Satisfied(rs[a]) \/ a \in doubts
    THEN [a \in Action |-> IF rs[a] = "none" THEN "blocked" ELSE rs[a]]
    ELSE rs

EndBatch(rs, doubts) ==
    /\ results' = Told(rs, doubts)
    /\ doubted' = doubted \cup doubts
    /\ call' = {}
    /\ pc' = "dispatch"

\* configure_ios: in the channel, refused, or in the channel and reported as
\* refused.
Configured(m) ==
    {<<Append(channel, m), TRUE>>, <<channel, FALSE>>} \cup
    {d \in {<<Append(channel, m), FALSE>>} : MayDoubt}

IsBindingBatch == batch \subseteq Bindings

\* The one payload of the call controls of a batch.
SendControls ==
    /\ pc = "call" /\ ~IsBindingBatch
    /\ \E c \in Configured(Message(call)) :
          /\ channel' = c[1]
          /\ EndBatch([a \in Action |-> IF a \notin batch THEN results[a]
                                        ELSE IF c[2] THEN "applied" ELSE "failed"], {})
    /\ UNCHANGED <<scope, refused, batch, device, wanted, stale, initial, resent, signal,
                   registered, called, status>>

\* The next binding; the rest of the batch is not sent after a refusal.
SendBinding ==
    /\ pc = "call" /\ IsBindingBatch
    /\ \E c \in Configured(Message({FirstOf(call)})) :
          /\ channel' = c[1]
          /\ IF c[2]
             THEN /\ results' = [results EXCEPT ![FirstOf(call)] = "applied"]
                  /\ call' = call \ {FirstOf(call)}
                  /\ pc' = IF call' = {} THEN "frontier" ELSE "call"
                  /\ UNCHANGED doubted
             ELSE EndBatch([a \in Action |-> IF a \in call THEN "failed" ELSE results[a]], {})
    /\ UNCHANGED <<scope, refused, batch, device, wanted, stale, initial, resent, signal,
                   registered, called, status>>

\* IOS is not ready, no MAC address is found, or the runtime raises.
BatchFails ==
    /\ pc \in {"call", "frontier"}
    /\ EndBatch([a \in Action |-> IF a \in batch THEN "failed" ELSE results[a]], {})
    /\ UNCHANGED <<scope, refused, batch, channel, device, wanted, stale, initial, resent,
                   signal, registered, called, status>>

\* Packet Tracer runs the next payload; a binding takes the row over.
Run ==
    /\ RunAction
    /\ stale' = {b \in stale : ~(b \in Head(channel).of /\ device'[b])}
    /\ UNCHANGED <<wanted, doubted, initial, resent, signal, registered, called, status>>

-----------------------------------------------------------------------------
(* The binding frontier: _verify_dispatched_binding_frontier.              *)

RowOf(b) == IF device[b] THEN "right" ELSE IF b \in stale THEN "wrong" ELSE "absent"

\* One show for all the bindings: it is authoritative, or says nothing.  Its
\* answer comes after everything sent before it has run.
Readings == {[b \in batch |-> RowOf(b)], [b \in batch |-> "unread"]}

\* Mutant: what could not be read is taken to be absent.
Absent_Unread(read) == {b \in DOMAIN read : read[b] \in {"absent", "unread"}}

Absent(read) == {b \in DOMAIN read : read[b] = "absent"}

Held(read) == {b \in DOMAIN read : read[b] # "right"} \ Absent(read)

ReadFrontier ==
    /\ pc = "frontier" /\ channel = <<>>
    /\ initial' \in Readings
    /\ resent' = << >>
    /\ IF Absent(initial') # {} /\ Held(initial') = {}
       THEN pc' = "reconcile" /\ call' = Absent(initial')
       ELSE pc' = "conclude" /\ UNCHANGED call
    /\ UNCHANGED <<scope, refused, batch, results, channel, device, wanted, stale, doubted,
                   signal, registered, called, status>>

\* An absent binding is sent again, once; a refusal ends it.
Reconcile ==
    /\ pc = "reconcile"
    /\ \E c \in Configured(Message({FirstOf(call)})) :
          /\ channel' = c[1]
          /\ resent' = resent @@ (FirstOf(call) :> c[2])
          /\ call' = IF c[2] THEN call \ {FirstOf(call)} ELSE {}
          /\ pc' = IF call' = {} THEN "conclude" ELSE "reconcile"
    /\ UNCHANGED <<scope, refused, batch, results, device, wanted, stale, doubted, initial,
                   signal, registered, called, status>>

\* The second read is taken only if everything absent was accepted.
Reread == Absent(initial) # {} /\ Held(initial) = {} /\ DOMAIN resent = Absent(initial)
          /\ \A b \in DOMAIN resent : resent[b]

\* A binding that is not verified is applied all the same, with a doubt.
Conclude ==
    /\ pc = "conclude"
    /\ Reread => channel = <<>>
    /\ \E final \in IF Reread THEN Readings ELSE {initial} :
          EndBatch(results, {b \in batch : final[b] # "right" \/ (b \in DOMAIN resent /\ ~resent[b])})
    /\ UNCHANGED <<scope, refused, batch, channel, device, wanted, stale, initial, resent,
                   signal, registered, called, status>>

-----------------------------------------------------------------------------
(* The signal, registrations and calls.                                    *)

\* _application_status.
ApplicationStatus ==
    IF doubted # {} \/ \E a \in Action : results[a] = "failed" THEN "failed"
    ELSE IF \E a \in Action : ~Satisfied(results[a]) THEN "partial"
    ELSE "applied"

\* Nothing to complete, or the signal stays closed because the bootstrap did
\* not apply.
PassSignal ==
    /\ pc = "observed"
    /\ IF wanted /\ ApplicationStatus # "applied"
       THEN Finish("failed") ELSE ~wanted /\ pc' = "registration" /\ UNCHANGED status
    /\ UNCHANGED <<dispatch, channel, device, wanted, stale, doubted, initial, resent, signal,
                   registered, called>>

\* complete_voice_signal, which may raise before or after it has signalled,
\* and the foundations after it.
CompleteSignal ==
    /\ pc = "observed" /\ wanted /\ ApplicationStatus = "applied"
    /\ signal' \in {"closed", "open"}
    /\ \/ signal' = "open" /\ pc' = "registration" /\ UNCHANGED status
       \/ Finish("failed")
    /\ UNCHANGED <<dispatch, channel, device, wanted, stale, doubted, initial, resent,
                   registered, called>>

\* _registrations: a phone registers only over its own row.
Observe ==
    /\ pc = "registration"
    /\ registered' \in [Bindings -> {"blocked", "unobservable", "skipped", "failed", "verified"}]
    /\ \A b \in Bindings :
          /\ registered'[b] = "blocked" <=> ~Satisfied(results[b])
          /\ registered'[b] = "verified" => device[b] /\ (wanted => signal = "open")
    /\ pc' = "calls"
    /\ UNCHANGED <<dispatch, channel, device, wanted, stale, doubted, initial, resent, signal,
                   called, status>>

\* _calls: a phone that failed to register, or did not try, makes no call.
Blocks(b) == registered[b] \in {"failed", "blocked", "skipped"}

Call ==
    /\ pc = "calls"
    /\ called' \in [Calls -> {"blocked", "skipped", "failed", "unobservable", "partial", "verified"}]
    /\ \A c \in Calls :
          /\ called'[c] = "blocked" <=> Blocks(c[1]) \/ Blocks(c[2])
          /\ called'[c] = "verified" => device[c[1]] /\ device[c[2]]
    /\ pc' = "judge"
    /\ UNCHANGED <<dispatch, channel, device, wanted, stale, doubted, initial, resent, signal,
                   registered, status>>

\* _phone_outcomes.
Usable(b) == registered[b] = "verified" \/ \E c \in Calls : b \in {c[1], c[2]} /\ called[c] = "verified"

\* _overall.
Overall ==
    IF ApplicationStatus = "failed" THEN "failed"
    ELSE IF /\ Calls # {} /\ \A c \in Calls : called[c] = "verified"
            /\ \A b \in Bindings : Usable(b) THEN "verified"
    ELSE IF \E c \in Calls : called[c] = "failed" THEN "failed"
    ELSE "partial"

Judge ==
    /\ pc = "judge"
    /\ Finish(Overall)
    /\ UNCHANGED <<dispatch, channel, device, wanted, stale, doubted, initial, resent, signal,
                   registered, called>>

-----------------------------------------------------------------------------
\* apply, but for the call of complete_voice_signal.
Apply ==
    \/ Refuse \/ Begin \/ Dispatch \/ SendControls \/ SendBinding \/ BatchFails
    \/ ReadFrontier \/ Reconcile \/ Conclude \/ PassSignal \/ Observe \/ Call \/ Judge

Next == Apply \/ CompleteSignal \/ Run

Spec == Init /\ [][Next]_vars

-----------------------------------------------------------------------------
(* Properties.                                                             *)

\* A binding is sent again only where the first one left no row
\* (absent in _verify_dispatched_binding_frontier).
NoBindingIsRewritten ==
    [][pc = "reconcile" /\ Len(channel') > Len(channel)
       => LET b == FirstOf(call) IN ~device[b] /\ b \notin stale]_vars

=============================================================================
