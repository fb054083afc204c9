----------------------------- MODULE PlanDispatch -----------------------------
(***************************************************************************)
(* The loop by which the applicators of the enterprise plans send their    *)
(* actions (_apply_actions of apply_control_plane.py, apply_services.py    *)
(* and apply_voice.py): what has lost a dependency is blocked, and the     *)
(* first action that is ready goes out with the others of its phase and    *)
(* device.  A send puts a payload in the channel; Packet Tracer runs it    *)
(* some time later, or rejects it.                                         *)
(*                                                                         *)
(* A component extends this module with its own verification; pc is its.   *)
(***************************************************************************)
EXTENDS Naturals, Sequences, FiniteSets, SequencesExt

CONSTANTS
    Plan,       \* plan.actions, in dependency order
    BatchOf,    \* the phase and device of an action
    DependsOn,  \* action.depends_on
    MayDoubt    \* whether a send may report failure although the payload is
                \* in the channel

Action == Range(Plan)

DispatchAssumption ==
    /\ Plan \in Seq(Action)
    /\ DOMAIN BatchOf = Action
    /\ DependsOn \in [Action -> SUBSET Action]
    /\ \A i \in 1..Len(Plan) : DependsOn[Plan[i]] \subseteq Range(SubSeq(Plan, 1, i - 1))
    /\ MayDoubt \in BOOLEAN

VARIABLES
    scope,      \* mutation_ids
    refused,    \* actions whose capability is not SUPPORTED
    pc,         \* where the applicator is
    batch,      \* the actions of the apply_actions it is in
    call,       \* those of them that have not had their turn, in the order
                \* of the plan
    results,    \* status of each action
    channel,    \* messages on their way to Packet Tracer
    device      \* whether an action is in effect in Packet Tracer

dispatch == <<scope, refused, batch, call, results>>

Result == {"none", "applied", "failed", "blocked", "skipped"}

\* Mutant: only a failure holds up what depends on it.
Satisfied_NotFailed(s) == s # "failed"

\* satisfies_apply_dependency.
Satisfied(s) == s = "applied"

DispatchInit ==
    /\ scope \in SUBSET Action
    /\ refused \in SUBSET scope
    /\ pc = "preflight"
    /\ batch = {} /\ call = {}
    /\ results = [a \in Action |-> "none"]
    /\ channel = <<>>
    \* A retained action was applied before, with or without an effect.
    /\ device \in [Action -> BOOLEAN]
    /\ \A a \in scope : ~device[a]

\* _mutation_scope: no retained action depends on a new one.
ScopeIsValid == \A a \in Action \ scope : DependsOn[a] \cap scope = {}

\* Results of the retained actions and of those that are not supported.
Given == [a \in Action |-> IF a \notin scope THEN "applied"
                           ELSE IF a \in refused THEN "skipped" ELSE "none"]

\* What depends on a failure, or on such an action that waits, in one pass
\* over the plan.
Lost(rs) ==
    FoldLeft(LAMBDA lost, a :
                 IF \E d \in DependsOn[a] : IF rs[d] = "none" THEN d \in lost ELSE ~Satisfied(rs[d])
                 THEN lost \cup {a} ELSE lost,
             {}, Plan)

Blocked(rs) == [a \in Action |-> IF rs[a] = "none" /\ a \in Lost(rs) THEN "blocked" ELSE rs[a]]

Ready(rs) == {a \in Action : rs[a] = "none" /\ \A d \in DependsOn[a] : Satisfied(rs[d])}

\* Where an action stands in the plan, and the first of some actions.
Place(a)   == CHOOSE k \in 1..Len(Plan) : Plan[k] = a
FirstOf(A) == CHOOSE a \in A : \A b \in A : Place(a) <= Place(b)

\* The next batch.
NextBatch ==
    LET rs == Blocked(results)
    IN /\ pc = "dispatch"
       /\ Ready(rs) # {}
       /\ results' = rs
       /\ call' = {a \in Ready(rs) : BatchOf[a] = BatchOf[FirstOf(Ready(rs))]}
       /\ batch' = call'
       /\ pc' = "call"
       /\ UNCHANGED <<scope, refused, channel, device>>

\* Nothing is left that could be sent.
DispatchEnds(next) ==
    /\ pc = "dispatch"
    /\ Ready(Blocked(results)) = {}
    /\ results' = [a \in Action |-> IF results[a] = "none" THEN "blocked" ELSE results[a]]
    /\ pc' = next
    /\ UNCHANGED <<scope, refused, batch, call, channel, device>>

\* A payload of some actions, and what is on its way.
Message(A)  == [kind |-> "action", of |-> A]
Underway(a) == \E m \in Range(channel) : "kind" \in DOMAIN m /\ m.kind = "action" /\ a \in m.of

\* One action of the batch: sent, refused, or in the channel and reported as
\* refused.
SendAction ==
    /\ pc = "call"
    /\ LET a == FirstOf(call) IN
       /\ \/ /\ channel' = Append(channel, Message({a}))
             /\ \E s \in {"applied"} \cup {t \in {"failed"} : MayDoubt} :
                   results' = [results EXCEPT ![a] = s]
          \/ /\ channel' = channel
             /\ results' = [results EXCEPT ![a] = "failed"]
       /\ call' = call \ {a}
    /\ pc' = IF call' = {} THEN "dispatch" ELSE "call"
    /\ UNCHANGED <<scope, refused, batch, device>>

\* The runtime raises: none of the batch is told to have been sent.
CallRaises ==
    /\ pc = "call"
    /\ results' = [a \in Action |-> IF a \in batch THEN "failed" ELSE results[a]]
    /\ call' = {}
    /\ pc' = "dispatch"
    /\ UNCHANGED <<scope, refused, batch, channel, device>>

\* The next message in the channel is one of these kinds.  The channel may
\* hold what other applicators have sent, too.
Awaits(kinds) ==
    /\ channel # <<>> /\ "kind" \in DOMAIN Head(channel)
    /\ Head(channel).kind \in kinds

\* Packet Tracer runs the next payload; an action it rejects has no effect.
RunAction ==
    /\ Awaits({"action"})
    /\ Head(channel).of \subseteq Action
    /\ channel' = Tail(channel)
    /\ \E ok \in SUBSET Head(channel).of :
          device' = [a \in Action |-> device[a] \/ a \in ok]
    /\ UNCHANGED <<dispatch, pc>>

\* What an action depends on is retained or went before it
\* (satisfies_apply_dependency in _apply_actions).
DispatchedAfterDependencies ==
    \A a \in scope : device[a] \/ Underway(a) => \A d \in DependsOn[a] : results[d] = "applied"
=============================================================================
