------------------------- MODULE PhysicalDeployment -------------------------
(***************************************************************************)
(* A physical deployment and the cleanup behind it:                        *)
(* EnterprisePhysicalTopologyDeployer.deploy over                          *)
(* PacketTracerPhysicalTopologyRuntime, then CPScaleCleanup.restore.       *)
(*                                                                         *)
(* Every step is one exchange with Packet Tracer: a read, or a mutation    *)
(* with its acknowledgement.  An exchange without an answer says nothing:  *)
(* its command may have run, may never run, or (over HTTP) may still be    *)
(* queued.  The queue is first in, first out, so an answered read has      *)
(* every earlier command behind it, unless both were in one batch: then    *)
(* the answer is the one of the earlier command (HttpBridge).              *)
(*                                                                         *)
(* A device has at most one planned module.  Names, models and ports are   *)
(* reduced to what the deployer compares.                                  *)
(***************************************************************************)
EXTENDS Integers, FiniteSets, Sequences

CONSTANTS
    NDevices,               \* devices are 1..NDevices, in deployment order
    Modular,                \* those with a planned module
    Ends,                   \* the two devices of each link, in deployment order
    MayQueue                \* whether an unanswered command may still be queued

Device == 1..NDevices
Link   == 1..Len(Ends)

ASSUME DeploymentAssumption ==
    /\ NDevices \in Nat /\ Modular \subseteq Device
    /\ Ends \in Seq(SUBSET Device) /\ \A l \in Link : Cardinality(Ends[l]) = 2
    /\ MayQueue \in BOOLEAN

Target == ({"device"} \X Device) \cup ({"module"} \X Modular) \cup ({"link"} \X Link)
Slot   == {"empty", "expected", "other"}

\* The workspace: devices under each planned name, names held by another model,
\* the planned slot of each device, planned links, planned ports with another
\* cable, and devices under names nobody planned.
Workspace ==
    [copies : [Device -> Nat], alien : SUBSET Device, slot : [Device -> Slot],
     cabled : SUBSET Link, taken : SUBSET Link, stray : Nat]

Command == ({"add", "remove"} \X Device) \cup ({"plug"} \X Modular) \cup ({"cable"} \X Link)
Item    == [status : {"none", "failed", "satisfied", "applied", "observed"}, applied : BOOLEAN]

VARIABLES
    exclusive,  \* require_empty_workspace
    net,        \* the workspace
    base,       \* history: as it was
    late,       \* commands sent in vain that are still queued
    attempted,  \* _owned_device_attempts
    new,        \* _owned_new_devices
    before,     \* _module_baselines: the slot before the module
    pc, i,      \* the exchange, and the device or link it is about
    items,      \* item_results
    entries,    \* of the execution journal
    dirty,      \* dirty_state
    outcome,    \* PhysicalDeploymentStatus
    restored    \* CPScaleCleanupResult

world   == <<exclusive, net, base, late>>
runtime == <<attempted, new, before>>
record  == <<items, entries, dirty, outcome>>
control == <<pc, i>>
vars    == <<world, runtime, record, control, restored>>

\* The journal of the deployment; a deployer records no verdict.
J == INSTANCE ExecutionJournal WITH
        MaxEntries <- 2 * Cardinality(Target) + 1,
        cleanupStatus <- "not_attempted", cleanupUndid <- FALSE, cleanupOrdinal <- -1,
        residueFloor <- "clean", transportUnknown <- FALSE, verdicts <- {}

InitialWorkspace(w) ==
    /\ w.alien \subseteq {d \in Device : w.copies[d] > 0}
    /\ \A d \in Device : w.copies[d] = 0 \/ d \notin Modular => w.slot[d] = "empty"
    /\ \A l \in w.cabled \cup w.taken : \A d \in Ends[l] : w.copies[d] > 0
    /\ w.cabled \cap w.taken = {}

Empty(w) == w.stray = 0 /\ \A d \in Device : w.copies[d] = 0

Init ==
    /\ exclusive \in BOOLEAN
    /\ net \in {w \in [copies : [Device -> 0..1], alien : SUBSET Device,
                       slot : [Device -> Slot], cabled : SUBSET Link,
                       taken : SUBSET Link, stray : 0..1] : InitialWorkspace(w)}
    /\ base = net
    /\ late = <<>>
    /\ attempted = {} /\ new = {} /\ before = [d \in Modular |-> "empty"]
    /\ pc = "preflight" /\ i = 0
    /\ items = [t \in Target |-> [status |-> "none", applied |-> FALSE]]
    /\ entries = <<>> /\ dirty = "clean"
    /\ outcome = "none" /\ restored = "none"

-----------------------------------------------------------------------------
(* Packet Tracer.                                                          *)

Present(w, d) == w.copies[d] > 0
Exact(w, d)   == Present(w, d) /\ d \notin w.alien

\* lwAddDevice: it adds under a name of Packet Tracer's and renames, tries
\* another way when the planned name is not there, and swallows what fails.
Added(w, d) ==
    LET created == {[w EXCEPT !.copies[d] = @ + 1,
                              !.slot[d] = IF Present(w, d) THEN @ ELSE s] :
                       s \in IF d \in Modular THEN {"empty", "other"} ELSE {"empty"}}
    IN  {w} \cup created \cup {[v EXCEPT !.stray = @ + 1] : v \in created \cup {w}}

\* The guarded addModule payload: a slot that is not empty is left alone.
Plugged(w, d) ==
    IF Present(w, d) /\ w.slot[d] = "empty"
    THEN {[w EXCEPT !.slot[d] = s] : s \in Slot} ELSE {w}

\* lwAddLink, which ignores what createLink says.
Cabled(w, l) ==
    IF (\A d \in Ends[l] : Present(w, d)) /\ l \notin w.taken
    THEN {w, [w EXCEPT !.cabled = @ \cup {l}]} ELSE {w}

\* _remove_device_command, which checks the identity once more.
Removed(w, d) ==
    IF Exact(w, d)
    THEN {w, [w EXCEPT !.copies[d] = @ - 1,
                       !.slot[d] = IF w.copies[d] = 1 THEN "empty" ELSE @,
                       !.cabled = {l \in @ : d \notin Ends[l]},
                       !.taken = {l \in @ : d \notin Ends[l]}]}
    ELSE {w}

\* What running a command may make of the workspace.
Ran(c, w) ==
    CASE c[1] = "add"    -> Added(w, c[2])
      [] c[1] = "plug"   -> Plugged(w, c[2])
      [] c[1] = "cable"  -> Cabled(w, c[2])
      [] c[1] = "remove" -> Removed(w, c[2])

\* What running commands one after another may make of it.
RanAll(cs, w) ==
    LET ran[k \in 0..Len(cs)] ==
            IF k = 0 THEN {w} ELSE UNION {Ran(cs[k], v) : v \in ran[k - 1]}
    IN  ran[Len(cs)]

\* Only the removal looks whether it has worked before it acknowledges.
Acknowledged(c, w) ==
    IF c[1] = "remove" THEN {v \in Ran(c, w) : Exact(w, c[2]) /\ ~Present(v, c[2])}
    ELSE Ran(c, w)

\* A queued command runs after all, or is lost with its batch.
RunLate ==
    /\ late # <<>>
    /\ net' \in Ran(Head(late), net) \cup {net}
    /\ late' = Tail(late)
    /\ UNCHANGED <<exclusive, base, runtime, record, control, restored>>

\* A read: no answer, an answer about the workspace once nothing is queued
\* before it, or the answer of a command in the same batch.
Read(truth, crossed, reply) ==
    /\ UNCHANGED <<exclusive, base>>
    /\ \/ reply = "silent" /\ UNCHANGED <<net, late>>
       \/ late = <<>> /\ reply \in truth /\ UNCHANGED <<net, late>>
       \/ late # <<>> /\ reply = crossed /\ net' \in RanAll(late, net) /\ late' = <<>>

\* _mutation_ack: acknowledged, rejected (also half-way), or no answer.
Mutate(c, reply) ==
    /\ UNCHANGED <<exclusive, base>>
    /\ \/ /\ late = <<>> /\ UNCHANGED late
          /\ \/ reply = "acknowledged" /\ net' \in Acknowledged(c, net)
             \/ reply = "rejected" /\ net' \in Ran(c, net)
       \/ reply = "unknown" /\ net' \in Ran(c, net) /\ UNCHANGED late
       \/ reply = "unknown" /\ MayQueue /\ UNCHANGED net /\ late' = Append(late, c)

\* observe_device: an exception inside the script is reported as found:false.
\* A crossed acknowledgement has no "found" at all.
ReadDevice(d, reply) ==
    Read({"absent", IF ~Present(net, d) THEN "absent"
                    ELSE IF d \in net.alien THEN "alien" ELSE "exact"},
         "absent", reply)

DeviceReply   == {"silent", "absent", "alien", "exact"}
MutationReply == {"acknowledged", "rejected", "unknown"}

-----------------------------------------------------------------------------
(* Order and records of the deployment.                                    *)

First(S) == IF S = {} THEN 0 ELSE CHOOSE x \in S : \A y \in S : x <= y
Later(S) == {x \in S : x > i}

Goto(phase, S) == pc' = phase /\ i' = First(S)

AfterDevices   == IF Modular = {} THEN Goto("observe_device", Device) ELSE Goto("module", Modular)
AfterObserving == IF Link = {} THEN Goto("manifest", {}) ELSE Goto("link", Link)

\* _result.
Stop ==
    /\ pc' = "finished" /\ i' = 0
    /\ outcome' = IF \E t \in Target : items'[t].applied
                                       \/ items'[t].status \in {"satisfied", "observed"}
                  THEN "partial" ELSE "failed"

Journal(disposition, inverse) ==
    /\ entries' = Append(entries, [disposition |-> disposition, inverse |-> inverse])
    /\ dirty' = J!Derive(entries', 1, Len(entries'))

Settle(t, status, applied) ==
    items' = [items EXCEPT ![t] = [status |-> status, applied |-> applied]]

\* The thing was there before.
Satisfied(t) == Settle(t, "satisfied", FALSE) /\ Journal("none", FALSE) /\ UNCHANGED outcome

Applied(t, inverse) ==
    Settle(t, "applied", TRUE) /\ Journal("mutated", inverse) /\ UNCHANGED outcome

\* Mutant: what failed is not in the result.
Refused_Forget(t, disposition) ==
    UNCHANGED items /\ Journal(disposition, FALSE) /\ Stop

\* An ensure that fails ends the deployment.
Refused(t, disposition) ==
    Settle(t, "failed", FALSE) /\ Journal(disposition, FALSE) /\ Stop

\* Mutant: only the last observation decides.
Observed_Last(kind, S, ok, next) ==
    LET t == <<kind, i>> IN
    /\ Settle(t, IF ok THEN "observed" ELSE "failed", items[t].applied)
    /\ IF ok THEN UNCHANGED <<entries, dirty>> ELSE Journal("failed", FALSE)
    /\ IF Later(S) # {} THEN pc' = pc /\ i' = First(Later(S)) /\ UNCHANGED outcome
       ELSE IF ~ok THEN Stop
       ELSE next /\ UNCHANGED outcome

\* One observation of a phase that observes everything before it judges.
Observed(kind, S, ok, next) ==
    LET t == <<kind, i>> IN
    /\ Settle(t, IF ok THEN "observed" ELSE "failed", items[t].applied)
    /\ IF ok THEN UNCHANGED <<entries, dirty>> ELSE Journal("failed", FALSE)
    /\ IF Later(S) # {} THEN pc' = pc /\ i' = First(Later(S)) /\ UNCHANGED outcome
       ELSE IF \E x \in S : items'[<<kind, x>>].status = "failed" THEN Stop
       ELSE next /\ UNCHANGED outcome

-----------------------------------------------------------------------------
(* deploy.                                                                 *)

\* _preflight and the module capabilities behind the workspace gate: pure
\* checks of the plan, before anything is sent.
Preflight ==
    /\ pc = "preflight"
    /\ \/ Goto(IF exclusive THEN "workspace" ELSE "capability", {}) /\ UNCHANGED record
       \/ UNCHANGED <<items, entries, dirty>> /\ Stop
    /\ UNCHANGED <<world, runtime, restored>>

\* Mutant: an inventory without an answer passes.
RequireEmptyWorkspace_Blind ==
    /\ pc = "workspace"
    /\ \E reply \in {"silent", "empty", "occupied"} :
          /\ Read({IF Empty(net) THEN "empty" ELSE "occupied"}, "silent", reply)
          /\ IF reply # "occupied"
             THEN Goto("capability", {}) /\ UNCHANGED record
             ELSE UNCHANGED <<items, entries, dirty>> /\ Stop
    /\ UNCHANGED <<runtime, restored>>

RequireEmptyWorkspace ==
    /\ pc = "workspace"
    /\ \E reply \in {"silent", "empty", "occupied"} :
          /\ Read({IF Empty(net) THEN "empty" ELSE "occupied"}, "silent", reply)
          /\ IF reply = "empty"
             THEN Goto("capability", {}) /\ UNCHANGED record
             ELSE UNCHANGED <<items, entries, dirty>> /\ Stop
    /\ UNCHANGED <<runtime, restored>>

\* A plan without devices has nothing else in it.
ModuleCapabilities ==
    /\ pc = "capability"
    /\ \/ (IF Device = {} THEN Goto("manifest", {}) ELSE Goto("device", Device))
          /\ UNCHANGED record
       \/ Modular # {} /\ UNCHANGED <<items, entries, dirty>> /\ Stop
    /\ UNCHANGED <<world, runtime, restored>>

Advance(here, S, next) ==
    IF Later(S) # {} THEN Goto(here, Later(S)) ELSE next

\* ensure_device, its pre-readback.
EnsureDevice ==
    /\ pc = "device"
    /\ \E reply \in DeviceReply :
          /\ ReadDevice(i, reply)
          /\ \/ /\ reply = "exact"
                /\ Satisfied(<<"device", i>>) /\ Advance("device", Device, AfterDevices)
             \/ reply \in {"alien", "silent"} /\ Refused(<<"device", i>>, "failed")
             \/ reply = "absent" /\ pc' = "create" /\ UNCHANGED <<i, record>>
    /\ UNCHANGED <<runtime, restored>>

\* Mutant: the attempt is recorded with the acknowledgement.
CreateDevice_Late ==
    /\ pc = "create"
    /\ \E reply \in MutationReply :
          /\ Mutate(<<"add", i>>, reply)
          /\ IF reply = "acknowledged"
             THEN /\ new' = new \cup {i} /\ attempted' = attempted \cup {i}
                  /\ pc' = "prepare" /\ UNCHANGED <<i, record>>
             ELSE /\ Refused(<<"device", i>>, IF reply = "unknown" THEN "unknown" ELSE "failed")
                  /\ UNCHANGED <<new, attempted>>
    /\ UNCHANGED <<before, restored>>

\* Mutant: a creation without an answer is sent again.
CreateDevice_Replay ==
    /\ pc = "create"
    /\ attempted' = attempted \cup {i}
    /\ \E reply \in MutationReply :
          /\ Mutate(<<"add", i>>, reply)
          /\ CASE reply = "acknowledged" ->
                    new' = new \cup {i} /\ pc' = "prepare" /\ UNCHANGED <<i, record>>
               [] reply = "rejected" -> Refused(<<"device", i>>, "failed") /\ UNCHANGED new
               [] reply = "unknown" -> i \notin attempted /\ UNCHANGED <<new, pc, i, record>>
    /\ UNCHANGED <<before, restored>>

\* ensure_device, its mutation: the attempt is recorded before it is sent.
CreateDevice ==
    /\ pc = "create"
    /\ attempted' = attempted \cup {i}
    /\ \E reply \in MutationReply :
          /\ Mutate(<<"add", i>>, reply)
          /\ IF reply = "acknowledged"
             THEN new' = new \cup {i} /\ pc' = "prepare" /\ UNCHANGED <<i, record>>
             ELSE /\ Refused(<<"device", i>>, IF reply = "unknown" THEN "unknown" ELSE "failed")
                  /\ UNCHANGED new
    /\ UNCHANGED <<before, restored>>

\* _prepare_owned_factory_modules, whose own exchanges do not touch the plan.
PrepareDevice ==
    /\ pc = "prepare"
    /\ \/ Applied(<<"device", i>>, TRUE) /\ Advance("device", Device, AfterDevices)
       \/ Settle(<<"device", i>>, "failed", TRUE) /\ Journal("failed", TRUE) /\ Stop
    /\ UNCHANGED <<world, runtime, restored>>

ReadSlot(d, reply) ==
    Read({"silent", IF Present(net, d) THEN net.slot[d] ELSE "silent"}, "silent", reply)

\* Mutant: a slot counts as empty on any device.
EnsureModule_AnyDevice ==
    /\ pc = "module"
    /\ \E reply \in Slot \cup {"silent"} :
          /\ ReadSlot(i, reply)
          /\ before' = IF reply = "silent" THEN before ELSE [before EXCEPT ![i] = reply]
          /\ \/ /\ reply = "expected"
                /\ Satisfied(<<"module", i>>)
                /\ Advance("module", Modular, Goto("observe_module", Modular))
             \/ reply \in {"silent", "other"} /\ Refused(<<"module", i>>, "failed")
             \/ reply = "empty" /\ pc' = "plug" /\ UNCHANGED <<i, record>>
    /\ UNCHANGED <<attempted, new, restored>>

\* ensure_module, its pre-readback: an empty slot counts only on a device of
\* this runtime.
EnsureModule ==
    /\ pc = "module"
    /\ \E reply \in Slot \cup {"silent"} :
          /\ ReadSlot(i, reply)
          /\ before' = IF reply = "silent" THEN before ELSE [before EXCEPT ![i] = reply]
          /\ \/ /\ reply = "expected"
                /\ Satisfied(<<"module", i>>)
                /\ Advance("module", Modular, Goto("observe_module", Modular))
             \/ /\ reply \in {"silent", "other"} \/ (reply = "empty" /\ i \notin new)
                /\ Refused(<<"module", i>>, "failed")
             \/ reply = "empty" /\ i \in new /\ pc' = "plug" /\ UNCHANGED <<i, record>>
    /\ UNCHANGED <<attempted, new, restored>>

PlugModule ==
    /\ pc = "plug"
    /\ \E reply \in MutationReply :
          /\ Mutate(<<"plug", i>>, reply)
          /\ IF reply = "acknowledged"
             THEN /\ Applied(<<"module", i>>, FALSE)
                  /\ Advance("module", Modular, Goto("observe_module", Modular))
             ELSE Refused(<<"module", i>>, IF reply = "unknown" THEN "unknown" ELSE "failed")
    /\ UNCHANGED <<runtime, restored>>

\* observe_module_effect: the ports are there, this transaction caused them,
\* and on a device of its own.
ModuleEffect(reply) == reply = "expected" /\ before[i] # "expected" /\ i \in new

ObserveModule ==
    /\ pc = "observe_module"
    /\ \E reply \in Slot \cup {"silent"} :
          /\ ReadSlot(i, reply)
          /\ Observed("module", Modular, ModuleEffect(reply), Goto("observe_device", Device))
    /\ UNCHANGED <<runtime, restored>>

\* observe_device again, with the ports the plan needs.
ObserveDevice ==
    /\ pc = "observe_device"
    /\ \E reply \in DeviceReply, ports \in BOOLEAN :
          /\ ReadDevice(i, reply)
          /\ Observed("device", Device, reply = "exact" /\ ports, AfterObserving)
    /\ UNCHANGED <<runtime, restored>>

\* build_exact_link_readback_js.
ReadLink(l, reply) ==
    Read({"unreadable", IF l \in net.cabled THEN "exact"
                        ELSE IF l \in net.taken THEN "bound" ELSE "no_link"},
         "unreadable", reply)

LinkReply == {"silent", "unreadable", "exact", "bound", "no_link"}

EnsureLink ==
    /\ pc = "link"
    /\ \E reply \in LinkReply :
          /\ ReadLink(i, reply)
          /\ \/ /\ reply = "exact"
                /\ Satisfied(<<"link", i>>)
                /\ Advance("link", Link, Goto("observe_link", Link))
             \/ reply \in {"silent", "unreadable", "bound"} /\ Refused(<<"link", i>>, "failed")
             \/ reply = "no_link" /\ pc' = "cable" /\ UNCHANGED <<i, record>>
    /\ UNCHANGED <<runtime, restored>>

CableLink ==
    /\ pc = "cable"
    /\ \E reply \in MutationReply :
          /\ Mutate(<<"cable", i>>, reply)
          /\ IF reply = "acknowledged"
             THEN Applied(<<"link", i>>, FALSE) /\ Advance("link", Link, Goto("observe_link", Link))
             ELSE Refused(<<"link", i>>, IF reply = "unknown" THEN "unknown" ELSE "failed")
    /\ UNCHANGED <<runtime, restored>>

\* observe_link reads until its deadline; the last read decides.
ObserveLink ==
    /\ pc = "observe_link"
    /\ \E reply \in LinkReply :
          /\ ReadLink(i, reply)
          /\ Observed("link", Link, reply = "exact", Goto("manifest", {}))
    /\ UNCHANGED <<runtime, restored>>

BuildManifest ==
    /\ pc = "manifest"
    /\ \/ pc' = "finished" /\ outcome' = "verified" /\ UNCHANGED <<i, items, entries, dirty>>
       \/ UNCHANGED items /\ Journal("failed", FALSE) /\ Stop
    /\ UNCHANGED <<world, runtime, restored>>

-----------------------------------------------------------------------------
(* CPScaleCleanup.restore.                                                 *)

\* attempted_device_ids.
Owned == {d \in Device : items[<<"device", d>>].status # "none"}

Highest(S) == CHOOSE x \in S : \A y \in S : x >= y

\* Devices are removed in reverse order.
Descend(S) ==
    IF S = {} THEN pc' = "first_inventory" /\ i' = 0
    ELSE pc' = "removal" /\ i' = Highest(S)

Below == {d \in Owned : d < i}

\* Callers that clean up require an empty workspace before they deploy.
BeginCleanup ==
    /\ pc = "finished" /\ exclusive
    /\ Descend(Owned)
    /\ UNCHANGED <<world, runtime, record, restored>>

Forget == attempted' = attempted \ {i} /\ new' = new \ {i}

\* remove_device, up to its mutation.
RemovalReadback ==
    /\ pc = "removal"
    /\ \/ i \notin attempted /\ Descend(Below) /\ UNCHANGED <<world, attempted, new>>
       \/ /\ i \in attempted
          /\ \E reply \in DeviceReply :
                /\ ReadDevice(i, reply)
                /\ \/ reply = "absent" /\ Forget /\ Descend(Below)
                   \/ /\ reply \in {"silent", "alien"} /\ Descend(Below)
                      /\ UNCHANGED <<attempted, new>>
                   \/ reply = "exact" /\ pc' = "remove" /\ UNCHANGED <<i, attempted, new>>
    /\ UNCHANGED <<before, record, restored>>

RemoveDevice ==
    /\ pc = "remove"
    /\ \E reply \in MutationReply :
          /\ Mutate(<<"remove", i>>, reply)
          /\ IF reply = "acknowledged" THEN Forget ELSE UNCHANGED <<attempted, new>>
    /\ Descend(Below)
    /\ UNCHANGED <<before, record, restored>>

\* Mutant: an inventory without an answer is taken for the baseline.
Matches_Blind(reply) == reply # "different"

\* physical_workspace_restoration_matches.
Matches(reply) == reply = "baseline"

Inventory(reply) ==
    Read({IF net = base THEN "baseline" ELSE "different", "silent"}, "silent", reply)

FirstInventory ==
    /\ pc = "first_inventory"
    /\ \E reply \in {"silent", "baseline", "different"} :
          /\ Inventory(reply)
          /\ restored' = IF Matches(reply) THEN "once" ELSE "no"
    /\ pc' = "second_inventory"
    /\ UNCHANGED <<runtime, record, i>>

SecondInventory ==
    /\ pc = "second_inventory"
    /\ \E reply \in {"silent", "baseline", "different"} :
          /\ Inventory(reply)
          /\ restored' = IF restored = "once" /\ Matches(reply) THEN "yes" ELSE "no"
    /\ pc' = "over"
    /\ UNCHANGED <<runtime, record, i>>

Next ==
    \/ Preflight \/ RequireEmptyWorkspace \/ ModuleCapabilities
    \/ EnsureDevice \/ CreateDevice \/ PrepareDevice
    \/ EnsureModule \/ PlugModule \/ ObserveModule \/ ObserveDevice
    \/ EnsureLink \/ CableLink \/ ObserveLink \/ BuildManifest
    \/ BeginCleanup \/ RemovalReadback \/ RemoveDevice
    \/ FirstInventory \/ SecondInventory
    \/ RunLate

Spec == Init /\ [][Next]_vars

-----------------------------------------------------------------------------
(* Properties.                                                             *)

\* VERIFIED is a fact about the workspace as the deployer returns it: every
\* planned device, module and link is there, and nothing it sent is still on
\* its way (deploy, each phase observed before the next).
VerifiedIsPresent ==
    outcome = "verified" /\ pc = "finished"
    => /\ late = <<>>
       /\ \A d \in Device : Exact(net, d)
       /\ \A d \in Modular : net.slot[d] = "expected"
       /\ net.cabled = Link

\* A restoration is claimed only of a workspace that is the baseline, with no
\* queued command left that could change it afterwards (restore,
\* canonical_cleanup_restoration_error).
RestoredIsBaseline == restored = "yes" => net = base /\ late = <<>>

\* Whatever answers are lost, a workspace somebody else works in is not
\* touched under require_empty_workspace (disposable_workspace_error: "must
\* never be mutated"), and a slot that a device had before is never changed
\* (ensure_module: "Slot emptiness is not independently proven").
ForeignStateSurvives ==
    /\ exclusive /\ ~Empty(base) => net = base /\ late = <<>>
    /\ \A d \in Modular : Present(base, d) /\ d \notin attempted
                          => net.slot[d] = base.slot[d]

\* A creation without an answer is not sent again: in a workspace that was
\* empty no name is ever taken twice, now or by a queued command
\* (ensure_device: "the mutation will not be replayed").
NoDuplicateDevice ==
    exclusive => \A d \in Device :
        net.copies[d] + Cardinality({k \in DOMAIN late : late[k] = <<"add", d>>}) <= 1

\* Whatever the deployment has created, or may yet create, belongs to an item
\* its caller can see and to an attempt its runtime remembers, so that the
\* cleanup can find it (_owned_device_attempts, attempted_device_ids).
CreatedIsOwned ==
    pc = "finished" =>
        \A d \in Device :
            net.copies[d] > base.copies[d] \/ <<"add", d>> \in {late[k] : k \in DOMAIN late}
            => d \in attempted /\ d \in Owned

=============================================================================
