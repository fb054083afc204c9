# Cisco-Muejeje: a TLA+ verification project

Cisco-Muejeje is an MCP server that plans, deploys, configures and qualifies
networks in a running Cisco Packet Tracer. Python cannot call Packet Tracer: an
extension inside it evaluates JavaScript that the server hands over, through a
directory of files or through a loopback HTTP server. On top of that channel,
applicators change the simulated network and keep a journal of what they did,
and long qualification runs drive a whole topology through its stages, write
evidence of it and have to leave the workspace as they found it.

The modules here model the parts in which order, failure and interruption
matter. TLC checks them on small instances; TLAPS proves the safety properties of
both channels, the journal, the coordinator, the physical and the live deployment,
the stage, the security, service and call applications and the IOS terminal for every
instance, and that both channels implement the abstract one.

## 1. Inventory

Paths are below `src/src/packet_tracer_mcp/` unless they start with `EXTENSION/`.

| component | state | operations | what it talks to | module |
|---|---|---|---|---|
| **File mailbox**: `infrastructure/execution/file_bridge.py`, `EXTENSION/script-engine/main.js` | request and response files, their age; per process `_boot`, `_seq`, `_pending` | `send`, `send_and_wait`, `collect_completed`, `_cancel`, `_purge_own_stale`; `fileBridgeTick` | shared directory; no lock, no rename on the engine's side | `FileBridge` |
| **HTTP bridge**: `live_bridge.py`, `EXTENSION/webview/interface.js` | command queue, result slots, one polling chain | `POST /queue`, `GET /result`, `GET /next`, `POST /result`; `pollCommands`, `runBatch` | one thread per request, the webview | `HttpBridge` |
| **Transport selection and live deployment**: `adapters/mcp/tool_registry.py` | heartbeat, polling age, the pinned channel | probe and pick a channel; `pt_live_deploy` with verification and reconcile | both bridges | `LiveDeploy` |
| **Execution journal**: `domain/enterprise/models/execution.py` | entries, verdict, residue floor, transport doubt, dirty state | `append`, two markers, `mark_cleanup`, `record_scenario_restore` | every applicator writes one | `ExecutionJournal` |
| **Physical deployment**: `application/use_cases/deploy_enterprise_topology.py`, `packet_tracer_physical_runtime.py` | items, ownership and attempts | `deploy`, `remove_device`, the restore of the cleanup | Packet Tracer, one exchange per step | `PhysicalDeployment` |
| **Applicators**: `application/use_cases/apply_*.py` with their runtimes | results of actions, verifications | dispatch along dependencies, verify, compensate | the channel | `ConfigurationApply`, `ControlPlaneApply`, `SecurityApply`, `ServiceApply`, `VoiceApply` over `PlanDispatch`; `PhoneCalls`; `Applications` |
| **CP-SCALE stage executor**: `application/cp_scale_live/stage_executor.py` and its stages | what one stage configured and observed | configuration, voice with its signal, control plane, forwarding, reconciliation | three applicators over one channel | `StageExecution` |
| **CP-SCALE run coordinator**: `coordinator.py`, `lifecycle.py`, `cleanup.py` | progress, terminal state, evidence file | one `run`: preflight, session, probes, stages, closure, cleanup, report | session, runtime, persistence, console | `RunCoordinator` |
| **IOS terminal**: `command_dispatch.py`, `ios_terminal.py` | the retained text, the modes, the quarantine | type a registered query, follow its pager, decide what of the text is its answer | either bridge | `CommandWindow`, `IosTerminal` |
| Admission, completion, checkpoints, contracts, session adapters | - | pure reviews, records, thin I/O | the coordinator | outcomes of its actions |
| Capability discovery, manifest and snapshot stores | files | probe with temporary devices, atomic save | physical runtime, file system | not modelled |
| Compilers, planners, generators, catalogs | none | pure functions | | not modelled |

What is hard, and what makes each component correct:

* **Channels.** Two processes and an engine interleave between an `exists()` and
  the `unlink()` after it, callers time out while handlers go on, results arrive
  late, a batch may be lost. Correct means: a caller gets its own answer, what is
  reported as executed was executed, abandoned things go away, and what was
  queued is evaluated. Both are one abstract channel, `CommandDelivery`.
* **Everything above a channel** sees no answer where the command may have run, may
  never run, or runs later. Correct means: nothing is created twice or belongs to
  nobody, what somebody else owns is left alone, VERIFIED is so, and nothing goes
  out before what it rests on.
* **Applicators** break off half-way, raise between two payloads, and break a
  working network on purpose to watch it recover.
* **The journal** composes verdicts, markers and entries in any order: a proved
  residue or a doubt is never talked away.
* **The coordinator** may be interrupted at every effect, also inside the
  finalization of an earlier failure: nothing is left behind by a run that says
  COMPLETED, and no error is lost.
* **The terminal** keeps only the end of its text, rewrites that end at its pager,
  goes on printing what an earlier query asked for, and eats or loses characters:
  what is returned has to be the answer to this query, and all of it.

`PROJECT.json` lists every component with its status and every hazard at its line.

## 2. Plan

Done: the two channels and the refinement of both, the journal, the coordinator,
the physical deployment, the live deployment, the applicators of configuration,
voice, control plane, security and services, the calls, the stage that composes
three of them, and the IOS terminal; and the proofs of section 6.

Left, in this order:

1. `CapabilityDiscovery` and the stores: a probe device that cannot be deleted,
   snapshots that are replaced atomically.
2. `reconcile_canonical_stage.py` and the audit of replayed mutations.
3. A second kind of poller for `HttpBridge` (the bootstrap snippet), and the other
   prompts of the terminal module (`typed_ping.py`).
4. The pure algorithms worth a reference definition: address planning
   (`ipam_planner.py`), stable convergence.

## 3. Modules

### FileBridge

One record per name of the mailbox, one program counter per process, one for
the engine. Each action is one file operation with the Python or JavaScript up
to the next one:

* `Send` and `SendAndWait` start a public method, `CollectCompleted` the one that
  is also called at the start of `send` (`file_bridge.py:199`). `KeepPending`,
  `TakePending`, `RetirePending` walk `_pending`; `DiscardRequest` is the removal,
  which may fail (`FailToRemoveRequest`) and may find nothing.
* `TakeResponse`, `Complete`, `DiscardResponse` are the polling loop of
  `send_and_wait`; `CancelExecuted`, `CancelUnknown`, `CancelWithdraw`,
  `ObserveLate`, `ObserveNothing` the outcomes of `_cancel`, with
  `_purge_own_stale` in the last.
* `Restart` is a new process with the same pid: `_seq` starts again, `_boot` is new.
* `TickStart` lists the directory, `VisitResponse`, `PurgeRequest`, `SkipRequest`,
  `ReadRequest`, `Evaluate`, `Reply`, `RemoveRequest` handle one file, `TickEnd`
  reschedules; `OpenPacketTracer` and `ClosePacketTracer` start and stop the
  engine at any step.
* `AgeRequest`, `AgeResponse` let a file pass `FILE_BRIDGE_ORPHAN_S`. A request
  somebody waits for does not age (`WaitedFor`): the longest timeout in use is
  30 s, the threshold 60 s. This assumes a wall clock that is not moved and a
  machine that is not suspended inside a wait; without it `ReportedWasEvaluated` is
  false, which its mutant shows.

Taken from Packet Tracer: `writePlainTextToFile` is one step and not read half
written. The heartbeat file belongs to the transport selection.

`FileBridgeInv` holds the inductive invariant, `FileBridgeProofs` the proofs.

### CommandDelivery

What a channel promises whoever uses it: a command runs only after it was
accepted, a caller is told that it ran only after it did, what it was told is
final, and a caller that gives up knows nothing. `FileBridge` implements it with
`MayRepeat = TRUE`, `HttpBridge` with `FALSE`; both say how in `Delivery ==
INSTANCE CommandDelivery WITH ...`, and `DeliversCommands` is the property, which
section 6 proves of both.

### HttpBridge

An operation stands for its rid, its command and its result. `Post` to
`GiveUp` are `correlated_http_send_and_wait`; `Register`, `Enqueue`, `Take*` the
handlers of the server, each up to the next lock; `PutResult` and `Drain` the two
requests of the webview; `RunBatch` the script Packet Tracer runs. A caller may
give up while its handler goes on. `LoseBatch`, `LosePost` lose a response or a
result. Which tombstone is the oldest is left open, and so is the moment a slot
expires (`Expire`, never while its caller is still in a call, since a wait is
bounded below the TTL). What `runCode` does with a batch is modelled from
`SECURITY.md` and `interface.js`: one script, so one `reportResult`, the last
one. One batch is under way at a time: the webview polls again after it has
run the one before, and the watchdog (20 s of silence against an XHR timeout of
8 s) brings in a second chain only after a suspension. The `bootstrapSnippet` a
user may paste instead has several batches under way and is not modelled.

### LiveDeploy

`pt_live_deploy` for plans without a physical hash: the probe (`Selectable`, and the
command path it tries), the batches of one pinned channel, the questions for
every device and link, the reconcile. A payload is a record: the items its commands
add, or the item it asks for and whether somebody waits for the answer. `Runs` is what
the first payloads of a queue may do when they run as one script (a recursive function
of their number); `Effect` what the commands that work make of a workspace, devices
before links, which is the order of `generate_ptbuilder_script` and of
`DeployAssumption`. What is to verify or to send again is a set, of which `Foremost`
takes the item whose command comes first. The tools run one at a time, so a second
deployment starts when the first is over, in channels that still hold what that one
left. Two plans have no item in common: the tool does not look, and a plan that names a
device of an earlier one adds it again. The workspace survives an executor that stops; one read stands for the repeated
observations of a link.

The mailbox runs its requests one by one in the order of their names (`ExecuteFile`), and
a request of commands may slip out of that order into the set `stuck`: `SkipRequest` is a
`getFileContents` that throws, after which the tick goes on with the next file
(main.js:183), `KeepRequest` a `removeFile` that throws after the request ran
(main.js:187). `RunStuck` is a later tick, which runs such a request, for the first time or
again, and removes it or not; `PurgeStuck` is its removal for age, and `Collects` the one of
`collect_completed` before the tool writes. How often a request runs again is not bounded;
`MaxFaults` bounds how often an executor stops or a request slips. `kept` remembers what
was in a request that could not be removed. A question that slips is one nobody waits for
any more, or one answered again for nobody, and changes nothing here.

### ExecutionJournal

The fields of `ApplicationExecutionJournal` and its public methods, in any order.
CHANGED and REASSERTED are one disposition; NO_OP, BLOCKED and SKIPPED another.
The statuses NOT_AVAILABLE and AVAILABLE are never passed to a verdict.

### RunCoordinator

The program counter is the next effect of `run`. `Start` to `FinalCheckpoint` are
`execute_session` and `complete`; `Finalize` to `CollectErrors` are
`prepare_finalization` and `finalize_session`; `Publish` to `Present` report the
outcome. `Continue`, `Fail` and `Cancel` are the three ways an effect ends: it
succeeds, raises an Exception, or is hit by a BaseException. `MaxInterrupts`
bounds the last. A stage stands for the devices its delta creates. Not reachable,
hence not modelled: the RETAIN branch of `complete`, which is only called for targets
that require cleanup, for which `completion.plan` always yields CLEANUP.

### PhysicalDeployment

Every step of `deploy`, of the runtime below it and of the restore behind it is one
exchange with Packet Tracer, and one without an answer leaves its command run,
lost, or queued (first in, first out). Slots, foreign devices, names taken by
another model and foreign cables are part of the workspace. Left to other modules:
answers crossed within one HTTP batch, and re-evaluation by the mailbox. Not
modelled: a second deployment by one runtime, devices Packet Tracer manages itself,
and a cleanup of a workspace that need not be exclusive. `RanAll`, what a queue does to
a workspace, is a recursive function of its length, so that the proofs can unfold it.

### PlanDispatch, ConfigurationApply, ControlPlaneApply, VoiceApply, SecurityApply, ServiceApply

`PlanDispatch` is the loop the applicators share: what has lost a dependency is
blocked, and the first ready action goes out with the others of its phase and
device (security: of its phase). A plan is a sequence in which an action comes after
what it depends on; what a batch still has to send is the set `call`. A payload waits in a first-in-first-out channel until
Packet Tracer runs or rejects it, once at most: that the mailbox may run one again is in
`FileBridge` and `LiveDeploy` only. `MayDoubt` are the sends that report failure
although the payload is queued. A reading may come to nothing and says VERIFIED
only of what is in effect: how trunks, spanning tree, routes, access lists or phone
tables are parsed is abstracted to that. `ConfigurationApply` has its own dispatch, the
barrier before the voice VLANs, and the completion of what was deferred;
`ControlPlaneApply` the failure scenarios with their restore in `finally`;
`VoiceApply` the frontier of bindings that are read back and sent once more if absent;
`SecurityApply` the baseline before, the probes after, and the cleanup of a control;
`ServiceApply` the one script of a batch with its late answer, and the pings typed at
the prompt of a client. Left out of `VoiceApply`: local dial rules, addressing
claims, rules between sites.

In `ConfigurationApply`, an endpoint whose port has no address getters (`Mute`: an access
point, say) is read as `absent`, UNOBSERVABLE by `structured_endpoint_getters_absent`,
whatever it has (enterprise_configuration_runtime.py:2271-2289), and `Readable` are the
actions of which a verification reads anything.

In `ServiceApply`, a ping prints two lines, its header, which has the name and
the address (`PingResolves`), and its statistics (`PingEnds`); it may be given up before
either. `Matched` is what the runtime looks for in everything the prompt shows since the
ping was typed, whoever printed it: the address anywhere in the text
(`expected in window`, enterprise_service_runtime.py:280), and `packets: sent`. An address
that is a part of another one is found in a text that has the other: `Mentions[a]` are the
addresses found in a ping to `a`. Its expectations run in the order of their identities, where
`svc/verify-dns-negative/...` comes before `svc/verify-dns/...`: `ServiceAssumption` has
that order, and `IsDistinct` the expectations whose answer no *earlier* one of the client
can give: no other negative one, and no resolution in whose text the address is.

### PhoneCalls

The driver of calls and the controller outside the process, which exchange request
and receipt files. The controller may be slow, stop and come back; it does not take
up a request that has a receipt. Controller and phones are external.

### Applications

Security, services and calls side by side: a behaviour is one of one of them, the others
rest. It exists so that one run and one module of proofs speak of all three.

### StageExecution

One stage of the CP-SCALE run, with phones: the configuration and its second attempt
for hosts without an address, the voice application, which calls the configuration
back in the middle, and the control plane, composed by `INSTANCE` of the three
applicators over one shared channel. What a check may say is
`Ceiling` (qualify_cp_scale_live.py:969-1041): `partial` or `absent` of an endpoint,
`unobservable` of a pool, `verified` of the rest. So a stage may be verified with nothing read of
an endpoint without getters, of which `VerifiedStageIsThere` says that it was sent, as it
does of a pool. An action retained from the stage before may for the same reason not be
there, and a host that needs it then fails. The serial wait, the realtime window, the
reads of bindings and statistics, forwarding and reconciliation are outcomes. The
reread for readings that could not be taken cannot be reached with this runtime.

`StageAssumption` says of the plans what the compilers make them: sequences in the
order of the dependencies, phone bindings in a phase of their own, voice
ports that are expected as access ports (`Expects` is "other" for them), scenarios with
identities of their own (control_plane_compiler.py rejects a duplicate), and actions of
voice and control plane that are told apart.

### CommandWindow, IosTerminal

`CommandWindow` is `command_dispatch.py` over texts of tokens: the window after a
baseline, by prefix, by the base of a pager that was erased, or by the largest suffix
the rolled text retains; the first echo; an active pager; an idle prompt. What one token
cannot show (an anchor in the middle of a line, the 512 characters a paged anchor
needs, redrawing by backspaces) is reduced to whole tokens and `MinAnchor`.
`IosTerminal` has the terminal and the executor. `Type` is `enterCommand` wherever the
terminal is: a pager eats the first key, a command that prints makes keys wait
(command_dispatch.py:111-119 and the comments of `_advance_pager` are the evidence for
both). `Prepare` to `Dispatch` are `_prepare_session`, the mode switch and the guarded
script; `Converge`, `Attribute`, `Advance`, `Progress` the reading; `Conclude`, `Restore`,
`Finish` the result, `disable` and the retry. A script without an answer is lost or run
later, before any that is answered after it; that the mailbox may evaluate a script again,
because its request could not be removed, is in `FileBridge` and not here. The attribution of the session to its
device (one device is modelled), the byte limit and the other terminals are left out.
The program compares texts only; `at`, the number of the query a row was printed for, is
there for the properties, and so are `quiet` (the terminal was at rest when the query was
typed) and `anchored` (the end of each page that was followed, as much of it as anchors the
next one, held a row). `CompleteIsWhole` speaks of answers whose echo was seen, that are
quiet and anchored; section 5 says what the code does with the others. `OwnOutput` and `CompleteIsWhole` look at a returned answer,
and both are stated so that they hold for every value of the constants, which
`IosTerminalProofs` proves.

`MC*` modules give the constants their values. Each `X_Y` operator before `X` is the
plausible bug of its comment: no specification uses it; with it in the place of `X`
the property `PROJECT.json` names is violated.

## 4. Runs

| run | states | question |
|---|---|---|
| `file_failing` | 3.0 M | one process restarting under its pid, any file operation may fail: own answers, true reports, tracked requests, retirement |
| `file_drains` | 406 k | liveness: the mailbox is empty in the end; the mailbox implements `CommandDelivery` |
| `http_loss` | 229 k | losses, timeouts and full storage: awaited slots stay, what is queued is evaluated, the bridge implements `CommandDelivery` |
| `http_correlation` | violation | "only its correlated result" (live_bridge.py:121) |
| `journal_order` | 1.1 M | every journal of four entries |
| `run_ends` | 127 k | every way a run of three stages ends, two interruptions |
| `deploy_disposable` | 547 k | three devices, a module, two cables; answers missing or late; deploy and cleanup |
| `live_channels` | 478 k | two deployments one after the other, an executor that stops or a request that slips: what OK means, what is repeated, and that the tool returns |
| `live_twice` | violation | "re-encola los comandos de los items faltantes" (tool_registry.py:1191) |
| `stage` | 4.0 M | the first stage and a later one, an access point that cannot be read: what is sent on what ground, what a verified stage means |
| `features` | 629 k | security, services and calls, each alone |
| `ios` | 4.9 M | two queries at a terminal in any state: what executed and complete mean |

**Bounds.** One process that starts twice with two requests makes every clash of names
that a dropped pid or boot token would allow (its mutants find it). Two operations
suffice for an answer to be somebody else's; `http_loss` has more operations than the
queue, the slots or a batch hold. Four journal entries put two on each side of a
verdict, and any pair of dispositions decides `_derive_dirty_state`. Three stages are a
first, a middle and a REMAINING one; the second interruption hits the finalization of
the first. Three devices in a row have one with two cables, one module and one that
is neither; the two plans of `live_channels` are a device linked to one that is there
already, and then one more device; one fault, a stop or a request that slips, already leaves
commands of the first plan behind for the second. In `features` there are two names on one client, whose
addresses are 10.0.0.1 and then 10.0.0.10 (`Rising`). The plans of `stage` and `features` have a dependency across devices, one within
a batch, and one action nothing depends on; that of `stage` also has an access point without
address getters, retained in one of its stages and new in the other. In `ios`, one query prints three pages and
the other two rows that page as well, the text keeps six tokens, so that it rolls within
each answer, and each thing that goes wrong (a script without an answer, a wait that
ends too early) happens once, a lost character twice, which is as often
as a retry can be retried, and a syslog line twice, which is what an anchor is long. Run once, without a violation: three turns
of one query over four tokens; and one query and two with anchors of one token, four tokens
retained and four syslog lines (0.9 M, 3.5 M states), where an anchor may be syslog lines only.
Symmetry is used in `file_failing`, for safety only.

**Fairness.** `FileBridge!FairSpec`: the engine's steps are weakly fair, because
`fileBridgeTick` reschedules itself in every path; so are the steps inside a
client's call, which poll with a timeout, and the ageing of files, which is
time. Nothing obliges a caller to call, Packet Tracer to open, or a process to
restart; `MailboxDrains` assumes that it stays open from some point on.
`HttpBridge!FairSpec`: the poller reschedules in every callback and its batch
runs to the end; handlers get the lock and run; losses are never obliged.
`LiveDeploy!FairSpec`: the tool's own steps, every wait of which has a timeout; no
executor is obliged to run. `PhoneCalls!Spec`: the driver's steps and the deadline,
which is time; the controller is obliged to nothing.

**Deadlock** is checked for the file mailbox and the journal. The other specifications
stop for good when every operation is over or the run has returned, so it is off there.

## 5. What the violations show

* `http_correlation`: two commands in one batch both report to the rid of the
  last. `AnswerIsFromOwnBatch` is what the bridge does guarantee.
* `live_twice`: a link that could not be made, or a late answer, makes the reconcile
  add devices that are there. `RepeatedForCause` has the only other reason there is: a
  mailbox request that ran and could not be removed runs again on the next tick
  (main.js:187), which is why the mailbox promises no exactly-once
  (tool_registry.py:1004-1007, file_bridge.py:211-215). `EarlierIsOver` speaks
  of the requests that wait in the order of their channel, since those that slipped may be
  left of an earlier deployment.

### Disagreements

Further places where code and words differ, met while the modules were written. They
have no run: the modules have the steps, and their properties claim no more than the
code keeps.

* **A verdict may improve a journal.** A verdict UNKNOWN replaces the state derived from
  the covered entries (execution.py:233-234), "sólo puede empeorar el estado"
  (execution.py:166). Entries before and after a verdict are derived apart
  (execution.py:214-222), so a mutation before `record_scenario_restore(SUCCEEDED)` and a
  failure after it are CLEAN, "jamás declara CLEAN sin evidencia" (execution.py:90-91).
* **A mailbox request may be evaluated twice** when `removeFile` fails (main.js:187),
  "nunca se ejecuta dos veces" (main.js:95-97). `AtMostOneEvaluationAfterRetirement` is
  what holds, and is proved.
* **Ownership is recorded after `deploy` returns** (coordinator.py:230-232): an interruption
  inside it leaves devices the cleanup does not know of, "cleanup by attempted ownership"
  (cleanup.py:1). `InterruptedRunIsCleanedUp` says that the residue is at least attested.
* **Created and FAILED is journaled CLEAN**: a device whose factory preparation fails is
  returned FAILED with `applied=True` (packet_tracer_physical_runtime.py:164-173), and
  `_append_mutation` drops `applied`.
* **A readback that throws is an absent device** (packet_tracer_physical_runtime.py:1037-1038):
  `remove_device` gives its ownership up although the device may be there (:285-291).
* **A refused voice VLAN hides the port configured before it**: `results.update` replaces the
  first result (`_verify_with_voice_signal_barrier`), so the journal may be CLEAN.
* **FAILED may still be applied**: a send that timed out at the bridge is `applied=False`,
  "sí es una certeza local" (configuration_runtime.py:223), and its payload runs later.
* **A doubtful shutdown gets no verdict**: `_record_scenario_restore` looks at applied
  injections only; a shutdown reported as refused may run, and the journal is CLEAN.
* **A security runtime that raises mid-phase** has all actions of the phase marked FAILED
  (apply_security.py:620-629), those that were sent too: they are not in the cleanup.
* **A DNS name may be verified by an earlier ping**: a ping that was given up still prints, and
  what it prints is in the text in which the next one is looked for, anywhere in it
  (enterprise_service_runtime.py:280, 304-316). With 10.0.0.10 and then 10.0.0.1 on one
  client, the tail of the first ping verifies the second, whose own may never have run; so
  does one address under two names, and a negative control another one. "An accepted
  configuration request never promotes a service to verified without fresh independent
  evidence" (docs/architecture/enterprise-services.md:85). TLC finds it in `features` with
  the two addresses the other way round and `IsDistinct` left out of `EvidenceIsItsOwn`, which
  speaks of expectations whose answer no earlier one of the client can give.
* **An answer whose echo was not seen is returned as complete.** When the text has rolled, a suffix
  of the old text may by chance begin the new one behind the echo. The window then lacks the
  echo and perhaps rows, is not `is_command_corrupted`, and is returned as executed and
  complete (ios_terminal.py:2717-2736): "ECHO_UNOBSERVABLE, que es indecidible y nunca se
  promueve ni a éxito ni a fallo de despacho" (command_dispatch.py:388). `CompleteIsWhole`
  therefore requires that the echo was seen ("dispatched"), and TLC finds it violated in `ios`
  without that, in an answer typed at rest.
* **A verified stage may have an endpoint of which nothing was read**: its check is
  UNOBSERVABLE by `structured_endpoint_getters_absent`, and `canonical_stage_configuration_error`
  accepts that on purpose (qualify_cp_scale_live.py:1017-1041,
  tests/test_cp_scale_canonical_runtime_gates.py:411).
* **A registered query may be typed while another prints.** `IDLE_GUARD_JS` is the "segunda
  condicion de readiness, tambien dentro del script de despacho"
  (command_dispatch.py:111-112) and typed_ping.py:163 uses it; the script of
  `_execute_once` (ios_terminal.py:2561-2568) has the pager guard only. After a query that
  overran its wait, the next one converges at the prompt of the former, and what its echo
  was followed by so far is returned as complete. `CompleteIsWhole` therefore speaks of
  queries typed at rest (`quiet`); without that TLC finds it violated. With four turns and
  three such waits an executed query, whose echo is its own, may even return rows of a
  third query that was typed ahead of it, so `OwnOutput` claims rows of the query itself
  at rest only, and otherwise rows printed since its dispatch.
* **The anchor of a paged window may be noise.** A page is anchored by at least 512
  characters that it has in common with the one before (`_PAGER_ROLL_MIN_ANCHOR`,
  command_dispatch.py:33). If equal syslog lines of that length end the page and, when the
  text has rolled, begin the new one, they are an anchor too, and the rows that rolled away
  between them are missing from an answer that is returned as complete. `CompleteIsWhole`
  therefore speaks of answers whose pages did not end so (`anchored`). Without that
  conjunct TLC finds it violated with one query of three pages, four tokens retained, an
  anchor of one token and four syslog lines.

## 6. Proofs

`FileBridgeProofs` proves, for any sets of processes and operations and any
`MaxBoot`, `MaxSeq`, `MayFail` allowed by `BridgeAssumption`, the invariants of
`file_failing` and two more: `TypeCorrect`, `AnswersAreOwn`, `ReportsAreTrue`,
`CollectionIsTrue`, `RequestsAreTracked`, `RetirementIsEffective`.

None of them is inductive. `FileBridgeInv!Inv` adds what they rest on:

* where each side stands and what it then knows (`TypeOK` and the control part:
  a process in a call has an operation, a name exactly while it needs one, no
  name is in `todo` that is not pending);
* names are used once: a name beyond `seq` or `boot` of its process has no file, is
  not issued, and two issued names carry two operations. `NextNameFresh` is the
  lemma behind it, and it is here that pid, boot token and sequence are needed;
* what a file says is what its name was issued for: a request holds it, a
  response reports its evaluation, which then has happened;
* age: a request somebody waits for is not old, so a request that is gone while
  its process waits was taken by the engine;
* retirement: a retired operation has no request file, and the engine holds it
  at most once, in `job`, so one evaluation may follow and no second.

The proof of the step splits `Inv'` into these parts (`TypeStep`, `ControlStep`,
`AgeStep`, `NameStep`, `OpStep`, `AnswerStep`, `EvaluatedStep`, `RetiredStep`,
`TrackedStep`), each with one case per action; `EngineStepsAside` says once what
the engine leaves alone. `InvHolds` combines the parts with PTL.

The journal, which every applicator keeps, is proved at the end of `ApplicationsProofs`, as
the component of its own that `ExecutionJournal` makes it (`JournalSpec`): every invariant
of `journal_order` for any `MaxEntries`, as `ResidueStays`, `DoubtStays`, `CleanIsBacked`,
`JournalTypes`. They are facts of the composition (`RecomposeFacts`: at least as bad as
the floor, as a doubtful entry on either side of the verdict, as the transport), so the
inductive `JournalInv` only says that `dirty` is always composed anew and that the floor
is as bad as every verdict before it. The floor is needed: the verdict in force alone
forgets the earlier ones.

`HttpBridgeProofs` proves `AnswersAreFromOwnBatch` and `AwaitedSlotsAreKept` for any
operations and limits allowed by `HttpAssumption`. Beside its types, `Inv` says that a
result, in a post, a slot or an answer, comes from a batch its rid was in (`ResultInv`);
that a slot belongs to a call that was made and does not expire in it (`SlotInv`); and
that a command is in one place only: not queued yet, in the queue, in the batch, or in
one batch that ran (`PlaceInv`). The last is what "never twice" needs.

**Refinement.** `MailboxDelivers` and `BridgeDelivers` prove `DeliversCommands`, the whole
safety part of `CommandDelivery`, of the two channels: initial states map to initial
states, and every action maps to `Accept`, `Run`, `Tell`, `GiveUp` or a stutter, from the
inductive invariants above. For the mailbox the step that matters is a caller's completion,
which the invariant shows to follow an evaluation; for the bridge it is `RunBatch`, which
`PlaceInv` shows to run nothing that ran before.

`RunCoordinatorProofs` proves the four invariants of `run_ends` for any number of stages
and any `MaxInterrupts`: `CompletionIsClean`, `ErrorsAreReported`, `EvidenceIsReported`,
`InterruptionIsCleanedUp`. All four are about the end of a run, so `Inv` says for every
place of the program what is owed by then: what the terminal state is (`ControlInv`), what
was restored, verified and attested (`CleanupInv`, `CompletedInv`), where an error is kept
until it is reported (`ErrorInv`), when the file is what will be reported (`EvidenceInv`),
and what a run hit once has done (`InterruptInv`).

`PhysicalDeploymentProofs` proves the five invariants of `deploy_disposable` for any
topology that `DeploymentAssumption` allows. The state of the workspace is never what the
deployment knows, so `Inv` bounds what may still be queued: nothing while a step waits for
its answer, one command when the deployment has ended, then the removals (`QueueInv`); a
device that was not attempted is as it was, and what is queued is of attempted ones
(`OwnInv`); an occupied workspace is untouched (`ForeignInv`); names are taken once, with
what is queued counted (`SingleInv`); each phase has seen what the one before made
(`SeenInv`); a restoration is claimed of a workspace nothing can change (`RestoredInv`).

`StageExecutionProofs` proves the six invariants of `stage` for all plans and scopes that
`StageAssumption` allows. `Inv` has the course of the stage (which applicator is at work
where, `CourseInv`), what the shared channel may hold (`ChannelInv`), and one part per
applicator: for the configuration what was sent how often and after what (`CInv`), for voice
the bindings (`VInv`: what is sent again left no row, and nothing of it is on its way), for
the control plane dependencies and scenarios (`KInv`). Across them, the voice signal goes out
over a verified network and bound phones (`SignalInv`), and what was accepted is there
(`AcceptedInv`, `GroundInv`), whatever still runs late; of what cannot be read, it is that it was sent. For `FaultIsFollowedByRestore` the shutdown,
the restore and the state of the link are tied together through the first-in-first-out
channel (`RestoreInv`, `LinkInv`). That the first ready action is well defined rests on the
least-number principle (`LeastOfNumbers`, `FirstInPlan`).

`ApplicationsProofs` proves the four invariants of `features`: `VerifiedPoliciesAreSo`,
`LateScriptsFindTheirGround`, `EvidenceIsOwn`, `VerifiedCallsWereMade`. For security the
argument is that a policy is sent once and is not in effect before: one that was seen in
effect is no longer on its way, so what the recovery undid cannot be done again by a late
script (`QueueInv`, `ProbeInv`, `StatusInv`). For services, every script in the channel finds
its dependencies in effect or before it (`ServiceGround`), and what the prompt of a client
shows after a ping was typed is of pings asked so far (`ServicePings`), and of those only
its own can say what is expected of it, if it is distinct: the earlier ones are of other addresses, of
which its own is no part, or of another kind. For calls, a receipt names the attempt it
is of (`PhoneInv`).

`LiveDeployProofs` proves the three invariants of `live_channels` for all plans, batch sizes
and numbers of faults that `DeployAssumption` allows: `ReportsArePresent`,
`RepeatsHaveACause`, `EarlierCommandsAreOver`. `Inv` says where the tool is and what it
waits for (`ControlInv`); that the awaited question is the last of its channel, and in the
mailbox, or before one was given up, the only one (`QuestionInv`); that an answer that came
left its channel empty, and is its own where there was one question (`ReplyInv`), so a
channel whose probe came back is empty (`EarlierInv`); that a command that was not sent is
nowhere, and one that was sent once, and was in no request that could not be removed, is in one
place of one channel, or in one request that was passed over, or has left both (`OnceInv`,
`StuckInv`), which no late script can then repeat; and that what is neither to do nor
failed is there (`PresentInv`). What a script of any length does is proved over its
stages (`RunsReach`, `ScriptFacts`: it takes nothing away, adds what it names, repeats
nothing it names once, answers a question it holds), an induction the least-number
principle makes possible (`SetInduction`). The steps are grouped by what they do to the
channels (`StepCases`), so that each part of `Inv` has a case per group.

`IosTerminalProofs` proves the two invariants of `ios` for any queries, tables, page
lengths, retained text and numbers of lost exchanges, early waits and lost characters
that `IosAssumption` allows: `OwnOutputHolds` and `CompleteIsWholeHolds`.
`Inv` has three layers. The terminal alone (`TerminalInv`): a page is no longer than what
was printed, the pager's mark is last only while the pager waits, and syslog lines in a
row are no more than were written. The executor against it (`ReadingInv`): while an answer
is read nothing runs late, and at a terminal that was at rest nothing else prints. The text
against what was read: since the query was typed it is an end of the text before followed
by what was written since (`Since`), all of which the query may return (`Mine`), and at rest
an echo followed by the rows printed so far, or a rejection (`Written`, in `FirstPage`). Once
pages are followed, and their ends held a row, the answer so far is rows 1 to n, the last of them stands in the page
that was read with syslog lines only behind it, and what was written since is rows after n
(`NextPage`, `Answered`).

The step that matters is the reading: `fresh_command_window` looks for the largest suffix
of the old text that begins the new one, which may be larger than what was really kept. That
costs no row: of the first window, because one that lacks anything lacks the echo in front
and is not taken for "dispatched" (`DispatchedWindow`); of a later page, because an anchor
that holds a row has the last row of the page in it, and a row number occurs once
(`AnchorStands`). That the anchors held one is what `anchored` remembers, so nothing is
assumed about the number of syslog lines. The largest suffix and the last token that is no syslog line are maxima
of bounded sets of numbers, and facts about them follow from the least-number principle
(`LeastOfNumbers`, `MaxFacts`), without an induction over texts.

TLC checked every inductive invariant on the instance of the run before it was proved.
The assumptions the theorems rest on are those named above, and TLC evaluates them on each run.

Only model-checked: `MailboxDrains`, `QueuedIsEvaluated`, `DeploymentEnds` and `DriverEnds`,
since liveness under fairness is out of the prover's reach; every safety property of a
passing run is a theorem.

## 7. Not modelled

* Admission, completion, checkpoints, contracts, session adapters: pure reviews, records
  and thin I/O, seen by `RunCoordinator` and `StageExecution` as outcomes.
* Single-feature applicators (`apply_vlan.py` and its kin): compile, send, return.
* Capability discovery, the stores, stage reconciliation and the replay audit, convergence
  policies, address planning: see the plan.
* Compilers, planners, generators, catalogs: pure translations of data too wide for TLC.
* Qualification scripts, runners, CLI: one experiment each, or argument handling.
* Inside the modelled components: authentication and server start and stop of the HTTP
  bridge, the other tools of the registry, the content of evidence, the wording of
  errors, and the parsing of what Packet Tracer prints.
