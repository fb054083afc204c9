--------------------------- MODULE RunCoordinator ---------------------------
(***************************************************************************)
(* One qualification run of a canonical topology in a live Packet Tracer:  *)
(* CPScaleLiveCoordinator.run (application/cp_scale_live/coordinator.py),  *)
(* the terminal obligations of lifecycle.py and the cleanup of cleanup.py. *)
(*                                                                         *)
(* The run is sequential; what makes it hard is that each of its effects   *)
(* may raise an Exception, or be interrupted by a BaseException (Ctrl-C),  *)
(* and that what the handlers still owe depends on how far it has come.    *)
(*                                                                         *)
(* A stage stands for the devices its physical delta creates.  The stages  *)
(* of a target with a REMAINING reconciliation end with one that creates   *)
(* none.  Of the evidence file only what the handlers decide is kept; the  *)
(* order and the wording of errors are left out.                           *)
(***************************************************************************)
EXTENDS Naturals, FiniteSets

CONSTANTS
    Stages,         \* how many stages the target executes
    HasRemaining,   \* whether the last of them is REMAINING
    MaxInterrupts   \* bound: BaseExceptions that hit one run

ASSUME RunAssumption ==
    /\ Stages \in Nat \ {0} /\ HasRemaining \in BOOLEAN /\ MaxInterrupts \in Nat
    /\ HasRemaining => Stages > 1

\* Devices by the stage that created them; 0 is what a capability probe left.
Probe == 0
Device == 0..Stages

VARIABLES
    pc,             \* the next effect
    stage,          \* the stage in execution
    devices,        \* what is in the workspace beyond the baseline
    owned,          \* progress.physical.owned
    baseline,       \* qualification.baseline is there
    composed,       \* qualification.composition is there
    terminal,       \* CPScaleTerminalState, without the errors
    secondaries,    \* terminal.secondary_failures
    finals,         \* terminal.finalization_errors
    prepared,       \* prepared_secondaries
    errors,         \* the errors finalization has collected
    cancelled,      \* who holds the interruption in flight
    disk,           \* the evidence file
    \* History.
    restores,       \* calls of cleanup.restore
    closes,         \* calls of session.close
    interrupts,     \* BaseExceptions so far
    occurred,       \* every error there has been
    orphans         \* devices of the run that a restore did not know of

progress == <<stage, devices, owned, baseline, composed>>
reported == <<secondaries, finals, prepared, errors>>
history  == <<restores, closes, interrupts, occurred, orphans>>
vars     == <<pc, progress, terminal, reported, cancelled, disk, history>>

\* publication_snapshot.
Snapshot(t, errs) ==
    [failure |-> t.failure, hardStop |-> t.hardStop, closure |-> t.closure,
     cleanup |-> t.cleanup, attestation |-> t.attestation, errors |-> errs]

Current == Snapshot(terminal, secondaries \cup finals)

NewTerminal ==
    [outcome |-> "none", failure |-> FALSE, hardStop |-> FALSE, closure |-> "none",
     precleanup |-> FALSE, attempted |-> FALSE, cleanup |-> "none", realtime |-> FALSE,
     attestation |-> "none", complete |-> FALSE]

Init ==
    /\ pc = "preflight" /\ stage = 1
    /\ devices = {} /\ owned = {} /\ baseline = FALSE /\ composed = FALSE
    /\ terminal = NewTerminal
    /\ secondaries = {} /\ finals = {} /\ prepared = {} /\ errors = {}
    /\ cancelled = "none"
    /\ disk = Snapshot(NewTerminal, {})
    /\ restores = 0 /\ closes = 0 /\ interrupts = 0 /\ occurred = {} /\ orphans = {}

-----------------------------------------------------------------------------
(* How an effect ends.                                                     *)

Goto(next) == pc' = next

Signal == interrupts < MaxInterrupts /\ interrupts' = interrupts + 1

\* An Exception in execute_session, and a BaseException.
Fail(t) ==
    /\ terminal' = [t EXCEPT !.failure = TRUE, !.outcome = "failed"]
    /\ Goto("finalize")
    /\ UNCHANGED <<cancelled, interrupts>>

\* Mutant: an interruption only closes the session.
Cancel_Close(t) ==
    /\ Signal
    /\ cancelled' = "session"
    /\ terminal' = t
    /\ Goto("close")

Cancel(t) ==
    /\ Signal
    /\ cancelled' = "session"
    /\ terminal' = t
    /\ Goto("finalize")

Continue(t, next) ==
    /\ terminal' = t
    /\ Goto(next)
    /\ UNCHANGED <<cancelled, interrupts>>

\* An effect of execute_session that changes nothing here when it raises.
Attempt(t, next) == Continue(t, next) \/ Fail(terminal) \/ Cancel(terminal)

\* persistence.write_progress: the file is replaced whole, or not at all.
Write(t, next) ==
    \/ Continue(t, next) /\ disk' = Snapshot(t, secondaries \cup finals)
    \/ Fail(t) /\ UNCHANGED disk
    \/ Cancel(t) /\ disk' \in {disk, Snapshot(t, secondaries \cup finals)}

-----------------------------------------------------------------------------
(* Before there is a session.                                              *)

Preflight ==
    /\ pc = "preflight"
    /\ \/ Continue(terminal, "start")
       \/ Continue([terminal EXCEPT !.hardStop = TRUE, !.outcome = "rejected"], "reject")
       \/ Signal /\ cancelled' = "outside" /\ Goto("raised") /\ UNCHANGED terminal
    /\ UNCHANGED <<progress, reported, disk, restores, closes, occurred, orphans>>

\* The rejection is written; failing that, it is reported.
Reject ==
    /\ pc = "reject"
    /\ \/ /\ disk' = Current /\ Goto("returned")
          /\ UNCHANGED <<errors, occurred, cancelled, interrupts>>
       \/ /\ errors' = {"preflight_write"} /\ occurred' = {"preflight_write"}
          /\ Goto("report")
          /\ UNCHANGED <<disk, cancelled, interrupts>>
       \/ /\ Signal /\ cancelled' = "outside" /\ Goto("raised")
          /\ disk' \in {disk, Current}
          /\ UNCHANGED <<errors, occurred>>
    /\ UNCHANGED <<progress, terminal, secondaries, finals, prepared, restores, closes, orphans>>

-----------------------------------------------------------------------------
(* execute_session.                                                        *)

Start ==
    /\ pc = "start"
    /\ Attempt(terminal, "baseline")
    /\ UNCHANGED <<progress, reported, disk, restores, closes, occurred, orphans>>

\* observe_workspace, then the policy: a workspace that is not disposable is
\* written down and left alone.
Baseline ==
    /\ pc = "baseline"
    /\ \/ baseline' = TRUE /\ Continue(terminal, "compose")
       \/ baseline' = TRUE /\ Continue([terminal EXCEPT !.hardStop = TRUE], "refuse")
       \/ UNCHANGED baseline /\ (Fail(terminal) \/ Cancel(terminal))
    /\ UNCHANGED <<stage, devices, owned, composed, reported, disk, restores, closes,
                   occurred, orphans>>

Refuse ==
    /\ pc = "refuse"
    /\ \/ /\ Continue([terminal EXCEPT !.outcome = "rejected"], "finalize")
          /\ disk' = Current
       \/ Fail(terminal) /\ UNCHANGED disk
       \/ Cancel(terminal) /\ disk' \in {disk, Current}
    /\ UNCHANGED <<progress, reported, restores, closes, occurred, orphans>>

Compose ==
    /\ pc = "compose"
    /\ \/ composed' = TRUE /\ Continue(terminal, "probe")
       \/ UNCHANGED composed /\ (Fail(terminal) \/ Cancel(terminal))
    /\ UNCHANGED <<stage, devices, owned, baseline, reported, disk, restores, closes,
                   occurred, orphans>>

\* The capability probes and the restoration check behind them: a probe that
\* leaves something in the workspace does not pass.
ProbeCapabilities ==
    /\ pc = "probe"
    /\ \/ UNCHANGED devices /\ Attempt(terminal, "prepare")
       \/ devices' = devices \cup {Probe} /\ (Fail(terminal) \/ Cancel(terminal))
    /\ UNCHANGED <<stage, owned, baseline, composed, reported, disk, restores, closes,
                   occurred, orphans>>

Remaining(k) == HasRemaining /\ k = Stages
Last(k) == k = Stages

\* The resume gate and the boundary behind the stage before; the transition
\* into the terminal stage is published as well.
PrepareStage ==
    /\ pc = "prepare"
    /\ LET next == IF Remaining(stage) THEN "reconcile" ELSE "deploy"
       IN  IF stage > 1 /\ Last(stage)
           THEN Write(terminal, next)
           ELSE Attempt(terminal, next) /\ UNCHANGED disk
    /\ UNCHANGED <<progress, reported, restores, closes, occurred, orphans>>

\* physical_stages.deploy returns whatever its runtime does; the devices it
\* attempted are owned once it has returned.
Deploy ==
    /\ pc = "deploy"
    /\ devices' \in {devices, devices \cup {stage}}
    /\ \/ /\ owned' = owned \cup {stage}
          /\ Continue(terminal, IF stage \in devices' THEN "deployed" ELSE "undeployed")
       \/ /\ owned' = owned \cup {stage}
          /\ Continue(terminal, "undeployed")
       \/ UNCHANGED owned /\ Cancel(terminal)
    /\ UNCHANGED <<stage, baseline, composed, reported, disk, restores, closes, occurred, orphans>>

\* The delta is published before it is judged.
PublishDelta ==
    /\ \/ pc = "deployed" /\ Write(terminal, "reconcile")
       \/ pc = "undeployed" /\ Write(terminal, "unverified")
    /\ UNCHANGED <<progress, reported, restores, closes, occurred, orphans>>

RequireDelta ==
    /\ pc = "unverified"
    /\ Fail(terminal) \/ Cancel(terminal)
    /\ UNCHANGED <<progress, reported, disk, restores, closes, occurred, orphans>>

\* The cumulative deployment, which only observes, published and required.
Reconcile ==
    /\ pc = "reconcile"
    /\ Write(terminal, "execute")
    /\ UNCHANGED <<progress, reported, restores, closes, occurred, orphans>>

\* executor.execute: a stage has secondary failures whether it succeeds or not.
ExecuteStage ==
    /\ pc = "execute"
    /\ \E errs \in {{}, {"stage"}} :
          /\ secondaries' = secondaries \cup errs
          /\ occurred' = occurred \cup errs
          /\ \/ Continue(terminal, IF Last(stage) THEN "review" ELSE "checkpoint")
             \/ Fail(terminal)
             \/ Cancel(terminal)
    /\ UNCHANGED <<progress, finals, prepared, errors, disk, restores, closes, orphans>>

\* Publish, ask the operator, look at the repository again; retaining is
\* refused before the end.
Checkpoint ==
    /\ pc = "checkpoint"
    /\ \/ Continue(terminal, "prepare") /\ disk' = Current /\ stage' = stage + 1
       \/ (Fail(terminal) \/ Cancel(terminal)) /\ disk' \in {disk, Current} /\ UNCHANGED stage
    /\ UNCHANGED <<devices, owned, baseline, composed, reported, restores, closes, occurred, orphans>>

-----------------------------------------------------------------------------
(* complete.                                                               *)

Review ==
    /\ pc = "review"
    /\ Attempt([terminal EXCEPT !.closure = "precleanup"], "publish_closure")
    /\ UNCHANGED <<progress, reported, disk, restores, closes, occurred, orphans>>

PublishClosure ==
    /\ pc = "publish_closure"
    /\ Write(terminal, "precleanup")
    /\ UNCHANGED <<progress, reported, restores, closes, occurred, orphans>>

ArchivePrecleanup ==
    /\ pc = "precleanup"
    /\ Attempt([terminal EXCEPT !.precleanup = TRUE], "restore")
    /\ UNCHANGED <<progress, reported, disk, restores, closes, occurred, orphans>>

\* Mutant: the workspace is not compared with the baseline.
RestoreResult_Blind(verified) ==
    /\ devices' \in {d \in SUBSET devices : devices \ owned \subseteq d}
    /\ restores' = restores + 1
    /\ orphans' = orphans \cup (devices \ (owned \cup {Probe}))
    /\ UNCHANGED <<stage, owned, baseline, composed>>

\* CPScaleCleanup.restore removes owned devices and looks at the workspace
\* twice; an Exception in it is a result that is not verified.
RestoreResult(verified) ==
    /\ devices' \in {d \in SUBSET devices : devices \ owned \subseteq d}
    /\ verified => devices' = {}
    /\ restores' = restores + 1
    /\ orphans' = orphans \cup (devices \ (owned \cup {Probe}))
    /\ UNCHANGED <<stage, owned, baseline, composed>>

Attempted(result) == [terminal EXCEPT !.attempted = TRUE, !.cleanup = result]

Restore ==
    /\ pc = "restore"
    /\ \/ RestoreResult(TRUE) /\ Continue(Attempted("verified"), "realtime")
       \/ RestoreResult(FALSE) /\ Continue(Attempted("unverified"), "realtime")
       \/ RestoreResult(FALSE) /\ Cancel(Attempted("none"))
    /\ UNCHANGED <<reported, disk, closes, occurred>>

\* cleanup_realtime and review_cleanup.
ReviewCleanup ==
    /\ pc = "realtime"
    /\ \E ok \in BOOLEAN :
          LET t == [terminal EXCEPT !.realtime = ok]
              errs == IF terminal.cleanup = "unverified" /\ ~ok THEN {"realtime"} ELSE {}
          IN  \/ /\ terminal.cleanup = "verified" /\ ok
                 /\ Continue(t, "attest") /\ UNCHANGED <<secondaries, occurred>>
              \/ /\ ~(terminal.cleanup = "verified" /\ ok)
                 /\ Fail(t)
                 /\ secondaries' = secondaries \cup errs /\ occurred' = occurred \cup errs
              \/ Cancel(terminal) /\ UNCHANGED <<secondaries, occurred>>
    /\ UNCHANGED <<progress, finals, prepared, errors, disk, restores, closes, orphans>>

Attest ==
    /\ pc = "attest"
    /\ Attempt([terminal EXCEPT !.attestation = "clean", !.closure = "cleaned"], "publish_clean")
    /\ UNCHANGED <<progress, reported, disk, restores, closes, occurred, orphans>>

PublishClean ==
    /\ pc = "publish_clean"
    /\ Write(terminal, "final_checkpoint")
    /\ UNCHANGED <<progress, reported, restores, closes, occurred, orphans>>

FinalCheckpoint ==
    /\ pc = "final_checkpoint"
    /\ Attempt([terminal EXCEPT !.complete = TRUE, !.outcome = "completed"], "finalize")
    /\ UNCHANGED <<progress, reported, disk, restores, closes, occurred, orphans>>

-----------------------------------------------------------------------------
(* prepare_finalization and finalize_session.                              *)

\* An Exception whose place is among the secondaries.
Secondary(tags) ==
    /\ secondaries' = secondaries \cup tags
    /\ occurred' = occurred \cup tags
    /\ UNCHANGED <<cancelled, interrupts, errors>>

\* Mutant: a second BaseException is swallowed.
Intercept_Swallow(tag) ==
    /\ Signal
    /\ IF cancelled = "none"
       THEN cancelled' = "finalization" /\ UNCHANGED occurred
       ELSE occurred' = occurred \cup {tag} /\ UNCHANGED cancelled
    /\ UNCHANGED <<secondaries, errors>>

\* A BaseException in finalization: the first is in flight, later ones are
\* errors of their own.
Intercept(tag) ==
    /\ Signal
    /\ IF cancelled = "none"
       THEN cancelled' = "finalization" /\ UNCHANGED <<errors, occurred>>
       ELSE /\ errors' = errors \cup {tag} /\ occurred' = occurred \cup {tag}
            /\ UNCHANGED cancelled
    /\ UNCHANGED secondaries

\* An obligation of finalization that is met.
Met == UNCHANGED <<secondaries, errors, occurred, cancelled, interrupts>>

\* A BaseException leaves prepare without the evidence write behind it.
Abandon ==
    /\ Intercept("finalization")
    /\ Goto("close")
    /\ UNCHANGED terminal

Owes == baseline /\ composed /\ ~terminal.complete

Finalize ==
    /\ pc = "finalize"
    /\ IF Owes THEN Goto("owe_precleanup") /\ UNCHANGED prepared
       ELSE Goto("final_write") /\ prepared' = secondaries
    /\ UNCHANGED <<progress, terminal, secondaries, finals, errors, cancelled, disk, history>>

OwePrecleanup ==
    /\ pc = "owe_precleanup"
    /\ \/ terminal.precleanup /\ Met /\ UNCHANGED terminal /\ Goto("owe_restore")
       \/ /\ ~terminal.precleanup
          /\ \/ Met /\ terminal' = [terminal EXCEPT !.precleanup = TRUE] /\ Goto("owe_restore")
             \/ Secondary({"precleanup_archive"}) /\ UNCHANGED terminal /\ Goto("owe_restore")
             \/ Abandon
    /\ UNCHANGED <<progress, finals, prepared, disk, restores, closes, orphans>>

\* Only when complete has not attempted it.
OweRestore ==
    /\ pc = "owe_restore"
    /\ \/ /\ terminal.attempted /\ Met /\ Goto("owe_realtime")
          /\ UNCHANGED <<progress, terminal, restores, orphans>>
       \/ /\ ~terminal.attempted
          /\ \/ /\ RestoreResult(TRUE) /\ Met
                /\ terminal' = Attempted("verified") /\ Goto("owe_realtime")
             \/ /\ RestoreResult(FALSE) /\ Secondary({"cleanup"})
                /\ terminal' = Attempted("unverified") /\ Goto("owe_realtime")
             \/ /\ RestoreResult(FALSE) /\ Intercept("finalization")
                /\ terminal' = Attempted("none") /\ Goto("close")
    /\ UNCHANGED <<finals, prepared, disk, closes>>

OweRealtime ==
    /\ pc = "owe_realtime"
    /\ \/ Met /\ terminal' = [terminal EXCEPT !.realtime = TRUE] /\ Goto("owe_attestation")
       \/ /\ Secondary({"realtime"})
          /\ terminal' = [terminal EXCEPT !.realtime = FALSE] /\ Goto("owe_attestation")
       \/ Abandon
    /\ UNCHANGED <<progress, finals, prepared, disk, restores, closes, orphans>>

Phase == IF terminal.cleanup = "verified" /\ terminal.realtime THEN "clean" ELSE "incomplete"

OweAttestation ==
    /\ pc = "owe_attestation"
    /\ \/ /\ terminal.attestation # "none" /\ Met /\ UNCHANGED terminal
          /\ Goto("final_write") /\ prepared' = secondaries
       \/ /\ terminal.attestation = "none" /\ Met
          /\ terminal' = [terminal EXCEPT !.attestation = Phase]
          /\ Goto("final_write") /\ prepared' = secondaries
       \/ /\ terminal.attestation = "none" /\ Secondary({"cleanup_archive"}) /\ UNCHANGED terminal
          /\ Goto("final_write") /\ prepared' = secondaries'
       \/ terminal.attestation = "none" /\ Abandon /\ UNCHANGED prepared
    /\ UNCHANGED <<progress, finals, disk, restores, closes, orphans>>

\* An Exception of finalize_session's own obligations.
Collect(tag) ==
    /\ errors' = errors \cup {tag} /\ occurred' = occurred \cup {tag}
    /\ UNCHANGED <<secondaries, cancelled, interrupts>>

FinalWrite ==
    /\ pc = "final_write"
    /\ Goto("close")
    /\ \/ Met /\ disk' = Current
       \/ Collect("final_write") /\ UNCHANGED disk
       \/ Intercept("final_write") /\ disk' \in {disk, Current}
    /\ UNCHANGED <<progress, terminal, finals, prepared, restores, closes, orphans>>

Close ==
    /\ pc = "close"
    /\ Goto("collect")
    /\ closes' = closes + 1
    /\ Met \/ Collect("transport_stop") \/ Intercept("transport_stop")
    /\ UNCHANGED <<progress, terminal, finals, prepared, disk, restores, orphans>>

\* The secondaries join the errors.  A run that nobody interrupted returns
\* them to run, which reports them itself; an interrupted one reports here.
CollectErrors ==
    /\ pc = "collect"
    /\ LET all == secondaries \cup errors
           failed == [terminal EXCEPT !.outcome = "failed"]
           settle == IF all # prepared THEN "publish" ELSE "report"
       IN  /\ errors' = all
           /\ IF cancelled = "none"
              THEN /\ finals' = all
                   /\ terminal' = IF all # {} /\ terminal.outcome = "completed" THEN failed ELSE terminal
                   /\ Goto(IF all # {} THEN settle
                           ELSE IF terminal.outcome = "completed" THEN "present" ELSE "returned")
              ELSE /\ UNCHANGED <<finals, terminal>>
                   /\ Goto(IF all = {} THEN "raised"
                           ELSE IF cancelled = "session" THEN settle ELSE "report")
    /\ UNCHANGED <<progress, secondaries, prepared, cancelled, disk, history>>

-----------------------------------------------------------------------------
(* settle_terminal_errors: publish, report once, publish a failed report.  *)

End == IF cancelled = "none" THEN "returned" ELSE "raised"

\* Mutant: settling stops at its first failure.
Settled_Stop(tag, next) ==
    /\ errors' = errors \cup {tag} /\ occurred' = occurred \cup {tag}
    /\ Goto(End)
    /\ UNCHANGED cancelled
    /\ \/ UNCHANGED interrupts
       \/ cancelled # "none" /\ Signal

\* A BaseException of settling is an error while a cancellation of the session
\* is in flight; otherwise it is what the run raises.
Settled(tag, next) ==
    /\ errors' = errors \cup {tag} /\ occurred' = occurred \cup {tag}
    /\ Goto(next)
    /\ UNCHANGED cancelled
    /\ \/ UNCHANGED interrupts
       \/ cancelled # "none" /\ Signal

Broken ==
    /\ cancelled = "none" /\ Signal
    /\ cancelled' = "outside"
    /\ Goto("raised")
    /\ UNCHANGED <<errors, occurred>>

PublishTerminal(here, next) ==
    /\ pc = here
    /\ secondaries' = {}
    /\ \/ /\ Goto(next) /\ disk' = Snapshot(terminal, errors)
          /\ UNCHANGED <<errors, occurred, cancelled, interrupts>>
       \/ Settled("terminal_write", next) /\ UNCHANGED disk
       \/ Broken /\ disk' \in {disk, Snapshot(terminal, errors)}
    /\ finals' = errors'
    /\ UNCHANGED <<progress, terminal, prepared, restores, closes, orphans>>

Publish == PublishTerminal("publish", "report")
Republish == PublishTerminal("republish", End)

\* Before a session, and for an interruption of finalization, there is no
\* second publication.
ReportErrors ==
    /\ pc = "report"
    /\ secondaries' = {}
    /\ \/ Goto(End) /\ UNCHANGED <<errors, occurred, cancelled, interrupts>>
       \/ Settled("report", IF closes = 0 \/ cancelled = "finalization" THEN End ELSE "republish")
       \/ Broken
    /\ finals' = errors'
    /\ UNCHANGED <<progress, terminal, prepared, disk, restores, closes, orphans>>

\* presentation.terminal: success is announced last of all.
Present ==
    /\ pc = "present"
    /\ \/ Goto("returned") /\ UNCHANGED <<terminal, errors, occurred, cancelled, interrupts>>
       \/ /\ terminal' = [terminal EXCEPT !.outcome = "failed"]
          /\ errors' = {"presentation"} /\ occurred' = occurred \cup {"presentation"}
          /\ Goto("publish")
          /\ UNCHANGED <<cancelled, interrupts>>
       \/ Broken /\ UNCHANGED terminal
    /\ UNCHANGED <<progress, secondaries, finals, prepared, disk, restores, closes, orphans>>

-----------------------------------------------------------------------------
Next ==
    \/ Preflight \/ Reject
    \/ Start \/ Baseline \/ Refuse \/ Compose \/ ProbeCapabilities
    \/ PrepareStage \/ Deploy \/ PublishDelta \/ RequireDelta \/ Reconcile
    \/ ExecuteStage \/ Checkpoint
    \/ Review \/ PublishClosure \/ ArchivePrecleanup \/ Restore \/ ReviewCleanup
    \/ Attest \/ PublishClean \/ FinalCheckpoint
    \/ Finalize \/ OwePrecleanup \/ OweRestore \/ OweRealtime \/ OweAttestation
    \/ FinalWrite \/ Close \/ CollectErrors
    \/ Publish \/ Republish \/ ReportErrors \/ Present

Spec == Init /\ [][Next]_vars

-----------------------------------------------------------------------------
(* Properties.                                                             *)

Ended == pc \in {"returned", "raised"}

\* A run that says COMPLETED left the workspace as it found it, archived the
\* evidence before the cleanup and the attestation after it, closed its
\* session, and its evidence file says the same (coordinator.py, complete).
CompletedLeavesNothing ==
    pc = "returned" /\ terminal.outcome = "completed"
    => /\ devices = {} /\ closes = 1
       /\ terminal.precleanup /\ disk.attestation = "clean"
       /\ disk.closure = "cleaned" /\ ~disk.failure /\ occurred = {}

\* No error disappears: a run that returns reports every one of them, and so
\* does the interruption a run raises from its session or its finalization
\* (lifecycle.py: a failed report "is a secondary", never a replacement).
NoErrorIsLost ==
    \/ pc = "returned"
    \/ pc = "raised" /\ cancelled \in {"session", "finalization"}
    => occurred \subseteq secondaries \cup finals

\* When a run returns, the evidence file holds all it reports, or the report
\* says that it could not be written (settle_terminal_errors).
EvidenceIsCurrent ==
    pc = "returned" =>
        \/ disk = Current
        \/ {"preflight_write", "terminal_write"} \cap finals # {}

\* One interruption, wherever it hits the session, costs neither the cleanup
\* nor the record of what the cleanup could not do.
InterruptedRunIsCleanedUp ==
    pc = "raised" /\ cancelled = "session" /\ interrupts = 1 /\ composed
    => /\ restores = 1
       /\ devices # {} => terminal.attestation = "incomplete" \/ "cleanup_archive" \in finals

=============================================================================
