------------------------ MODULE RunCoordinatorProofs ------------------------
(***************************************************************************)
(* Proofs about RunCoordinator, for any number of stages and of            *)
(* interruptions.                                                          *)
(***************************************************************************)
EXTENDS RunCoordinator, TLAPS

\* Where the run can be: inside execute_session and complete up to the
\* restoration, behind it, in the obligations a failed run owes, and in the
\* report of the errors.
Building == {"start", "baseline", "refuse", "compose", "probe", "prepare", "deploy",
             "deployed", "undeployed", "unverified", "reconcile", "execute", "checkpoint",
             "review", "publish_closure", "precleanup", "restore"}
Restored == {"realtime", "attest", "publish_clean", "final_checkpoint"}
Session  == Building \cup Restored
Owing    == {"owe_precleanup", "owe_restore", "owe_realtime", "owe_attestation"}
Settling == {"publish", "report", "republish"}

SecondaryTags == {"stage", "realtime", "precleanup_archive", "cleanup", "cleanup_archive"}
ErrorTags == SecondaryTags \cup
    {"preflight_write", "finalization", "final_write", "transport_stop", "terminal_write",
     "report", "presentation"}

Closure == {"none", "precleanup", "cleaned"}
CleanupResult == {"none", "verified", "unverified"}
Attestation == {"none", "clean", "incomplete"}

PlaceOK ==
    /\ pc \in {"preflight", "reject", "finalize", "final_write", "close", "collect",
               "present", "returned", "raised"} \cup Session \cup Owing \cup Settling
    /\ stage \in 1..Stages
    /\ pc = "checkpoint" => stage < Stages
    /\ devices \subseteq Device /\ owned \subseteq Device /\ orphans \subseteq Device
    /\ baseline \in BOOLEAN /\ composed \in BOOLEAN
    /\ cancelled \in {"none", "session", "finalization", "outside"}
    /\ restores \in Nat /\ closes \in Nat /\ interrupts \in Nat

TerminalState ==
    [outcome : {"none", "failed", "rejected", "completed"}, failure : BOOLEAN,
     hardStop : BOOLEAN, closure : Closure, precleanup : BOOLEAN, attempted : BOOLEAN,
     cleanup : CleanupResult, realtime : BOOLEAN, attestation : Attestation,
     complete : BOOLEAN]

Evidence ==
    [failure : BOOLEAN, hardStop : BOOLEAN, closure : Closure, cleanup : CleanupResult,
     attestation : Attestation, errors : SUBSET ErrorTags]

ReportOK ==
    /\ secondaries \subseteq SecondaryTags /\ prepared \subseteq SecondaryTags
    /\ finals \subseteq ErrorTags /\ errors \subseteq ErrorTags
    /\ occurred \subseteq ErrorTags
    /\ disk \in Evidence

TypeOK == PlaceOK /\ terminal \in TerminalState /\ ReportOK

\* What the place a run has come to says of its terminal state and of the
\* interruption in flight.
ControlInv ==
    /\ pc \in {"preflight"} \cup Session =>
          terminal.outcome = "none" /\ ~terminal.complete /\ ~terminal.failure
    /\ pc = "reject" => terminal.outcome = "rejected" /\ ~terminal.complete
    /\ pc \in {"preflight", "reject"} \cup Session => cancelled = "none"
    /\ pc \in {"preflight", "reject", "finalize", "final_write", "close"} \cup Session \cup Owing
          => closes = 0
    /\ pc \in {"collect", "publish", "republish", "present"} => closes = 1
    /\ pc \in {"preflight", "reject"} \cup Building =>
          ~terminal.attempted /\ terminal.attestation = "none"
    /\ pc \in Owing => Owes
    /\ pc \in {"owe_realtime", "owe_attestation"} => terminal.attempted
    /\ pc \in Settling /\ cancelled = "none" => terminal.outcome # "completed"
    /\ pc = "present" => cancelled = "none" /\ terminal.outcome = "completed"
    /\ pc = "report" => closes \in {0, 1}
    /\ composed \/ pc = "compose" => baseline
    /\ cancelled = "session" => interrupts >= 1 /\ ~terminal.complete

\* The workspace is restored at most once; what is verified is empty, and what
\* is attested as clean is verified.
CleanupInv ==
    /\ restores = IF terminal.attempted THEN 1 ELSE 0
    /\ terminal.cleanup = "verified" => terminal.attempted /\ devices = {}
    /\ terminal.attestation = "clean" => terminal.cleanup = "verified"
    /\ pc \in {"restore"} \cup Restored => terminal.precleanup
    /\ pc = "attest" => terminal.cleanup = "verified"
    /\ pc \in {"publish_clean", "final_checkpoint"} =>
          terminal.attestation = "clean" /\ terminal.closure = "cleaned"

\* A run that counts as completed is clean, and so is its evidence file.
CompletedInv ==
    /\ terminal.outcome = "completed" =>
          /\ terminal.complete /\ ~terminal.failure /\ terminal.precleanup
          /\ terminal.attestation = "clean" /\ terminal.closure = "cleaned"
    /\ pc = "final_checkpoint" \/ terminal.outcome = "completed" =>
          disk.attestation = "clean" /\ disk.closure = "cleaned" /\ ~disk.failure
    /\ CompletedLeavesNothing

\* Where an error is kept until it is reported.
ErrorInv ==
    /\ pc \in {"preflight", "reject"} \cup Session => errors = {}
    /\ cancelled = "none" =>
          /\ pc \in {"finalize", "final_write"} \cup Owing => errors = {}
          /\ pc \in {"close", "collect"} => errors \subseteq {"final_write", "transport_stop"}
    /\ pc \notin {"present", "returned", "raised"} \cup Settling =>
          finals = {} /\ occurred \subseteq secondaries \cup errors
    /\ pc \in Settling => occurred \subseteq errors
    /\ pc = "present" => errors = {} /\ secondaries = {} /\ finals = {} /\ occurred = {}
    /\ NoErrorIsLost

\* When the evidence file is what the run reports.
EvidenceInv ==
    /\ cancelled = "none" =>
          /\ pc \in {"final_write", "close", "collect"} => prepared = secondaries
          /\ pc \in {"close", "collect"} => disk = Current \/ "final_write" \in errors
          /\ pc = "present" => disk = Current
          /\ pc = "report" => \/ disk = Snapshot(terminal, errors)
                              \/ {"preflight_write", "terminal_write"} \cap errors # {}
    /\ pc = "report" /\ closes = 0 => "preflight_write" \in errors
    /\ EvidenceIsCurrent

\* A run of a composed session that one interruption has hit and no more.
HitOnce == cancelled = "session" /\ interrupts = 1 /\ composed

\* Such a run attempts the restoration and attests what it left, or records
\* that it could not.
InterruptInv ==
    /\ HitOnce /\ pc \in {"final_write", "close", "collect"} =>
          terminal.attempted
          /\ (terminal.attestation # "none" \/ "cleanup_archive" \in secondaries)
    /\ HitOnce /\ pc \in Settling =>
          terminal.attempted
          /\ (terminal.attestation # "none" \/ "cleanup_archive" \in errors)
    /\ InterruptedRunIsCleanedUp

\* The inductive invariant.
Inv == TypeOK /\ ControlInv /\ CleanupInv /\ CompletedInv /\ ErrorInv /\ EvidenceInv
       /\ InterruptInv

-----------------------------------------------------------------------------
\* What publication_snapshot takes from a terminal state is evidence.
LEMMA SnapshotType ==
    ASSUME NEW t \in TerminalState, NEW errs \in SUBSET ErrorTags
    PROVE  Snapshot(t, errs) \in Evidence
  BY DEF Snapshot, TerminalState, Evidence


\* Every step takes the run to one of its places, and keeps its progress.
LEMMA PlaceStep ==
    ASSUME PlaceOK, [Next]_vars
    PROVE  PlaceOK'
<1> USE DEF progress, reported, history
<1>1. ASSUME Preflight
      PROVE  PlaceOK'
  BY <1>1, RunAssumption DEF Preflight, Goto, Signal, Continue, Session, Building,
     Restored, Owing, Settling, PlaceOK, Device, Probe
<1>2. ASSUME Reject
      PROVE  PlaceOK'
  BY <1>2, RunAssumption DEF Reject, Goto, Signal, Snapshot, Current, Session,
     Building, Restored, Owing, Settling, PlaceOK, Device, Probe
<1>3. ASSUME Start
      PROVE  PlaceOK'
  BY <1>3, RunAssumption DEF Start, Goto, Signal, Fail, Cancel, Continue, Attempt,
     Session, Building, Restored, Owing, Settling, PlaceOK, Device, Probe
<1>4. ASSUME Baseline
      PROVE  PlaceOK'
  <2>1. baseline' \in BOOLEAN
    BY <1>4 DEF Baseline, PlaceOK
  <2>2. /\ UNCHANGED <<stage, devices, owned, orphans, composed, restores, closes>>
        /\ pc' \in {"compose", "refuse", "finalize"}
        /\ cancelled' \in {cancelled, "session"} /\ interrupts' \in {interrupts, interrupts + 1}
    BY <1>4 DEF Baseline, Goto, Signal, Fail, Cancel, Continue
  <2> QED
    BY <2>1, <2>2 DEF PlaceOK, Session, Building
<1>5. ASSUME Refuse
      PROVE  PlaceOK'
  BY <1>5, RunAssumption DEF Refuse, Goto, Signal, Fail, Cancel, Continue, Snapshot,
     Current, Session, Building, Restored, Owing, Settling, PlaceOK, Device, Probe
<1>6. ASSUME Compose
      PROVE  PlaceOK'
  <2>1. composed' \in BOOLEAN
    BY <1>6 DEF Compose, PlaceOK
  <2>2. /\ UNCHANGED <<stage, devices, owned, orphans, baseline, restores, closes>>
        /\ pc' \in {"probe", "finalize"}
        /\ cancelled' \in {cancelled, "session"} /\ interrupts' \in {interrupts, interrupts + 1}
    BY <1>6 DEF Compose, Goto, Signal, Fail, Cancel, Continue
  <2> QED
    BY <2>1, <2>2 DEF PlaceOK, Session, Building
<1>7. ASSUME ProbeCapabilities
      PROVE  PlaceOK'
  BY <1>7, RunAssumption DEF ProbeCapabilities, Goto, Signal, Fail, Cancel, Continue,
     Attempt, Session, Building, Restored, Owing, Settling, PlaceOK, Device, Probe
<1>8. ASSUME PrepareStage
      PROVE  PlaceOK'
  BY <1>8, RunAssumption DEF PrepareStage, Goto, Signal, Fail, Cancel, Continue,
     Attempt, Write, Snapshot, Remaining, Last, Session, Building, Restored, Owing,
     Settling, PlaceOK, Device, Probe
<1>9. ASSUME Deploy
      PROVE  PlaceOK'
  <2>1. stage \in Device
    BY RunAssumption DEF PlaceOK, Device
  <2>2. /\ devices' \subseteq Device /\ owned' \subseteq Device
        /\ UNCHANGED <<stage, orphans, baseline, composed, restores, closes>>
    BY <1>9, <2>1 DEF Deploy, PlaceOK
  <2>3. /\ pc' \in {"deployed", "undeployed", "finalize"}
        /\ cancelled' \in {cancelled, "session"} /\ interrupts' \in {interrupts, interrupts + 1}
    BY <1>9 DEF Deploy, Goto, Signal, Cancel, Continue
  <2> QED
    BY <2>2, <2>3 DEF PlaceOK, Session, Building
<1>10. ASSUME PublishDelta
      PROVE  PlaceOK'
  BY <1>10, RunAssumption DEF PublishDelta, Goto, Signal, Fail, Cancel, Continue,
     Write, Snapshot, Session, Building, Restored, Owing, Settling, PlaceOK, Device,
     Probe
<1>11. ASSUME RequireDelta
      PROVE  PlaceOK'
  BY <1>11, RunAssumption DEF RequireDelta, Goto, Signal, Fail, Cancel, Session,
     Building, Restored, Owing, Settling, PlaceOK, Device, Probe
<1>12. ASSUME Reconcile
      PROVE  PlaceOK'
  BY <1>12, RunAssumption DEF Reconcile, Goto, Signal, Fail, Cancel, Continue, Write,
     Snapshot, Session, Building, Restored, Owing, Settling, PlaceOK, Device, Probe
<1>13. ASSUME ExecuteStage
      PROVE  PlaceOK'
  BY <1>13, RunAssumption DEF ExecuteStage, Goto, Signal, Fail, Cancel, Continue,
     Last, Session, Building, Restored, Owing, Settling, PlaceOK, Device, Probe
<1>14. ASSUME Checkpoint
      PROVE  PlaceOK'
  BY <1>14, RunAssumption DEF Checkpoint, Goto, Signal, Fail, Cancel, Continue,
     Snapshot, Current, Session, Building, Restored, Owing, Settling, PlaceOK,
     Device, Probe
<1>15. ASSUME Review
      PROVE  PlaceOK'
  BY <1>15, RunAssumption DEF Review, Goto, Signal, Fail, Cancel, Continue, Attempt,
     Session, Building, Restored, Owing, Settling, PlaceOK, Device, Probe
<1>16. ASSUME PublishClosure
      PROVE  PlaceOK'
  BY <1>16, RunAssumption DEF PublishClosure, Goto, Signal, Fail, Cancel, Continue,
     Write, Snapshot, Session, Building, Restored, Owing, Settling, PlaceOK, Device,
     Probe
<1>17. ASSUME ArchivePrecleanup
      PROVE  PlaceOK'
  BY <1>17, RunAssumption DEF ArchivePrecleanup, Goto, Signal, Fail, Cancel,
     Continue, Attempt, Session, Building, Restored, Owing, Settling, PlaceOK,
     Device, Probe
<1>18. ASSUME Restore
      PROVE  PlaceOK'
  BY <1>18, RunAssumption DEF Restore, Goto, Signal, Cancel, Continue, Attempted,
     RestoreResult, Session, Building, Restored, Owing, Settling, PlaceOK, Device,
     Probe
<1>19. ASSUME ReviewCleanup
      PROVE  PlaceOK'
  BY <1>19, RunAssumption DEF ReviewCleanup, Goto, Signal, Fail, Cancel, Continue,
     Session, Building, Restored, Owing, Settling, PlaceOK, Device, Probe
<1>20. ASSUME Attest
      PROVE  PlaceOK'
  BY <1>20, RunAssumption DEF Attest, Goto, Signal, Fail, Cancel, Continue, Attempt,
     Session, Building, Restored, Owing, Settling, PlaceOK, Device, Probe
<1>21. ASSUME PublishClean
      PROVE  PlaceOK'
  BY <1>21, RunAssumption DEF PublishClean, Goto, Signal, Fail, Cancel, Continue,
     Write, Snapshot, Session, Building, Restored, Owing, Settling, PlaceOK, Device,
     Probe
<1>22. ASSUME FinalCheckpoint
      PROVE  PlaceOK'
  BY <1>22, RunAssumption DEF FinalCheckpoint, Goto, Signal, Fail, Cancel, Continue,
     Attempt, Session, Building, Restored, Owing, Settling, PlaceOK, Device, Probe
<1>23. ASSUME Finalize
      PROVE  PlaceOK'
  BY <1>23, RunAssumption DEF Finalize, Goto, Owes, Session, Building, Restored,
     Owing, Settling, PlaceOK, Device, Probe
<1>24. ASSUME OwePrecleanup
      PROVE  PlaceOK'
  BY <1>24, RunAssumption DEF OwePrecleanup, Goto, Signal, Met, Secondary, Intercept,
     Abandon, Session, Building, Restored, Owing, Settling, PlaceOK, Device, Probe
<1>25. ASSUME OweRestore
      PROVE  PlaceOK'
  BY <1>25, RunAssumption DEF OweRestore, Goto, Signal, Met, Secondary, Intercept,
     Attempted, RestoreResult, Session, Building, Restored, Owing, Settling, PlaceOK,
     Device, Probe
<1>26. ASSUME OweRealtime
      PROVE  PlaceOK'
  BY <1>26, RunAssumption DEF OweRealtime, Goto, Signal, Met, Secondary, Intercept,
     Abandon, Session, Building, Restored, Owing, Settling, PlaceOK, Device, Probe
<1>27. ASSUME OweAttestation
      PROVE  PlaceOK'
  BY <1>27, RunAssumption DEF OweAttestation, Goto, Signal, Met, Secondary,
     Intercept, Abandon, Phase, Session, Building, Restored, Owing, Settling,
     PlaceOK, Device, Probe
<1>28. ASSUME FinalWrite
      PROVE  PlaceOK'
  BY <1>28, RunAssumption DEF FinalWrite, Goto, Signal, Snapshot, Current, Met,
     Intercept, Collect, Session, Building, Restored, Owing, Settling, PlaceOK,
     Device, Probe
<1>29. ASSUME Close
      PROVE  PlaceOK'
  BY <1>29, RunAssumption DEF Close, Goto, Signal, Met, Intercept, Collect, Session,
     Building, Restored, Owing, Settling, PlaceOK, Device, Probe
<1>30. ASSUME CollectErrors
      PROVE  PlaceOK'
  BY <1>30, RunAssumption DEF CollectErrors, Goto, Session, Building, Restored,
     Owing, Settling, PlaceOK, Device, Probe
<1>31. ASSUME Publish
      PROVE  PlaceOK'
  BY <1>31, RunAssumption DEF Publish, Goto, Signal, Snapshot, Settled, Broken,
     PublishTerminal, Session, Building, Restored, Owing, Settling, PlaceOK, Device,
     Probe
<1>32. ASSUME Republish
      PROVE  PlaceOK'
  BY <1>32, RunAssumption DEF Republish, Goto, Signal, Snapshot, Settled, Broken,
     PublishTerminal, End, Session, Building, Restored, Owing, Settling, PlaceOK,
     Device, Probe
<1>33. ASSUME ReportErrors
      PROVE  PlaceOK'
  BY <1>33, RunAssumption DEF ReportErrors, Goto, Signal, Settled, Broken, End,
     Session, Building, Restored, Owing, Settling, PlaceOK, Device, Probe
<1>34. ASSUME Present
      PROVE  PlaceOK'
  BY <1>34, RunAssumption DEF Present, Goto, Signal, Broken, Session, Building,
     Restored, Owing, Settling, PlaceOK, Device, Probe
<1>35. ASSUME UNCHANGED vars
      PROVE  PlaceOK'
  BY <1>35 DEF vars, Current, Snapshot, Owes, Session, Building, Restored, Owing,
     Settling, PlaceOK, Device, Probe
<1> QED
  BY <1>1, <1>2, <1>3, <1>4, <1>5, <1>6, <1>7, <1>8, <1>9, <1>10, <1>11, <1>12,
     <1>13, <1>14, <1>15, <1>16, <1>17, <1>18, <1>19, <1>20, <1>21, <1>22, <1>23,
     <1>24, <1>25, <1>26, <1>27, <1>28, <1>29, <1>30, <1>31, <1>32, <1>33, <1>34,
     <1>35
     DEF Next

\* Every step keeps the terminal state one.
LEMMA TerminalStep ==
    ASSUME terminal \in TerminalState, [Next]_vars
    PROVE  (terminal \in TerminalState)'
<1> USE DEF progress, reported, history
<1>1. ASSUME Preflight
      PROVE  (terminal \in TerminalState)'
  BY <1>1 DEF Preflight, Goto, Signal, Continue, TerminalState, Closure,
     CleanupResult, Attestation
<1>2. ASSUME Reject
      PROVE  (terminal \in TerminalState)'
  BY <1>2 DEF Reject, Goto, Signal, Snapshot, Current, TerminalState, Closure,
     CleanupResult, Attestation
<1>3. ASSUME Start
      PROVE  (terminal \in TerminalState)'
  BY <1>3 DEF Start, Goto, Signal, Fail, Cancel, Continue, Attempt, TerminalState,
     Closure, CleanupResult, Attestation
<1>4. ASSUME Baseline
      PROVE  (terminal \in TerminalState)'
  BY <1>4 DEF Baseline, Goto, Signal, Fail, Cancel, Continue, TerminalState, Closure,
     CleanupResult, Attestation
<1>5. ASSUME Refuse
      PROVE  (terminal \in TerminalState)'
  BY <1>5 DEF Refuse, Goto, Signal, Fail, Cancel, Continue, Snapshot, Current,
     TerminalState, Closure, CleanupResult, Attestation
<1>6. ASSUME Compose
      PROVE  (terminal \in TerminalState)'
  BY <1>6 DEF Compose, Goto, Signal, Fail, Cancel, Continue, TerminalState, Closure,
     CleanupResult, Attestation
<1>7. ASSUME ProbeCapabilities
      PROVE  (terminal \in TerminalState)'
  BY <1>7 DEF ProbeCapabilities, Goto, Signal, Fail, Cancel, Continue, Attempt,
     TerminalState, Closure, CleanupResult, Attestation
<1>8. ASSUME PrepareStage
      PROVE  (terminal \in TerminalState)'
  BY <1>8 DEF PrepareStage, Goto, Signal, Fail, Cancel, Continue, Attempt, Write,
     Snapshot, Remaining, Last, TerminalState, Closure, CleanupResult, Attestation
<1>9. ASSUME Deploy
      PROVE  (terminal \in TerminalState)'
  BY <1>9 DEF Deploy, Goto, Signal, Cancel, Continue, TerminalState, Closure,
     CleanupResult, Attestation
<1>10. ASSUME PublishDelta
      PROVE  (terminal \in TerminalState)'
  BY <1>10 DEF PublishDelta, Goto, Signal, Fail, Cancel, Continue, Write, Snapshot,
     TerminalState, Closure, CleanupResult, Attestation
<1>11. ASSUME RequireDelta
      PROVE  (terminal \in TerminalState)'
  BY <1>11 DEF RequireDelta, Goto, Signal, Fail, Cancel, TerminalState, Closure,
     CleanupResult, Attestation
<1>12. ASSUME Reconcile
      PROVE  (terminal \in TerminalState)'
  BY <1>12 DEF Reconcile, Goto, Signal, Fail, Cancel, Continue, Write, Snapshot,
     TerminalState, Closure, CleanupResult, Attestation
<1>13. ASSUME ExecuteStage
      PROVE  (terminal \in TerminalState)'
  BY <1>13 DEF ExecuteStage, Goto, Signal, Fail, Cancel, Continue, Last,
     TerminalState, Closure, CleanupResult, Attestation
<1>14. ASSUME Checkpoint
      PROVE  (terminal \in TerminalState)'
  BY <1>14 DEF Checkpoint, Goto, Signal, Fail, Cancel, Continue, Snapshot, Current,
     TerminalState, Closure, CleanupResult, Attestation
<1>15. ASSUME Review
      PROVE  (terminal \in TerminalState)'
  BY <1>15 DEF Review, Goto, Signal, Fail, Cancel, Continue, Attempt, TerminalState,
     Closure, CleanupResult, Attestation
<1>16. ASSUME PublishClosure
      PROVE  (terminal \in TerminalState)'
  BY <1>16 DEF PublishClosure, Goto, Signal, Fail, Cancel, Continue, Write, Snapshot,
     TerminalState, Closure, CleanupResult, Attestation
<1>17. ASSUME ArchivePrecleanup
      PROVE  (terminal \in TerminalState)'
  BY <1>17 DEF ArchivePrecleanup, Goto, Signal, Fail, Cancel, Continue, Attempt,
     TerminalState, Closure, CleanupResult, Attestation
<1>18. ASSUME Restore
      PROVE  (terminal \in TerminalState)'
  BY <1>18 DEF Restore, Goto, Signal, Cancel, Continue, Attempted, RestoreResult,
     TerminalState, Closure, CleanupResult, Attestation
<1>19. ASSUME ReviewCleanup
      PROVE  (terminal \in TerminalState)'
  BY <1>19 DEF ReviewCleanup, Goto, Signal, Fail, Cancel, Continue, TerminalState,
     Closure, CleanupResult, Attestation
<1>20. ASSUME Attest
      PROVE  (terminal \in TerminalState)'
  BY <1>20 DEF Attest, Goto, Signal, Fail, Cancel, Continue, Attempt, TerminalState,
     Closure, CleanupResult, Attestation
<1>21. ASSUME PublishClean
      PROVE  (terminal \in TerminalState)'
  BY <1>21 DEF PublishClean, Goto, Signal, Fail, Cancel, Continue, Write, Snapshot,
     TerminalState, Closure, CleanupResult, Attestation
<1>22. ASSUME FinalCheckpoint
      PROVE  (terminal \in TerminalState)'
  BY <1>22 DEF FinalCheckpoint, Goto, Signal, Fail, Cancel, Continue, Attempt,
     TerminalState, Closure, CleanupResult, Attestation
<1>23. ASSUME Finalize
      PROVE  (terminal \in TerminalState)'
  BY <1>23 DEF Finalize, Goto, Owes, TerminalState, Closure, CleanupResult,
     Attestation
<1>24. ASSUME OwePrecleanup
      PROVE  (terminal \in TerminalState)'
  BY <1>24 DEF OwePrecleanup, Goto, Signal, Met, Secondary, Intercept, Abandon,
     TerminalState, Closure, CleanupResult, Attestation
<1>25. ASSUME OweRestore
      PROVE  (terminal \in TerminalState)'
  BY <1>25 DEF OweRestore, Goto, Signal, Met, Secondary, Intercept, Attempted,
     RestoreResult, TerminalState, Closure, CleanupResult, Attestation
<1>26. ASSUME OweRealtime
      PROVE  (terminal \in TerminalState)'
  BY <1>26 DEF OweRealtime, Goto, Signal, Met, Secondary, Intercept, Abandon,
     TerminalState, Closure, CleanupResult, Attestation
<1>27. ASSUME OweAttestation
      PROVE  (terminal \in TerminalState)'
  BY <1>27 DEF OweAttestation, Goto, Signal, Met, Secondary, Intercept, Abandon,
     Phase, TerminalState, Closure, CleanupResult, Attestation
<1>28. ASSUME FinalWrite
      PROVE  (terminal \in TerminalState)'
  BY <1>28 DEF FinalWrite, Goto, Signal, Snapshot, Current, Met, Intercept, Collect,
     TerminalState, Closure, CleanupResult, Attestation
<1>29. ASSUME Close
      PROVE  (terminal \in TerminalState)'
  BY <1>29 DEF Close, Goto, Signal, Met, Intercept, Collect, TerminalState, Closure,
     CleanupResult, Attestation
<1>30. ASSUME CollectErrors
      PROVE  (terminal \in TerminalState)'
  BY <1>30 DEF CollectErrors, Goto, TerminalState, Closure, CleanupResult,
     Attestation
<1>31. ASSUME Publish
      PROVE  (terminal \in TerminalState)'
  BY <1>31 DEF Publish, Goto, Signal, Snapshot, Settled, Broken, PublishTerminal,
     TerminalState, Closure, CleanupResult, Attestation
<1>32. ASSUME Republish
      PROVE  (terminal \in TerminalState)'
  BY <1>32 DEF Republish, Goto, Signal, Snapshot, Settled, Broken, PublishTerminal,
     End, TerminalState, Closure, CleanupResult, Attestation
<1>33. ASSUME ReportErrors
      PROVE  (terminal \in TerminalState)'
  BY <1>33 DEF ReportErrors, Goto, Signal, Settled, Broken, End, TerminalState,
     Closure, CleanupResult, Attestation
<1>34. ASSUME Present
      PROVE  (terminal \in TerminalState)'
  BY <1>34 DEF Present, Goto, Signal, Broken, TerminalState, Closure, CleanupResult,
     Attestation
<1>35. ASSUME UNCHANGED vars
      PROVE  (terminal \in TerminalState)'
  BY <1>35 DEF vars, Current, Snapshot, Owes, TerminalState, Closure, CleanupResult,
     Attestation
<1> QED
  BY <1>1, <1>2, <1>3, <1>4, <1>5, <1>6, <1>7, <1>8, <1>9, <1>10, <1>11, <1>12,
     <1>13, <1>14, <1>15, <1>16, <1>17, <1>18, <1>19, <1>20, <1>21, <1>22, <1>23,
     <1>24, <1>25, <1>26, <1>27, <1>28, <1>29, <1>30, <1>31, <1>32, <1>33, <1>34,
     <1>35
     DEF Next

\* Every step keeps errors to their places, and the evidence file whole.
LEMMA ReportStep ==
    ASSUME terminal \in TerminalState, terminal' \in TerminalState, ReportOK, [Next]_vars
    PROVE  ReportOK'
<1> USE DEF progress, reported, history
<1>1. ASSUME Preflight
      PROVE  ReportOK'
  BY <1>1, SnapshotType DEF Preflight, Goto, Signal, Continue, ReportOK,
     SecondaryTags, ErrorTags
<1>2. ASSUME Reject
      PROVE  ReportOK'
  BY <1>2, SnapshotType DEF Reject, Goto, Signal, Current, ReportOK, SecondaryTags,
     ErrorTags
<1>3. ASSUME Start
      PROVE  ReportOK'
  BY <1>3, SnapshotType DEF Start, Goto, Signal, Fail, Cancel, Continue, Attempt,
     ReportOK, SecondaryTags, ErrorTags
<1>4. ASSUME Baseline
      PROVE  ReportOK'
  BY <1>4, SnapshotType DEF Baseline, Goto, Signal, Fail, Cancel, Continue, ReportOK,
     SecondaryTags, ErrorTags
<1>5. ASSUME Refuse
      PROVE  ReportOK'
  BY <1>5, SnapshotType DEF Refuse, Goto, Signal, Fail, Cancel, Continue, Current,
     ReportOK, SecondaryTags, ErrorTags
<1>6. ASSUME Compose
      PROVE  ReportOK'
  BY <1>6, SnapshotType DEF Compose, Goto, Signal, Fail, Cancel, Continue, ReportOK,
     SecondaryTags, ErrorTags
<1>7. ASSUME ProbeCapabilities
      PROVE  ReportOK'
  BY <1>7, SnapshotType DEF ProbeCapabilities, Goto, Signal, Fail, Cancel, Continue,
     Attempt, ReportOK, SecondaryTags, ErrorTags
<1>8. ASSUME PrepareStage
      PROVE  ReportOK'
  BY <1>8, SnapshotType DEF PrepareStage, Goto, Signal, Fail, Cancel, Continue,
     Attempt, Write, Remaining, Last, ReportOK, SecondaryTags, ErrorTags
<1>9. ASSUME Deploy
      PROVE  ReportOK'
  BY <1>9, SnapshotType DEF Deploy, Goto, Signal, Cancel, Continue, ReportOK,
     SecondaryTags, ErrorTags
<1>10. ASSUME PublishDelta
      PROVE  ReportOK'
  BY <1>10, SnapshotType DEF PublishDelta, Goto, Signal, Fail, Cancel, Continue,
     Write, ReportOK, SecondaryTags, ErrorTags
<1>11. ASSUME RequireDelta
      PROVE  ReportOK'
  BY <1>11, SnapshotType DEF RequireDelta, Goto, Signal, Fail, Cancel, ReportOK,
     SecondaryTags, ErrorTags
<1>12. ASSUME Reconcile
      PROVE  ReportOK'
  BY <1>12, SnapshotType DEF Reconcile, Goto, Signal, Fail, Cancel, Continue, Write,
     ReportOK, SecondaryTags, ErrorTags
<1>13. ASSUME ExecuteStage
      PROVE  ReportOK'
  BY <1>13, SnapshotType DEF ExecuteStage, Goto, Signal, Fail, Cancel, Continue,
     Last, ReportOK, SecondaryTags, ErrorTags
<1>14. ASSUME Checkpoint
      PROVE  ReportOK'
  BY <1>14, SnapshotType DEF Checkpoint, Goto, Signal, Fail, Cancel, Continue,
     Current, ReportOK, SecondaryTags, ErrorTags
<1>15. ASSUME Review
      PROVE  ReportOK'
  BY <1>15, SnapshotType DEF Review, Goto, Signal, Fail, Cancel, Continue, Attempt,
     ReportOK, SecondaryTags, ErrorTags
<1>16. ASSUME PublishClosure
      PROVE  ReportOK'
  BY <1>16, SnapshotType DEF PublishClosure, Goto, Signal, Fail, Cancel, Continue,
     Write, ReportOK, SecondaryTags, ErrorTags
<1>17. ASSUME ArchivePrecleanup
      PROVE  ReportOK'
  BY <1>17, SnapshotType DEF ArchivePrecleanup, Goto, Signal, Fail, Cancel, Continue,
     Attempt, ReportOK, SecondaryTags, ErrorTags
<1>18. ASSUME Restore
      PROVE  ReportOK'
  BY <1>18, SnapshotType DEF Restore, Goto, Signal, Cancel, Continue, Attempted,
     RestoreResult, ReportOK, SecondaryTags, ErrorTags
<1>19. ASSUME ReviewCleanup
      PROVE  ReportOK'
  BY <1>19, SnapshotType DEF ReviewCleanup, Goto, Signal, Fail, Cancel, Continue,
     ReportOK, SecondaryTags, ErrorTags
<1>20. ASSUME Attest
      PROVE  ReportOK'
  BY <1>20, SnapshotType DEF Attest, Goto, Signal, Fail, Cancel, Continue, Attempt,
     ReportOK, SecondaryTags, ErrorTags
<1>21. ASSUME PublishClean
      PROVE  ReportOK'
  BY <1>21, SnapshotType DEF PublishClean, Goto, Signal, Fail, Cancel, Continue,
     Write, ReportOK, SecondaryTags, ErrorTags
<1>22. ASSUME FinalCheckpoint
      PROVE  ReportOK'
  BY <1>22, SnapshotType DEF FinalCheckpoint, Goto, Signal, Fail, Cancel, Continue,
     Attempt, ReportOK, SecondaryTags, ErrorTags
<1>23. ASSUME Finalize
      PROVE  ReportOK'
  BY <1>23, SnapshotType DEF Finalize, Goto, Owes, ReportOK, SecondaryTags,
     ErrorTags
<1>24. ASSUME OwePrecleanup
      PROVE  ReportOK'
  BY <1>24, SnapshotType DEF OwePrecleanup, Goto, Signal, Met, Secondary, Intercept,
     Abandon, ReportOK, SecondaryTags, ErrorTags
<1>25. ASSUME OweRestore
      PROVE  ReportOK'
  BY <1>25, SnapshotType DEF OweRestore, Goto, Signal, Met, Secondary, Intercept,
     Attempted, RestoreResult, ReportOK, SecondaryTags, ErrorTags
<1>26. ASSUME OweRealtime
      PROVE  ReportOK'
  BY <1>26, SnapshotType DEF OweRealtime, Goto, Signal, Met, Secondary, Intercept,
     Abandon, ReportOK, SecondaryTags, ErrorTags
<1>27. ASSUME OweAttestation
      PROVE  ReportOK'
  BY <1>27, SnapshotType DEF OweAttestation, Goto, Signal, Met, Secondary, Intercept,
     Abandon, Phase, ReportOK, SecondaryTags, ErrorTags
<1>28. ASSUME FinalWrite
      PROVE  ReportOK'
  BY <1>28, SnapshotType DEF FinalWrite, Goto, Signal, Current, Met, Intercept,
     Collect, ReportOK, SecondaryTags, ErrorTags
<1>29. ASSUME Close
      PROVE  ReportOK'
  BY <1>29, SnapshotType DEF Close, Goto, Signal, Met, Intercept, Collect, ReportOK,
     SecondaryTags, ErrorTags
<1>30. ASSUME CollectErrors
      PROVE  ReportOK'
  BY <1>30, SnapshotType DEF CollectErrors, Goto, ReportOK, SecondaryTags, ErrorTags
<1>31. ASSUME Publish
      PROVE  ReportOK'
  BY <1>31, SnapshotType DEF Publish, Goto, Signal, Settled, Broken, PublishTerminal,
     ReportOK, SecondaryTags, ErrorTags
<1>32. ASSUME Republish
      PROVE  ReportOK'
  BY <1>32, SnapshotType DEF Republish, Goto, Signal, Settled, Broken,
     PublishTerminal, End, ReportOK, SecondaryTags, ErrorTags
<1>33. ASSUME ReportErrors
      PROVE  ReportOK'
  BY <1>33, SnapshotType DEF ReportErrors, Goto, Signal, Settled, Broken, End,
     ReportOK, SecondaryTags, ErrorTags
<1>34. ASSUME Present
      PROVE  ReportOK'
  BY <1>34, SnapshotType DEF Present, Goto, Signal, Broken, ReportOK, SecondaryTags,
     ErrorTags
<1>35. ASSUME UNCHANGED vars
      PROVE  ReportOK'
  BY <1>35 DEF vars, Current, Owes, ReportOK, SecondaryTags, ErrorTags
<1> QED
  BY <1>1, <1>2, <1>3, <1>4, <1>5, <1>6, <1>7, <1>8, <1>9, <1>10, <1>11, <1>12,
     <1>13, <1>14, <1>15, <1>16, <1>17, <1>18, <1>19, <1>20, <1>21, <1>22, <1>23,
     <1>24, <1>25, <1>26, <1>27, <1>28, <1>29, <1>30, <1>31, <1>32, <1>33, <1>34,
     <1>35
     DEF Next

\* Every step takes the run to a place that fits its terminal state.
LEMMA ControlStep ==
    ASSUME TypeOK, ControlInv, ErrorInv, [Next]_vars
    PROVE  ControlInv'
<1> USE DEF progress, reported, history
<1>1. ASSUME Preflight
      PROVE  ControlInv'
  BY <1>1 DEF Preflight, Goto, Signal, Continue, Session, Building, Restored, Owing,
     Settling, TypeOK, PlaceOK, TerminalState, ReportOK, Evidence, ControlInv,
     ErrorInv
<1>2. ASSUME Reject
      PROVE  ControlInv'
  BY <1>2 DEF Reject, Goto, Signal, Snapshot, Current, Session, Building, Restored,
     Owing, Settling, TypeOK, PlaceOK, TerminalState, ReportOK, Evidence, ControlInv,
     ErrorInv
<1>3. ASSUME Start
      PROVE  ControlInv'
  BY <1>3 DEF Start, Goto, Signal, Fail, Cancel, Continue, Attempt, Session,
     Building, Restored, Owing, Settling, TypeOK, PlaceOK, TerminalState, ReportOK,
     Evidence, ControlInv, ErrorInv
<1>4. ASSUME Baseline
      PROVE  ControlInv'
  BY <1>4 DEF Baseline, Goto, Signal, Fail, Cancel, Continue, Session, Building,
     Restored, Owing, Settling, TypeOK, PlaceOK, TerminalState, ReportOK, Evidence,
     ControlInv, ErrorInv
<1>5. ASSUME Refuse
      PROVE  ControlInv'
  BY <1>5 DEF Refuse, Goto, Signal, Fail, Cancel, Continue, Snapshot, Current,
     Session, Building, Restored, Owing, Settling, TypeOK, PlaceOK, TerminalState,
     ReportOK, Evidence, ControlInv, ErrorInv
<1>6. ASSUME Compose
      PROVE  ControlInv'
  BY <1>6 DEF Compose, Goto, Signal, Fail, Cancel, Continue, Session, Building,
     Restored, Owing, Settling, TypeOK, PlaceOK, TerminalState, ReportOK, Evidence,
     ControlInv, ErrorInv
<1>7. ASSUME ProbeCapabilities
      PROVE  ControlInv'
  BY <1>7 DEF ProbeCapabilities, Goto, Signal, Fail, Cancel, Continue, Attempt,
     Session, Building, Restored, Owing, Settling, TypeOK, PlaceOK, TerminalState,
     ReportOK, Evidence, ControlInv, ErrorInv
<1>8. ASSUME PrepareStage
      PROVE  ControlInv'
  BY <1>8 DEF PrepareStage, Goto, Signal, Fail, Cancel, Continue, Attempt, Write,
     Snapshot, Remaining, Last, Session, Building, Restored, Owing, Settling, TypeOK,
     PlaceOK, TerminalState, ReportOK, Evidence, ControlInv, ErrorInv
<1>9. ASSUME Deploy
      PROVE  ControlInv'
  BY <1>9 DEF Deploy, Goto, Signal, Cancel, Continue, Session, Building, Restored,
     Owing, Settling, TypeOK, PlaceOK, TerminalState, ReportOK, Evidence, ControlInv,
     ErrorInv
<1>10. ASSUME PublishDelta
      PROVE  ControlInv'
  BY <1>10 DEF PublishDelta, Goto, Signal, Fail, Cancel, Continue, Write, Snapshot,
     Session, Building, Restored, Owing, Settling, TypeOK, PlaceOK, TerminalState,
     ReportOK, Evidence, ControlInv, ErrorInv
<1>11. ASSUME RequireDelta
      PROVE  ControlInv'
  BY <1>11 DEF RequireDelta, Goto, Signal, Fail, Cancel, Session, Building, Restored,
     Owing, Settling, TypeOK, PlaceOK, TerminalState, ReportOK, Evidence, ControlInv,
     ErrorInv
<1>12. ASSUME Reconcile
      PROVE  ControlInv'
  BY <1>12 DEF Reconcile, Goto, Signal, Fail, Cancel, Continue, Write, Snapshot,
     Session, Building, Restored, Owing, Settling, TypeOK, PlaceOK, TerminalState,
     ReportOK, Evidence, ControlInv, ErrorInv
<1>13. ASSUME ExecuteStage
      PROVE  ControlInv'
  BY <1>13 DEF ExecuteStage, Goto, Signal, Fail, Cancel, Continue, Last, Session,
     Building, Restored, Owing, Settling, TypeOK, PlaceOK, TerminalState, ReportOK,
     Evidence, ControlInv, ErrorInv
<1>14. ASSUME Checkpoint
      PROVE  ControlInv'
  BY <1>14 DEF Checkpoint, Goto, Signal, Fail, Cancel, Continue, Snapshot, Current,
     Session, Building, Restored, Owing, Settling, TypeOK, PlaceOK, TerminalState,
     ReportOK, Evidence, ControlInv, ErrorInv
<1>15. ASSUME Review
      PROVE  ControlInv'
  BY <1>15 DEF Review, Goto, Signal, Fail, Cancel, Continue, Attempt, Session,
     Building, Restored, Owing, Settling, TypeOK, PlaceOK, TerminalState, ReportOK,
     Evidence, ControlInv, ErrorInv
<1>16. ASSUME PublishClosure
      PROVE  ControlInv'
  BY <1>16 DEF PublishClosure, Goto, Signal, Fail, Cancel, Continue, Write, Snapshot,
     Session, Building, Restored, Owing, Settling, TypeOK, PlaceOK, TerminalState,
     ReportOK, Evidence, ControlInv, ErrorInv
<1>17. ASSUME ArchivePrecleanup
      PROVE  ControlInv'
  BY <1>17 DEF ArchivePrecleanup, Goto, Signal, Fail, Cancel, Continue, Attempt,
     Session, Building, Restored, Owing, Settling, TypeOK, PlaceOK, TerminalState,
     ReportOK, Evidence, ControlInv, ErrorInv
<1>18. ASSUME Restore
      PROVE  ControlInv'
  <2>1. /\ pc = "restore" /\ UNCHANGED <<closes, composed, baseline>>
        /\ terminal'.outcome = terminal.outcome /\ terminal'.complete = terminal.complete
        /\ terminal'.failure = terminal.failure
        /\ \/ pc' = "realtime" /\ UNCHANGED <<cancelled, interrupts>>
           \/ pc' = "finalize" /\ cancelled' = "session" /\ interrupts' = interrupts + 1
    BY <1>18 DEF Restore, RestoreResult, Attempted, Continue, Cancel, Goto, Signal,
       TypeOK, TerminalState
  <2> QED
    BY <2>1 DEF ControlInv, TypeOK, PlaceOK, Session, Building, Restored, Owing, Settling
<1>19. ASSUME ReviewCleanup
      PROVE  ControlInv'
  BY <1>19 DEF ReviewCleanup, Goto, Signal, Fail, Cancel, Continue, Session,
     Building, Restored, Owing, Settling, TypeOK, PlaceOK, TerminalState, ReportOK,
     Evidence, ControlInv, ErrorInv
<1>20. ASSUME Attest
      PROVE  ControlInv'
  <2>1. /\ pc = "attest" /\ UNCHANGED <<closes, composed, baseline>>
        /\ terminal'.complete = terminal.complete
        /\ \/ pc' = "publish_clean" /\ UNCHANGED <<cancelled, interrupts>>
              /\ terminal'.outcome = terminal.outcome /\ terminal'.failure = terminal.failure
           \/ pc' = "finalize" /\ UNCHANGED <<cancelled, interrupts>>
           \/ pc' = "finalize" /\ cancelled' = "session" /\ interrupts' = interrupts + 1
    BY <1>20 DEF Attest, Attempt, Fail, Continue, Cancel, Goto, Signal, TypeOK, TerminalState
  <2> QED
    BY <2>1 DEF ControlInv, TypeOK, PlaceOK, Session, Building, Restored, Owing, Settling
<1>21. ASSUME PublishClean
      PROVE  ControlInv'
  BY <1>21 DEF PublishClean, Goto, Signal, Fail, Cancel, Continue, Write, Snapshot,
     Session, Building, Restored, Owing, Settling, TypeOK, PlaceOK, TerminalState,
     ReportOK, Evidence, ControlInv, ErrorInv
<1>22. ASSUME FinalCheckpoint
      PROVE  ControlInv'
  BY <1>22 DEF FinalCheckpoint, Goto, Signal, Fail, Cancel, Continue, Attempt,
     Session, Building, Restored, Owing, Settling, TypeOK, PlaceOK, TerminalState,
     ReportOK, Evidence, ControlInv, ErrorInv
<1>23. ASSUME Finalize
      PROVE  ControlInv'
  BY <1>23 DEF Finalize, Goto, Owes, Session, Building, Restored, Owing, Settling,
     TypeOK, PlaceOK, TerminalState, ReportOK, Evidence, ControlInv, ErrorInv
<1>24. ASSUME OwePrecleanup
      PROVE  ControlInv'
  <2>1. /\ pc = "owe_precleanup" /\ UNCHANGED <<closes, composed, baseline>>
        /\ terminal'.complete = terminal.complete /\ terminal'.attempted = terminal.attempted
        /\ \/ pc' = "owe_restore" /\ UNCHANGED <<cancelled, interrupts>>
           \/ /\ pc' = "close" /\ cancelled' \in {"finalization", cancelled}
              /\ interrupts' = interrupts + 1
    BY <1>24 DEF OwePrecleanup, Goto, Signal, Met, Secondary, Intercept, Abandon,
     progress, TypeOK, TerminalState
  <2>2. Owes /\ Owes'
    BY <2>1 DEF ControlInv, Owing, Owes
  <2> QED
    BY <2>1, <2>2 DEF ControlInv, TypeOK, PlaceOK, Session, Building, Restored, Owing, Settling
<1>25. ASSUME OweRestore
      PROVE  ControlInv'
  <2>1. /\ pc = "owe_restore" /\ UNCHANGED <<closes, composed, baseline>>
        /\ terminal'.complete = terminal.complete /\ terminal'.attempted
        /\ \/ pc' = "owe_realtime" /\ UNCHANGED <<cancelled, interrupts>>
           \/ /\ pc' = "close" /\ cancelled' \in {"finalization", cancelled}
              /\ interrupts' = interrupts + 1
    BY <1>25 DEF OweRestore, Goto, Signal, Met, Secondary, Intercept, Attempted,
     RestoreResult, progress, TypeOK, TerminalState
  <2>2. Owes /\ Owes'
    BY <2>1 DEF ControlInv, Owing, Owes
  <2> QED
    BY <2>1, <2>2 DEF ControlInv, TypeOK, PlaceOK, Session, Building, Restored, Owing, Settling
<1>26. ASSUME OweRealtime
      PROVE  ControlInv'
  <2>1. /\ pc = "owe_realtime" /\ UNCHANGED <<closes, composed, baseline>>
        /\ terminal'.complete = terminal.complete /\ terminal'.attempted = terminal.attempted
        /\ \/ pc' = "owe_attestation" /\ UNCHANGED <<cancelled, interrupts>>
           \/ /\ pc' = "close" /\ cancelled' \in {"finalization", cancelled}
              /\ interrupts' = interrupts + 1
    BY <1>26 DEF OweRealtime, Goto, Signal, Met, Secondary, Intercept, Abandon,
     progress, TypeOK, TerminalState
  <2>2. Owes /\ Owes'
    BY <2>1 DEF ControlInv, Owing, Owes
  <2> QED
    BY <2>1, <2>2 DEF ControlInv, TypeOK, PlaceOK, Session, Building, Restored, Owing, Settling
<1>27. ASSUME OweAttestation
      PROVE  ControlInv'
  BY <1>27 DEF OweAttestation, Goto, Signal, Met, Secondary, Intercept, Abandon,
     Phase, Session, Building, Restored, Owing, Settling, TypeOK, PlaceOK,
     TerminalState, ReportOK, Evidence, ControlInv, ErrorInv
<1>28. ASSUME FinalWrite
      PROVE  ControlInv'
  BY <1>28 DEF FinalWrite, Goto, Signal, Snapshot, Current, Met, Intercept, Collect,
     Session, Building, Restored, Owing, Settling, TypeOK, PlaceOK, TerminalState,
     ReportOK, Evidence, ControlInv, ErrorInv
<1>29. ASSUME Close
      PROVE  ControlInv'
  BY <1>29 DEF Close, Goto, Signal, Met, Intercept, Collect, Session, Building,
     Restored, Owing, Settling, TypeOK, PlaceOK, TerminalState, ReportOK, Evidence,
     ControlInv, ErrorInv
<1>30. ASSUME CollectErrors
      PROVE  ControlInv'
  BY <1>30 DEF CollectErrors, Goto, Session, Building, Restored, Owing, Settling,
     TypeOK, PlaceOK, TerminalState, ReportOK, Evidence, ControlInv, ErrorInv
<1>31. ASSUME Publish
      PROVE  ControlInv'
  BY <1>31 DEF Publish, Goto, Signal, Snapshot, Settled, Broken, PublishTerminal,
     Session, Building, Restored, Owing, Settling, TypeOK, PlaceOK, TerminalState,
     ReportOK, Evidence, ControlInv, ErrorInv
<1>32. ASSUME Republish
      PROVE  ControlInv'
  BY <1>32 DEF Republish, Goto, Signal, Snapshot, Settled, Broken, PublishTerminal,
     End, Session, Building, Restored, Owing, Settling, TypeOK, PlaceOK,
     TerminalState, ReportOK, Evidence, ControlInv, ErrorInv
<1>33. ASSUME ReportErrors
      PROVE  ControlInv'
  BY <1>33 DEF ReportErrors, Goto, Signal, Settled, Broken, End, Session, Building,
     Restored, Owing, Settling, TypeOK, PlaceOK, TerminalState, ReportOK, Evidence,
     ControlInv, ErrorInv
<1>34. ASSUME Present
      PROVE  ControlInv'
  BY <1>34 DEF Present, Goto, Signal, Broken, Session, Building, Restored, Owing,
     Settling, TypeOK, PlaceOK, TerminalState, ReportOK, Evidence, ControlInv,
     ErrorInv
<1>35. ASSUME UNCHANGED vars
      PROVE  ControlInv'
  BY <1>35 DEF vars, Current, Snapshot, Owes, Session, Building, Restored, Owing,
     Settling, TypeOK, PlaceOK, TerminalState, ReportOK, Evidence, ControlInv,
     ErrorInv
<1> QED
  BY <1>1, <1>2, <1>3, <1>4, <1>5, <1>6, <1>7, <1>8, <1>9, <1>10, <1>11, <1>12,
     <1>13, <1>14, <1>15, <1>16, <1>17, <1>18, <1>19, <1>20, <1>21, <1>22, <1>23,
     <1>24, <1>25, <1>26, <1>27, <1>28, <1>29, <1>30, <1>31, <1>32, <1>33, <1>34,
     <1>35
     DEF Next

\* Every step keeps the cleanup and its attestation true of the workspace.
LEMMA CleanupStep ==
    ASSUME TypeOK, ControlInv, CleanupInv, [Next]_vars
    PROVE  CleanupInv'
<1> USE DEF progress, reported, history
<1>1. ASSUME Preflight
      PROVE  CleanupInv'
  BY <1>1 DEF Preflight, Goto, Signal, Continue, Session, Building, Restored, Owing,
     Settling, TypeOK, PlaceOK, TerminalState, ReportOK, Evidence, ControlInv,
     CleanupInv
<1>2. ASSUME Reject
      PROVE  CleanupInv'
  BY <1>2 DEF Reject, Goto, Signal, Snapshot, Current, Session, Building, Restored,
     Owing, Settling, TypeOK, PlaceOK, TerminalState, ReportOK, Evidence, ControlInv,
     CleanupInv
<1>3. ASSUME Start
      PROVE  CleanupInv'
  BY <1>3 DEF Start, Goto, Signal, Fail, Cancel, Continue, Attempt, Session,
     Building, Restored, Owing, Settling, TypeOK, PlaceOK, TerminalState, ReportOK,
     Evidence, ControlInv, CleanupInv
<1>4. ASSUME Baseline
      PROVE  CleanupInv'
  BY <1>4 DEF Baseline, Goto, Signal, Fail, Cancel, Continue, Session, Building,
     Restored, Owing, Settling, TypeOK, PlaceOK, TerminalState, ReportOK, Evidence,
     ControlInv, CleanupInv
<1>5. ASSUME Refuse
      PROVE  CleanupInv'
  BY <1>5 DEF Refuse, Goto, Signal, Fail, Cancel, Continue, Snapshot, Current,
     Session, Building, Restored, Owing, Settling, TypeOK, PlaceOK, TerminalState,
     ReportOK, Evidence, ControlInv, CleanupInv
<1>6. ASSUME Compose
      PROVE  CleanupInv'
  BY <1>6 DEF Compose, Goto, Signal, Fail, Cancel, Continue, Session, Building,
     Restored, Owing, Settling, TypeOK, PlaceOK, TerminalState, ReportOK, Evidence,
     ControlInv, CleanupInv
<1>7. ASSUME ProbeCapabilities
      PROVE  CleanupInv'
  BY <1>7 DEF ProbeCapabilities, Goto, Signal, Fail, Cancel, Continue, Attempt,
     Session, Building, Restored, Owing, Settling, TypeOK, PlaceOK, TerminalState,
     ReportOK, Evidence, ControlInv, CleanupInv
<1>8. ASSUME PrepareStage
      PROVE  CleanupInv'
  BY <1>8 DEF PrepareStage, Goto, Signal, Fail, Cancel, Continue, Attempt, Write,
     Snapshot, Remaining, Last, Session, Building, Restored, Owing, Settling, TypeOK,
     PlaceOK, TerminalState, ReportOK, Evidence, ControlInv, CleanupInv
<1>9. ASSUME Deploy
      PROVE  CleanupInv'
  BY <1>9 DEF Deploy, Goto, Signal, Cancel, Continue, Session, Building, Restored,
     Owing, Settling, TypeOK, PlaceOK, TerminalState, ReportOK, Evidence, ControlInv,
     CleanupInv
<1>10. ASSUME PublishDelta
      PROVE  CleanupInv'
  BY <1>10 DEF PublishDelta, Goto, Signal, Fail, Cancel, Continue, Write, Snapshot,
     Session, Building, Restored, Owing, Settling, TypeOK, PlaceOK, TerminalState,
     ReportOK, Evidence, ControlInv, CleanupInv
<1>11. ASSUME RequireDelta
      PROVE  CleanupInv'
  BY <1>11 DEF RequireDelta, Goto, Signal, Fail, Cancel, Session, Building, Restored,
     Owing, Settling, TypeOK, PlaceOK, TerminalState, ReportOK, Evidence, ControlInv,
     CleanupInv
<1>12. ASSUME Reconcile
      PROVE  CleanupInv'
  BY <1>12 DEF Reconcile, Goto, Signal, Fail, Cancel, Continue, Write, Snapshot,
     Session, Building, Restored, Owing, Settling, TypeOK, PlaceOK, TerminalState,
     ReportOK, Evidence, ControlInv, CleanupInv
<1>13. ASSUME ExecuteStage
      PROVE  CleanupInv'
  BY <1>13 DEF ExecuteStage, Goto, Signal, Fail, Cancel, Continue, Last, Session,
     Building, Restored, Owing, Settling, TypeOK, PlaceOK, TerminalState, ReportOK,
     Evidence, ControlInv, CleanupInv
<1>14. ASSUME Checkpoint
      PROVE  CleanupInv'
  BY <1>14 DEF Checkpoint, Goto, Signal, Fail, Cancel, Continue, Snapshot, Current,
     Session, Building, Restored, Owing, Settling, TypeOK, PlaceOK, TerminalState,
     ReportOK, Evidence, ControlInv, CleanupInv
<1>15. ASSUME Review
      PROVE  CleanupInv'
  BY <1>15 DEF Review, Goto, Signal, Fail, Cancel, Continue, Attempt, Session,
     Building, Restored, Owing, Settling, TypeOK, PlaceOK, TerminalState, ReportOK,
     Evidence, ControlInv, CleanupInv
<1>16. ASSUME PublishClosure
      PROVE  CleanupInv'
  BY <1>16 DEF PublishClosure, Goto, Signal, Fail, Cancel, Continue, Write, Snapshot,
     Session, Building, Restored, Owing, Settling, TypeOK, PlaceOK, TerminalState,
     ReportOK, Evidence, ControlInv, CleanupInv
<1>17. ASSUME ArchivePrecleanup
      PROVE  CleanupInv'
  BY <1>17 DEF ArchivePrecleanup, Goto, Signal, Fail, Cancel, Continue, Attempt,
     Session, Building, Restored, Owing, Settling, TypeOK, PlaceOK, TerminalState,
     ReportOK, Evidence, ControlInv, CleanupInv
<1>18. ASSUME Restore
      PROVE  CleanupInv'
  <2>1. /\ pc = "restore" /\ pc' \in {"realtime", "finalize"}
        /\ restores' = restores + 1 /\ terminal'.attempted
        /\ terminal'.attestation = terminal.attestation
        /\ terminal'.precleanup = terminal.precleanup
        /\ terminal'.cleanup = "verified" => devices' = {}
    BY <1>18 DEF Restore, RestoreResult, Attempted, Continue, Cancel, Goto, TypeOK, TerminalState
  <2>2. ~terminal.attempted /\ terminal.attestation = "none"
    BY <2>1 DEF ControlInv, Building
  <2> QED
    BY <2>1, <2>2 DEF CleanupInv, Restored
<1>19. ASSUME ReviewCleanup
      PROVE  CleanupInv'
  BY <1>19 DEF ReviewCleanup, Goto, Signal, Fail, Cancel, Continue, Session,
     Building, Restored, Owing, Settling, TypeOK, PlaceOK, TerminalState, ReportOK,
     Evidence, ControlInv, CleanupInv
<1>20. ASSUME Attest
      PROVE  CleanupInv'
  BY <1>20 DEF Attest, Goto, Signal, Fail, Cancel, Continue, Attempt, Session,
     Building, Restored, Owing, Settling, TypeOK, PlaceOK, TerminalState, ReportOK,
     Evidence, ControlInv, CleanupInv
<1>21. ASSUME PublishClean
      PROVE  CleanupInv'
  BY <1>21 DEF PublishClean, Goto, Signal, Fail, Cancel, Continue, Write, Snapshot,
     Session, Building, Restored, Owing, Settling, TypeOK, PlaceOK, TerminalState,
     ReportOK, Evidence, ControlInv, CleanupInv
<1>22. ASSUME FinalCheckpoint
      PROVE  CleanupInv'
  BY <1>22 DEF FinalCheckpoint, Goto, Signal, Fail, Cancel, Continue, Attempt,
     Session, Building, Restored, Owing, Settling, TypeOK, PlaceOK, TerminalState,
     ReportOK, Evidence, ControlInv, CleanupInv
<1>23. ASSUME Finalize
      PROVE  CleanupInv'
  BY <1>23 DEF Finalize, Goto, Owes, Session, Building, Restored, Owing, Settling,
     TypeOK, PlaceOK, TerminalState, ReportOK, Evidence, ControlInv, CleanupInv
<1>24. ASSUME OwePrecleanup
      PROVE  CleanupInv'
  BY <1>24 DEF OwePrecleanup, Goto, Signal, Met, Secondary, Intercept, Abandon,
     Session, Building, Restored, Owing, Settling, TypeOK, PlaceOK, TerminalState,
     ReportOK, Evidence, ControlInv, CleanupInv
<1>25. ASSUME OweRestore
      PROVE  CleanupInv'
  <2>1. pc' \in {"owe_realtime", "close"}
    BY <1>25 DEF OweRestore, Goto
  <2>2. CASE UNCHANGED <<terminal, restores, devices>>
    BY <2>1, <2>2 DEF CleanupInv, Restored
  <2>3. CASE ~terminal.attempted /\ ~UNCHANGED <<terminal, restores, devices>>
    <3>1. /\ restores' = restores + 1 /\ terminal'.attempted
          /\ terminal'.attestation = terminal.attestation
          /\ terminal'.cleanup = "verified" => devices' = {}
      BY <1>25, <2>3 DEF OweRestore, RestoreResult, Attempted, progress, TypeOK, TerminalState
    <3> QED
      BY <2>1, <2>3, <3>1 DEF CleanupInv, Restored
  <2> QED
    BY <1>25, <2>2, <2>3 DEF OweRestore, progress
<1>26. ASSUME OweRealtime
      PROVE  CleanupInv'
  BY <1>26 DEF OweRealtime, Goto, Signal, Met, Secondary, Intercept, Abandon,
     Session, Building, Restored, Owing, Settling, TypeOK, PlaceOK, TerminalState,
     ReportOK, Evidence, ControlInv, CleanupInv
<1>27. ASSUME OweAttestation
      PROVE  CleanupInv'
  BY <1>27 DEF OweAttestation, Goto, Signal, Met, Secondary, Intercept, Abandon,
     Phase, Session, Building, Restored, Owing, Settling, TypeOK, PlaceOK,
     TerminalState, ReportOK, Evidence, ControlInv, CleanupInv
<1>28. ASSUME FinalWrite
      PROVE  CleanupInv'
  BY <1>28 DEF FinalWrite, Goto, Signal, Snapshot, Current, Met, Intercept, Collect,
     Session, Building, Restored, Owing, Settling, TypeOK, PlaceOK, TerminalState,
     ReportOK, Evidence, ControlInv, CleanupInv
<1>29. ASSUME Close
      PROVE  CleanupInv'
  BY <1>29 DEF Close, Goto, Signal, Met, Intercept, Collect, Session, Building,
     Restored, Owing, Settling, TypeOK, PlaceOK, TerminalState, ReportOK, Evidence,
     ControlInv, CleanupInv
<1>30. ASSUME CollectErrors
      PROVE  CleanupInv'
  BY <1>30 DEF CollectErrors, Goto, Session, Building, Restored, Owing, Settling,
     TypeOK, PlaceOK, TerminalState, ReportOK, Evidence, ControlInv, CleanupInv
<1>31. ASSUME Publish
      PROVE  CleanupInv'
  BY <1>31 DEF Publish, Goto, Signal, Snapshot, Settled, Broken, PublishTerminal,
     Session, Building, Restored, Owing, Settling, TypeOK, PlaceOK, TerminalState,
     ReportOK, Evidence, ControlInv, CleanupInv
<1>32. ASSUME Republish
      PROVE  CleanupInv'
  BY <1>32 DEF Republish, Goto, Signal, Snapshot, Settled, Broken, PublishTerminal,
     End, Session, Building, Restored, Owing, Settling, TypeOK, PlaceOK,
     TerminalState, ReportOK, Evidence, ControlInv, CleanupInv
<1>33. ASSUME ReportErrors
      PROVE  CleanupInv'
  BY <1>33 DEF ReportErrors, Goto, Signal, Settled, Broken, End, Session, Building,
     Restored, Owing, Settling, TypeOK, PlaceOK, TerminalState, ReportOK, Evidence,
     ControlInv, CleanupInv
<1>34. ASSUME Present
      PROVE  CleanupInv'
  BY <1>34 DEF Present, Goto, Signal, Broken, Session, Building, Restored, Owing,
     Settling, TypeOK, PlaceOK, TerminalState, ReportOK, Evidence, ControlInv,
     CleanupInv
<1>35. ASSUME UNCHANGED vars
      PROVE  CleanupInv'
  BY <1>35 DEF vars, Current, Snapshot, Owes, Session, Building, Restored, Owing,
     Settling, TypeOK, PlaceOK, TerminalState, ReportOK, Evidence, ControlInv,
     CleanupInv
<1> QED
  BY <1>1, <1>2, <1>3, <1>4, <1>5, <1>6, <1>7, <1>8, <1>9, <1>10, <1>11, <1>12,
     <1>13, <1>14, <1>15, <1>16, <1>17, <1>18, <1>19, <1>20, <1>21, <1>22, <1>23,
     <1>24, <1>25, <1>26, <1>27, <1>28, <1>29, <1>30, <1>31, <1>32, <1>33, <1>34,
     <1>35
     DEF Next

\* No step leaves anything behind a run that counts as completed.
LEMMA CompletedStep ==
    ASSUME TypeOK, ControlInv, CleanupInv, CompletedInv, ErrorInv, [Next]_vars
    PROVE  CompletedInv'
<1> USE DEF progress, reported, history
<1>1. ASSUME Preflight
      PROVE  CompletedInv'
  BY <1>1 DEF Preflight, Goto, Signal, Continue, Session, Building, Restored, Owing,
     Settling, TypeOK, PlaceOK, TerminalState, ReportOK, Evidence, ControlInv,
     CleanupInv, CompletedInv, CompletedLeavesNothing, ErrorInv
<1>2. ASSUME Reject
      PROVE  CompletedInv'
  BY <1>2 DEF Reject, Goto, Signal, Snapshot, Current, Session, Building, Restored,
     Owing, Settling, TypeOK, PlaceOK, TerminalState, ReportOK, Evidence, ControlInv,
     CleanupInv, CompletedInv, CompletedLeavesNothing, ErrorInv
<1>3. ASSUME Start
      PROVE  CompletedInv'
  BY <1>3 DEF Start, Goto, Signal, Fail, Cancel, Continue, Attempt, Session,
     Building, Restored, Owing, Settling, TypeOK, PlaceOK, TerminalState, ReportOK,
     Evidence, ControlInv, CleanupInv, CompletedInv, CompletedLeavesNothing,
     ErrorInv
<1>4. ASSUME Baseline
      PROVE  CompletedInv'
  BY <1>4 DEF Baseline, Goto, Signal, Fail, Cancel, Continue, Session, Building,
     Restored, Owing, Settling, TypeOK, PlaceOK, TerminalState, ReportOK, Evidence,
     ControlInv, CleanupInv, CompletedInv, CompletedLeavesNothing, ErrorInv
<1>5. ASSUME Refuse
      PROVE  CompletedInv'
  BY <1>5 DEF Refuse, Goto, Signal, Fail, Cancel, Continue, Snapshot, Current,
     Session, Building, Restored, Owing, Settling, TypeOK, PlaceOK, TerminalState,
     ReportOK, Evidence, ControlInv, CleanupInv, CompletedInv,
     CompletedLeavesNothing, ErrorInv
<1>6. ASSUME Compose
      PROVE  CompletedInv'
  BY <1>6 DEF Compose, Goto, Signal, Fail, Cancel, Continue, Session, Building,
     Restored, Owing, Settling, TypeOK, PlaceOK, TerminalState, ReportOK, Evidence,
     ControlInv, CleanupInv, CompletedInv, CompletedLeavesNothing, ErrorInv
<1>7. ASSUME ProbeCapabilities
      PROVE  CompletedInv'
  BY <1>7 DEF ProbeCapabilities, Goto, Signal, Fail, Cancel, Continue, Attempt,
     Session, Building, Restored, Owing, Settling, TypeOK, PlaceOK, TerminalState,
     ReportOK, Evidence, ControlInv, CleanupInv, CompletedInv,
     CompletedLeavesNothing, ErrorInv
<1>8. ASSUME PrepareStage
      PROVE  CompletedInv'
  BY <1>8 DEF PrepareStage, Goto, Signal, Fail, Cancel, Continue, Attempt, Write,
     Snapshot, Remaining, Last, Session, Building, Restored, Owing, Settling, TypeOK,
     PlaceOK, TerminalState, ReportOK, Evidence, ControlInv, CleanupInv,
     CompletedInv, CompletedLeavesNothing, ErrorInv
<1>9. ASSUME Deploy
      PROVE  CompletedInv'
  BY <1>9 DEF Deploy, Goto, Signal, Cancel, Continue, Session, Building, Restored,
     Owing, Settling, TypeOK, PlaceOK, TerminalState, ReportOK, Evidence, ControlInv,
     CleanupInv, CompletedInv, CompletedLeavesNothing, ErrorInv
<1>10. ASSUME PublishDelta
      PROVE  CompletedInv'
  BY <1>10 DEF PublishDelta, Goto, Signal, Fail, Cancel, Continue, Write, Snapshot,
     Session, Building, Restored, Owing, Settling, TypeOK, PlaceOK, TerminalState,
     ReportOK, Evidence, ControlInv, CleanupInv, CompletedInv,
     CompletedLeavesNothing, ErrorInv
<1>11. ASSUME RequireDelta
      PROVE  CompletedInv'
  BY <1>11 DEF RequireDelta, Goto, Signal, Fail, Cancel, Session, Building, Restored,
     Owing, Settling, TypeOK, PlaceOK, TerminalState, ReportOK, Evidence, ControlInv,
     CleanupInv, CompletedInv, CompletedLeavesNothing, ErrorInv
<1>12. ASSUME Reconcile
      PROVE  CompletedInv'
  BY <1>12 DEF Reconcile, Goto, Signal, Fail, Cancel, Continue, Write, Snapshot,
     Session, Building, Restored, Owing, Settling, TypeOK, PlaceOK, TerminalState,
     ReportOK, Evidence, ControlInv, CleanupInv, CompletedInv,
     CompletedLeavesNothing, ErrorInv
<1>13. ASSUME ExecuteStage
      PROVE  CompletedInv'
  BY <1>13 DEF ExecuteStage, Goto, Signal, Fail, Cancel, Continue, Last, Session,
     Building, Restored, Owing, Settling, TypeOK, PlaceOK, TerminalState, ReportOK,
     Evidence, ControlInv, CleanupInv, CompletedInv, CompletedLeavesNothing,
     ErrorInv
<1>14. ASSUME Checkpoint
      PROVE  CompletedInv'
  BY <1>14 DEF Checkpoint, Goto, Signal, Fail, Cancel, Continue, Snapshot, Current,
     Session, Building, Restored, Owing, Settling, TypeOK, PlaceOK, TerminalState,
     ReportOK, Evidence, ControlInv, CleanupInv, CompletedInv,
     CompletedLeavesNothing, ErrorInv
<1>15. ASSUME Review
      PROVE  CompletedInv'
  BY <1>15 DEF Review, Goto, Signal, Fail, Cancel, Continue, Attempt, Session,
     Building, Restored, Owing, Settling, TypeOK, PlaceOK, TerminalState, ReportOK,
     Evidence, ControlInv, CleanupInv, CompletedInv, CompletedLeavesNothing,
     ErrorInv
<1>16. ASSUME PublishClosure
      PROVE  CompletedInv'
  BY <1>16 DEF PublishClosure, Goto, Signal, Fail, Cancel, Continue, Write, Snapshot,
     Session, Building, Restored, Owing, Settling, TypeOK, PlaceOK, TerminalState,
     ReportOK, Evidence, ControlInv, CleanupInv, CompletedInv,
     CompletedLeavesNothing, ErrorInv
<1>17. ASSUME ArchivePrecleanup
      PROVE  CompletedInv'
  BY <1>17 DEF ArchivePrecleanup, Goto, Signal, Fail, Cancel, Continue, Attempt,
     Session, Building, Restored, Owing, Settling, TypeOK, PlaceOK, TerminalState,
     ReportOK, Evidence, ControlInv, CleanupInv, CompletedInv,
     CompletedLeavesNothing, ErrorInv
<1>18. ASSUME Restore
      PROVE  CompletedInv'
  BY <1>18 DEF Restore, Goto, Signal, Cancel, Continue, Attempted, RestoreResult,
     Session, Building, Restored, Owing, Settling, TypeOK, PlaceOK, TerminalState,
     ReportOK, Evidence, ControlInv, CleanupInv, CompletedInv,
     CompletedLeavesNothing, ErrorInv
<1>19. ASSUME ReviewCleanup
      PROVE  CompletedInv'
  BY <1>19 DEF ReviewCleanup, Goto, Signal, Fail, Cancel, Continue, Session,
     Building, Restored, Owing, Settling, TypeOK, PlaceOK, TerminalState, ReportOK,
     Evidence, ControlInv, CleanupInv, CompletedInv, CompletedLeavesNothing,
     ErrorInv
<1>20. ASSUME Attest
      PROVE  CompletedInv'
  BY <1>20 DEF Attest, Goto, Signal, Fail, Cancel, Continue, Attempt, Session,
     Building, Restored, Owing, Settling, TypeOK, PlaceOK, TerminalState, ReportOK,
     Evidence, ControlInv, CleanupInv, CompletedInv, CompletedLeavesNothing,
     ErrorInv
<1>21. ASSUME PublishClean
      PROVE  CompletedInv'
  <2>1. /\ pc = "publish_clean" /\ UNCHANGED <<devices, closes, occurred>>
        /\ \/ /\ pc' = "final_checkpoint" /\ UNCHANGED terminal
              /\ disk' = Snapshot(terminal, secondaries \cup finals)
           \/ pc' = "finalize" /\ terminal'.outcome \in {"failed", terminal.outcome}
    BY <1>21 DEF PublishClean, Write, Continue, Fail, Cancel, Goto, TypeOK, TerminalState
  <2>2. /\ terminal.outcome = "none" /\ ~terminal.failure
        /\ terminal.attestation = "clean" /\ terminal.closure = "cleaned"
    BY <2>1 DEF ControlInv, CleanupInv, Session, Restored
  <2> QED
    BY <2>1, <2>2 DEF CompletedInv, CompletedLeavesNothing, Snapshot
<1>22. ASSUME FinalCheckpoint
      PROVE  CompletedInv'
  BY <1>22 DEF FinalCheckpoint, Goto, Signal, Fail, Cancel, Continue, Attempt,
     Session, Building, Restored, Owing, Settling, TypeOK, PlaceOK, TerminalState,
     ReportOK, Evidence, ControlInv, CleanupInv, CompletedInv,
     CompletedLeavesNothing, ErrorInv
<1>23. ASSUME Finalize
      PROVE  CompletedInv'
  BY <1>23 DEF Finalize, Goto, Owes, Session, Building, Restored, Owing, Settling,
     TypeOK, PlaceOK, TerminalState, ReportOK, Evidence, ControlInv, CleanupInv,
     CompletedInv, CompletedLeavesNothing, ErrorInv
<1>24. ASSUME OwePrecleanup
      PROVE  CompletedInv'
  BY <1>24 DEF OwePrecleanup, Goto, Signal, Met, Secondary, Intercept, Abandon,
     Session, Building, Restored, Owing, Settling, TypeOK, PlaceOK, TerminalState,
     ReportOK, Evidence, ControlInv, CleanupInv, CompletedInv,
     CompletedLeavesNothing, ErrorInv
<1>25. ASSUME OweRestore
      PROVE  CompletedInv'
  BY <1>25 DEF OweRestore, Goto, Signal, Met, Secondary, Intercept, Attempted,
     RestoreResult, Session, Building, Restored, Owing, Settling, TypeOK, PlaceOK,
     TerminalState, ReportOK, Evidence, ControlInv, CleanupInv, CompletedInv,
     CompletedLeavesNothing, ErrorInv
<1>26. ASSUME OweRealtime
      PROVE  CompletedInv'
  BY <1>26 DEF OweRealtime, Goto, Signal, Met, Secondary, Intercept, Abandon,
     Session, Building, Restored, Owing, Settling, TypeOK, PlaceOK, TerminalState,
     ReportOK, Evidence, ControlInv, CleanupInv, CompletedInv,
     CompletedLeavesNothing, ErrorInv
<1>27. ASSUME OweAttestation
      PROVE  CompletedInv'
  BY <1>27 DEF OweAttestation, Goto, Signal, Met, Secondary, Intercept, Abandon,
     Phase, Session, Building, Restored, Owing, Settling, TypeOK, PlaceOK,
     TerminalState, ReportOK, Evidence, ControlInv, CleanupInv, CompletedInv,
     CompletedLeavesNothing, ErrorInv
<1>28. ASSUME FinalWrite
      PROVE  CompletedInv'
  BY <1>28 DEF FinalWrite, Goto, Signal, Snapshot, Current, Met, Intercept, Collect,
     Session, Building, Restored, Owing, Settling, TypeOK, PlaceOK, TerminalState,
     ReportOK, Evidence, ControlInv, CleanupInv, CompletedInv,
     CompletedLeavesNothing, ErrorInv
<1>29. ASSUME Close
      PROVE  CompletedInv'
  BY <1>29 DEF Close, Goto, Signal, Met, Intercept, Collect, Session, Building,
     Restored, Owing, Settling, TypeOK, PlaceOK, TerminalState, ReportOK, Evidence,
     ControlInv, CleanupInv, CompletedInv, CompletedLeavesNothing, ErrorInv
<1>30. ASSUME CollectErrors
      PROVE  CompletedInv'
  BY <1>30 DEF CollectErrors, Goto, Session, Building, Restored, Owing, Settling,
     TypeOK, PlaceOK, TerminalState, ReportOK, Evidence, ControlInv, CleanupInv,
     CompletedInv, CompletedLeavesNothing, ErrorInv
<1>31. ASSUME Publish
      PROVE  CompletedInv'
  BY <1>31 DEF Publish, Goto, Signal, Snapshot, Settled, Broken, PublishTerminal,
     Session, Building, Restored, Owing, Settling, TypeOK, PlaceOK, TerminalState,
     ReportOK, Evidence, ControlInv, CleanupInv, CompletedInv,
     CompletedLeavesNothing, ErrorInv
<1>32. ASSUME Republish
      PROVE  CompletedInv'
  BY <1>32 DEF Republish, Goto, Signal, Snapshot, Settled, Broken, PublishTerminal,
     End, Session, Building, Restored, Owing, Settling, TypeOK, PlaceOK,
     TerminalState, ReportOK, Evidence, ControlInv, CleanupInv, CompletedInv,
     CompletedLeavesNothing, ErrorInv
<1>33. ASSUME ReportErrors
      PROVE  CompletedInv'
  BY <1>33 DEF ReportErrors, Goto, Signal, Settled, Broken, End, Session, Building,
     Restored, Owing, Settling, TypeOK, PlaceOK, TerminalState, ReportOK, Evidence,
     ControlInv, CleanupInv, CompletedInv, CompletedLeavesNothing, ErrorInv
<1>34. ASSUME Present
      PROVE  CompletedInv'
  BY <1>34 DEF Present, Goto, Signal, Broken, Session, Building, Restored, Owing,
     Settling, TypeOK, PlaceOK, TerminalState, ReportOK, Evidence, ControlInv,
     CleanupInv, CompletedInv, CompletedLeavesNothing, ErrorInv
<1>35. ASSUME UNCHANGED vars
      PROVE  CompletedInv'
  BY <1>35 DEF vars, Current, Snapshot, Owes, Session, Building, Restored, Owing,
     Settling, TypeOK, PlaceOK, TerminalState, ReportOK, Evidence, ControlInv,
     CleanupInv, CompletedInv, CompletedLeavesNothing, ErrorInv
<1> QED
  BY <1>1, <1>2, <1>3, <1>4, <1>5, <1>6, <1>7, <1>8, <1>9, <1>10, <1>11, <1>12,
     <1>13, <1>14, <1>15, <1>16, <1>17, <1>18, <1>19, <1>20, <1>21, <1>22, <1>23,
     <1>24, <1>25, <1>26, <1>27, <1>28, <1>29, <1>30, <1>31, <1>32, <1>33, <1>34,
     <1>35
     DEF Next

\* No step loses an error.
LEMMA ErrorStep ==
    ASSUME TypeOK, ControlInv, ErrorInv, [Next]_vars
    PROVE  ErrorInv'
<1> USE DEF progress, reported, history
<1>1. ASSUME Preflight
      PROVE  ErrorInv'
  BY <1>1 DEF Preflight, Goto, Signal, Continue, Session, Building, Restored, Owing,
     Settling, TypeOK, PlaceOK, TerminalState, ReportOK, Evidence, ControlInv,
     ErrorInv, NoErrorIsLost
<1>2. ASSUME Reject
      PROVE  ErrorInv'
  BY <1>2 DEF Reject, Goto, Signal, Snapshot, Current, Session, Building, Restored,
     Owing, Settling, TypeOK, PlaceOK, TerminalState, ReportOK, Evidence, ControlInv,
     ErrorInv, NoErrorIsLost
<1>3. ASSUME Start
      PROVE  ErrorInv'
  BY <1>3 DEF Start, Goto, Signal, Fail, Cancel, Continue, Attempt, Session,
     Building, Restored, Owing, Settling, TypeOK, PlaceOK, TerminalState, ReportOK,
     Evidence, ControlInv, ErrorInv, NoErrorIsLost
<1>4. ASSUME Baseline
      PROVE  ErrorInv'
  BY <1>4 DEF Baseline, Goto, Signal, Fail, Cancel, Continue, Session, Building,
     Restored, Owing, Settling, TypeOK, PlaceOK, TerminalState, ReportOK, Evidence,
     ControlInv, ErrorInv, NoErrorIsLost
<1>5. ASSUME Refuse
      PROVE  ErrorInv'
  BY <1>5 DEF Refuse, Goto, Signal, Fail, Cancel, Continue, Snapshot, Current,
     Session, Building, Restored, Owing, Settling, TypeOK, PlaceOK, TerminalState,
     ReportOK, Evidence, ControlInv, ErrorInv, NoErrorIsLost
<1>6. ASSUME Compose
      PROVE  ErrorInv'
  BY <1>6 DEF Compose, Goto, Signal, Fail, Cancel, Continue, Session, Building,
     Restored, Owing, Settling, TypeOK, PlaceOK, TerminalState, ReportOK, Evidence,
     ControlInv, ErrorInv, NoErrorIsLost
<1>7. ASSUME ProbeCapabilities
      PROVE  ErrorInv'
  BY <1>7 DEF ProbeCapabilities, Goto, Signal, Fail, Cancel, Continue, Attempt,
     Session, Building, Restored, Owing, Settling, TypeOK, PlaceOK, TerminalState,
     ReportOK, Evidence, ControlInv, ErrorInv, NoErrorIsLost
<1>8. ASSUME PrepareStage
      PROVE  ErrorInv'
  BY <1>8 DEF PrepareStage, Goto, Signal, Fail, Cancel, Continue, Attempt, Write,
     Snapshot, Remaining, Last, Session, Building, Restored, Owing, Settling, TypeOK,
     PlaceOK, TerminalState, ReportOK, Evidence, ControlInv, ErrorInv, NoErrorIsLost
<1>9. ASSUME Deploy
      PROVE  ErrorInv'
  BY <1>9 DEF Deploy, Goto, Signal, Cancel, Continue, Session, Building, Restored,
     Owing, Settling, TypeOK, PlaceOK, TerminalState, ReportOK, Evidence, ControlInv,
     ErrorInv, NoErrorIsLost
<1>10. ASSUME PublishDelta
      PROVE  ErrorInv'
  BY <1>10 DEF PublishDelta, Goto, Signal, Fail, Cancel, Continue, Write, Snapshot,
     Session, Building, Restored, Owing, Settling, TypeOK, PlaceOK, TerminalState,
     ReportOK, Evidence, ControlInv, ErrorInv, NoErrorIsLost
<1>11. ASSUME RequireDelta
      PROVE  ErrorInv'
  BY <1>11 DEF RequireDelta, Goto, Signal, Fail, Cancel, Session, Building, Restored,
     Owing, Settling, TypeOK, PlaceOK, TerminalState, ReportOK, Evidence, ControlInv,
     ErrorInv, NoErrorIsLost
<1>12. ASSUME Reconcile
      PROVE  ErrorInv'
  BY <1>12 DEF Reconcile, Goto, Signal, Fail, Cancel, Continue, Write, Snapshot,
     Session, Building, Restored, Owing, Settling, TypeOK, PlaceOK, TerminalState,
     ReportOK, Evidence, ControlInv, ErrorInv, NoErrorIsLost
<1>13. ASSUME ExecuteStage
      PROVE  ErrorInv'
  BY <1>13 DEF ExecuteStage, Goto, Signal, Fail, Cancel, Continue, Last, Session,
     Building, Restored, Owing, Settling, TypeOK, PlaceOK, TerminalState, ReportOK,
     Evidence, ControlInv, ErrorInv, NoErrorIsLost
<1>14. ASSUME Checkpoint
      PROVE  ErrorInv'
  BY <1>14 DEF Checkpoint, Goto, Signal, Fail, Cancel, Continue, Snapshot, Current,
     Session, Building, Restored, Owing, Settling, TypeOK, PlaceOK, TerminalState,
     ReportOK, Evidence, ControlInv, ErrorInv, NoErrorIsLost
<1>15. ASSUME Review
      PROVE  ErrorInv'
  BY <1>15 DEF Review, Goto, Signal, Fail, Cancel, Continue, Attempt, Session,
     Building, Restored, Owing, Settling, TypeOK, PlaceOK, TerminalState, ReportOK,
     Evidence, ControlInv, ErrorInv, NoErrorIsLost
<1>16. ASSUME PublishClosure
      PROVE  ErrorInv'
  BY <1>16 DEF PublishClosure, Goto, Signal, Fail, Cancel, Continue, Write, Snapshot,
     Session, Building, Restored, Owing, Settling, TypeOK, PlaceOK, TerminalState,
     ReportOK, Evidence, ControlInv, ErrorInv, NoErrorIsLost
<1>17. ASSUME ArchivePrecleanup
      PROVE  ErrorInv'
  BY <1>17 DEF ArchivePrecleanup, Goto, Signal, Fail, Cancel, Continue, Attempt,
     Session, Building, Restored, Owing, Settling, TypeOK, PlaceOK, TerminalState,
     ReportOK, Evidence, ControlInv, ErrorInv, NoErrorIsLost
<1>18. ASSUME Restore
      PROVE  ErrorInv'
  BY <1>18 DEF Restore, Goto, Signal, Cancel, Continue, Attempted, RestoreResult,
     Session, Building, Restored, Owing, Settling, TypeOK, PlaceOK, TerminalState,
     ReportOK, Evidence, ControlInv, ErrorInv, NoErrorIsLost
<1>19. ASSUME ReviewCleanup
      PROVE  ErrorInv'
  BY <1>19 DEF ReviewCleanup, Goto, Signal, Fail, Cancel, Continue, Session,
     Building, Restored, Owing, Settling, TypeOK, PlaceOK, TerminalState, ReportOK,
     Evidence, ControlInv, ErrorInv, NoErrorIsLost
<1>20. ASSUME Attest
      PROVE  ErrorInv'
  BY <1>20 DEF Attest, Goto, Signal, Fail, Cancel, Continue, Attempt, Session,
     Building, Restored, Owing, Settling, TypeOK, PlaceOK, TerminalState, ReportOK,
     Evidence, ControlInv, ErrorInv, NoErrorIsLost
<1>21. ASSUME PublishClean
      PROVE  ErrorInv'
  BY <1>21 DEF PublishClean, Goto, Signal, Fail, Cancel, Continue, Write, Snapshot,
     Session, Building, Restored, Owing, Settling, TypeOK, PlaceOK, TerminalState,
     ReportOK, Evidence, ControlInv, ErrorInv, NoErrorIsLost
<1>22. ASSUME FinalCheckpoint
      PROVE  ErrorInv'
  BY <1>22 DEF FinalCheckpoint, Goto, Signal, Fail, Cancel, Continue, Attempt,
     Session, Building, Restored, Owing, Settling, TypeOK, PlaceOK, TerminalState,
     ReportOK, Evidence, ControlInv, ErrorInv, NoErrorIsLost
<1>23. ASSUME Finalize
      PROVE  ErrorInv'
  BY <1>23 DEF Finalize, Goto, Owes, Session, Building, Restored, Owing, Settling,
     TypeOK, PlaceOK, TerminalState, ReportOK, Evidence, ControlInv, ErrorInv,
     NoErrorIsLost
<1>24. ASSUME OwePrecleanup
      PROVE  ErrorInv'
  BY <1>24 DEF OwePrecleanup, Goto, Signal, Met, Secondary, Intercept, Abandon,
     Session, Building, Restored, Owing, Settling, TypeOK, PlaceOK, TerminalState,
     ReportOK, Evidence, ControlInv, ErrorInv, NoErrorIsLost
<1>25. ASSUME OweRestore
      PROVE  ErrorInv'
  BY <1>25 DEF OweRestore, Goto, Signal, Met, Secondary, Intercept, Attempted,
     RestoreResult, Session, Building, Restored, Owing, Settling, TypeOK, PlaceOK,
     TerminalState, ReportOK, Evidence, ControlInv, ErrorInv, NoErrorIsLost
<1>26. ASSUME OweRealtime
      PROVE  ErrorInv'
  BY <1>26 DEF OweRealtime, Goto, Signal, Met, Secondary, Intercept, Abandon,
     Session, Building, Restored, Owing, Settling, TypeOK, PlaceOK, TerminalState,
     ReportOK, Evidence, ControlInv, ErrorInv, NoErrorIsLost
<1>27. ASSUME OweAttestation
      PROVE  ErrorInv'
  BY <1>27 DEF OweAttestation, Goto, Signal, Met, Secondary, Intercept, Abandon,
     Phase, Session, Building, Restored, Owing, Settling, TypeOK, PlaceOK,
     TerminalState, ReportOK, Evidence, ControlInv, ErrorInv, NoErrorIsLost
<1>28. ASSUME FinalWrite
      PROVE  ErrorInv'
  BY <1>28 DEF FinalWrite, Goto, Signal, Snapshot, Current, Met, Intercept, Collect,
     Session, Building, Restored, Owing, Settling, TypeOK, PlaceOK, TerminalState,
     ReportOK, Evidence, ControlInv, ErrorInv, NoErrorIsLost
<1>29. ASSUME Close
      PROVE  ErrorInv'
  BY <1>29 DEF Close, Goto, Signal, Met, Intercept, Collect, Session, Building,
     Restored, Owing, Settling, TypeOK, PlaceOK, TerminalState, ReportOK, Evidence,
     ControlInv, ErrorInv, NoErrorIsLost
<1>30. ASSUME CollectErrors
      PROVE  ErrorInv'
  BY <1>30 DEF CollectErrors, Goto, Session, Building, Restored, Owing, Settling,
     TypeOK, PlaceOK, TerminalState, ReportOK, Evidence, ControlInv, ErrorInv,
     NoErrorIsLost
<1>31. ASSUME Publish
      PROVE  ErrorInv'
  BY <1>31 DEF Publish, Goto, Signal, Snapshot, Settled, Broken, PublishTerminal,
     Session, Building, Restored, Owing, Settling, TypeOK, PlaceOK, TerminalState,
     ReportOK, Evidence, ControlInv, ErrorInv, NoErrorIsLost
<1>32. ASSUME Republish
      PROVE  ErrorInv'
  BY <1>32 DEF Republish, Goto, Signal, Snapshot, Settled, Broken, PublishTerminal,
     End, Session, Building, Restored, Owing, Settling, TypeOK, PlaceOK,
     TerminalState, ReportOK, Evidence, ControlInv, ErrorInv, NoErrorIsLost
<1>33. ASSUME ReportErrors
      PROVE  ErrorInv'
  BY <1>33 DEF ReportErrors, Goto, Signal, Settled, Broken, End, Session, Building,
     Restored, Owing, Settling, TypeOK, PlaceOK, TerminalState, ReportOK, Evidence,
     ControlInv, ErrorInv, NoErrorIsLost
<1>34. ASSUME Present
      PROVE  ErrorInv'
  BY <1>34 DEF Present, Goto, Signal, Broken, Session, Building, Restored, Owing,
     Settling, TypeOK, PlaceOK, TerminalState, ReportOK, Evidence, ControlInv,
     ErrorInv, NoErrorIsLost
<1>35. ASSUME UNCHANGED vars
      PROVE  ErrorInv'
  BY <1>35 DEF vars, Current, Snapshot, Owes, Session, Building, Restored, Owing,
     Settling, TypeOK, PlaceOK, TerminalState, ReportOK, Evidence, ControlInv,
     ErrorInv, NoErrorIsLost
<1> QED
  BY <1>1, <1>2, <1>3, <1>4, <1>5, <1>6, <1>7, <1>8, <1>9, <1>10, <1>11, <1>12,
     <1>13, <1>14, <1>15, <1>16, <1>17, <1>18, <1>19, <1>20, <1>21, <1>22, <1>23,
     <1>24, <1>25, <1>26, <1>27, <1>28, <1>29, <1>30, <1>31, <1>32, <1>33, <1>34,
     <1>35
     DEF Next

\* Every step leaves the evidence file, or the errors, true of the report.
LEMMA EvidenceStep ==
    ASSUME TypeOK, ControlInv, ErrorInv, EvidenceInv, [Next]_vars
    PROVE  EvidenceInv'
<1> USE DEF progress, reported, history
<1>1. ASSUME Preflight
      PROVE  EvidenceInv'
  BY <1>1 DEF Preflight, Goto, Signal, Continue, Session, Building, Restored, Owing,
     Settling, TypeOK, PlaceOK, TerminalState, ReportOK, Evidence, ControlInv,
     ErrorInv, EvidenceInv, EvidenceIsCurrent
<1>2. ASSUME Reject
      PROVE  EvidenceInv'
  BY <1>2 DEF Reject, Goto, Signal, Snapshot, Current, Session, Building, Restored,
     Owing, Settling, TypeOK, PlaceOK, TerminalState, ReportOK, Evidence, ControlInv,
     ErrorInv, EvidenceInv, EvidenceIsCurrent
<1>3. ASSUME Start
      PROVE  EvidenceInv'
  BY <1>3 DEF Start, Goto, Signal, Fail, Cancel, Continue, Attempt, Session,
     Building, Restored, Owing, Settling, TypeOK, PlaceOK, TerminalState, ReportOK,
     Evidence, ControlInv, ErrorInv, EvidenceInv, EvidenceIsCurrent
<1>4. ASSUME Baseline
      PROVE  EvidenceInv'
  BY <1>4 DEF Baseline, Goto, Signal, Fail, Cancel, Continue, Session, Building,
     Restored, Owing, Settling, TypeOK, PlaceOK, TerminalState, ReportOK, Evidence,
     ControlInv, ErrorInv, EvidenceInv, EvidenceIsCurrent
<1>5. ASSUME Refuse
      PROVE  EvidenceInv'
  BY <1>5 DEF Refuse, Goto, Signal, Fail, Cancel, Continue, Snapshot, Current,
     Session, Building, Restored, Owing, Settling, TypeOK, PlaceOK, TerminalState,
     ReportOK, Evidence, ControlInv, ErrorInv, EvidenceInv, EvidenceIsCurrent
<1>6. ASSUME Compose
      PROVE  EvidenceInv'
  BY <1>6 DEF Compose, Goto, Signal, Fail, Cancel, Continue, Session, Building,
     Restored, Owing, Settling, TypeOK, PlaceOK, TerminalState, ReportOK, Evidence,
     ControlInv, ErrorInv, EvidenceInv, EvidenceIsCurrent
<1>7. ASSUME ProbeCapabilities
      PROVE  EvidenceInv'
  BY <1>7 DEF ProbeCapabilities, Goto, Signal, Fail, Cancel, Continue, Attempt,
     Session, Building, Restored, Owing, Settling, TypeOK, PlaceOK, TerminalState,
     ReportOK, Evidence, ControlInv, ErrorInv, EvidenceInv, EvidenceIsCurrent
<1>8. ASSUME PrepareStage
      PROVE  EvidenceInv'
  BY <1>8 DEF PrepareStage, Goto, Signal, Fail, Cancel, Continue, Attempt, Write,
     Snapshot, Remaining, Last, Session, Building, Restored, Owing, Settling, TypeOK,
     PlaceOK, TerminalState, ReportOK, Evidence, ControlInv, ErrorInv, EvidenceInv,
     EvidenceIsCurrent
<1>9. ASSUME Deploy
      PROVE  EvidenceInv'
  BY <1>9 DEF Deploy, Goto, Signal, Cancel, Continue, Session, Building, Restored,
     Owing, Settling, TypeOK, PlaceOK, TerminalState, ReportOK, Evidence, ControlInv,
     ErrorInv, EvidenceInv, EvidenceIsCurrent
<1>10. ASSUME PublishDelta
      PROVE  EvidenceInv'
  BY <1>10 DEF PublishDelta, Goto, Signal, Fail, Cancel, Continue, Write, Snapshot,
     Session, Building, Restored, Owing, Settling, TypeOK, PlaceOK, TerminalState,
     ReportOK, Evidence, ControlInv, ErrorInv, EvidenceInv, EvidenceIsCurrent
<1>11. ASSUME RequireDelta
      PROVE  EvidenceInv'
  BY <1>11 DEF RequireDelta, Goto, Signal, Fail, Cancel, Session, Building, Restored,
     Owing, Settling, TypeOK, PlaceOK, TerminalState, ReportOK, Evidence, ControlInv,
     ErrorInv, EvidenceInv, EvidenceIsCurrent
<1>12. ASSUME Reconcile
      PROVE  EvidenceInv'
  BY <1>12 DEF Reconcile, Goto, Signal, Fail, Cancel, Continue, Write, Snapshot,
     Session, Building, Restored, Owing, Settling, TypeOK, PlaceOK, TerminalState,
     ReportOK, Evidence, ControlInv, ErrorInv, EvidenceInv, EvidenceIsCurrent
<1>13. ASSUME ExecuteStage
      PROVE  EvidenceInv'
  BY <1>13 DEF ExecuteStage, Goto, Signal, Fail, Cancel, Continue, Last, Session,
     Building, Restored, Owing, Settling, TypeOK, PlaceOK, TerminalState, ReportOK,
     Evidence, ControlInv, ErrorInv, EvidenceInv, EvidenceIsCurrent
<1>14. ASSUME Checkpoint
      PROVE  EvidenceInv'
  BY <1>14 DEF Checkpoint, Goto, Signal, Fail, Cancel, Continue, Snapshot, Current,
     Session, Building, Restored, Owing, Settling, TypeOK, PlaceOK, TerminalState,
     ReportOK, Evidence, ControlInv, ErrorInv, EvidenceInv, EvidenceIsCurrent
<1>15. ASSUME Review
      PROVE  EvidenceInv'
  BY <1>15 DEF Review, Goto, Signal, Fail, Cancel, Continue, Attempt, Session,
     Building, Restored, Owing, Settling, TypeOK, PlaceOK, TerminalState, ReportOK,
     Evidence, ControlInv, ErrorInv, EvidenceInv, EvidenceIsCurrent
<1>16. ASSUME PublishClosure
      PROVE  EvidenceInv'
  BY <1>16 DEF PublishClosure, Goto, Signal, Fail, Cancel, Continue, Write, Snapshot,
     Session, Building, Restored, Owing, Settling, TypeOK, PlaceOK, TerminalState,
     ReportOK, Evidence, ControlInv, ErrorInv, EvidenceInv, EvidenceIsCurrent
<1>17. ASSUME ArchivePrecleanup
      PROVE  EvidenceInv'
  BY <1>17 DEF ArchivePrecleanup, Goto, Signal, Fail, Cancel, Continue, Attempt,
     Session, Building, Restored, Owing, Settling, TypeOK, PlaceOK, TerminalState,
     ReportOK, Evidence, ControlInv, ErrorInv, EvidenceInv, EvidenceIsCurrent
<1>18. ASSUME Restore
      PROVE  EvidenceInv'
  BY <1>18 DEF Restore, Goto, Signal, Cancel, Continue, Attempted, RestoreResult,
     Session, Building, Restored, Owing, Settling, TypeOK, PlaceOK, TerminalState,
     ReportOK, Evidence, ControlInv, ErrorInv, EvidenceInv, EvidenceIsCurrent
<1>19. ASSUME ReviewCleanup
      PROVE  EvidenceInv'
  BY <1>19 DEF ReviewCleanup, Goto, Signal, Fail, Cancel, Continue, Session,
     Building, Restored, Owing, Settling, TypeOK, PlaceOK, TerminalState, ReportOK,
     Evidence, ControlInv, ErrorInv, EvidenceInv, EvidenceIsCurrent
<1>20. ASSUME Attest
      PROVE  EvidenceInv'
  BY <1>20 DEF Attest, Goto, Signal, Fail, Cancel, Continue, Attempt, Session,
     Building, Restored, Owing, Settling, TypeOK, PlaceOK, TerminalState, ReportOK,
     Evidence, ControlInv, ErrorInv, EvidenceInv, EvidenceIsCurrent
<1>21. ASSUME PublishClean
      PROVE  EvidenceInv'
  BY <1>21 DEF PublishClean, Goto, Signal, Fail, Cancel, Continue, Write, Snapshot,
     Session, Building, Restored, Owing, Settling, TypeOK, PlaceOK, TerminalState,
     ReportOK, Evidence, ControlInv, ErrorInv, EvidenceInv, EvidenceIsCurrent
<1>22. ASSUME FinalCheckpoint
      PROVE  EvidenceInv'
  BY <1>22 DEF FinalCheckpoint, Goto, Signal, Fail, Cancel, Continue, Attempt,
     Session, Building, Restored, Owing, Settling, TypeOK, PlaceOK, TerminalState,
     ReportOK, Evidence, ControlInv, ErrorInv, EvidenceInv, EvidenceIsCurrent
<1>23. ASSUME Finalize
      PROVE  EvidenceInv'
  BY <1>23 DEF Finalize, Goto, Owes, Session, Building, Restored, Owing, Settling,
     TypeOK, PlaceOK, TerminalState, ReportOK, Evidence, ControlInv, ErrorInv,
     EvidenceInv, EvidenceIsCurrent
<1>24. ASSUME OwePrecleanup
      PROVE  EvidenceInv'
  BY <1>24 DEF OwePrecleanup, Goto, Signal, Met, Secondary, Intercept, Abandon,
     Session, Building, Restored, Owing, Settling, TypeOK, PlaceOK, TerminalState,
     ReportOK, Evidence, ControlInv, ErrorInv, EvidenceInv, EvidenceIsCurrent
<1>25. ASSUME OweRestore
      PROVE  EvidenceInv'
  BY <1>25 DEF OweRestore, Goto, Signal, Met, Secondary, Intercept, Attempted,
     RestoreResult, Session, Building, Restored, Owing, Settling, TypeOK, PlaceOK,
     TerminalState, ReportOK, Evidence, ControlInv, ErrorInv, EvidenceInv,
     EvidenceIsCurrent
<1>26. ASSUME OweRealtime
      PROVE  EvidenceInv'
  BY <1>26 DEF OweRealtime, Goto, Signal, Met, Secondary, Intercept, Abandon,
     Session, Building, Restored, Owing, Settling, TypeOK, PlaceOK, TerminalState,
     ReportOK, Evidence, ControlInv, ErrorInv, EvidenceInv, EvidenceIsCurrent
<1>27. ASSUME OweAttestation
      PROVE  EvidenceInv'
  BY <1>27 DEF OweAttestation, Goto, Signal, Met, Secondary, Intercept, Abandon,
     Phase, Session, Building, Restored, Owing, Settling, TypeOK, PlaceOK,
     TerminalState, ReportOK, Evidence, ControlInv, ErrorInv, EvidenceInv,
     EvidenceIsCurrent
<1>28. ASSUME FinalWrite
      PROVE  EvidenceInv'
  BY <1>28 DEF FinalWrite, Goto, Signal, Snapshot, Current, Met, Intercept, Collect,
     Session, Building, Restored, Owing, Settling, TypeOK, PlaceOK, TerminalState,
     ReportOK, Evidence, ControlInv, ErrorInv, EvidenceInv, EvidenceIsCurrent
<1>29. ASSUME Close
      PROVE  EvidenceInv'
  <2>1. Current' = Current
    BY <1>29 DEF Close, Met, Collect, Intercept, Current
  <2>2. /\ pc' = "collect" /\ UNCHANGED <<disk, prepared, secondaries>> /\ errors \subseteq errors'
        /\ cancelled' = "none" => cancelled = "none"
    BY <1>29 DEF Close, Met, Collect, Intercept, Goto
  <2> QED
    BY <1>29, <2>1, <2>2 DEF Close, EvidenceInv, EvidenceIsCurrent
<1>30. ASSUME CollectErrors
      PROVE  EvidenceInv'
  <2> DEFINE all == secondaries \cup errors
  <2>1. /\ pc = "collect" /\ errors' = all /\ finals = {} /\ closes = 1
        /\ UNCHANGED <<secondaries, prepared, cancelled, disk, closes>>
    BY <1>30 DEF CollectErrors, ControlInv, ErrorInv, history, Settling
  <2>2. CASE cancelled # "none"
    <3>1. pc' \in {"raised", "publish", "report"}
      BY <1>30, <2>2 DEF CollectErrors, Goto
    <3> QED
      BY <2>1, <2>2, <3>1 DEF EvidenceInv, EvidenceIsCurrent
  <2>3. CASE cancelled = "none"
    <3>1. /\ finals' = all
          /\ pc' = IF all # {} THEN IF all # prepared THEN "publish" ELSE "report"
                   ELSE IF terminal.outcome = "completed" THEN "present" ELSE "returned"
      BY <1>30, <2>3 DEF CollectErrors, Goto
    <3>2. \A errs : Snapshot(terminal, errs)' = Snapshot(terminal', errs)
                    /\ Snapshot(terminal', errs) = Snapshot(terminal, errs)
      BY <1>30, <2>3 DEF CollectErrors, Snapshot, TypeOK, TerminalState
    <3>3. /\ prepared = secondaries /\ errors \subseteq {"final_write", "transport_stop"}
          /\ disk = Snapshot(terminal, secondaries) \/ "final_write" \in errors
      BY <2>1, <2>3 DEF EvidenceInv, ErrorInv, Current
    <3>4. Current' = Snapshot(terminal, secondaries' \cup finals')
      BY <3>2 DEF Current
    <3>5. CASE all = {}
      BY <2>1, <3>1, <3>3, <3>4, <3>5 DEF EvidenceInv, EvidenceIsCurrent
    <3>6. CASE all # {} /\ all # prepared
      BY <2>1, <3>1, <3>6 DEF EvidenceInv, EvidenceIsCurrent
    <3>7. CASE all # {} /\ all = prepared
      <4>1. all = secondaries /\ "final_write" \notin errors
        BY <3>3, <3>7 DEF TypeOK, ReportOK, SecondaryTags
      <4>2. disk' = Snapshot(terminal, errors')
        BY <2>1, <3>3, <4>1
      <4>3. Snapshot(terminal, errors)' = Snapshot(terminal, errors')
        BY <1>30, <2>3 DEF CollectErrors, Snapshot, TypeOK, TerminalState
      <4> QED
        BY <2>1, <3>1, <3>7, <4>2, <4>3 DEF EvidenceInv, EvidenceIsCurrent
    <3> QED
      BY <3>5, <3>6, <3>7
  <2> QED
    BY <2>2, <2>3
<1>31. ASSUME Publish
      PROVE  EvidenceInv'
  BY <1>31 DEF Publish, Goto, Signal, Snapshot, Settled, Broken, PublishTerminal,
     Session, Building, Restored, Owing, Settling, TypeOK, PlaceOK, TerminalState,
     ReportOK, Evidence, ControlInv, ErrorInv, EvidenceInv, EvidenceIsCurrent
<1>32. ASSUME Republish
      PROVE  EvidenceInv'
  <2>1. /\ pc' = End /\ secondaries' = {} /\ finals' = errors' /\ UNCHANGED terminal
        \/ pc' = "raised"
    BY <1>32 DEF Republish, PublishTerminal, Settled, Broken, Goto
  <2>2. pc' \in {"returned", "raised"}
    BY <2>1 DEF End
  <2>3. \/ disk' = Snapshot(terminal, errors) /\ UNCHANGED errors
        \/ "terminal_write" \in errors'
        \/ pc' = "raised"
    BY <1>32 DEF Republish, PublishTerminal, Settled, Broken, Goto
  <2>4. ASSUME pc' = "returned", disk' = Snapshot(terminal, errors), UNCHANGED errors
        PROVE  disk' = Current'
    BY <2>1, <2>4 DEF Current, Snapshot
  <2> QED
    BY <2>1, <2>2, <2>3, <2>4 DEF EvidenceInv, EvidenceIsCurrent
<1>33. ASSUME ReportErrors
      PROVE  EvidenceInv'
  <2>1. /\ pc = "report" /\ secondaries' = {} /\ finals' = errors'
        /\ UNCHANGED <<terminal, disk, closes>>
    BY <1>33 DEF ReportErrors
  <2>2. Current' = Snapshot(terminal, errors')
    BY <2>1 DEF Current, Snapshot
  <2>3. CASE pc' = "returned"
    <3>1. cancelled = "none" /\ errors \subseteq errors'
      BY <1>33, <2>3 DEF ReportErrors, Settled, Broken, Goto, End
    <3>2. UNCHANGED errors \/ closes = 0
      BY <1>33, <2>3, <3>1 DEF ReportErrors, Settled, Broken, Goto, End
    <3> QED
      BY <2>1, <2>2, <2>3, <3>1, <3>2 DEF EvidenceInv, EvidenceIsCurrent
  <2>4. CASE pc' # "returned"
    <3>1. pc' \in {"raised", "republish"}
      BY <1>33, <2>4 DEF ReportErrors, Settled, Broken, Goto, End
    <3> QED
      BY <3>1 DEF EvidenceInv, EvidenceIsCurrent
  <2> QED
    BY <2>3, <2>4
<1>34. ASSUME Present
      PROVE  EvidenceInv'
  <2>1. /\ pc = "present" /\ cancelled = "none"
        /\ UNCHANGED <<secondaries, finals, disk>>
    BY <1>34 DEF Present, ControlInv
  <2>2. CASE pc' = "returned"
    <3>1. UNCHANGED terminal
      BY <1>34, <2>2 DEF Present, Goto, Broken
    <3> QED
      BY <2>1, <2>2, <3>1 DEF EvidenceInv, EvidenceIsCurrent, Current, Snapshot
  <2>3. CASE pc' \in {"publish", "raised"}
    BY <2>3 DEF EvidenceInv, EvidenceIsCurrent
  <2> QED
    BY <1>34, <2>2, <2>3 DEF Present, Goto, Broken
<1>35. ASSUME UNCHANGED vars
      PROVE  EvidenceInv'
  BY <1>35 DEF vars, Current, Snapshot, Owes, Session, Building, Restored, Owing,
     Settling, TypeOK, PlaceOK, TerminalState, ReportOK, Evidence, ControlInv,
     ErrorInv, EvidenceInv, EvidenceIsCurrent
<1> QED
  BY <1>1, <1>2, <1>3, <1>4, <1>5, <1>6, <1>7, <1>8, <1>9, <1>10, <1>11, <1>12,
     <1>13, <1>14, <1>15, <1>16, <1>17, <1>18, <1>19, <1>20, <1>21, <1>22, <1>23,
     <1>24, <1>25, <1>26, <1>27, <1>28, <1>29, <1>30, <1>31, <1>32, <1>33, <1>34,
     <1>35
     DEF Next

\* Whatever a restoration that is not verified left has been attested.
LEMMA AttestedIsClean ==
    ASSUME TypeOK, CleanupInv, terminal.attestation # "none", devices # {}
    PROVE  terminal.attestation = "incomplete"
  BY DEF TypeOK, TerminalState, Attestation, CleanupInv

\* No step takes an interrupted run past its cleanup.
LEMMA InterruptStep ==
    ASSUME TypeOK, ControlInv, CleanupInv, InterruptInv, [Next]_vars
    PROVE  InterruptInv'
<1> USE DEF progress, reported, history
<1>1. ASSUME Preflight
      PROVE  InterruptInv'
  BY <1>1 DEF Preflight, Goto, Signal, Continue, Session, Building, Restored, Owing,
     Settling, TypeOK, PlaceOK, TerminalState, ReportOK, Evidence, ControlInv,
     CleanupInv, InterruptInv, HitOnce, InterruptedRunIsCleanedUp
<1>2. ASSUME Reject
      PROVE  InterruptInv'
  BY <1>2 DEF Reject, Goto, Signal, Snapshot, Current, Session, Building, Restored,
     Owing, Settling, TypeOK, PlaceOK, TerminalState, ReportOK, Evidence, ControlInv,
     CleanupInv, InterruptInv, HitOnce, InterruptedRunIsCleanedUp
<1>3. ASSUME Start
      PROVE  InterruptInv'
  BY <1>3 DEF Start, Goto, Signal, Fail, Cancel, Continue, Attempt, Session,
     Building, Restored, Owing, Settling, TypeOK, PlaceOK, TerminalState, ReportOK,
     Evidence, ControlInv, CleanupInv, InterruptInv, HitOnce,
     InterruptedRunIsCleanedUp
<1>4. ASSUME Baseline
      PROVE  InterruptInv'
  BY <1>4 DEF Baseline, Goto, Signal, Fail, Cancel, Continue, Session, Building,
     Restored, Owing, Settling, TypeOK, PlaceOK, TerminalState, ReportOK, Evidence,
     ControlInv, CleanupInv, InterruptInv, HitOnce, InterruptedRunIsCleanedUp
<1>5. ASSUME Refuse
      PROVE  InterruptInv'
  BY <1>5 DEF Refuse, Goto, Signal, Fail, Cancel, Continue, Snapshot, Current,
     Session, Building, Restored, Owing, Settling, TypeOK, PlaceOK, TerminalState,
     ReportOK, Evidence, ControlInv, CleanupInv, InterruptInv, HitOnce,
     InterruptedRunIsCleanedUp
<1>6. ASSUME Compose
      PROVE  InterruptInv'
  BY <1>6 DEF Compose, Goto, Signal, Fail, Cancel, Continue, Session, Building,
     Restored, Owing, Settling, TypeOK, PlaceOK, TerminalState, ReportOK, Evidence,
     ControlInv, CleanupInv, InterruptInv, HitOnce, InterruptedRunIsCleanedUp
<1>7. ASSUME ProbeCapabilities
      PROVE  InterruptInv'
  BY <1>7 DEF ProbeCapabilities, Goto, Signal, Fail, Cancel, Continue, Attempt,
     Session, Building, Restored, Owing, Settling, TypeOK, PlaceOK, TerminalState,
     ReportOK, Evidence, ControlInv, CleanupInv, InterruptInv, HitOnce,
     InterruptedRunIsCleanedUp
<1>8. ASSUME PrepareStage
      PROVE  InterruptInv'
  BY <1>8 DEF PrepareStage, Goto, Signal, Fail, Cancel, Continue, Attempt, Write,
     Snapshot, Remaining, Last, Session, Building, Restored, Owing, Settling, TypeOK,
     PlaceOK, TerminalState, ReportOK, Evidence, ControlInv, CleanupInv,
     InterruptInv, HitOnce, InterruptedRunIsCleanedUp
<1>9. ASSUME Deploy
      PROVE  InterruptInv'
  BY <1>9 DEF Deploy, Goto, Signal, Cancel, Continue, Session, Building, Restored,
     Owing, Settling, TypeOK, PlaceOK, TerminalState, ReportOK, Evidence, ControlInv,
     CleanupInv, InterruptInv, HitOnce, InterruptedRunIsCleanedUp
<1>10. ASSUME PublishDelta
      PROVE  InterruptInv'
  BY <1>10 DEF PublishDelta, Goto, Signal, Fail, Cancel, Continue, Write, Snapshot,
     Session, Building, Restored, Owing, Settling, TypeOK, PlaceOK, TerminalState,
     ReportOK, Evidence, ControlInv, CleanupInv, InterruptInv, HitOnce,
     InterruptedRunIsCleanedUp
<1>11. ASSUME RequireDelta
      PROVE  InterruptInv'
  BY <1>11 DEF RequireDelta, Goto, Signal, Fail, Cancel, Session, Building, Restored,
     Owing, Settling, TypeOK, PlaceOK, TerminalState, ReportOK, Evidence, ControlInv,
     CleanupInv, InterruptInv, HitOnce, InterruptedRunIsCleanedUp
<1>12. ASSUME Reconcile
      PROVE  InterruptInv'
  BY <1>12 DEF Reconcile, Goto, Signal, Fail, Cancel, Continue, Write, Snapshot,
     Session, Building, Restored, Owing, Settling, TypeOK, PlaceOK, TerminalState,
     ReportOK, Evidence, ControlInv, CleanupInv, InterruptInv, HitOnce,
     InterruptedRunIsCleanedUp
<1>13. ASSUME ExecuteStage
      PROVE  InterruptInv'
  BY <1>13 DEF ExecuteStage, Goto, Signal, Fail, Cancel, Continue, Last, Session,
     Building, Restored, Owing, Settling, TypeOK, PlaceOK, TerminalState, ReportOK,
     Evidence, ControlInv, CleanupInv, InterruptInv, HitOnce,
     InterruptedRunIsCleanedUp
<1>14. ASSUME Checkpoint
      PROVE  InterruptInv'
  BY <1>14 DEF Checkpoint, Goto, Signal, Fail, Cancel, Continue, Snapshot, Current,
     Session, Building, Restored, Owing, Settling, TypeOK, PlaceOK, TerminalState,
     ReportOK, Evidence, ControlInv, CleanupInv, InterruptInv, HitOnce,
     InterruptedRunIsCleanedUp
<1>15. ASSUME Review
      PROVE  InterruptInv'
  BY <1>15 DEF Review, Goto, Signal, Fail, Cancel, Continue, Attempt, Session,
     Building, Restored, Owing, Settling, TypeOK, PlaceOK, TerminalState, ReportOK,
     Evidence, ControlInv, CleanupInv, InterruptInv, HitOnce,
     InterruptedRunIsCleanedUp
<1>16. ASSUME PublishClosure
      PROVE  InterruptInv'
  BY <1>16 DEF PublishClosure, Goto, Signal, Fail, Cancel, Continue, Write, Snapshot,
     Session, Building, Restored, Owing, Settling, TypeOK, PlaceOK, TerminalState,
     ReportOK, Evidence, ControlInv, CleanupInv, InterruptInv, HitOnce,
     InterruptedRunIsCleanedUp
<1>17. ASSUME ArchivePrecleanup
      PROVE  InterruptInv'
  BY <1>17 DEF ArchivePrecleanup, Goto, Signal, Fail, Cancel, Continue, Attempt,
     Session, Building, Restored, Owing, Settling, TypeOK, PlaceOK, TerminalState,
     ReportOK, Evidence, ControlInv, CleanupInv, InterruptInv, HitOnce,
     InterruptedRunIsCleanedUp
<1>18. ASSUME Restore
      PROVE  InterruptInv'
  BY <1>18 DEF Restore, Goto, Signal, Cancel, Continue, Attempted, RestoreResult,
     Session, Building, Restored, Owing, Settling, TypeOK, PlaceOK, TerminalState,
     ReportOK, Evidence, ControlInv, CleanupInv, InterruptInv, HitOnce,
     InterruptedRunIsCleanedUp
<1>19. ASSUME ReviewCleanup
      PROVE  InterruptInv'
  BY <1>19 DEF ReviewCleanup, Goto, Signal, Fail, Cancel, Continue, Session,
     Building, Restored, Owing, Settling, TypeOK, PlaceOK, TerminalState, ReportOK,
     Evidence, ControlInv, CleanupInv, InterruptInv, HitOnce,
     InterruptedRunIsCleanedUp
<1>20. ASSUME Attest
      PROVE  InterruptInv'
  BY <1>20 DEF Attest, Goto, Signal, Fail, Cancel, Continue, Attempt, Session,
     Building, Restored, Owing, Settling, TypeOK, PlaceOK, TerminalState, ReportOK,
     Evidence, ControlInv, CleanupInv, InterruptInv, HitOnce,
     InterruptedRunIsCleanedUp
<1>21. ASSUME PublishClean
      PROVE  InterruptInv'
  BY <1>21 DEF PublishClean, Goto, Signal, Fail, Cancel, Continue, Write, Snapshot,
     Session, Building, Restored, Owing, Settling, TypeOK, PlaceOK, TerminalState,
     ReportOK, Evidence, ControlInv, CleanupInv, InterruptInv, HitOnce,
     InterruptedRunIsCleanedUp
<1>22. ASSUME FinalCheckpoint
      PROVE  InterruptInv'
  BY <1>22 DEF FinalCheckpoint, Goto, Signal, Fail, Cancel, Continue, Attempt,
     Session, Building, Restored, Owing, Settling, TypeOK, PlaceOK, TerminalState,
     ReportOK, Evidence, ControlInv, CleanupInv, InterruptInv, HitOnce,
     InterruptedRunIsCleanedUp
<1>23. ASSUME Finalize
      PROVE  InterruptInv'
  BY <1>23 DEF Finalize, Goto, Owes, Session, Building, Restored, Owing, Settling,
     TypeOK, PlaceOK, TerminalState, ReportOK, Evidence, ControlInv, CleanupInv,
     InterruptInv, HitOnce, InterruptedRunIsCleanedUp
<1>24. ASSUME OwePrecleanup
      PROVE  InterruptInv'
  BY <1>24 DEF OwePrecleanup, Goto, Signal, Met, Secondary, Intercept, Abandon,
     Session, Building, Restored, Owing, Settling, TypeOK, PlaceOK, TerminalState,
     ReportOK, Evidence, ControlInv, CleanupInv, InterruptInv, HitOnce,
     InterruptedRunIsCleanedUp
<1>25. ASSUME OweRestore
      PROVE  InterruptInv'
  BY <1>25 DEF OweRestore, Goto, Signal, Met, Secondary, Intercept, Attempted,
     RestoreResult, Session, Building, Restored, Owing, Settling, TypeOK, PlaceOK,
     TerminalState, ReportOK, Evidence, ControlInv, CleanupInv, InterruptInv,
     HitOnce, InterruptedRunIsCleanedUp
<1>26. ASSUME OweRealtime
      PROVE  InterruptInv'
  BY <1>26 DEF OweRealtime, Goto, Signal, Met, Secondary, Intercept, Abandon,
     Session, Building, Restored, Owing, Settling, TypeOK, PlaceOK, TerminalState,
     ReportOK, Evidence, ControlInv, CleanupInv, InterruptInv, HitOnce,
     InterruptedRunIsCleanedUp
<1>27. ASSUME OweAttestation
      PROVE  InterruptInv'
  BY <1>27 DEF OweAttestation, Goto, Signal, Met, Secondary, Intercept, Abandon,
     Phase, Session, Building, Restored, Owing, Settling, TypeOK, PlaceOK,
     TerminalState, ReportOK, Evidence, ControlInv, CleanupInv, InterruptInv,
     HitOnce, InterruptedRunIsCleanedUp
<1>28. ASSUME FinalWrite
      PROVE  InterruptInv'
  BY <1>28 DEF FinalWrite, Goto, Signal, Snapshot, Current, Met, Intercept, Collect,
     Session, Building, Restored, Owing, Settling, TypeOK, PlaceOK, TerminalState,
     ReportOK, Evidence, ControlInv, CleanupInv, InterruptInv, HitOnce,
     InterruptedRunIsCleanedUp
<1>29. ASSUME Close
      PROVE  InterruptInv'
  BY <1>29 DEF Close, Goto, Signal, Met, Intercept, Collect, Session, Building,
     Restored, Owing, Settling, TypeOK, PlaceOK, TerminalState, ReportOK, Evidence,
     ControlInv, CleanupInv, InterruptInv, HitOnce, InterruptedRunIsCleanedUp
<1>30. ASSUME CollectErrors
      PROVE  InterruptInv'
  <2>1. /\ pc = "collect" /\ errors' = secondaries \cup errors
        /\ UNCHANGED <<devices, composed, restores, cancelled, interrupts>>
    BY <1>30 DEF CollectErrors, progress, history
  <2>2. ASSUME HitOnce
        PROVE  UNCHANGED terminal /\ pc' \in {"raised", "publish", "report"}
               /\ (pc' = "raised" => secondaries = {})
    BY <1>30, <2>2 DEF CollectErrors, Goto, HitOnce
  <2> QED
    BY <2>1, <2>2, AttestedIsClean DEF InterruptInv, HitOnce, InterruptedRunIsCleanedUp, Settling,
       CleanupInv
<1>31. ASSUME Publish
      PROVE  InterruptInv'
  BY <1>31 DEF Publish, Goto, Signal, Snapshot, Settled, Broken, PublishTerminal,
     Session, Building, Restored, Owing, Settling, TypeOK, PlaceOK, TerminalState,
     ReportOK, Evidence, ControlInv, CleanupInv, InterruptInv, HitOnce,
     InterruptedRunIsCleanedUp
<1>32. ASSUME Republish
      PROVE  InterruptInv'
  <2>1. /\ pc = "republish" /\ pc' \in {"returned", "raised"}
        /\ finals' = errors' /\ errors \subseteq errors'
        /\ UNCHANGED <<devices, composed, restores, terminal>>
        /\ interrupts' \in {interrupts, interrupts + 1}
        /\ cancelled' \in {cancelled, "outside"}
    BY <1>32 DEF Republish, PublishTerminal, Settled, Broken, Signal, Goto, End
  <2>2. HitOnce' => HitOnce
    BY <2>1 DEF HitOnce, ControlInv, TypeOK, PlaceOK
  <2> QED
    BY <2>1, <2>2, AttestedIsClean DEF InterruptInv, HitOnce, InterruptedRunIsCleanedUp, Settling,
       CleanupInv
<1>33. ASSUME ReportErrors
      PROVE  InterruptInv'
  <2>1. /\ pc = "report" /\ pc' \in {"returned", "raised", "republish"}
        /\ finals' = errors' /\ errors \subseteq errors'
        /\ UNCHANGED <<devices, composed, restores, terminal>>
        /\ interrupts' \in {interrupts, interrupts + 1}
        /\ cancelled' \in {cancelled, "outside"}
    BY <1>33 DEF ReportErrors, Settled, Broken, Signal, Goto, End
  <2>2. HitOnce' => HitOnce
    BY <2>1 DEF HitOnce, ControlInv, TypeOK, PlaceOK
  <2> QED
    BY <2>1, <2>2, AttestedIsClean DEF InterruptInv, HitOnce, InterruptedRunIsCleanedUp, Settling,
       CleanupInv
<1>34. ASSUME Present
      PROVE  InterruptInv'
  BY <1>34 DEF Present, Goto, Signal, Broken, Session, Building, Restored, Owing,
     Settling, TypeOK, PlaceOK, TerminalState, ReportOK, Evidence, ControlInv,
     CleanupInv, InterruptInv, HitOnce, InterruptedRunIsCleanedUp
<1>35. ASSUME UNCHANGED vars
      PROVE  InterruptInv'
  BY <1>35 DEF vars, Current, Snapshot, Owes, Session, Building, Restored, Owing,
     Settling, TypeOK, PlaceOK, TerminalState, ReportOK, Evidence, ControlInv,
     CleanupInv, InterruptInv, HitOnce, InterruptedRunIsCleanedUp
<1> QED
  BY <1>1, <1>2, <1>3, <1>4, <1>5, <1>6, <1>7, <1>8, <1>9, <1>10, <1>11, <1>12,
     <1>13, <1>14, <1>15, <1>16, <1>17, <1>18, <1>19, <1>20, <1>21, <1>22, <1>23,
     <1>24, <1>25, <1>26, <1>27, <1>28, <1>29, <1>30, <1>31, <1>32, <1>33, <1>34,
     <1>35
     DEF Next

-----------------------------------------------------------------------------
\* A run that has not begun satisfies the invariant.
LEMMA InitInv == Init => Inv
<1> SUFFICES ASSUME Init PROVE Inv
  OBVIOUS
<1> USE RunAssumption DEF Init, NewTerminal, Snapshot
<1>1. PlaceOK
  <2>1. 1 \in 1..Stages
    OBVIOUS
  <2>2. baseline \in BOOLEAN /\ composed \in BOOLEAN
    OBVIOUS
  <2> QED
    BY <2>1, <2>2 DEF PlaceOK
<1>2. terminal \in TerminalState
  BY DEF TerminalState, Closure, CleanupResult, Attestation
<1>3. ReportOK
  BY <1>2, SnapshotType DEF ReportOK, Evidence, Closure, CleanupResult, Attestation
<1>4. ControlInv
  BY DEF ControlInv, Session, Building, Restored, Owing, Settling
<1>5. CleanupInv
  BY DEF CleanupInv, Restored
<1>6. CompletedInv
  BY DEF CompletedInv, CompletedLeavesNothing
<1>7. ErrorInv
  BY DEF ErrorInv, NoErrorIsLost, Settling
<1>8. EvidenceInv
  BY DEF EvidenceInv, EvidenceIsCurrent
<1>9. InterruptInv
  BY DEF InterruptInv, HitOnce, InterruptedRunIsCleanedUp, Settling
<1> QED
  BY <1>1, <1>2, <1>3, <1>4, <1>5, <1>6, <1>7, <1>8, <1>9 DEF Inv, TypeOK

\* The invariant is inductive.
LEMMA NextInv == Inv /\ [Next]_vars => Inv'
  BY PlaceStep, TerminalStep, ReportStep, ControlStep, CleanupStep, CompletedStep, ErrorStep,
     EvidenceStep, InterruptStep DEF Inv, TypeOK

\* Every reachable state satisfies the inductive invariant: what is still owed
\* to the workspace and to the report fits the place the run has come to.
THEOREM InvHolds == Spec => []Inv
  BY InitInv, NextInv, PTL DEF Spec

\* The state keeps its types.
THEOREM TypeCorrect == Spec => []TypeOK
<1>1. Inv => TypeOK
  BY DEF Inv
<1> QED
  BY <1>1, InvHolds, PTL

\* A run that says COMPLETED has left the workspace as it found it, with the
\* evidence of it on disk (coordinator.py, complete).
THEOREM CompletionIsClean == Spec => []CompletedLeavesNothing
<1>1. Inv => CompletedLeavesNothing
  BY DEF Inv, CompletedInv
<1> QED
  BY <1>1, InvHolds, PTL

\* However many of its steps and of its handlers fail, a run reports every
\* error there has been (lifecycle.py, finalize_session).
THEOREM ErrorsAreReported == Spec => []NoErrorIsLost
<1>1. Inv => NoErrorIsLost
  BY DEF Inv, ErrorInv
<1> QED
  BY <1>1, InvHolds, PTL

\* The evidence file of a run that returns says what the run says, or the run
\* says that it could not be written (lifecycle.py, settle_terminal_errors).
THEOREM EvidenceIsReported == Spec => []EvidenceIsCurrent
<1>1. Inv => EvidenceIsCurrent
  BY DEF Inv, EvidenceInv
<1> QED
  BY <1>1, InvHolds, PTL

\* A run that one interruption ends restores the workspace and attests what it
\* could not restore (lifecycle.py, prepare_finalization).
THEOREM InterruptionIsCleanedUp == Spec => []InterruptedRunIsCleanedUp
<1>1. Inv => InterruptedRunIsCleanedUp
  BY DEF Inv, InterruptInv
<1> QED
  BY <1>1, InvHolds, PTL
=============================================================================
