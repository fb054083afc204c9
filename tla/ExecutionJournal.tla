-------------------------- MODULE ExecutionJournal --------------------------
(***************************************************************************)
(* ApplicationExecutionJournal (domain/enterprise/models/execution.py):    *)
(* the record every applicator keeps of what it did to Packet Tracer, and  *)
(* the dirty state composed from it.  Each public method is an action; a   *)
(* caller may use them in any order.                                       *)
(*                                                                         *)
(* CHANGED and REASSERTED are one disposition here, "mutated"; NO_OP,      *)
(* BLOCKED and SKIPPED, which nothing tells apart, are "none".             *)
(***************************************************************************)
EXTENDS Integers, Sequences

CONSTANT MaxEntries     \* bound: entries of one journal

ASSUME JournalAssumption == MaxEntries \in Nat

Disposition  == {"mutated", "failed", "unknown", "none"}
Entry        == [disposition : Disposition, inverse : BOOLEAN]
Dirty        == {"clean", "recoverable", "unknown", "unrecoverable"}
Verdict      == {"succeeded", "failed", "unknown"}
Compensation == Verdict \cup {"not_attempted"}

VARIABLES
    entries,            \* what was applied, append-only
    dirty,              \* dirty_state
    cleanupStatus,
    cleanupUndid,       \* cleanup_undid_mutations
    cleanupOrdinal,     \* entries there were at the verdict, -1 without one
    residueFloor,
    transportUnknown,
    verdicts            \* history: every verdict recorded so far

judgement == <<cleanupStatus, cleanupUndid, cleanupOrdinal, residueFloor>>
journalVars == <<entries, dirty, judgement, transportUnknown, verdicts>>

\* _RESIDUE_SEVERITY.
Severity == [d \in Dirty |-> CASE d = "clean" -> 0
                               [] d = "recoverable" -> 1
                               [] d = "unknown" -> 2
                               [] d = "unrecoverable" -> 3]

\* max(..., key=_RESIDUE_SEVERITY).
Worse(d, e) == IF Severity[d] >= Severity[e] THEN d ELSE e

\* _derive_dirty_state of the entries from lo to hi.
Derive(es, lo, hi) ==
    LET Has(d) == \E i \in lo..hi : es[i].disposition = d
    IN  IF Has("unknown") THEN "unknown"
        ELSE IF ~Has("failed") \/ ~Has("mutated") THEN "clean"
        ELSE IF \A i \in lo..hi : es[i].disposition = "mutated" => es[i].inverse
        THEN "recoverable" ELSE "unrecoverable"

\* applied_dirty_state.
Applied == Derive(entries, 1, Len(entries))

\* Mutant: a compensation settles whatever it finds.
Judged_Settle(state, status, undid) ==
    CASE status = "failed" -> "unrecoverable"
      [] status = "unknown" -> "unknown"
      [] status = "succeeded" /\ undid -> "clean"
      [] OTHER -> state

\* Mutant: the restore of a scenario counts as an undo.
Judged_Restore(state, status, undid) ==
    CASE status = "failed" -> "unrecoverable"
      [] status = "unknown" -> "unknown"
      [] status = "succeeded" /\ state = "recoverable" -> "clean"
      [] OTHER -> state

\* What the verdict in force makes of the entries it covers.
Judged(state, status, undid) ==
    CASE status = "failed" -> "unrecoverable"
      [] status = "unknown" -> "unknown"
      [] status = "succeeded" /\ undid /\ state = "recoverable" -> "clean"
      [] OTHER -> state

\* _recompose.
Recompose(es, status, undid, ordinal, floor, doubt) ==
    LET covered == IF ordinal < 0 THEN Len(es) ELSE ordinal
    IN  Worse(Worse(Judged(Derive(es, 1, covered), status, undid), floor),
              Worse(Derive(es, covered + 1, Len(es)),
                    IF doubt THEN "unknown" ELSE "clean"))

JournalInit ==
    /\ entries = <<>>
    /\ dirty = "clean"
    /\ cleanupStatus = "not_attempted"
    /\ cleanupUndid = FALSE
    /\ cleanupOrdinal = -1
    /\ residueFloor = "clean"
    /\ transportUnknown = FALSE
    /\ verdicts = {}

\* append, with the ordinal it expects.
AppendEntry(e) ==
    /\ Len(entries) < MaxEntries
    /\ entries' = Append(entries, e)
    /\ dirty' = Recompose(entries', cleanupStatus, cleanupUndid, cleanupOrdinal,
                          residueFloor, transportUnknown)
    /\ UNCHANGED <<judgement, transportUnknown, verdicts>>

\* mark_preflight_failure.
MarkPreflightFailure ==
    /\ dirty' = Recompose(entries, cleanupStatus, cleanupUndid, cleanupOrdinal,
                          residueFloor, transportUnknown)
    /\ UNCHANGED <<entries, judgement, transportUnknown, verdicts>>

\* mark_transport_unknown.
MarkTransportUnknown ==
    /\ transportUnknown' = TRUE
    /\ dirty' = Recompose(entries, cleanupStatus, cleanupUndid, cleanupOrdinal,
                          residueFloor, TRUE)
    /\ UNCHANGED <<entries, judgement, verdicts>>

\* What a verdict proves for good.
FloorOf(status) ==
    CASE status = "failed" -> "unrecoverable"
      [] status = "unknown" -> "unknown"
      [] OTHER -> "clean"

\* Mutant: the floor follows the last verdict.
RecordVerdict_LastFloor(status, undid) ==
    /\ cleanupStatus' = status
    /\ cleanupUndid' = undid
    /\ cleanupOrdinal' = Len(entries)
    /\ residueFloor' = FloorOf(status)
    /\ dirty' = Recompose(entries, status, undid, Len(entries), residueFloor',
                          transportUnknown)
    /\ verdicts' = verdicts \cup {status}
    /\ UNCHANGED <<entries, transportUnknown>>

\* _record_verdict.
RecordVerdict(status, undid) ==
    /\ cleanupStatus' = status
    /\ cleanupUndid' = undid
    /\ cleanupOrdinal' = Len(entries)
    /\ residueFloor' = Worse(residueFloor, FloorOf(status))
    /\ dirty' = Recompose(entries, status, undid, Len(entries), residueFloor',
                          transportUnknown)
    /\ verdicts' = verdicts \cup {status}
    /\ UNCHANGED <<entries, transportUnknown>>

MarkCleanup(status) == RecordVerdict(status, TRUE)
RecordScenarioRestore(status) == RecordVerdict(status, FALSE)

JournalNext ==
    \/ \E e \in Entry : AppendEntry(e)
    \/ MarkPreflightFailure \/ MarkTransportUnknown
    \/ \E status \in Verdict : MarkCleanup(status) \/ RecordScenarioRestore(status)

JournalSpec == JournalInit /\ [][JournalNext]_journalVars

-----------------------------------------------------------------------------
(* Properties.                                                             *)

JournalTypeOK ==
    /\ entries \in Seq(Entry) /\ Len(entries) <= MaxEntries
    /\ dirty \in Dirty
    /\ cleanupStatus \in Compensation
    /\ cleanupUndid \in BOOLEAN
    /\ cleanupOrdinal \in -1..Len(entries)
    /\ residueFloor \in Dirty
    /\ transportUnknown \in BOOLEAN
    /\ verdicts \subseteq Verdict

AtLeast(d) == Severity[dirty] >= Severity[d]

\* A verdict that found a residue outlives everything recorded after it: no
\* append, marker or later verdict makes the journal look better than a failed
\* cleanup left it (_record_verdict: "un residuo ya probado no se borra").
ResidueIsNeverLost ==
    \A status \in verdicts : AtLeast(FloorOf(status))

\* A mutation that may have happened is not settled by compensating: with an
\* UNKNOWN entry, or with a transport that could not tell, the state stays at
\* least UNKNOWN whatever verdicts come (mark_cleanup, transport_unknown).
DoubtIsNeverSettled ==
    transportUnknown \/ (\E i \in 1..Len(entries) : entries[i].disposition = "unknown")
    => AtLeast("unknown")

\* dirty_state is never edited: it is what the journal, its verdict and its
\* floor compose to, and the floor is as bad as every verdict there was
\* (_recompose, _record_verdict).
JournalInv ==
    /\ JournalTypeOK
    /\ dirty = Recompose(entries, cleanupStatus, cleanupUndid, cleanupOrdinal,
                         residueFloor, transportUnknown)
    /\ \A status \in verdicts : Severity[residueFloor] >= Severity[FloorOf(status)]

\* While no entry follows the verdict, CLEAN means that nothing was left or
\* that a compensation with inverses for all of it succeeded
\* (ApplicationExecutionJournal, the authoritative invariant).
CleanIsProvedAtTheVerdict ==
    /\ dirty = "clean" /\ cleanupOrdinal \in {-1, Len(entries)}
    => \/ Applied = "clean"
       \/ Applied = "recoverable" /\ cleanupStatus = "succeeded" /\ cleanupUndid

=============================================================================
