----------------------------- MODULE FileBridge -----------------------------
(***************************************************************************)
(* The file mailbox between the MCP server and Packet Tracer's Script      *)
(* Engine: infrastructure/execution/file_bridge.py on the Python side and  *)
(* fileBridgeTick in EXTENSION/script-engine/main.js on the other.         *)
(*                                                                         *)
(* Each client is one MCP process with one FileBridge object; the only     *)
(* thing it shares with the engine is a directory of req_<name>.js and     *)
(* res_<name>.txt files.  Every file operation is a step of its own, so    *)
(* the two sides interleave between an exists() and the unlink after it.   *)
(* Either side may stop at any step and start again: the files stay.       *)
(*                                                                         *)
(* A payload is the operation it belongs to, a response is the operation   *)
(* that was evaluated.  The age of a file is one bit: older than the       *)
(* FILE_BRIDGE_ORPHAN_S after which the engine purges it.                  *)
(***************************************************************************)
EXTENDS Naturals, FiniteSets

CONSTANTS
    Client,     \* MCP processes, by pid: a restarted process keeps its pid
    Op,         \* operations the callers ask for, each of them once
    MaxBoot,    \* bound: starts of one process
    MaxSeq,     \* bound: requests of one process run
    NoOp,       \* the content of a file that does not exist
    NoName,     \* the name a client that is not in a request works on
    MayFail     \* whether a file operation may fail (OSError, a JS exception)

ASSUME BridgeAssumption ==
    /\ MaxBoot \in Nat \ {0} /\ MaxSeq \in Nat
    /\ MayFail \in BOOLEAN
    /\ NoOp \notin Op
    /\ NoName \notin [client : Client, boot : 1..MaxBoot, seq : 1..MaxSeq]

\* <pid>_<boot token>_<seq>, the <name> of req_<name>.js and res_<name>.txt.
Name == [client : Client, boot : 1..MaxBoot, seq : 1..MaxSeq]
Payload == Op \cup {NoOp}

VARIABLES
    \* The directory.
    req,        \* req[n]: the payload in req_<n>.js
    res,        \* res[n]: whose evaluation res_<n>.txt reports
    oldReq,     \* request files older than the orphan threshold
    oldRes,     \* response files older than the orphan threshold
    \* The Script Engine.
    se,         \* where fileBridgeTick is
    listReq,    \* requests of the directory listing not visited yet
    listRes,    \* responses of the directory listing not visited yet
    job,        \* the request whose content it has read
    \* The clients.
    pc,         \* where each client is
    call,       \* the public method it is in
    op,         \* the operation it was called for
    cur,        \* the name it works on
    todo,       \* names collect_completed has still to look at
    pending,    \* _pending: fire-and-forget sends not retired yet
    boot,       \* _boot
    seq,        \* _seq
    outcome,    \* what the caller of each operation was told
    answer,     \* the body it was given
    \* History.
    issued,     \* the operation a name was used for
    execs,      \* evaluations of an operation, 2 standing for more
    retired,    \* operations whose request file their client saw gone
    after,      \* evaluations since then, 2 standing for more
    leaked      \* names whose request file the client failed to remove

dir     == <<req, res, oldReq, oldRes>>
engine  == <<se, listReq, listRes, job>>
local   == <<pc, call, op, cur, todo, pending, boot, seq>>
reports == <<outcome, answer>>
history == <<issued, execs, retired, after, leaked>>
vars    == <<dir, engine, local, reports, history>>

NoJob == [name |-> NoName, op |-> NoOp]

\* One more, as far as a history counter tells evaluations apart.
Count(k) == IF k < 2 THEN k + 1 ELSE 2

Init ==
    /\ req = [n \in Name |-> NoOp]
    /\ res = [n \in Name |-> NoOp]
    /\ oldReq = {} /\ oldRes = {}
    /\ se = "down" /\ listReq = {} /\ listRes = {} /\ job = NoJob
    /\ pc = [c \in Client |-> "idle"]
    /\ call = [c \in Client |-> "none"]
    /\ op = [c \in Client |-> NoOp]
    /\ cur = [c \in Client |-> NoName]
    /\ todo = [c \in Client |-> {}]
    /\ pending = [c \in Client |-> {}]
    /\ boot = [c \in Client |-> 1]
    /\ seq = [c \in Client |-> 0]
    /\ outcome = [o \in Op |-> "new"]
    /\ answer = [o \in Op |-> NoOp]
    /\ issued = [n \in Name |-> NoOp]
    /\ execs = [o \in Op |-> 0]
    /\ retired = {}
    /\ after = [o \in Op |-> 0]
    /\ leaked = {}

-----------------------------------------------------------------------------
(* The Python side.                                                        *)

\* Mutant: names as they would be without the boot token.
NextName_NoBoot(c) == [client |-> c, boot |-> 1, seq |-> seq[c] + 1]

\* _next_name after the increment of _seq.
NextName(c) == [client |-> c, boot |-> boot[c], seq |-> seq[c] + 1]

\* The client leaves its method.
Return(c) ==
    /\ pc' = [pc EXCEPT ![c] = "idle"]
    /\ call' = [call EXCEPT ![c] = "none"]
    /\ op' = [op EXCEPT ![c] = NoOp]
    /\ cur' = [cur EXCEPT ![c] = NoName]

\* send and collect_completed start with the names pending now.
BeginCollect(c, o, method) ==
    /\ pc[c] = "idle"
    /\ pc' = [pc EXCEPT ![c] = "collect"]
    /\ call' = [call EXCEPT ![c] = method]
    /\ op' = [op EXCEPT ![c] = o]
    /\ todo' = [todo EXCEPT ![c] = pending[c]]
    /\ UNCHANGED <<dir, engine, cur, pending, boot, seq, answer, history>>

Send(c, o) ==
    /\ outcome[o] = "new"
    /\ BeginCollect(c, o, "send")
    /\ outcome' = [outcome EXCEPT ![o] = "running"]

CollectCompleted(c) ==
    /\ pending[c] # {}
    /\ BeginCollect(c, NoOp, "collect")
    /\ UNCHANGED outcome

\* No response yet, or exists() raised: the name stays pending.
KeepPending(c, n) ==
    /\ pc[c] = "collect" /\ n \in todo[c]
    /\ res[n] = NoOp \/ MayFail
    /\ todo' = [todo EXCEPT ![c] = @ \ {n}]
    /\ UNCHANGED <<dir, engine, pc, call, op, cur, pending, boot, seq, reports, history>>

\* The response is there: discard it, then the request.
TakePending(c, n) ==
    /\ pc[c] = "collect" /\ n \in todo[c]
    /\ res[n] # NoOp
    /\ \/ res' = [res EXCEPT ![n] = NoOp] /\ oldRes' = oldRes \ {n}
       \/ MayFail /\ UNCHANGED <<res, oldRes>>
    /\ pc' = [pc EXCEPT ![c] = "retire"]
    /\ cur' = [cur EXCEPT ![c] = n]
    /\ todo' = [todo EXCEPT ![c] = @ \ {n}]
    /\ UNCHANGED <<req, oldReq, engine, call, op, pending, boot, seq, reports, history>>

\* Mutant: the unlink misses the file.
RemoveOwnRequest_Miss(n) ==
    /\ retired' = retired \cup {issued[n]}
    /\ UNCHANGED <<req, oldReq, leaked>>

\* unlink(req_<n>.js) by the client the request belongs to.
RemoveOwnRequest(n) ==
    /\ req' = [req EXCEPT ![n] = NoOp]
    /\ oldReq' = oldReq \ {n}
    /\ retired' = retired \cup {issued[n]}
    /\ UNCHANGED leaked

FailToRemoveRequest(n) ==
    /\ MayFail /\ req[n] # NoOp
    /\ leaked' = leaked \cup {n}
    /\ UNCHANGED <<req, oldReq, retired>>

\* Mutant: the request is left for the engine to remove.
DiscardRequest_Leave(n) == UNCHANGED <<req, oldReq, retired, leaked>>

\* _discard(req): its OSError is swallowed.
DiscardRequest(n) == RemoveOwnRequest(n) \/ FailToRemoveRequest(n)

\* collect_completed goes on with the other names, whatever the discard did.
RetirePending(c) ==
    /\ pc[c] = "retire" /\ call[c] # "wait"
    /\ DiscardRequest(cur[c])
    /\ pending' = [pending EXCEPT ![c] = @ \ {cur[c]}]
    /\ pc' = [pc EXCEPT ![c] = "collect"]
    /\ cur' = [cur EXCEPT ![c] = NoName]
    /\ UNCHANGED <<res, oldRes, engine, call, op, todo, boot, seq, reports,
                   issued, execs, after>>

CollectEnd(c) ==
    /\ pc[c] = "collect" /\ todo[c] = {} /\ call[c] = "collect"
    /\ Return(c)
    /\ UNCHANGED <<dir, engine, todo, pending, boot, seq, reports, history>>

\* tmp + os.replace under the next name: the file appears whole and fresh.
WriteRequest(c, o) ==
    /\ seq[c] < MaxSeq
    /\ seq' = [seq EXCEPT ![c] = @ + 1]
    /\ req' = [req EXCEPT ![NextName(c)] = o]
    /\ issued' = [issued EXCEPT ![NextName(c)] = o]
    /\ UNCHANGED <<res, oldReq, oldRes, execs, retired, after, leaked>>

\* The rest of send: the request is in the mailbox, True.
SendWrite(c) ==
    /\ pc[c] = "collect" /\ todo[c] = {} /\ call[c] = "send"
    /\ WriteRequest(c, op[c])
    /\ pending' = [pending EXCEPT ![c] = @ \cup {NextName(c)}]
    /\ outcome' = [outcome EXCEPT ![op[c]] = "queued"]
    /\ Return(c)
    /\ UNCHANGED <<engine, todo, boot, answer>>

\* OSError before the replace, with or without the name used up: False.
SendRefused(c) ==
    /\ MayFail
    /\ pc[c] = "collect" /\ todo[c] = {} /\ call[c] = "send"
    /\ \/ seq[c] < MaxSeq /\ seq' = [seq EXCEPT ![c] = @ + 1]
       \/ UNCHANGED seq
    /\ outcome' = [outcome EXCEPT ![op[c]] = "refused"]
    /\ Return(c)
    /\ UNCHANGED <<dir, engine, todo, pending, boot, answer, history>>

\* send_and_wait up to its polling loop.
SendAndWait(c, o) ==
    /\ pc[c] = "idle" /\ outcome[o] = "new"
    /\ WriteRequest(c, o)
    /\ pc' = [pc EXCEPT ![c] = "wait"]
    /\ call' = [call EXCEPT ![c] = "wait"]
    /\ op' = [op EXCEPT ![c] = o]
    /\ cur' = [cur EXCEPT ![c] = NextName(c)]
    /\ outcome' = [outcome EXCEPT ![o] = "running"]
    /\ UNCHANGED <<engine, todo, pending, boot, answer>>

SendAndWaitRefused(c, o) ==
    /\ MayFail
    /\ pc[c] = "idle" /\ outcome[o] = "new"
    /\ \/ seq[c] < MaxSeq /\ seq' = [seq EXCEPT ![c] = @ + 1]
       \/ UNCHANGED seq
    /\ outcome' = [outcome EXCEPT ![o] = "refused"]
    /\ UNCHANGED <<dir, engine, pc, call, op, cur, todo, pending, boot, answer, history>>

\* The response exists: read it and unlink it.  An OSError of either leaves
\* the loop polling with nothing changed.
TakeResponse(c) ==
    /\ pc[c] = "wait" /\ res[cur[c]] # NoOp
    /\ answer' = [answer EXCEPT ![op[c]] = res[cur[c]]]
    /\ res' = [res EXCEPT ![cur[c]] = NoOp]
    /\ oldRes' = oldRes \ {cur[c]}
    /\ pc' = [pc EXCEPT ![c] = "retire"]
    /\ UNCHANGED <<req, oldReq, engine, call, op, cur, todo, pending, boot, seq,
                   outcome, history>>

\* Discard the request the engine may have left, COMPLETED, return the body.
Complete(c) ==
    /\ pc[c] = "retire" /\ call[c] = "wait"
    /\ DiscardRequest(cur[c])
    /\ outcome' = [outcome EXCEPT ![op[c]] = "completed"]
    /\ Return(c)
    /\ UNCHANGED <<res, oldRes, engine, todo, pending, boot, seq, answer,
                   issued, execs, after>>

\* _discard(res): a response nobody will read, if it goes.
DiscardResponse(n) ==
    \/ res' = [res EXCEPT ![n] = NoOp] /\ oldRes' = oldRes \ {n}
    \/ MayFail /\ UNCHANGED <<res, oldRes>>

\* The deadline has passed: _cancel.  The unlink finds no request...
CancelExecuted(c) ==
    /\ pc[c] = "wait" /\ req[cur[c]] = NoOp
    /\ retired' = retired \cup {op[c]}
    /\ DiscardResponse(cur[c])
    /\ outcome' = [outcome EXCEPT ![op[c]] = "late"]
    /\ Return(c)
    /\ UNCHANGED <<req, oldReq, engine, todo, pending, boot, seq, answer,
                   issued, execs, after, leaked>>

\* ...or fails otherwise...
CancelUnknown(c) ==
    /\ pc[c] = "wait"
    /\ FailToRemoveRequest(cur[c])
    /\ DiscardResponse(cur[c])
    /\ outcome' = [outcome EXCEPT ![op[c]] = "unknown"]
    /\ Return(c)
    /\ UNCHANGED <<engine, todo, pending, boot, seq, answer, issued, execs, after>>

\* Mutant: a request that could be removed counts as one that has run.
CancelWithdraw_Ran(c) ==
    /\ pc[c] = "wait" /\ req[cur[c]] # NoOp
    /\ RemoveOwnRequest(cur[c])
    /\ outcome' = [outcome EXCEPT ![op[c]] = "late"]
    /\ Return(c)
    /\ UNCHANGED <<res, oldRes, engine, todo, pending, boot, seq, answer,
                   issued, execs, after>>

\* ...or removes it, and the response is watched for a while.
CancelWithdraw(c) ==
    /\ pc[c] = "wait" /\ req[cur[c]] # NoOp
    /\ RemoveOwnRequest(cur[c])
    /\ pc' = [pc EXCEPT ![c] = "observe"]
    /\ UNCHANGED <<res, oldRes, engine, call, op, cur, todo, pending, boot, seq,
                   reports, issued, execs, after>>

ObserveLate(c) ==
    /\ pc[c] = "observe" /\ res[cur[c]] # NoOp
    /\ DiscardResponse(cur[c])
    /\ outcome' = [outcome EXCEPT ![op[c]] = "late"]
    /\ Return(c)
    /\ UNCHANGED <<req, oldReq, engine, todo, pending, boot, seq, answer, history>>

\* Names of this run of this process.
Mine(c) == {n \in Name : n.client = c /\ n.boot = boot[c]}

\* The window closes.  _purge_own_stale removes the files of this run older
\* than _OWN_STALE_TTL_S: some of those past the shorter orphan threshold.
ObserveNothing(c) ==
    /\ pc[c] = "observe"
    /\ \E staleReq \in SUBSET (Mine(c) \cap oldReq), staleRes \in SUBSET (Mine(c) \cap oldRes) :
          /\ req' = [n \in Name |-> IF n \in staleReq THEN NoOp ELSE req[n]]
          /\ res' = [n \in Name |-> IF n \in staleRes THEN NoOp ELSE res[n]]
          /\ oldReq' = oldReq \ staleReq
          /\ oldRes' = oldRes \ staleRes
    /\ outcome' = [outcome EXCEPT ![op[c]] = "withdrawn"]
    /\ Return(c)
    /\ UNCHANGED <<engine, todo, pending, boot, seq, answer, history>>

\* The process ends at any step and a new one gets its pid, a boot token of
\* its own and a FileBridge that knows of no pending send.
Restart(c) ==
    /\ boot[c] < MaxBoot
    /\ boot' = [boot EXCEPT ![c] = @ + 1]
    /\ seq' = [seq EXCEPT ![c] = 0]
    /\ pending' = [pending EXCEPT ![c] = {}]
    /\ todo' = [todo EXCEPT ![c] = {}]
    /\ outcome' = [o \in Op |-> IF o = op[c] THEN "lost" ELSE outcome[o]]
    /\ Return(c)
    /\ UNCHANGED <<dir, engine, answer, history>>

-----------------------------------------------------------------------------
(* The Script Engine: one fileBridgeTick after another, on a timer.        *)

\* The heartbeat, then the listing of the directory.
TickStart ==
    /\ se = "idle"
    /\ se' = "scan"
    /\ listReq' = {n \in Name : req[n] # NoOp}
    /\ listRes' = {n \in Name : res[n] # NoOp}
    /\ UNCHANGED <<dir, job, local, reports, history>>

\* Mutant: responses are never purged.
VisitResponse_Keep(n) ==
    /\ se = "scan" /\ n \in listRes
    /\ listRes' = listRes \ {n}
    /\ UNCHANGED <<dir, se, listReq, job, local, reports, history>>

\* A response is only ever purged for its age; a failure leaves it there.
VisitResponse(n) ==
    /\ se = "scan" /\ n \in listRes
    /\ \/ n \in oldRes /\ res' = [res EXCEPT ![n] = NoOp] /\ oldRes' = oldRes \ {n}
       \/ (n \notin oldRes \/ MayFail) /\ UNCHANGED <<res, oldRes>>
    /\ listRes' = listRes \ {n}
    /\ UNCHANGED <<req, oldReq, se, listReq, job, local, reports, history>>

\* An orphan request is removed, not evaluated.
PurgeRequest(n) ==
    /\ se = "scan" /\ n \in listReq /\ n \in oldReq
    /\ req' = [req EXCEPT ![n] = NoOp]
    /\ oldReq' = oldReq \ {n}
    /\ listReq' = listReq \ {n}
    /\ UNCHANGED <<res, oldRes, se, listRes, job, local, reports, history>>

\* The content cannot be read: always so when the client took the file back
\* after the listing.
SkipRequest(n) ==
    /\ se = "scan" /\ n \in listReq
    /\ req[n] = NoOp \/ MayFail
    /\ listReq' = listReq \ {n}
    /\ UNCHANGED <<dir, se, listRes, job, local, reports, history>>

\* A purge that throws falls through to the evaluation.
ReadRequest(n) ==
    /\ se = "scan" /\ n \in listReq
    /\ req[n] # NoOp
    /\ n \notin oldReq \/ MayFail
    /\ job' = [name |-> n, op |-> req[n]]
    /\ listReq' = listReq \ {n}
    /\ se' = "evaluate"
    /\ UNCHANGED <<dir, listRes, local, reports, history>>

\* runFileBridgeCommand: an exception of the payload is a result as well.
Evaluate ==
    /\ se = "evaluate"
    /\ se' = "reply"
    /\ execs' = [execs EXCEPT ![job.op] = Count(@)]
    /\ after' = [after EXCEPT ![job.op] = IF job.op \in retired THEN Count(@) ELSE @]
    /\ UNCHANGED <<dir, listReq, listRes, job, local, reports, issued, retired, leaked>>

Reply ==
    /\ se = "reply"
    /\ \/ res' = [res EXCEPT ![job.name] = job.op] /\ oldRes' = oldRes \ {job.name}
       \/ MayFail /\ UNCHANGED <<res, oldRes>>
    /\ se' = "remove"
    /\ UNCHANGED <<req, oldReq, listReq, listRes, job, local, reports, history>>

\* removeFile: its exception is swallowed, so the request is listed again.
RemoveRequest ==
    /\ se = "remove"
    /\ \/ req' = [req EXCEPT ![job.name] = NoOp] /\ oldReq' = oldReq \ {job.name}
       \/ MayFail /\ UNCHANGED <<req, oldReq>>
    /\ se' = "scan"
    /\ job' = NoJob
    /\ UNCHANGED <<res, oldRes, listReq, listRes, local, reports, history>>

TickEnd ==
    /\ se = "scan" /\ listReq = {} /\ listRes = {}
    /\ se' = "idle"
    /\ UNCHANGED <<dir, listReq, listRes, job, local, reports, history>>

\* Packet Tracer is opened, and closed in the middle of anything.
OpenPacketTracer ==
    /\ se = "down"
    /\ se' = "idle"
    /\ UNCHANGED <<dir, listReq, listRes, job, local, reports, history>>

ClosePacketTracer ==
    /\ se # "down"
    /\ se' = "down" /\ listReq' = {} /\ listRes' = {} /\ job' = NoJob
    /\ UNCHANGED <<dir, local, reports, history>>

-----------------------------------------------------------------------------
(* Time.  No caller waits as long as a request takes to become an orphan:  *)
(* send_and_wait is called with at most 30 s.                              *)

\* Mutant: a caller waits longer than the orphan threshold.
WaitedFor_Long(n) == FALSE

WaitedFor(n) == \E c \in Client : pc[c] = "wait" /\ cur[c] = n

AgeRequest(n) ==
    /\ req[n] # NoOp /\ n \notin oldReq /\ ~WaitedFor(n)
    /\ oldReq' = oldReq \cup {n}
    /\ UNCHANGED <<req, res, oldRes, engine, local, reports, history>>

AgeResponse(n) ==
    /\ res[n] # NoOp /\ n \notin oldRes
    /\ oldRes' = oldRes \cup {n}
    /\ UNCHANGED <<req, res, oldReq, engine, local, reports, history>>

-----------------------------------------------------------------------------
(* A step of a client inside a method it has been called with.             *)
ClientStep(c) ==
    \/ \E n \in Name : KeepPending(c, n) \/ TakePending(c, n)
    \/ RetirePending(c) \/ CollectEnd(c) \/ SendWrite(c) \/ SendRefused(c)
    \/ TakeResponse(c) \/ Complete(c)
    \/ CancelExecuted(c) \/ CancelUnknown(c) \/ CancelWithdraw(c)
    \/ ObserveLate(c) \/ ObserveNothing(c)

ClientCall(c) ==
    \/ \E o \in Op : Send(c, o) \/ SendAndWait(c, o) \/ SendAndWaitRefused(c, o)
    \/ CollectCompleted(c)

EngineStep ==
    \/ TickStart
    \/ \E n \in Name : VisitResponse(n) \/ PurgeRequest(n) \/ SkipRequest(n) \/ ReadRequest(n)
    \/ Evaluate \/ Reply \/ RemoveRequest \/ TickEnd

Age == \E n \in Name : AgeRequest(n) \/ AgeResponse(n)

Next ==
    \/ \E c \in Client : ClientCall(c) \/ ClientStep(c) \/ Restart(c)
    \/ EngineStep \/ OpenPacketTracer \/ ClosePacketTracer
    \/ Age

Spec == Init /\ [][Next]_vars

\* The engine's timer, the clock and a client inside a method go on; nobody
\* has to call, to restart or to open or close Packet Tracer.
Fairness ==
    /\ WF_vars(EngineStep)
    /\ WF_vars(Age)
    /\ \A c \in Client : WF_vars(ClientStep(c))

FairSpec == Spec /\ Fairness

-----------------------------------------------------------------------------
(* Properties.                                                             *)

TypeOK ==
    /\ req \in [Name -> Payload]
    /\ res \in [Name -> Payload]
    /\ oldReq \subseteq Name /\ oldRes \subseteq Name
    /\ se \in {"down", "idle", "scan", "evaluate", "reply", "remove"}
    /\ listReq \subseteq Name /\ listRes \subseteq Name
    /\ job \in [name : Name \cup {NoName}, op : Payload]
    /\ pc \in [Client -> {"idle", "collect", "retire", "wait", "observe"}]
    /\ call \in [Client -> {"none", "send", "collect", "wait"}]
    /\ op \in [Client -> Payload]
    /\ cur \in [Client -> Name \cup {NoName}]
    /\ todo \in [Client -> SUBSET Name]
    /\ pending \in [Client -> SUBSET Name]
    /\ boot \in [Client -> 1..MaxBoot]
    /\ seq \in [Client -> 0..MaxSeq]
    /\ outcome \in [Op -> {"new", "running", "queued", "refused", "completed",
                           "withdrawn", "late", "unknown", "lost"}]
    /\ answer \in [Op -> Payload]
    /\ issued \in [Name -> Payload]
    /\ execs \in [Op -> 0..2]
    /\ retired \subseteq Payload
    /\ after \in [Op -> 0..2]
    /\ leaked \subseteq Name
    \* The engine evaluates what it has read, a client inside a method has
    \* what the method works on.
    /\ se \in {"evaluate", "reply", "remove"} => job \in [name : Name, op : Op]
    /\ \A c \in Client : pc[c] \in {"retire", "wait", "observe"} => cur[c] \in Name
    /\ \A c \in Client : call[c] \in {"send", "wait"} => op[c] \in Op

\* A body send_and_wait hands back is the result of the operation it was
\* called for: the boot token keeps a restarted process, whose pid and
\* sequence repeat, from the files the previous one left (file_bridge.py,
\* _next_name and the comment on _boot).
AnswerIsOwn == \A o \in Op : answer[o] \in {NoOp, o}

\* COMPLETED and EXECUTED_LATE both say that Packet Tracer did evaluate the
\* payload; the second is concluded from an unlink that found nothing
\* (file_bridge.py, _cancel), although the engine removes files it never
\* evaluated as well.
ReportedWasEvaluated ==
    \A o \in Op : outcome[o] \in {"completed", "late"} => execs[o] >= 1

\* A send the bridge no longer counts as pending was evaluated: callers take
\* an empty _pending after collect_completed as the end of the dispatch
\* (file_bridge.py, collect_completed and has_pending_requests).
CollectedWasEvaluated ==
    \A n \in Name :
        /\ issued[n] # NoOp /\ n.boot = boot[n.client]
        /\ outcome[issued[n]] = "queued"
        /\ n \notin pending[n.client]
        => execs[issued[n]] >= 1

\* Every request in the mailbox that this run of a process wrote is one it
\* still answers for, a pending send or the request it is busy with, unless
\* the file system refused to remove it.
OwnRequestsAreTracked ==
    \A n \in Name :
        req[n] # NoOp /\ n.boot = boot[n.client]
        => n \in pending[n.client] \cup {cur[n.client]} \cup leaked

\* Once the client has seen its request file go, the engine evaluates the
\* payload at most one more time: the evaluation it had already read it for
\* (file_bridge.py, the reason send_and_wait and collect_completed remove
\* the request themselves).
AtMostOneEvaluationAfterRetirement ==
    \A o \in Op : o \in retired => after[o] <= 1

\* When files can be removed and Packet Tracer stays open, the mailbox is
\* empty in the end: each request is evaluated, withdrawn or purged, and each
\* response is read, discarded or purged (fileBridgeTick, "Evita que el buzon
\* crezca").
MailboxDrains ==
    <>[](se # "down") => <>[](\A n \in Name : req[n] = NoOp /\ res[n] = NoOp)

\* What the bridge has told the caller of each operation: that it ran, that
\* the caller has to do without an answer, or nothing so far.
Told == [o \in Op |->
    CASE outcome[o] \in {"completed", "late"} -> "ran"
      [] outcome[o] \in {"refused", "withdrawn", "unknown", "lost"} -> "nothing"
      [] OTHER -> "waiting"]

\* Operations a request file was written for.
Accepted == {issued[n] : n \in Name} \ {NoOp}

\* The mailbox is a channel that may run a command again, and says that one
\* ran only when it did (file_bridge.py, RequestDisposition: none of its
\* values says that a command did not run).
Delivery == INSTANCE CommandDelivery WITH
    Cmd <- Op,
    MayRepeat <- TRUE,
    accepted <- Accepted,
    execs <- execs,
    told <- Told

DeliversCommands == Delivery!Spec
=============================================================================
