------------------------------ MODULE LiveDeploy ------------------------------
(***************************************************************************)
(* pt_live_deploy for plans without a physical topology hash               *)
(* (adapters/mcp/tool_registry.py), over the two channels to Packet        *)
(* Tracer: the choice of the channel, the batches of commands, the         *)
(* verification of every device and link, and the reconcile that sends     *)
(* commands again.                                                         *)
(*                                                                         *)
(* A payload adds items, or asks for one and reports what was found.  The  *)
(* HTTP channel runs the payloads of one poll as one script, and every     *)
(* result goes to the caller of its last question (HttpBridge); the        *)
(* mailbox runs them one by one, in the order of their names, but for a    *)
(* request that cannot be read, which is passed over, and for one that     *)
(* cannot be removed, which runs again on every tick (FileBridge).  The    *)
(* tools of the server run one at a time, so a deployment starts when the  *)
(* one before is over, but what that one left in a channel is still there. *)
(***************************************************************************)
EXTENDS Naturals, Sequences

CONSTANTS
    Plan,       \* the plans deployed, each a sequence of commands by item
    Device,     \* items of the plans that are devices; the others are links
    Ends,       \* Ends[l]: the devices of the link l
    Probe,      \* the item of the health probe
    Chunk,      \* _DEPLOY_BATCH
    MaxBatch,   \* payloads of one HTTP poll
    MaxFaults   \* bound: stops of executors, and requests that cannot be read or removed

Items(p) == {Plan[p][k] : k \in 1..Len(Plan[p])}
Item == UNION {Items(p) : p \in 1..Len(Plan)}
Link == Item \ Device

Channel == {"http", "file"}
None == "none"

\* A plan has a command for each device, and then one for each link; two plans
\* have nothing in common.
ASSUME DeployAssumption ==
    /\ Plan \in Seq(Seq(Item))
    /\ \A p \in 1..Len(Plan) : \A j, k \in 1..Len(Plan[p]) : j < k =>
          Plan[p][j] # Plan[p][k] /\ (Plan[p][k] \in Device => Plan[p][j] \in Device)
    /\ \A p, q \in 1..Len(Plan) : p # q => Items(p) \cap Items(q) = {}
    /\ Device \subseteq Item /\ Ends \in [Link -> SUBSET Device]
    /\ Probe \notin Item /\ {None, "refused"} \cap (Item \cup {Probe}) = {}
    /\ Chunk \in Nat \ {0} /\ MaxBatch \in Nat \ {0} /\ MaxFaults \in Nat

\* No result yet, and a question that could not be sent.
Nothing == [item |-> None, found |-> FALSE]
Refused == [item |-> "refused", found |-> FALSE]

VARIABLES
    \* The channels and their executors.
    up,         \* channels whose executor runs: the webview, the Script Engine
    fresh,      \* channels with a poll or a heartbeat that is still recent
    faults,     \* how often one has stopped, or a request has slipped
    box,        \* payloads waiting in each channel
    stuck,      \* requests of the mailbox that slipped and are still there
    copies,     \* how many of each item are in the workspace, 2 for more
    \* The tool.
    plan,       \* the deployment it is in, or the last one
    pc,         \* where it is
    responsive, \* channels whose probe came back
    pinned,     \* operation_channel
    sent,       \* commands sent
    todo,       \* items still to verify, or commands still to send again
    failed,     \* dev_fail and link_fail_objs
    asked,      \* the item a result is awaited for
    reply,      \* the result that came
    result,     \* what each deployment returned
    \* History.
    resent,     \* commands the reconcile has put into a channel
    kept,       \* commands whose request was still there after it had run
    gaveUp      \* whether a result was ever waited for in vain

channels == <<up, fresh, faults, box, stuck>>
tool     == <<plan, pc, responsive, pinned, sent, todo, failed, asked, reply, result>>
history  == <<resent, kept, gaveUp>>
vars     == <<channels, copies, tool, history>>

Init ==
    /\ up = Channel /\ fresh = Channel /\ faults = 0
    /\ box = [ch \in Channel |-> <<>>]
    /\ stuck = {}
    /\ copies = [i \in Item |-> 0]
    /\ plan = 0 /\ pc = "idle"
    /\ responsive = {} /\ pinned = None
    /\ sent = 0 /\ todo = {} /\ failed = {}
    /\ asked = None /\ reply = Nothing
    /\ result = [p \in 1..Len(Plan) |-> None]
    /\ resent = {} /\ kept = {}
    /\ gaveUp = FALSE

\* Commands that add items, and the question whether one is there, which
\* somebody waits for or not.
Commands(is) == [adds |-> is, asks |-> None, live |-> FALSE]
Question(i)  == [adds |-> {}, asks |-> i, live |-> TRUE]

-----------------------------------------------------------------------------
(* Packet Tracer and what happens to the channels.                         *)

\* A closed window, a modal dialog, a long evaluation: the executor stops,
\* and its last sign of life is recent for a while.
StopExecutor(ch) ==
    /\ ch \in up /\ faults < MaxFaults
    /\ up' = up \ {ch}
    /\ faults' = faults + 1
    /\ UNCHANGED <<fresh, box, stuck, copies, tool, history>>

GoStale(ch) ==
    /\ ch \in fresh \ up
    /\ fresh' = fresh \ {ch}
    /\ UNCHANGED <<up, faults, box, stuck, copies, tool, history>>

\* It goes on.  The mailbox purges what has become too old meanwhile.
ResumeExecutor(ch) ==
    /\ ch \notin up
    /\ up' = up \cup {ch} /\ fresh' = fresh \cup {ch}
    /\ \E purged \in 0..(IF ch = "file" THEN Len(box[ch]) ELSE 0) :
          box' = [box EXCEPT ![ch] = SubSeq(@, purged + 1, Len(@))]
    /\ UNCHANGED <<faults, stuck, copies, tool, history>>

\* What the commands that work make of a workspace: lwAddDevice adds a device
\* whether there is one of that name or not; lwAddLink finds its ends free,
\* and the devices there, or does nothing.
Effect(works, ws) ==
    LET made == [i \in Item |-> IF i \in works \cap Device THEN IF ws[i] = 0 THEN 1 ELSE 2
                                ELSE ws[i]]
    IN  [i \in Item |-> IF i \in works \ Device /\ \A d \in Ends[i] : made[d] > 0 THEN 1
                        ELSE made[i]]

Found(i, ws) == [item |-> i, found |-> i = Probe \/ ws[i] > 0]

\* How a payload may go on with a run, which is the workspace, the first
\* answer given, and whether somebody waits for the last: a command may fail
\* without a word.
Ran(payload, run) ==
    IF payload.asks = None
    THEN {[run EXCEPT !.ws = Effect(works, @)] : works \in SUBSET payload.adds}
    ELSE {[run EXCEPT !.said = IF @ = Nothing THEN Found(payload.asks, run.ws) ELSE @,
                      !.live = payload.live]}

\* How the first n payloads of a queue may run, as one script.
Runs(q, n, ws) ==
    LET ran[k \in 0..n] ==
            IF k = 0 THEN {[ws |-> ws, said |-> Nothing, live |-> FALSE]}
            ELSE UNION {Ran(q[k], run) : run \in ran[k - 1]}
    IN  ran[n]

Execute(ch, n) ==
    /\ ch \in up /\ n \in 1..Len(box[ch])
    /\ \E run \in Runs(box[ch], n, copies) :
          /\ copies' = run.ws
          /\ reply' = IF run.live THEN run.said ELSE reply
    /\ box' = [box EXCEPT ![ch] = SubSeq(@, n + 1, Len(@))]
    /\ UNCHANGED <<up, fresh, faults, stuck, plan, pc, responsive, pinned, sent, todo,
                   failed, asked, result, history>>

ExecuteHttp == \E n \in 1..MaxBatch : Execute("http", n)
ExecuteFile == Execute("file", 1)

\* The first request of the mailbox, when it is one of commands, slips: it
\* stays behind, and those after it run.  A question that slips is only a
\* later one, or one answered again for nobody.
Slips(ran) ==
    /\ "file" \in up /\ faults < MaxFaults
    /\ box["file"] # <<>> /\ box["file"][1].asks = None
    /\ faults' = faults + 1
    /\ stuck' = stuck \cup {[id |-> faults, adds |-> box["file"][1].adds, ran |-> ran]}
    /\ box' = [box EXCEPT !["file"] = SubSeq(@, 2, Len(@))]
    /\ UNCHANGED <<up, fresh, tool, resent, gaveUp>>

Works(adds) == \E works \in SUBSET adds : copies' = Effect(works, copies)

\* getFileContents throws, and the tick goes on with the next file.
SkipRequest == Slips(FALSE) /\ UNCHANGED <<copies, kept>>

\* It ran and removeFile throws: the request is there for the next tick too.
KeepRequest ==
    /\ Slips(TRUE)
    /\ Works(box["file"][1].adds)
    /\ kept' = kept \cup box["file"][1].adds

\* A tick that can read it runs it, for the first time or again, and removes
\* it or not.
RunStuck(r) ==
    /\ "file" \in up /\ Works(r.adds)
    /\ \/ stuck' = stuck \ {r} /\ UNCHANGED kept
       \/ /\ stuck' = (stuck \ {r}) \cup {[r EXCEPT !.ran = TRUE]}
          /\ kept' = kept \cup r.adds
    /\ UNCHANGED <<up, fresh, faults, box, tool, resent, gaveUp>>

\* It has become old, for the mailbox or for the sender (_purge_own_stale).
PurgeStuck(r) ==
    /\ stuck' = stuck \ {r}
    /\ UNCHANGED <<up, fresh, faults, box, copies, tool, history>>

\* The window closes on a poll that has already drained the queue.
LoseBatch(n) ==
    /\ "http" \in up /\ n \in 1..Len(box["http"]) /\ faults < MaxFaults
    /\ up' = up \ {"http"}
    /\ faults' = faults + 1
    /\ box' = [box EXCEPT !["http"] = SubSeq(@, n + 1, Len(@))]
    /\ UNCHANGED <<fresh, stuck, copies, tool, history>>

-----------------------------------------------------------------------------
(* Sending and asking, on one channel and no other.                        *)

\* A payload that is in the channel, whether or not the sender knows: a POST
\* to /queue may be answered too late.
Queued(ch, payload) == box' = [box EXCEPT ![ch] = Append(@, payload)]

\* collect_completed: before it writes, the sender removes the requests that
\* were answered, as far as it finds their answers and can.
Collects(ch) ==
    \E gone \in SUBSET {r \in stuck : ch = "file" /\ r.ran} : stuck' = stuck \ gone

\* The result of _channel_send.
Sends(ch, payload, ok) ==
    /\ Collects(ch)
    /\ \/ ok /\ Queued(ch, payload)
       \/ ~ok /\ UNCHANGED box
       \/ ~ok /\ ch = "http" /\ Queued(ch, payload)

\* _bridge_send_and_wait: the question is out, or was refused at once.
Ask(ch, i) ==
    /\ asked = None
    /\ \/ Queued(ch, Question(i)) /\ reply' = Nothing
       \/ UNCHANGED box /\ reply' = Refused
    /\ asked' = i

\* Nobody waits for the question any more, the last one of its channel.  The
\* mailbox takes the request back, the queue of the bridge does not.
Withdrawn(ch) ==
    IF ch = "http"
    THEN [box EXCEPT ![ch] = [k \in 1..Len(@) |-> [@[k] EXCEPT !.live = FALSE]]]
    ELSE [box EXCEPT ![ch] = IF @ # <<>> /\ @[Len(@)].live THEN SubSeq(@, 1, Len(@) - 1) ELSE @]

\* Mutant: the tool waits for as long as it takes.
TimedOut_Never(ch) == FALSE

\* The wait is over without a result.
TimedOut(ch) ==
    /\ asked # None /\ reply = Nothing
    /\ box' = Withdrawn(ch)
    /\ gaveUp' = TRUE

Answered == asked # None /\ reply # Nothing

\* What the tool takes for the confirmation of i: "OK" is the same word for
\* every device, a marker and an observation of a link name what they are of.
Confirms(i) ==
    /\ reply.found
    /\ IF i \in Device THEN reply.item \in Device ELSE reply.item = i

Settled == asked' = None /\ reply' = Nothing

-----------------------------------------------------------------------------
(* The choice of the channel.                                              *)

Return(r) ==
    /\ result' = [result EXCEPT ![plan] = r]
    /\ pc' = "idle"

\* _check_bridge: is there a recent sign of life?
Start ==
    /\ pc = "idle" /\ plan < Len(Plan)
    /\ plan' = plan + 1
    /\ IF fresh = {} THEN /\ result' = [result EXCEPT ![plan + 1] = "no_bridge"]
                          /\ UNCHANGED pc
       ELSE pc' = "http" /\ UNCHANGED result
    /\ responsive' = {} /\ pinned' = None
    /\ sent' = 0 /\ todo' = {} /\ failed' = {}
    /\ UNCHANGED <<channels, copies, asked, reply, history>>

AfterProbe(ch) == IF ch = "http" THEN "file" ELSE "select"

\* _command_path_probe, over each channel with a recent sign of life.
SendProbe(ch) ==
    /\ pc = ch
    /\ ch \in fresh
    /\ Ask(ch, Probe)
    /\ UNCHANGED <<up, fresh, faults, stuck, copies, plan, pc, responsive, pinned, sent,
                   todo, failed, result, history>>

SkipProbe(ch) ==
    /\ pc = ch /\ asked = None
    /\ ch \notin fresh
    /\ pc' = AfterProbe(ch)
    /\ UNCHANGED <<channels, copies, plan, responsive, pinned, sent, todo, failed,
                   asked, reply, result, history>>

ProbeAnswered(ch) ==
    /\ pc = ch /\ Answered
    /\ responsive' = IF Confirms(Probe) THEN responsive \cup {ch} ELSE responsive
    /\ pc' = AfterProbe(ch)
    /\ Settled
    /\ UNCHANGED <<channels, copies, plan, pinned, sent, todo, failed, result, history>>

ProbeTimedOut(ch) ==
    /\ pc = ch /\ TimedOut(ch)
    /\ pc' = AfterProbe(ch)
    /\ Settled
    /\ UNCHANGED <<up, fresh, faults, stuck, copies, plan, responsive, pinned, sent,
                   todo, failed, result, resent, kept>>

\* Mutant: a recent sign of life is enough.
Selectable_Fresh == fresh

\* TransportHealth.selectable, when a probe was asked for.
Selectable == responsive

\* select_transport, with HTTP preferred.
Select ==
    /\ pc = "select"
    /\ IF Selectable = {} THEN Return("no_channel") /\ UNCHANGED pinned
       ELSE /\ pinned' = IF "http" \in Selectable THEN "http" ELSE "file"
            /\ pc' = "send"
            /\ UNCHANGED result
    /\ UNCHANGED <<channels, copies, plan, responsive, sent, todo, failed, asked,
                   reply, history>>

-----------------------------------------------------------------------------
(* The deployment.                                                         *)

Least(a, b) == IF a < b THEN a ELSE b

\* Mutant: a batch that could not be sent is sent again with the next one.
SendBatch_Again ==
    /\ pc = "send" /\ sent < Len(Plan[plan])
    /\ LET upto == Least(sent + Chunk, Len(Plan[plan]))
       IN \E ok \in BOOLEAN :
            /\ Sends(pinned, Commands({Plan[plan][k] : k \in sent + 1..upto}), ok)
            /\ sent' = IF ok THEN upto ELSE sent
    /\ UNCHANGED <<up, fresh, faults, copies, plan, pc, result, responsive, pinned, todo,
                   failed, asked, reply, history>>

\* The next batch of commands, on the channel it was given.
SendBatch ==
    /\ pc = "send" /\ sent < Len(Plan[plan])
    /\ LET upto == Least(sent + Chunk, Len(Plan[plan]))
       IN \E ok \in BOOLEAN :
            /\ Sends(pinned, Commands({Plan[plan][k] : k \in sent + 1..upto}), ok)
            /\ IF ok THEN sent' = upto /\ UNCHANGED <<pc, result>>
               ELSE Return("send_failed") /\ UNCHANGED sent
    /\ UNCHANGED <<up, fresh, faults, copies, plan, responsive, pinned, todo, failed,
                   asked, reply, history>>

\* The one of them whose command comes first.
Foremost(is) ==
    {i \in is : \E k \in 1..Len(Plan[plan]) :
                   Plan[plan][k] = i /\ \A j \in 1..k-1 : Plan[plan][j] \notin is}

BeginVerify ==
    /\ pc = "send" /\ sent = Len(Plan[plan])
    /\ pc' = "verify"
    /\ todo' = Items(plan)
    /\ UNCHANGED <<channels, copies, plan, responsive, pinned, sent, failed, asked,
                   reply, result, history>>

AskItem ==
    /\ pc \in {"verify", "reverify"}
    /\ \E i \in Foremost(todo) : Ask(pinned, i)
    /\ UNCHANGED <<up, fresh, faults, stuck, copies, plan, pc, responsive, pinned, sent,
                   todo, failed, result, history>>

\* Mutant: a result that did not come counts as present.
ItemTimedOut_Present ==
    /\ pc \in {"verify", "reverify"} /\ TimedOut(pinned)
    /\ todo' = todo \ {asked}
    /\ failed' = failed \ {asked}
    /\ Settled
    /\ UNCHANGED <<up, fresh, faults, stuck, copies, plan, pc, responsive, pinned, sent,
                   result, resent, kept>>

\* No result is the same as MISSING.
ItemTimedOut ==
    /\ pc \in {"verify", "reverify"} /\ TimedOut(pinned)
    /\ todo' = todo \ {asked}
    /\ failed' = failed \cup {asked}
    /\ Settled
    /\ UNCHANGED <<up, fresh, faults, stuck, copies, plan, pc, responsive, pinned, sent,
                   result, resent, kept>>

ItemAnswered ==
    /\ pc \in {"verify", "reverify"} /\ Answered
    /\ todo' = todo \ {asked}
    /\ failed' = IF Confirms(asked) THEN failed \ {asked} ELSE failed \cup {asked}
    /\ Settled
    /\ UNCHANGED <<channels, copies, plan, pc, responsive, pinned, sent, result, history>>

\* retry_cmds: every command that names a device that is missing or at an
\* end of a link that is missing.
Retried ==
    LET names == (failed \cap Device) \cup UNION {Ends[l] : l \in failed \cap Link}
    IN {i \in Items(plan) : IF i \in Device THEN i \in names ELSE Ends[i] \cap names # {}}

EndVerify ==
    /\ pc = "verify" /\ todo = {}
    /\ IF failed = {} THEN Return("ok") /\ UNCHANGED todo
       ELSE pc' = "resend" /\ todo' = Retried /\ UNCHANGED result
    /\ UNCHANGED <<channels, copies, plan, responsive, pinned, sent, failed, asked,
                   reply, history>>

\* One command at a time.
Resend ==
    /\ pc = "resend"
    /\ \E i \in Foremost(todo), ok \in BOOLEAN :
          /\ Sends(pinned, Commands({i}), ok)
          /\ IF ok THEN todo' = todo \ {i} /\ UNCHANGED <<pc, result>>
             ELSE Return("reconcile_failed") /\ UNCHANGED todo
          /\ resent' = resent \cup {i}
    /\ UNCHANGED <<up, fresh, faults, copies, plan, responsive, pinned, sent, failed,
                   asked, reply, kept, gaveUp>>

BeginReverify ==
    /\ pc = "resend" /\ todo = {}
    /\ pc' = "reverify"
    /\ todo' = failed
    /\ UNCHANGED <<channels, copies, plan, responsive, pinned, sent, failed, asked,
                   reply, result, history>>

EndReverify ==
    /\ pc = "reverify" /\ todo = {}
    /\ Return(IF failed = {} THEN "ok" ELSE "incomplete")
    /\ UNCHANGED <<channels, copies, plan, responsive, pinned, sent, todo, failed,
                   asked, reply, history>>

-----------------------------------------------------------------------------
ToolStep ==
    \/ \E ch \in Channel :
          SendProbe(ch) \/ SkipProbe(ch) \/ ProbeAnswered(ch) \/ ProbeTimedOut(ch)
    \/ Select \/ SendBatch \/ BeginVerify
    \/ AskItem \/ ItemTimedOut \/ ItemAnswered
    \/ EndVerify \/ Resend \/ BeginReverify \/ EndReverify

Environment ==
    \/ \E ch \in Channel : StopExecutor(ch) \/ GoStale(ch) \/ ResumeExecutor(ch)
    \/ ExecuteHttp \/ ExecuteFile
    \/ SkipRequest \/ KeepRequest
    \/ \E r \in stuck : RunStuck(r) \/ PurgeStuck(r)
    \/ \E n \in 1..MaxBatch : LoseBatch(n)

Next == Start \/ ToolStep \/ Environment

Spec == Init /\ [][Next]_vars

\* The tool runs and its clocks do.
FairSpec == Spec /\ WF_vars(ToolStep)

-----------------------------------------------------------------------------
(* Properties.                                                             *)

\* "[OK] Topologia fisica desplegada y observada": every device and link of
\* the plan is in the workspace.  Over HTTP an answer may be that of an
\* earlier question, so this is so as long as none was given up
\* (correlated_http_send_and_wait; HttpBridge shows the crossing).
ReportedIsPresent ==
    \A p \in 1..Len(Plan) :
        result[p] = "ok" /\ (pinned = "file" \/ ~gaveUp) /\ p = plan
        => \A i \in Items(p) : copies[i] > 0

\* A command is applied a second time only when the reconcile has sent it
\* again or the mailbox could not remove its request: an ambiguous send ends
\* the deployment instead (pt_live_deploy, "No se reejecuto el lote por otro
\* canal"), and a request that was read late has still run once.
RepeatedForCause == \A i \in Item : copies[i] > 1 => i \in resent \cup kept

\* While a deployment sends and verifies, no command of an earlier one waits
\* in front of it in its channel: the answer of the probe came after they had
\* run or were lost (_command_path_probe), or had slipped out of the order.
EarlierIsOver ==
    pinned # None /\ pc # "idle" =>
        \A k \in 1..Len(box[pinned]) : box[pinned][k].adds \subseteq Items(plan)

\* What the comment on the reconcile says: it sends the commands "de los
\* items faltantes".  The devices at the ends of a missing link are sent
\* again as well, and so is what a question timed out about.
NothingIsAddedTwice == \A i \in Device : copies[i] <= 1

\* A deployment ends, whatever the executors do: every wait has its timeout.
DeploymentEnds == pc # "idle" ~> pc = "idle"
=============================================================================
