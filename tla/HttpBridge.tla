----------------------------- MODULE HttpBridge -----------------------------
(***************************************************************************)
(* The HTTP bridge: the loopback server of live_bridge.py, its callers     *)
(* (correlated_http_send_and_wait and the fire-and-forget send), and the   *)
(* webview that polls it and hands every batch to Packet Tracer.           *)
(*                                                                         *)
(* The server answers each request in a thread of its own, so the handlers *)
(* of all operations interleave between one lock acquisition and the next. *)
(* A caller may give up on a response while the handler behind it goes on; *)
(* a response to the webview may find nobody there any more.               *)
(*                                                                         *)
(* An operation stands for its rid, its command and its result.  Which     *)
(* tombstone is the oldest, and when exactly a slot is RESULT_TTL_SECONDS  *)
(* old, is left open.                                                      *)
(***************************************************************************)
EXTENDS Naturals, Sequences, FiniteSets

CONSTANTS
    Ask,            \* result-bearing operations, by rid
    Tell,           \* fire-and-forget commands
    NoBody,         \* no result
    MaxQueueItems,  \* MAX_QUEUE_ITEMS
    MaxResultItems, \* MAX_RESULT_ITEMS
    MaxBatch,       \* MAX_BATCH_COMMANDS
    MayLose         \* whether requests and responses may get lost

ASSUME HttpAssumption ==
    /\ MaxQueueItems \in Nat \ {0}
    /\ MaxResultItems \in Nat \ {0}
    /\ MaxBatch \in Nat \ {0}
    /\ MayLose \in BOOLEAN
    /\ Ask \cap Tell = {}
    /\ NoBody \notin Ask

Op == Ask \cup Tell

VARIABLES
    \* The callers.
    caller,     \* where each operation's caller is
    answer,     \* the body it returned
    \* The server.
    handler,    \* where the request handler of each operation is
    slot,       \* _results: the state of each rid's slot
    body,       \* the result in a ready slot, and the one on its way back
    expired,    \* slots older than the TTL
    queue,      \* _queue
    \* The webview and Packet Tracer.
    batch,      \* the commands of one /next response
    posts,      \* results on their way to POST /result
    \* History.
    arrival,    \* operations in the order they were queued
    lost,       \* operations of a batch that was lost
    ran         \* the batches Packet Tracer evaluated, in order

callers == <<caller, answer>>
results == <<slot, body, expired>>
webview == <<batch, posts>>
history == <<arrival, lost, ran>>
vars    == <<callers, handler, results, queue, webview, history>>

Init ==
    /\ caller = [o \in Op |-> "new"]
    /\ answer = [o \in Ask |-> NoBody]
    /\ handler = [o \in Op |-> "none"]
    /\ slot = [r \in Ask |-> "none"]
    /\ body = [r \in Ask |-> NoBody]
    /\ expired = {}
    /\ queue = <<>>
    /\ batch = <<>>
    /\ posts = {}
    /\ arrival = <<>>
    /\ lost = {}
    /\ ran = <<>>

-----------------------------------------------------------------------------
(* The callers.                                                            *)

\* POST /queue, with the rid of a result-bearing operation.
Post(o) ==
    /\ caller[o] = "new"
    /\ caller' = [caller EXCEPT ![o] = "posting"]
    /\ handler' = [handler EXCEPT ![o] = IF o \in Ask THEN "register" ELSE "enqueue"]
    /\ UNCHANGED <<answer, results, queue, webview, history>>

\* 200: ask for the result; a fire-and-forget send is over.
PostQueued(o) ==
    /\ caller[o] = "posting" /\ handler[o] = "queued"
    /\ IF o \in Ask
       THEN /\ caller' = [caller EXCEPT ![o] = "getting"]
            /\ handler' = [handler EXCEPT ![o] = "take"]
       ELSE /\ caller' = [caller EXCEPT ![o] = "returned"]
            /\ UNCHANGED handler
    /\ UNCHANGED <<answer, results, queue, webview, history>>

\* 503.
PostRefused(o) ==
    /\ caller[o] = "posting" /\ handler[o] = "refused"
    /\ caller' = [caller EXCEPT ![o] = "failed"]
    /\ UNCHANGED <<answer, handler, results, queue, webview, history>>

\* Mutant: the status of GET /result is not looked at.
GetResult_Status(o) ==
    /\ caller[o] = "getting" /\ handler[o] \in {"answered", "empty"}
    /\ caller' = [caller EXCEPT ![o] = "returned"]
    /\ answer' = [answer EXCEPT ![o] = body[o]]
    /\ UNCHANGED <<handler, results, queue, webview, history>>

\* The body of GET /result, or a status other than 200.
GetResult(o) ==
    /\ caller[o] = "getting" /\ handler[o] \in {"answered", "empty"}
    /\ IF handler[o] = "answered"
       THEN /\ caller' = [caller EXCEPT ![o] = "returned"]
            /\ answer' = [answer EXCEPT ![o] = body[o]]
       ELSE /\ caller' = [caller EXCEPT ![o] = "failed"]
            /\ UNCHANGED answer
    /\ UNCHANGED <<handler, results, queue, webview, history>>

\* The socket times out or breaks: None, whatever the server goes on to do.
GiveUp(o) ==
    /\ MayLose
    /\ caller[o] \in {"posting", "getting"}
    /\ caller' = [caller EXCEPT ![o] = "failed"]
    /\ UNCHANGED <<answer, handler, results, queue, webview, history>>

-----------------------------------------------------------------------------
(* The server.                                                             *)

\* _purge_results_locked, with which every entry into the results begins.
Kept(r) == IF r \in expired THEN "none" ELSE slot[r]
Occupied == {r \in Ask : Kept(r) # "none"}
\* Mutant: any slot that is not ready makes room.
Tombstones_Pending == {r \in Ask : Kept(r) \in {"pending", "consumed", "timed_out"}}

Tombstones == {r \in Ask : Kept(r) \in {"consumed", "timed_out"}}

\* The purge leaves s of the slots; b is what the ready ones hold.
SetResults(s, b) ==
    /\ slot' = s
    /\ body' = b
    /\ expired' = {}

\* register_result: into a free place, or that of a tombstone.
Register(r) ==
    /\ handler[r] = "register"
    /\ \E gone \in {{}} \cup {{t} : t \in Tombstones} :
          /\ gone = {} <=> Cardinality(Occupied) < MaxResultItems
          /\ SetResults([x \in Ask |-> IF x = r THEN "pending"
                                       ELSE IF x \in gone THEN "none" ELSE Kept(x)],
                        [body EXCEPT ![r] = NoBody])
    /\ handler' = [handler EXCEPT ![r] = "enqueue"]
    /\ UNCHANGED <<callers, queue, webview, history>>

RegisterFull(r) ==
    /\ handler[r] = "register"
    /\ Cardinality(Occupied) >= MaxResultItems /\ Tombstones = {}
    /\ SetResults([x \in Ask |-> Kept(x)], body)
    /\ handler' = [handler EXCEPT ![r] = "refused"]
    /\ UNCHANGED <<callers, queue, webview, history>>

\* Mutant: a full queue gives up its oldest command.
Enqueue_DropOldest(o) ==
    /\ handler[o] = "enqueue"
    /\ queue' = Append(IF Len(queue) < MaxQueueItems THEN queue ELSE Tail(queue), o)
    /\ arrival' = Append(arrival, o)
    /\ handler' = [handler EXCEPT ![o] = "queued"]
    /\ UNCHANGED <<callers, results, webview, lost, ran>>

\* put_nowait.
Enqueue(o) ==
    /\ handler[o] = "enqueue"
    /\ Len(queue) < MaxQueueItems
    /\ queue' = Append(queue, o)
    /\ arrival' = Append(arrival, o)
    /\ handler' = [handler EXCEPT ![o] = "queued"]
    /\ UNCHANGED <<callers, results, webview, lost, ran>>

\* Full: discard_registered_result, then 503.
EnqueueFull(o) ==
    /\ handler[o] = "enqueue"
    /\ Len(queue) >= MaxQueueItems
    /\ slot' = [r \in Ask |-> IF r = o /\ slot[r] = "pending" THEN "none" ELSE slot[r]]
    /\ expired' = IF o \in Ask /\ slot[o] = "pending" THEN expired \ {o} ELSE expired
    /\ handler' = [handler EXCEPT ![o] = "refused"]
    /\ UNCHANGED <<callers, body, queue, webview, history>>

\* take_result: the purge on entry, then the loop on the condition variable.
Take(r) ==
    /\ handler[r] = "take"
    /\ SetResults([x \in Ask |-> Kept(x)], body)
    /\ handler' = [handler EXCEPT ![r] = "waiting"]
    /\ UNCHANGED <<callers, queue, webview, history>>

TakeReady(r) ==
    /\ handler[r] = "waiting" /\ slot[r] = "ready"
    /\ slot' = [slot EXCEPT ![r] = "consumed"]
    /\ expired' = expired \ {r}
    /\ handler' = [handler EXCEPT ![r] = "answered"]
    /\ UNCHANGED <<callers, body, queue, webview, history>>

TakeTimeout(r) ==
    /\ handler[r] = "waiting" /\ slot[r] = "pending"
    /\ slot' = [slot EXCEPT ![r] = "timed_out"]
    /\ expired' = expired \ {r}
    /\ handler' = [handler EXCEPT ![r] = "empty"]
    /\ UNCHANGED <<callers, body, queue, webview, history>>

\* "unknown" and "gone".
TakeNothing(r) ==
    /\ handler[r] = "waiting" /\ slot[r] \notin {"ready", "pending"}
    /\ handler' = [handler EXCEPT ![r] = "empty"]
    /\ UNCHANGED <<callers, results, queue, webview, history>>

\* put_result: only a pending slot takes a result; the others answer
\* "unknown", "late" or "duplicate" and the result is dropped.
PutResult(p) ==
    /\ p \in posts
    /\ posts' = posts \ {p}
    /\ LET stored == Kept(p.rid) = "pending"
       IN SetResults([x \in Ask |-> IF x = p.rid /\ stored THEN "ready" ELSE Kept(x)],
                     IF stored THEN [body EXCEPT ![p.rid] = p.body] ELSE body)
    /\ UNCHANGED <<callers, handler, queue, batch, history>>

\* A slot grows older than the TTL, which is longer than any call lasts.
InCall(o) == caller[o] \in {"posting", "getting"}

Expire(r) ==
    /\ slot[r] # "none" /\ r \notin expired /\ ~InCall(r)
    /\ expired' = expired \cup {r}
    /\ UNCHANGED <<callers, handler, slot, body, queue, webview, history>>

-----------------------------------------------------------------------------
(* The webview and Packet Tracer.                                          *)

Least(a, b) == IF a < b THEN a ELSE b

\* GET /next: drain_commands takes what there is, up to a batch.
Drain ==
    /\ batch = <<>> /\ queue # <<>>
    /\ LET n == Least(MaxBatch, Len(queue))
       IN /\ batch' = SubSeq(queue, 1, n)
          /\ queue' = SubSeq(queue, n + 1, Len(queue))
    /\ UNCHANGED <<callers, handler, results, posts, history>>

InBatch(b) == {b[i] : i \in 1..Len(b)}

\* The response finds no webview, or the batch does not run.
LoseBatch ==
    /\ MayLose /\ batch # <<>>
    /\ batch' = <<>>
    /\ lost' = lost \cup InBatch(batch)
    /\ UNCHANGED <<callers, handler, results, queue, posts, arrival, ran>>

\* Mutant: one rid for every command.
ReportRid_Shared(b) == CHOOSE r \in Ask : TRUE

\* The rid that reportResult posts to.  Each command declares a reportResult
\* of its own, but the lines of a batch are one function body: the last
\* declaration is the one they all call.
ReportRid(b) ==
    b[CHOOSE i \in 1..Len(b) : b[i] \in Ask /\ \A j \in (i + 1)..Len(b) : b[j] \notin Ask]

\* runBatch: one runCode for the whole batch.
RunBatch ==
    /\ batch # <<>>
    /\ batch' = <<>>
    /\ ran' = Append(ran, batch)
    /\ posts' = posts \cup {[rid |-> ReportRid(batch), body |-> o] : o \in InBatch(batch) \cap Ask}
    /\ UNCHANGED <<callers, handler, results, queue, arrival, lost>>

\* The XMLHttpRequest that carries a result fails.
LosePost(p) ==
    /\ MayLose /\ p \in posts
    /\ posts' = posts \ {p}
    /\ UNCHANGED <<callers, handler, results, queue, batch, history>>

-----------------------------------------------------------------------------
CallerStep(o) == PostQueued(o) \/ PostRefused(o) \/ GetResult(o)

HandlerStep(o) ==
    \/ Enqueue(o) \/ EnqueueFull(o)
    \/ o \in Ask /\ \/ Register(o) \/ RegisterFull(o) \/ Take(o)
                    \/ TakeReady(o) \/ TakeTimeout(o) \/ TakeNothing(o)

WebviewStep == Drain \/ RunBatch

Next ==
    \/ \E o \in Op : Post(o) \/ CallerStep(o) \/ GiveUp(o) \/ HandlerStep(o)
    \/ \E r \in Ask : Expire(r)
    \/ WebviewStep \/ LoseBatch
    \/ \E p \in posts : PutResult(p) \/ LosePost(p)

Spec == Init /\ [][Next]_vars

\* The server's threads run and the webview keeps polling (its watchdog
\* restarts a chain that has stopped).
FairSpec ==
    /\ Spec
    /\ \A o \in Op : WF_vars(HandlerStep(o))
    /\ WF_vars(WebviewStep)

-----------------------------------------------------------------------------
(* Properties.                                                             *)

\* The caller waits and the server has not made up its answer.
Awaited(r) == InCall(r) /\ handler[r] \notin {"answered", "empty"}

\* The slot of a result that is still awaited is only given up by the
\* rollback of its own registration, never to make room for another one.
AwaitedSlotIsKept ==
    [][\A r \in Ask :
          Awaited(r) /\ slot[r] \in {"pending", "ready"} /\ slot'[r] = "none"
          => handler'[r] = "refused"]_vars

\* RanAt(o): the batches and the places at which o was evaluated.
RanAt(o) ==
    {at \in (1..Len(ran)) \X (1..MaxBatch) :
        at[2] <= Len(ran[at[1]]) /\ ran[at[1]][at[2]] = o}

\* A caller that gets a body gets it after its own command was evaluated, and
\* the body comes from a command of the same batch.
AnswerIsFromOwnBatch ==
    \A r \in Ask : answer[r] # NoBody =>
        \E k \in 1..Len(ran) : {r, answer[r]} \subseteq InBatch(ran[k])

\* What correlated_http_send_and_wait says: "consume only its correlated
\* result".
AnswerIsCorrelated == \A r \in Ask : answer[r] \in {NoBody, r}

\* Every command the server accepted is evaluated, however many share the
\* queue and the batches, unless the batch that carried it was lost.
QueuedIsEvaluated ==
    \A o \in Op : handler[o] = "queued" ~> RanAt(o) # {} \/ o \in lost

\* How often each command ran, and what its caller was told: a caller with a
\* body is one whose command has run (correlated_http_send_and_wait), and a
\* fire-and-forget caller is told nothing of the execution.
Execs == [o \in Op |-> Cardinality(RanAt(o))]

Told ==
    [o \in Op |->
        CASE caller[o] = "returned" /\ o \in Ask -> "ran"
          [] caller[o] = "failed" -> "nothing"
          [] OTHER -> "waiting"]

\* The bridge and its webview are a channel that runs nothing twice: what was
\* accepted is what was put into the queue (live_bridge.py).
Delivery == INSTANCE CommandDelivery WITH
    Cmd <- Op,
    MayRepeat <- FALSE,
    accepted <- InBatch(arrival),
    execs <- Execs,
    told <- Told

DeliversCommands == Delivery!Spec
=============================================================================
