--------------------------- MODULE FileBridgeInv ----------------------------
(***************************************************************************)
(* The inductive invariant behind the safety properties of FileBridge, in  *)
(* the parts its proof goes through.  TLC checks it on the instances of    *)
(* MCFileBridge, TLAPS proves it in FileBridgeProofs.                      *)
(***************************************************************************)
EXTENDS FileBridge

\* Where each client is agrees with the method it is in.
ControlInv ==
    \A c \in Client :
        /\ pc[c] = "idle" => call[c] = "none" /\ op[c] = NoOp /\ cur[c] = NoName
        /\ pc[c] = "collect" => call[c] \in {"send", "collect"} /\ cur[c] = NoName
        /\ pc[c] = "retire" => call[c] \in {"send", "collect", "wait"}
        /\ pc[c] \in {"wait", "observe"} => call[c] = "wait"
        /\ call[c] = "collect" => op[c] = NoOp

\* A name this run of its process has not given out yet, or a later run will.
Fresh(n) ==
    \/ n.boot > boot[n.client]
    \/ n.boot = boot[n.client] /\ n.seq > seq[n.client]

\* A name is used for one operation, and every file, every job and every
\* client that works with it is about that operation.
NameInv ==
    /\ \A n \in Name :
          /\ Fresh(n) => issued[n] = NoOp
          /\ req[n] \in {NoOp, issued[n]}
          /\ res[n] \in {NoOp, issued[n]}
    /\ se \in {"evaluate", "reply", "remove"} => issued[job.name] = job.op
    /\ \A c \in Client :
          /\ pending[c] \subseteq Mine(c)
          /\ \A n \in pending[c] : issued[n] # NoOp
          /\ todo[c] \subseteq pending[c]
          /\ call[c] = "wait" => cur[c] \in Mine(c) /\ issued[cur[c]] = op[c]
          /\ pc[c] = "retire" /\ call[c] # "wait" => cur[c] \in pending[c] \ todo[c]

\* An operation runs in one client and under one name.
OpInv ==
    /\ \A n, m \in Name : issued[n] # NoOp /\ issued[n] = issued[m] => n = m
    /\ \A n \in Name : issued[n] # NoOp => outcome[issued[n]] # "new"
    /\ \A c \in Client : op[c] # NoOp => outcome[op[c]] = "running"
    /\ \A c, d \in Client : op[c] # NoOp /\ op[c] = op[d] => c = d
    /\ \A c \in Client : call[c] = "send" => \A n \in Name : issued[n] # op[c]

\* Only requests that exist have an age, and a client waits for a young one.
AgeInv ==
    /\ \A n \in oldReq : req[n] # NoOp
    /\ \A c \in Client : pc[c] = "wait" => cur[c] \notin oldReq

\* Whatever is evidence of an evaluation comes after one.
EvaluatedInv ==
    /\ \A n \in Name : res[n] # NoOp => execs[res[n]] >= 1
    /\ se \in {"reply", "remove"} => execs[job.op] >= 1
    /\ \A c \in Client :
          /\ pc[c] = "wait" /\ req[cur[c]] = NoOp => execs[op[c]] >= 1
          /\ pc[c] = "retire" => execs[issued[cur[c]]] >= 1
    /\ ReportedWasEvaluated
    /\ CollectedWasEvaluated

\* The request of a retired operation is gone for good; what the engine may
\* still do is the evaluation it has read the request for.
RetiredInv ==
    /\ retired \subseteq Op
    /\ \A o \in retired : \E n \in Name : issued[n] = o
    /\ \A n \in Name : req[n] # NoOp => req[n] \notin retired
    /\ \A o \in Op : o \notin retired => after[o] = 0
    /\ \A o \in Op : after[o] <= 1
    /\ se = "evaluate" => after[job.op] = 0

\* OwnRequestsAreTracked, with what the client has removed while it watches.
TrackedInv ==
    /\ OwnRequestsAreTracked
    /\ \A c \in Client : pc[c] = "observe" => req[cur[c]] = NoOp

\* The inductive invariant: the safety properties of the mailbox and what each
\* of them needs to hold from one step to the next (FileBridge and
\* fileBridgeTick together).
Inv ==
    /\ TypeOK
    /\ ControlInv
    /\ NameInv
    /\ OpInv
    /\ AgeInv
    /\ EvaluatedInv
    /\ RetiredInv
    /\ TrackedInv
    /\ AnswerIsOwn
=============================================================================
