--------------------------- MODULE CommandDelivery ---------------------------
(***************************************************************************)
(* What a channel to Packet Tracer promises its callers, whichever of the  *)
(* two it is: live_bridge.py and the webview, or file_bridge.py and the    *)
(* Script Engine.  A command runs only after the channel has accepted it,  *)
(* a caller is told it ran only after it did, and what a caller was told   *)
(* is final.  A caller that gives up knows nothing: the command may run    *)
(* before, after or never.                                                 *)
(***************************************************************************)
EXTENDS Naturals

CONSTANTS
    Cmd,        \* commands, each of them issued once
    MayRepeat   \* whether the channel may run a command again

VARIABLES
    accepted,   \* commands the channel has taken
    execs,      \* how often Packet Tracer ran each of them
    told        \* what the caller was told

vars == <<accepted, execs, told>>

Init ==
    /\ accepted = {}
    /\ execs = [c \in Cmd |-> 0]
    /\ told = [c \in Cmd |-> "waiting"]

Accept(c) ==
    /\ c \notin accepted
    /\ accepted' = accepted \cup {c}
    /\ UNCHANGED <<execs, told>>

\* Once, or more often than once.
More(k) == IF k = 0 THEN 1 ELSE 2

\* Packet Tracer runs one or several commands in one go.
Execute(S) ==
    /\ S # {} /\ S \subseteq accepted
    /\ \A c \in S : execs[c] = 0 \/ MayRepeat
    /\ execs' = [c \in Cmd |-> IF c \in S THEN More(execs[c]) ELSE execs[c]]
    /\ UNCHANGED <<accepted, told>>

\* The caller gets an answer, or learns otherwise that its command has run.
Confirm(c) ==
    /\ told[c] = "waiting" /\ execs[c] > 0
    /\ told' = [told EXCEPT ![c] = "ran"]
    /\ UNCHANGED <<accepted, execs>>

\* The caller gives up, is refused, or ends.
Abandon(c) ==
    /\ told[c] = "waiting"
    /\ told' = [told EXCEPT ![c] = "nothing"]
    /\ UNCHANGED <<accepted, execs>>

Next ==
    \/ \E c \in Cmd : Accept(c) \/ Confirm(c) \/ Abandon(c)
    \/ \E S \in SUBSET Cmd : Execute(S)

Spec == Init /\ [][Next]_vars
=============================================================================
