------------------------------ MODULE PhoneCalls ------------------------------
(***************************************************************************)
(* PacketTracerNativeUiCallDriver (native_ui_phone_driver.py): a call is   *)
(* asked for with a request file, dialled by a controller outside the      *)
(* process, and told in a receipt file.  The controller may be slow, stop  *)
(* and start again, or write its receipt after the driver has gone.  The   *)
(* first exchange, number 0, is the readiness probe.                       *)
(***************************************************************************)
EXTENDS Naturals, Sequences, FiniteSets

CONSTANTS
    Calls,      \* the calls to make, as pairs <<source, destination>> of phones
    MaxRestarts \* how often the controller may stop (bound)

Number == 0..Len(Calls)
Phone  == {Calls[k][1] : k \in 1..Len(Calls)} \cup {Calls[k][2] : k \in 1..Len(Calls)}

CallsAssumption ==
    /\ Calls \in Seq(Phone \X Phone) /\ Calls # <<>>
    /\ \A k \in 1..Len(Calls) : Calls[k][1] # Calls[k][2]
    /\ MaxRestarts \in Nat

VARIABLES
    next,       \* the exchange the driver is at
    pc,         \* "publish", "wait", "remove", "end"
    observed,   \* what the driver made of the receipt
    results,    \* what the driver returned for each exchange
    expired,    \* exchanges whose deadline has passed
    requests,   \* request files
    receipts,   \* receipt files, by number: "good", "late", "bad"
    work,       \* what the controller is at: none, or an exchange and its step
    restarts,   \* how often the controller stopped
    line,       \* the call each phone is in
    told        \* history: exchanges that were carried out to the end in time

vars == <<next, pc, observed, results, expired, requests, receipts, work, restarts, line, told>>

Idle == [of |-> 0, step |-> "idle"]

Init ==
    /\ next = 0 /\ pc = "publish" /\ observed = "none"
    /\ results = [k \in Number |-> "none"]
    /\ expired = {} /\ requests = {} /\ receipts = << >>
    /\ work = Idle /\ restarts = 0
    /\ line = [p \in Phone |-> 0]
    /\ told = {}

-----------------------------------------------------------------------------
(* The driver: probe_readiness, then __call__ for each call in turn.       *)

\* A readiness that was not shown leaves no call to make.
Conclude(v) ==
    /\ results' = [results EXCEPT ![next] = v]
    /\ observed' = "none"
    /\ IF next = Len(Calls) \/ (next = 0 /\ v # "verified")
       THEN pc' = "end" /\ UNCHANGED next
       ELSE pc' = "publish" /\ next' = next + 1

\* The exchange is new, and its request is written whole, or not at all.
Publish ==
    /\ pc = "publish"
    /\ \/ /\ next \notin requests \cup DOMAIN receipts
          /\ requests' = requests \cup {next}
          /\ pc' = "wait"
          /\ UNCHANGED <<next, results, observed>>
       \/ Conclude("unobservable") /\ UNCHANGED requests
    /\ UNCHANGED <<expired, receipts, work, restarts, line, told>>

Expire(k) ==
    /\ k = next /\ pc = "wait" /\ k \notin expired
    /\ expired' = expired \cup {k}
    /\ UNCHANGED <<next, pc, observed, results, requests, receipts, work, restarts, line, told>>

\* Mutant: the time of the samples is not looked at.
Valid_AnyTime(receipt) == receipt \in {"good", "late"}

\* _observation: identity, time and lifecycle of the receipt.
Valid(receipt) == receipt = "good"

ReadReceipt ==
    /\ pc = "wait" /\ next \in DOMAIN receipts
    /\ observed' = IF Valid(receipts[next]) THEN "verified" ELSE "unobservable"
    /\ pc' = "remove"
    /\ UNCHANGED <<next, results, expired, requests, receipts, work, restarts, line, told>>

\* Mutant: a controller that has begun is waited for.
GiveUp_Wait ==
    /\ pc = "wait" /\ next \in expired /\ next \notin DOMAIN receipts
    /\ work.of # next \/ work = Idle
    /\ observed' = "unobservable"
    /\ pc' = "remove"
    /\ UNCHANGED <<next, results, expired, requests, receipts, work, restarts, line, told>>

GiveUp ==
    /\ pc = "wait" /\ next \in expired /\ next \notin DOMAIN receipts
    /\ observed' = "unobservable"
    /\ pc' = "remove"
    /\ UNCHANGED <<next, results, expired, requests, receipts, work, restarts, line, told>>

Without(k) == [r \in DOMAIN receipts \ {k} |-> receipts[r]]

\* _remove_owned_exchange_files: what cannot be removed makes the call
\* unobservable.
Remove ==
    /\ pc = "remove"
    /\ requests' \in {requests, requests \ {next}}
    /\ receipts' \in {receipts, Without(next)}
    /\ Conclude(IF next \in requests' \cup DOMAIN receipts' THEN "unobservable" ELSE observed)
    /\ UNCHANGED <<expired, work, restarts, line, told>>

-----------------------------------------------------------------------------
(* The controller and the phones, outside the process.                     *)

\* A request that was answered is not taken up again.
Pick(k) ==
    /\ work = Idle /\ k \in requests \ DOMAIN receipts
    /\ work' = [of |-> k, step |-> "picked"]
    /\ UNCHANGED <<next, pc, observed, results, expired, requests, receipts, restarts, line, told>>

\* Dialling: the call is set up if both phones are free.
Dial ==
    /\ work.step = "picked" /\ work.of # 0
    /\ LET ends == {Calls[work.of][1], Calls[work.of][2]} IN
       IF \A p \in ends : line[p] = 0
       THEN /\ line' = [p \in Phone |-> IF p \in ends THEN work.of ELSE line[p]]
            /\ work' = [work EXCEPT !.step = "up"]
       ELSE work' = [work EXCEPT !.step = "bad"] /\ UNCHANGED line
    /\ UNCHANGED <<next, pc, observed, results, expired, requests, receipts, restarts, told>>

\* The call is over; some of its states may have been missed.
HangUp ==
    /\ work.step = "up"
    /\ line' = [p \in Phone |-> IF line[p] = work.of THEN 0 ELSE line[p]]
    /\ \E seen \in {"bad", IF work.of \in expired THEN "late" ELSE "good"} :
          /\ work' = [work EXCEPT !.step = seen]
          /\ told' = IF seen = "good" THEN told \cup {work.of} ELSE told
    /\ UNCHANGED <<next, pc, observed, results, expired, requests, receipts, restarts>>

\* The readiness is told without a call.
Ready ==
    /\ work.step = "picked" /\ work.of = 0
    /\ LET seen == IF 0 \in expired THEN "late" ELSE "good" IN
       /\ work' = [work EXCEPT !.step = seen]
       /\ told' = IF seen = "good" THEN told \cup {0} ELSE told
    /\ UNCHANGED <<next, pc, observed, results, expired, requests, receipts, restarts, line>>

WriteReceipt ==
    /\ work.step \in {"good", "late", "bad"}
    /\ receipts' = [k \in DOMAIN receipts \cup {work.of} |->
                       IF k = work.of THEN work.step ELSE receipts[k]]
    /\ work' = Idle
    /\ UNCHANGED <<next, pc, observed, results, expired, requests, restarts, line, told>>

\* The controller stops; a call it was in stays up until somebody ends it.
Restart ==
    /\ restarts < MaxRestarts /\ work # Idle
    /\ restarts' = restarts + 1
    /\ work' = Idle
    /\ UNCHANGED <<next, pc, observed, results, expired, requests, receipts, line, told>>

\* Somebody ends a call.
EndCall(k) ==
    /\ k # 0 /\ work # [of |-> k, step |-> "up"]
    /\ \E p \in Phone : line[p] = k
    /\ line' = [p \in Phone |-> IF line[p] = k THEN 0 ELSE line[p]]
    /\ UNCHANGED <<next, pc, observed, results, expired, requests, receipts, work, restarts, told>>

-----------------------------------------------------------------------------
Driver == Publish \/ ReadReceipt \/ GiveUp \/ Remove

Controller == Dial \/ HangUp \/ Ready \/ WriteReceipt \/ \E k \in Number : Pick(k)

Next == Driver \/ Controller \/ Restart \/ \E k \in Number : Expire(k) \/ EndCall(k)

\* The driver keeps running and its clock advances; nothing is asked of the
\* controller.
Spec == Init /\ [][Next]_vars /\ WF_vars(Driver) /\ \A k \in Number : WF_vars(Expire(k))

-----------------------------------------------------------------------------
(* Properties.                                                             *)

\* "evidence produced after that attempt began, the expected connected or
\* rejected behavior, and successful teardown": a verified call was set up
\* and ended before its deadline, by its own attempt (_observation).
VerifiedCallWasMade == \A k \in Number : results[k] = "verified" => k \in told

\* Whatever the controller does, the driver answers for every call (the
\* deadline of __call__).
DriverEnds == <>(pc = "end")
=============================================================================
