-------------------------- MODULE ApplicationsProofs --------------------------
(***************************************************************************)
(* Proofs about the applicators of Applications, for any security plan,    *)
(* any service plan and any calls.  Each of the three has its own          *)
(* inductive invariant, which holds while a behaviour is one of it.  And   *)
(* about the journal that every applicator keeps (ExecutionJournal), for   *)
(* journals of any length: it is a component of its own.                   *)
(***************************************************************************)
EXTENDS Applications, ExecutionJournal, WellFoundedInduction, TLAPS

-----------------------------------------------------------------------------
(* The calls.                                                              *)

\* "good" is said, in the controller's hands, in a receipt or as an
\* observation, only of an exchange that was carried out in time.
PhoneInv ==
    /\ DOMAIN answers = P!Number
    /\ DOMAIN work = {"of", "step"}
    /\ work.step = "good" => work.of \in told
    /\ \A k \in DOMAIN receipts : receipts[k] = "good" => k \in told
    /\ observed \in {"none", "verified", "unobservable"}
    /\ observed = "verified" => next \in told
    /\ P!VerifiedCallWasMade

\* A driver that has not begun has been told nothing.
LEMMA PhoneInit ==
    ASSUME P!Init
    PROVE  PhoneInv
<1>1. DOMAIN receipts = {}
  BY DEF P!Init
<1> QED
  BY <1>1 DEF PhoneInv, P!Init, P!Idle, P!VerifiedCallWasMade

\* An answer is recorded for the exchange the driver is at.
LEMMA Concludes ==
    ASSUME PhoneInv, NEW v, P!Conclude(v), v = "verified" => next \in told
    PROVE  /\ DOMAIN answers' = P!Number /\ observed' = "none"
           /\ \A k \in P!Number : answers'[k] = "verified" => k \in told
  BY DEF PhoneInv, P!Conclude, P!VerifiedCallWasMade

\* At every step "good" is said only of an exchange that was carried out.
LEMMA PhoneStep ==
    ASSUME PhoneInv, [P!Next]_P!vars
    PROVE  PhoneInv'
<1>1. CASE P!Publish
  <2>1. CASE UNCHANGED <<next, answers, observed>>
    BY <1>1, <2>1 DEF P!Publish, PhoneInv, P!VerifiedCallWasMade
  <2>2. CASE P!Conclude("unobservable")
    BY <1>1, <2>2, Concludes DEF P!Publish, PhoneInv, P!VerifiedCallWasMade
  <2> QED
    BY <1>1, <2>1, <2>2 DEF P!Publish
<1>2. CASE P!ReadReceipt
  BY <1>2 DEF P!ReadReceipt, P!Valid, PhoneInv, P!VerifiedCallWasMade
<1>3. CASE P!GiveUp
  BY <1>3 DEF P!GiveUp, PhoneInv, P!VerifiedCallWasMade
<1>4. CASE P!Remove
  <2>1. \A k \in DOMAIN receipts' : k \in DOMAIN receipts /\ receipts'[k] = receipts[k]
    BY <1>4 DEF P!Remove, P!Without
  <2>2. PICK v : P!Conclude(v) /\ (v = "verified" => observed = "verified")
    BY <1>4 DEF P!Remove
  <2> QED
    BY <1>4, <2>1, <2>2, Concludes DEF P!Remove, PhoneInv, P!VerifiedCallWasMade
<1>5. CASE P!Dial
  <2>1. /\ DOMAIN work' = {"of", "step"} /\ work'.step \in {"up", "bad"}
        /\ UNCHANGED <<next, at, observed, answers, receipts, told>>
    BY <1>5 DEF P!Dial, PhoneInv
  <2> QED
    BY <2>1 DEF PhoneInv, P!VerifiedCallWasMade
<1>6. CASE P!HangUp
  BY <1>6 DEF P!HangUp, PhoneInv, P!VerifiedCallWasMade
<1>7. CASE P!Ready
  BY <1>7 DEF P!Ready, PhoneInv, P!VerifiedCallWasMade
<1>8. CASE P!WriteReceipt
  BY <1>8 DEF P!WriteReceipt, P!Idle, PhoneInv, P!VerifiedCallWasMade
<1>9. CASE P!Restart \/ \E k \in P!Number : P!Pick(k)
  BY <1>9 DEF P!Restart, P!Pick, P!Idle, PhoneInv, P!VerifiedCallWasMade
<1>10. CASE (\E k \in P!Number : P!Expire(k) \/ P!EndCall(k)) \/ UNCHANGED P!vars
  BY <1>10 DEF P!Expire, P!EndCall, P!vars, PhoneInv, P!VerifiedCallWasMade
<1> QED
  BY <1>1, <1>2, <1>3, <1>4, <1>5, <1>6, <1>7, <1>8, <1>9, <1>10 DEF P!Next, P!Driver, P!Controller

-----------------------------------------------------------------------------
(* The services.                                                           *)

RA     == V!Action
Script == [kind : {"script"}, of : SUBSET RA]
Ping   == [kind : {"ping"}, of : V!Expectation]
Saying == [of : V!Expectation, says : {"not found"} \cup V!Address, sent : {"yes", "no"}]

ServiceTypeOK ==
    /\ scope = RA /\ batch \in SUBSET RA
    /\ results \in [RA -> V!Result] /\ device \in [RA -> BOOLEAN]
    /\ channel \in Seq(Script \cup Ping)
    /\ i \in Nat \ {0} /\ since \in Nat
    /\ checks \in [V!Expectation -> V!Check]
    /\ running \in [V!Client -> V!Expectation \cup {"none"}]
    /\ typed \in [V!Client -> Seq(V!Expectation)]
    /\ text \in [V!Client -> Seq(Saying)]

\* What was told to be applied is in effect, and what is sent rests on it.
ServiceGround ==
    /\ \A a \in RA : results[a] = "applied" => device[a]
    /\ pc \in {"call", "wait"} => \A a \in batch : \A d \in RecordDepends[a] : device[d]
    /\ V!LateScriptFindsItsGround

\* An expectation whose turn has come and that asks with a ping, and what its
\* ping may say.
Asked(e, n) ==
    /\ KindOf[e] \in {"resolution", "negative"}
    /\ \E j \in 1..Len(Expectations) : j <= n /\ Expectations[j] = e

MaySay(e, what) == what = "not found" \/ (what = AddressOf[e] /\ KindOf[e] = "resolution")

ChannelAsked == \A k \in 1..Len(channel) : channel[k].kind = "ping" => Asked(channel[k].of, i)

ClientAsked(c) ==
    /\ running[c] # "none" => Asked(running[c], i) /\ ClientOf[running[c]] = c
    /\ \A k \in 1..Len(typed[c]) : Asked(typed[c][k], i) /\ ClientOf[typed[c][k]] = c
    /\ \A k \in 1..Len(text[c]) : /\ Asked(text[c][k].of, i) /\ ClientOf[text[c][k].of] = c
                                 /\ MaySay(text[c][k].of, text[c][k].says)

ServicePings == ChannelAsked /\ (\A c \in V!Client : ClientAsked(c)) /\ V!EvidenceIsItsOwn

ServiceInv == ServiceTypeOK /\ ServiceGround /\ ServicePings

\* What the assumption says of records and expectations.
LEMMA ServiceFacts ==
    /\ RecordDepends \in [RA -> SUBSET RA]
    /\ Expectations \in Seq(V!Expectation) /\ Len(Expectations) \in Nat
    /\ \A j \in 1..Len(Expectations) : Expectations[j] \in V!Expectation
    /\ \A j, k \in 1..Len(Expectations) : j < k =>
          /\ Expectations[j] # Expectations[k]
          /\ ~(KindOf[Expectations[j]] = "resolution" /\ KindOf[Expectations[k]] = "negative")
    /\ \A e \in V!Expectation :
          /\ ClientOf[e] \in V!Client /\ ActionOf[e] \in RA
          /\ AddressOf[e] \in V!Address
<1>1. V!ServiceAssumption
  BY ApplicationsAssumption
<1>2. Expectations \in Seq(V!Expectation)
  BY <1>1 DEF V!ServiceAssumption
<1>3. V!DispatchAssumption
  BY <1>1 DEF V!ServiceAssumption
<1>4. RecordDepends \in [RA -> SUBSET RA]
  BY <1>3 DEF V!DispatchAssumption, RA
<1>5. \A e \in V!Expectation :
          /\ ClientOf[e] \in V!Client /\ ActionOf[e] \in RA
          /\ AddressOf[e] \in V!Address
  BY <1>1 DEF V!ServiceAssumption, V!Client, V!Address, V!Range, RA
<1> QED
  BY <1>1, <1>2, <1>4, <1>5 DEF V!ServiceAssumption

\* Appending to a queue, and taking from it.
LEMMA Appended ==
    ASSUME NEW T, NEW q \in Seq(T), NEW m \in T
    PROVE  /\ Append(q, m) \in Seq(T)
           /\ Len(q) \in Nat /\ Len(Append(q, m)) = Len(q) + 1
           /\ Append(q, m)[Len(q) + 1] = m
           /\ \A j \in 1..Len(q) : Append(q, m)[j] = q[j]
  OBVIOUS

\* What a queue is without its first element.
LEMMA Taken ==
    ASSUME NEW T, NEW q \in Seq(T), q # <<>>
    PROVE  /\ Tail(q) \in Seq(T) /\ Head(q) \in T
           /\ Len(q) \in Nat \ {0} /\ Len(Tail(q)) = Len(q) - 1 /\ Head(q) = q[1]
           /\ \A j \in 1..Len(Tail(q)) : Tail(q)[j] = q[j + 1] /\ j + 1 \in 1..Len(q)
  OBVIOUS

\* What a queue is without its last element.
LEMMA Shortened ==
    ASSUME NEW T, NEW q \in Seq(T)
    PROVE  /\ V!Front(q) \in Seq(T)
           /\ \A j \in 1..Len(V!Front(q)) : j \in 1..Len(q) /\ V!Front(q)[j] = q[j]
  BY DEF V!Front

\* A service application that has not begun has asked and typed nothing.
LEMMA ServiceInit ==
    ASSUME V!Init
    PROVE  ServiceInv
<1>1. channel = <<>> /\ \A c \in V!Client : typed[c] = <<>> /\ text[c] = <<>>
  BY DEF V!Init, V!DispatchInit
<1>2. ServiceTypeOK
  BY <1>1 DEF V!Init, V!DispatchInit, ServiceTypeOK, RA, V!Result, V!Check
<1>3. ServiceGround
  BY <1>1 DEF V!Init, V!DispatchInit, ServiceGround, RA, V!LateScriptFindsItsGround
<1>4. ServicePings
  <2>1. V!EvidenceIsItsOwn
    BY DEF V!Init, V!EvidenceIsItsOwn, V!VerifiedByPing
  <2>2. ChannelAsked /\ \A c \in V!Client : ClientAsked(c)
    BY <1>1 DEF V!Init, ChannelAsked, ClientAsked
  <2> QED
    BY <2>1, <2>2 DEF ServicePings
<1> QED
  BY <1>2, <1>3, <1>4 DEF ServiceInv

\* What the dispatch of records leaves alone, and what the verification does.
Dispatches == \/ V!Begin \/ V!Dispatch \/ V!SendScript \/ V!ScriptRaises
              \/ V!ScriptTimesOut \/ V!RunScript
Verifies   == \/ V!PassExpectation \/ V!Read \/ V!TypePing \/ V!RunTyping \/ V!PingDoesNotStart
              \/ (\E c \in V!Client : V!PingResolves(c) \/ V!PingEnds(c)) \/ V!PollPing

\* While records are sent, no expectation is looked at.
LEMMA DispatchLeaves ==
    ASSUME Dispatches
    PROVE  UNCHANGED <<scope, i, since, checks, status, running, typed, text>>
  BY DEF Dispatches, V!Begin, V!Dispatch, V!NextBatch, V!DispatchEnds, V!SendScript, V!ScriptRaises,
         V!CallRaises, V!ScriptTimesOut, V!RunScript, V!own, V!dispatch

\* While expectations are looked at, nothing is sent.
LEMMA VerificationLeaves ==
    ASSUME Verifies
    PROVE  /\ UNCHANGED <<scope, batch, results, device>>
           /\ pc' = pc \/ pc' \notin {"call", "wait"}
  BY DEF Verifies, V!PassExpectation, V!Read, V!TypePing, V!RunTyping, V!PingDoesNotStart,
         V!PingResolves, V!PingEnds, V!PollPing, V!Conclude, V!dispatch, V!own

\* A message at the end of the channel, or one less, takes and adds no other.
LEMMA ScriptsLeft ==
    ASSUME ServiceTypeOK, Verifies
    PROVE  /\ channel' \in Seq(Script \cup Ping)
           /\ \A k \in 1..Len(channel') : channel'[k].kind = "script"
                 => \E j \in 1..Len(channel) : channel[j] = channel'[k]
           /\ \A k \in 1..Len(channel') : channel'[k].kind = "ping"
                 => \/ \E j \in 1..Len(channel) : channel[j] = channel'[k]
                    \/ V!TypePing /\ channel'[k].of = V!Current
<1>1. CASE UNCHANGED channel
  BY <1>1 DEF ServiceTypeOK
<1>2. CASE V!TypePing
  <2> DEFINE m == [kind |-> "ping", of |-> V!Current]
  <2>1. channel' = Append(channel, m) /\ i \in 1..Len(Expectations)
    BY <1>2, ServiceFacts DEF V!TypePing, V!At, ServiceTypeOK
  <2>2. m \in Script \cup Ping /\ m.kind # "script"
    BY <2>1, ServiceFacts DEF Ping, V!Current
  <2> HIDE DEF m
  <2>3. /\ channel' \in Seq(Script \cup Ping) /\ Len(channel) \in Nat /\ Len(channel') = Len(channel) + 1
        /\ channel'[Len(channel) + 1] = m /\ \A j \in 1..Len(channel) : channel'[j] = channel[j]
    BY <2>1, <2>2, Appended DEF ServiceTypeOK
  <2>4. m.of = V!Current
    BY DEF m
  <2> QED
    BY <1>2, <2>2, <2>3, <2>4
<1>3. CASE V!RunTyping
  BY <1>3, Taken DEF V!RunTyping, V!Awaits, ServiceTypeOK
<1>4. CASE channel' = V!Front(channel)
  BY <1>4, Shortened DEF ServiceTypeOK
<1> QED
  BY <1>1, <1>2, <1>3, <1>4
  DEF Verifies, V!PassExpectation, V!Read, V!PingDoesNotStart, V!PingResolves, V!PingEnds, V!PollPing

\* What is ready rests on what is in effect.
LEMMA BatchIsReady ==
    ASSUME ServiceTypeOK, ServiceGround, V!NextBatch
    PROVE  /\ batch' \in SUBSET RA /\ results' \in [RA -> V!Result]
           /\ \A a \in RA : results'[a] = "applied" => results[a] = "applied"
           /\ \A a \in batch' : \A d \in RecordDepends[a] : device[d]
<1> DEFINE rs == V!Blocked(results)
<1>1. /\ rs \in [RA -> V!Result]
      /\ \A a \in RA : rs[a] = "applied" => results[a] = "applied"
  BY DEF V!Blocked, ServiceTypeOK, RA, V!Result
<1>2. results' = rs /\ batch' \subseteq V!Ready(rs)
  BY DEF V!NextBatch
<1>3. \A a \in V!Ready(rs) : a \in RA /\ \A d \in RecordDepends[a] : rs[d] = "applied"
  BY DEF V!Ready, V!Satisfied, RA
<1> HIDE DEF rs
<1>4. \A a \in RA : \A d \in RecordDepends[a] : d \in RA
  BY ServiceFacts
<1> QED
  BY <1>1, <1>2, <1>3, <1>4 DEF ServiceGround

\* A script enters the channel behind what it depends on, and stays there.
LEMMA ServiceGroundStep ==
    ASSUME ServiceTypeOK, ServiceGround, V!Next
    PROVE  ServiceGround'
<1> USE ServiceFacts
<1>1. CASE V!Refuse \/ V!Return
  BY <1>1 DEF V!Refuse, V!Return, V!dispatch, ServiceGround, V!LateScriptFindsItsGround
<1>2. CASE V!Begin
  BY <1>2 DEF V!Begin, V!Given, V!own, ServiceTypeOK, ServiceGround, V!LateScriptFindsItsGround, RA
<1>3. CASE V!NextBatch
  BY <1>3, BatchIsReady DEF V!NextBatch, ServiceGround, V!LateScriptFindsItsGround
<1>4. CASE V!DispatchEnds("observed")
  BY <1>4 DEF V!DispatchEnds, ServiceTypeOK, ServiceGround, V!LateScriptFindsItsGround, RA
<1>5. CASE V!ScriptRaises \/ V!ScriptTimesOut
  BY <1>5 DEF V!ScriptRaises, V!CallRaises, V!ScriptTimesOut, ServiceTypeOK, ServiceGround,
              V!LateScriptFindsItsGround, RA
<1>6. CASE V!SendScript
  <2> DEFINE m == [kind |-> "script", of |-> batch]
  <2>1. /\ channel' = Append(channel, m) /\ pc = "call"
        /\ UNCHANGED <<results, device, batch>>
    BY <1>6 DEF V!SendScript, V!Awaited, V!dispatch
  <2>2. m \in Script \cup Ping /\ m.of = batch
    BY DEF Script, ServiceTypeOK
  <2> HIDE DEF m
  <2>3. /\ Len(channel) \in Nat /\ Len(channel') = Len(channel) + 1
        /\ channel'[Len(channel) + 1] = m /\ \A j \in 1..Len(channel) : channel'[j] = channel[j]
    BY <2>1, <2>2, Appended DEF ServiceTypeOK
  <2>4. \A k \in 1..Len(channel') : k \in 1..Len(channel) \/ channel'[k].of = batch
    BY <2>2, <2>3
  <2>5. V!LateScriptFindsItsGround'
    BY <2>1, <2>3, <2>4 DEF ServiceGround, V!LateScriptFindsItsGround
  <2> QED
    BY <2>1, <2>5 DEF ServiceGround
<1>7. CASE V!RunScript
  <2>1. PICK done \in SUBSET Head(channel).of :
           /\ device' = [a \in RA |-> device[a] \/ a \in done]
           /\ IF pc = "wait" /\ Tail(channel) = <<>>
              THEN /\ results' = [a \in RA |-> IF a \notin batch THEN results[a]
                                               ELSE IF device'[a] THEN "applied" ELSE "failed"]
                   /\ pc' = "dispatch"
              ELSE UNCHANGED <<results, pc>>
    BY <1>7 DEF V!RunScript, RA
  <2>2. /\ channel # <<>> /\ channel' = Tail(channel) /\ UNCHANGED batch
        /\ Head(channel).kind = "script"
    BY <1>7 DEF V!RunScript, V!Awaits
  <2>3. /\ Len(channel) \in Nat \ {0} /\ Head(channel) = channel[1] /\ 1 \in 1..Len(channel)
        /\ \A j \in 1..Len(channel') : channel'[j] = channel[j + 1] /\ j + 1 \in 1..Len(channel)
    BY <2>2, Taken DEF ServiceTypeOK
  <2>4. \A a \in RA : device[a] => device'[a]
    BY <2>1
  <2>5. \A a \in RA : device'[a] => device[a] \/ a \in channel[1].of
    BY <2>1, <2>3
  <2>6. V!LateScriptFindsItsGround'
    BY <2>2, <2>3, <2>4, <2>5 DEF ServiceGround, V!LateScriptFindsItsGround, RA
  <2>7. \A a \in RA : results'[a] = "applied" => device'[a]
    BY <2>1, <2>4 DEF ServiceGround
  <2> QED
    BY <2>1, <2>2, <2>4, <2>6, <2>7 DEF ServiceGround, ServiceTypeOK
<1>8. CASE Verifies
  BY <1>8, VerificationLeaves, ScriptsLeft DEF ServiceGround, V!LateScriptFindsItsGround
<1> QED
  BY <1>1, <1>2, <1>3, <1>4, <1>5, <1>6, <1>7, <1>8 DEF V!Next, V!Dispatch, Verifies

\* What a ping adds to the text of its prompt: a line of its own.
LEMMA LineSaid ==
    ASSUME NEW c \in V!Client, running[c] \in V!Expectation, V!PingResolves(c) \/ V!PingEnds(c)
    PROVE  \E m \in Saying : /\ m.of = running[c]
                             /\ ClientAsked(c) => MaySay(m.of, m.says)
                             /\ text' = [text EXCEPT ![c] = Append(@, m)]
<1> DEFINE e == running[c]
<1>1. AddressOf[e] \in V!Address
  BY ServiceFacts
<1>2. CASE V!PingResolves(c)
  <2> DEFINE m == V!Line(e, AddressOf[e], "no")
  <2>1. m \in Saying /\ m.of = e /\ m.says = AddressOf[e]
    BY <1>1 DEF V!Line, Saying
  <2>2. KindOf[e] = "resolution" /\ text' = [text EXCEPT ![c] = Append(@, m)]
    BY <1>2 DEF V!PingResolves
  <2> HIDE DEF m
  <2> QED
    BY <2>1, <2>2 DEF MaySay
<1>3. CASE V!PingEnds(c) /\ V!HasResolved(c)
  <2> DEFINE m == V!Line(e, AddressOf[e], "yes")
  <2>1. m \in Saying /\ m.of = e /\ m.says = AddressOf[e]
    BY <1>1 DEF V!Line, Saying
  <2>2. text' = [text EXCEPT ![c] = Append(@, m)]
    BY <1>3 DEF V!PingEnds
  <2>3. ClientAsked(c) => KindOf[e] = "resolution"
    BY <1>3 DEF V!HasResolved, ClientAsked, MaySay
  <2> HIDE DEF m
  <2> QED
    BY <2>1, <2>2, <2>3 DEF MaySay
<1>4. CASE V!PingEnds(c) /\ ~V!HasResolved(c)
  <2> DEFINE m == V!Line(e, "not found", "no")
  <2>1. m \in Saying /\ m.of = e /\ m.says = "not found"
    BY DEF V!Line, Saying
  <2>2. text' = [text EXCEPT ![c] = Append(@, m)]
    BY <1>4 DEF V!PingEnds
  <2> HIDE DEF m
  <2> QED
    BY <2>1, <2>2 DEF MaySay
<1> QED
  BY <1>2, <1>3, <1>4

\* Every step of a service application keeps its types.
LEMMA ServiceTypeStep ==
    ASSUME ServiceTypeOK, ServiceGround, V!Next
    PROVE  ServiceTypeOK'
<1>1. CASE V!Refuse \/ V!Return
  BY <1>1 DEF V!Refuse, V!Return, V!dispatch, ServiceTypeOK
<1>2. CASE Dispatches
  <2>1. batch' \in SUBSET RA /\ results' \in [RA -> V!Result] /\ device' \in [RA -> BOOLEAN]
    <3>1. CASE V!NextBatch
      BY <3>1, BatchIsReady DEF V!NextBatch, ServiceTypeOK
    <3>2. CASE V!SendScript
      BY <3>2 DEF V!SendScript, V!dispatch, ServiceTypeOK
    <3>3. CASE V!RunScript
      BY <3>3 DEF V!RunScript, V!Result, ServiceTypeOK, RA
    <3> QED
      BY <1>2, <3>1, <3>2, <3>3 DEF Dispatches, V!Begin, V!Given, V!Dispatch, V!DispatchEnds,
                V!ScriptRaises, V!CallRaises, V!ScriptTimesOut, V!Result, ServiceTypeOK, RA
  <2>2. channel' \in Seq(Script \cup Ping)
    <3>1. CASE V!SendScript
      <4>1. [kind |-> "script", of |-> batch] \in Script \cup Ping
        BY DEF Script, ServiceTypeOK
      <4> QED
        BY <3>1, <4>1, Appended DEF V!SendScript, V!Awaited, ServiceTypeOK
    <3>2. CASE V!RunScript
      BY <3>2, Taken DEF V!RunScript, V!Awaits, ServiceTypeOK
    <3> QED
      BY <1>2, <3>1, <3>2 DEF Dispatches, V!Begin, V!Dispatch, V!NextBatch, V!DispatchEnds,
                V!ScriptRaises, V!CallRaises, V!ScriptTimesOut, ServiceTypeOK
  <2> QED
    BY <1>2, <2>1, <2>2, DispatchLeaves DEF ServiceTypeOK
<1>3. CASE Verifies
  <2>1. scope' = RA /\ batch' \in SUBSET RA /\ results' \in [RA -> V!Result]
        /\ device' \in [RA -> BOOLEAN] /\ channel' \in Seq(Script \cup Ping)
    BY <1>3, VerificationLeaves, ScriptsLeft DEF ServiceTypeOK
  <2>2. CASE \E v \in V!Check : V!Conclude(v) /\ UNCHANGED <<since, running, typed, text>>
    <3>1. PICK v \in V!Check : V!Conclude(v)
      BY <2>2
    <3>2. i' = i + 1 /\ checks' = [checks EXCEPT ![V!Current] = v]
      BY <3>1 DEF V!Conclude
    <3>3. checks \in [V!Expectation -> V!Check] /\ i \in Nat \ {0}
      BY DEF ServiceTypeOK
    <3>4. checks' \in [V!Expectation -> V!Check]
      BY <3>1, <3>2, <3>3
    <3>5. i' \in Nat \ {0}
      BY <3>2, <3>3
    <3> QED
      BY <2>1, <2>2, <3>4, <3>5 DEF ServiceTypeOK
  <2>3. CASE V!TypePing
    BY <2>1, <2>3 DEF V!TypePing, V!own, ServiceTypeOK
  <2>4. CASE V!RunTyping
    <3>1. Head(channel) \in Ping /\ Head(channel).of \in V!Expectation
      BY <2>4, Taken DEF V!RunTyping, V!Awaits, ServiceTypeOK, Script, Ping
    <3>2. \A c \in V!Client : Len(text[c]) \in Nat
      BY DEF ServiceTypeOK
    <3>3. since' \in Nat /\ UNCHANGED <<i, checks, text>>
      BY <2>4, <3>1, <3>2, ServiceFacts DEF V!RunTyping, ServiceTypeOK
    <3>4. running' \in [V!Client -> V!Expectation \cup {"none"}]
      BY <2>4, <3>1, ServiceFacts DEF V!RunTyping, ServiceTypeOK
    <3>5. \A c \in V!Client : Append(typed[c], Head(channel).of) \in Seq(V!Expectation)
      BY <3>1, Appended DEF ServiceTypeOK
    <3>6. typed' \in [V!Client -> Seq(V!Expectation)]
      <4>1. \/ typed' = typed
            \/ \E c \in V!Client : typed' = [typed EXCEPT ![c] = Append(typed[c], Head(channel).of)]
        BY <2>4, <3>1, ServiceFacts DEF V!RunTyping, ServiceTypeOK
      <4> QED
        BY <3>5, <4>1 DEF ServiceTypeOK
    <3> QED
      BY <2>1, <3>3, <3>4, <3>6 DEF ServiceTypeOK
  <2>5. ASSUME NEW c \in V!Client, V!PingResolves(c) \/ V!PingEnds(c)
        PROVE  ServiceTypeOK'
    <3>1. running[c] \in V!Expectation /\ UNCHANGED <<i, since, checks>>
      BY <2>5 DEF V!PingResolves, V!PingEnds, ServiceTypeOK
    <3>2. PICK m \in Saying : text' = [text EXCEPT ![c] = Append(@, m)]
      BY <2>5, <3>1, LineSaid
    <3>4. text' \in [V!Client -> Seq(Saying)]
      BY <3>2, Appended DEF ServiceTypeOK
    <3>5. typed[c] # <<>> => Head(typed[c]) \in V!Expectation /\ Tail(typed[c]) \in Seq(V!Expectation)
      BY Taken DEF ServiceTypeOK
    <3>6. \/ UNCHANGED <<running, typed>>
          \/ /\ running' = [running EXCEPT ![c] = IF typed[c] = <<>> THEN "none" ELSE Head(typed[c])]
             /\ typed' = [typed EXCEPT ![c] = IF typed[c] = <<>> THEN typed[c] ELSE Tail(typed[c])]
      BY <2>5 DEF V!PingResolves, V!PingEnds, ServiceTypeOK
    <3> QED
      BY <2>1, <3>1, <3>4, <3>5, <3>6 DEF ServiceTypeOK
  <2> QED
    BY <1>3, <2>2, <2>3, <2>4, <2>5
    DEF Verifies, V!PassExpectation, V!Read, V!PingDoesNotStart, V!PollPing, V!Check
<1> QED
  BY <1>1, <1>2, <1>3 DEF V!Next, Dispatches, Verifies

\* A turn that has come stays come.
LEMMA AskedStays ==
    ASSUME NEW m \in Nat, NEW n \in Nat, m <= n, NEW e, Asked(e, m)
    PROVE  Asked(e, n)
  BY ServiceFacts DEF Asked

\* What ends a sequence is part of it (_fresh_command_window cuts the text).
LEMMA EndFacts ==
    ASSUME NEW A, NEW s \in Seq(A), NEW n \in Nat
    PROVE  \A k \in 1..Len(SubSeq(s, n + 1, Len(s))) :
              \E j \in 1..Len(s) : SubSeq(s, n + 1, Len(s))[k] = s[j]
<1> DEFINE w == SubSeq(s, n + 1, Len(s))
<1>1. Len(s) \in Nat
  OBVIOUS
<1>2. CASE n + 1 > Len(s)
  <2>1. Len(w) = 0
    BY <1>1, <1>2
  <2> QED
    BY <2>1
<1>3. CASE n + 1 <= Len(s)
  <2>1. Len(w) = Len(s) - n /\ \A k \in 1..Len(s) - n : w[k] = s[n + k]
    BY <1>1, <1>3
  <2>2. \A k \in 1..Len(s) - n : n + k \in 1..Len(s)
    BY <1>1
  <2> HIDE DEF w
  <2>3. \A k \in 1..Len(w) : \E j \in 1..Len(s) : w[k] = s[j]
    BY ONLY <2>1, <2>2
  <2> QED
    BY ONLY <2>3 DEF w
<1>4. n + 1 > Len(s) \/ n + 1 <= Len(s)
  BY <1>1
<1> QED
  BY ONLY <1>2, <1>3, <1>4

\* A verified expectation has read its own answer: what it read was said by a
\* ping of its client that was typed before, and no other one says it.
LEMMA MatchIsOwn ==
    ASSUME ServiceTypeOK, ServicePings, V!At("polling"), V!Matched,
           KindOf[V!Current] \in {"resolution", "negative"}, V!IsDistinct(V!Current)
    PROVE  V!AnsweredItself(V!Current)
<1> DEFINE e == V!Current
           c == ClientOf[V!Current]
<1>1. e \in V!Expectation /\ e = Expectations[i] /\ i \in 1..Len(Expectations) /\ c \in V!Client
  BY ServiceFacts DEF V!At, V!Current, ServiceTypeOK
<1>2. /\ \A k \in 1..Len(V!Window) : \E j \in 1..Len(text[c]) : V!Window[k] = text[c][j]
  <2>1. text[c] \in Seq(Saying) /\ Len(text[c]) \in Nat /\ since \in Nat
    BY <1>1 DEF ServiceTypeOK
  <2>2. V!Window = SubSeq(text[c], since + 1, Len(text[c]))
    BY DEF V!Window
  <2> HIDE DEF c
  <2> QED
    BY ONLY <2>1, <2>2, EndFacts
<1>3. PICK j \in 1..Len(text[c]) :
         IF KindOf[e] = "negative" THEN text[c][j].says = "not found"
         ELSE text[c][j].says # "not found" /\ AddressOf[e] \in Mentions[text[c][j].says]
  BY <1>2 DEF V!Matched, V!NotFound, V!IsFound
<1> DEFINE f == text[c][j].of
<1>4. /\ f \in V!Expectation /\ ClientOf[f] = c /\ Asked(f, i) /\ MaySay(f, text[c][j].says)
  <2>1. text[c] \in Seq(Saying)
    BY <1>1 DEF ServiceTypeOK
  <2>2. \A n \in 1..Len(text[c]) : text[c][n] \in Saying
    <3> HIDE DEF c
    <3> QED
      BY <2>1
  <2>3. f \in V!Expectation
    <3>1. text[c][j] \in Saying
      BY <2>2
    <3> QED
      BY <3>1 DEF Saying
  <2> QED
    BY <1>1, <1>3, <2>3 DEF ServicePings, ClientAsked
<1>5. PICK n \in 1..Len(Expectations) : n <= i /\ Expectations[n] = f
  BY <1>4 DEF Asked
<1>6. KindOf[f] = KindOf[e] /\ (KindOf[e] = "resolution" => AddressOf[e] \in Mentions[AddressOf[f]])
  <2>1. CASE KindOf[e] = "negative"
    <3>1. n = i \/ n < i
      BY <1>1, <1>5
    <3>2. ~(KindOf[f] = "resolution")
      BY <1>1, <2>1, <1>5, <3>1, ServiceFacts
    <3> QED
      BY <1>4, <2>1, <3>2 DEF Asked
  <2>2. CASE KindOf[e] = "resolution"
    BY <1>3, <1>4, <2>2 DEF MaySay
  <2> QED
    BY <2>1, <2>2
<1>7. f = e
  <2>1. n = i \/ n < i
    BY <1>1, <1>5
  <2>2. CASE n < i
    <3>1. /\ n < i /\ Expectations[i] = V!Current /\ ClientOf[Expectations[n]] = ClientOf[V!Current]
          /\ KindOf[Expectations[n]] = KindOf[V!Current]
      BY <1>1, <1>4, <1>5, <1>6, <2>2
    <3>2. KindOf[V!Current] = "resolution" /\ AddressOf[V!Current] \notin Mentions[AddressOf[Expectations[n]]]
      BY <1>1, <1>5, <3>1 DEF V!IsDistinct
    <3> QED
      BY <1>5, <1>6, <3>2
  <2> QED
    BY <1>1, <1>5, <2>1, <2>2
<1>8. text[c][j].says = IF KindOf[e] = "negative" THEN "not found" ELSE AddressOf[e]
  BY <1>3, <1>4, <1>7 DEF MaySay
<1> QED
  BY <1>3, <1>7, <1>8 DEF V!AnsweredItself

\* Verdicts and what was said only grow by what a step adds.
LEMMA EvidenceStays ==
    ASSUME ServiceTypeOK, V!EvidenceIsItsOwn,
           \A e \in V!Expectation : KindOf[e] \in {"resolution", "negative"} /\ checks'[e] = "verified" => checks[e] = "verified",
           \A c \in V!Client : \A k \in 1..Len(text[c]) :
              k \in 1..Len(text'[c]) /\ text'[c][k] = text[c][k]
    PROVE  V!EvidenceIsItsOwn'
<1> SUFFICES ASSUME NEW e \in V!Expectation, V!VerifiedByPing(e)', V!IsDistinct(e)'
             PROVE  V!AnsweredItself(e)'
  BY DEF V!EvidenceIsItsOwn
<1>1. V!VerifiedByPing(e) /\ V!IsDistinct(e)
  BY DEF V!VerifiedByPing, V!IsDistinct
<1>2. V!AnsweredItself(e)
  BY <1>1 DEF V!EvidenceIsItsOwn
<1> QED
  BY <1>2, ServiceFacts DEF V!AnsweredItself

\* What the prompt of a client shows is of pings asked so far.
LEMMA ServicePingsStep ==
    ASSUME ServiceTypeOK, ServicePings, V!Next
    PROVE  ServicePings'
<1>1. ChannelAsked /\ (\A c \in V!Client : ClientAsked(c)) /\ V!EvidenceIsItsOwn
  BY DEF ServicePings
<1>2. CASE V!Refuse \/ V!Return
  <2>1. UNCHANGED <<channel, i, checks, running, typed, text>>
    BY <1>2 DEF V!Refuse, V!Return
  <2>2. V!EvidenceIsItsOwn'
    BY <1>1, <2>1, EvidenceStays
  <2> QED
    BY <1>1, <2>1, <2>2 DEF ServicePings, ChannelAsked, ClientAsked
<1>3. CASE Dispatches
  <2>1. UNCHANGED <<i, checks, running, typed, text>>
    BY <1>3, DispatchLeaves
  <2>2. ChannelAsked'
    <3>1. CASE V!SendScript
      <4>1. [kind |-> "script", of |-> batch] \in Script \cup Ping
        BY DEF Script, ServiceTypeOK
      <4>2. channel' = Append(channel, [kind |-> "script", of |-> batch])
        BY <3>1 DEF V!SendScript, V!Awaited
      <4>3. /\ Len(channel) \in Nat /\ Len(channel') = Len(channel) + 1
            /\ channel'[Len(channel) + 1] = [kind |-> "script", of |-> batch]
            /\ \A j \in 1..Len(channel) : channel'[j] = channel[j]
        BY <4>1, <4>2, Appended DEF ServiceTypeOK
      <4>4. channel'[Len(channel) + 1].kind # "ping"
        BY <4>3
      <4> QED
        BY <1>1, <2>1, <4>3, <4>4 DEF ChannelAsked, Asked
    <3>2. CASE V!RunScript
      <4>1. \A j \in 1..Len(channel') : channel'[j] = channel[j + 1] /\ j + 1 \in 1..Len(channel)
        BY <3>2, Taken DEF V!RunScript, V!Awaits, ServiceTypeOK
      <4> QED
        BY <1>1, <2>1, <4>1 DEF ChannelAsked, Asked
    <3>3. CASE UNCHANGED channel
      BY <1>1, <2>1, <3>3 DEF ChannelAsked, Asked
    <3> QED
      BY <1>3, <3>1, <3>2, <3>3 DEF Dispatches, V!Begin, V!Dispatch, V!NextBatch, V!DispatchEnds,
                V!ScriptRaises, V!CallRaises, V!ScriptTimesOut
  <2>3. \A c \in V!Client : ClientAsked(c)'
    BY <1>1, <2>1 DEF ClientAsked
  <2>4. V!EvidenceIsItsOwn'
    BY <1>1, <2>1 DEF V!EvidenceIsItsOwn, V!VerifiedByPing, V!AnsweredItself, V!IsDistinct
  <2> QED
    BY <2>2, <2>3, <2>4 DEF ServicePings
<1>4. CASE Verifies
  <2>1. i \in Nat /\ i' \in Nat /\ i <= i'
    <3>1. i' = i \/ i' = i + 1
      BY <1>4 DEF Verifies, V!PassExpectation, V!Read, V!TypePing, V!RunTyping, V!PingDoesNotStart,
                  V!PingResolves, V!PingEnds, V!PollPing, V!Conclude, V!own
    <3>2. i \in Nat
      BY DEF ServiceTypeOK
    <3> QED
      BY <3>1, <3>2
  <2>2. \A e : Asked(e, i) => Asked(e, i')
    BY <2>1, AskedStays
  <2>3. V!TypePing => Asked(V!Current, i')
    BY ServiceFacts DEF V!TypePing, V!At, V!Current, V!own, Asked, ServiceTypeOK
  <2>4. ChannelAsked'
    BY <1>1, <1>4, <2>2, <2>3, ScriptsLeft DEF ChannelAsked
  <2>5. CASE UNCHANGED <<running, typed, text>>
    <3>1. \A c \in V!Client : ClientAsked(c)'
      BY <1>1, <2>2, <2>5 DEF ClientAsked
    <3>2. V!EvidenceIsItsOwn'
      <4>1. CASE V!TypePing
        BY <1>1, <2>5, <4>1, EvidenceStays DEF V!TypePing, V!own
      <4>2. CASE V!PollPing
        <5>1. checks' = [checks EXCEPT ![V!Current] = IF V!Matched THEN "verified" ELSE "failed"]
          BY <4>2 DEF V!PollPing, V!Conclude
        <5>2. ASSUME NEW e \in V!Expectation, KindOf[e] \in {"resolution", "negative"},
                     checks'[e] = "verified", V!IsDistinct(e)
              PROVE  V!AnsweredItself(e)
          <6>1. CASE e = V!Current
            <7>1. V!Matched
              BY <5>1, <5>2, <6>1 DEF ServiceTypeOK
            <7> QED
              BY <4>2, <5>2, <6>1, <7>1, MatchIsOwn DEF V!PollPing
          <6>2. CASE e # V!Current
            BY <1>1, <5>1, <5>2, <6>2 DEF V!EvidenceIsItsOwn, V!VerifiedByPing, ServiceTypeOK
          <6> QED
            BY <6>1, <6>2
        <5> QED
          BY <2>5, <5>2 DEF V!EvidenceIsItsOwn, V!VerifiedByPing, V!AnsweredItself, V!IsDistinct
      <4>3. CASE V!PassExpectation \/ V!Read \/ V!PingDoesNotStart
        <5>1. PICK v : /\ checks' = [checks EXCEPT ![V!Current] = v]
                       /\ v = "verified" => KindOf[V!Current] \in {"direct", "fetch"}
          BY <4>3 DEF V!PassExpectation, V!Read, V!PingDoesNotStart, V!Conclude
        <5>2. \A e \in V!Expectation : KindOf[e] \in {"resolution", "negative"} /\ checks'[e] = "verified" => checks[e] = "verified"
          BY <5>1 DEF ServiceTypeOK
        <5> QED
          BY <1>1, <2>5, <5>2, EvidenceStays
      <4>4. CASE V!RunTyping \/ \E c \in V!Client : V!PingResolves(c) \/ V!PingEnds(c)
        BY <1>1, <2>5, <4>4, EvidenceStays DEF V!RunTyping, V!PingResolves, V!PingEnds
      <4> QED
        BY <1>4, <4>1, <4>2, <4>3, <4>4 DEF Verifies
    <3> QED
      BY <2>4, <3>1, <3>2 DEF ServicePings
  <2>6. CASE V!RunTyping
    <3> DEFINE e == Head(channel).of
    <3>1. /\ Head(channel) \in Ping /\ Head(channel) = channel[1] /\ 1 \in 1..Len(channel)
      BY <2>6, Taken DEF V!RunTyping, V!Awaits, ServiceTypeOK, Script, Ping
    <3>2. e \in V!Expectation /\ Asked(e, i) /\ ClientOf[e] \in V!Client
      BY <1>1, <3>1, ServiceFacts DEF ChannelAsked, Ping
    <3>3. /\ UNCHANGED <<checks, text, i>>
          /\ \/ running' = [running EXCEPT ![ClientOf[e]] = e] /\ typed' = typed
             \/ running' = running /\ typed' = [typed EXCEPT ![ClientOf[e]] = Append(@, e)]
             \/ running' = running /\ typed' = typed
      BY <2>6 DEF V!RunTyping
    <3> HIDE DEF e
    <3>4. \A c \in V!Client : running'[c] = running[c] \/ (running'[c] = e /\ c = ClientOf[e])
      BY <3>2, <3>3 DEF ServiceTypeOK
    <3>5. \A c \in V!Client : \A k \in 1..Len(typed'[c]) :
             \/ k \in 1..Len(typed[c]) /\ typed'[c][k] = typed[c][k]
             \/ typed'[c][k] = e /\ c = ClientOf[e]
      <4> SUFFICES ASSUME NEW c \in V!Client, NEW k \in 1..Len(typed'[c])
                   PROVE  \/ k \in 1..Len(typed[c]) /\ typed'[c][k] = typed[c][k]
                          \/ typed'[c][k] = e /\ c = ClientOf[e]
        OBVIOUS
      <4>1. typed[c] \in Seq(V!Expectation)
        BY DEF ServiceTypeOK
      <4>2. typed'[c] = typed[c] \/ (typed'[c] = Append(typed[c], e) /\ c = ClientOf[e])
        BY <3>2, <3>3 DEF ServiceTypeOK
      <4>3. /\ Len(typed[c]) \in Nat /\ Len(Append(typed[c], e)) = Len(typed[c]) + 1
            /\ Append(typed[c], e)[Len(typed[c]) + 1] = e
            /\ \A j \in 1..Len(typed[c]) : Append(typed[c], e)[j] = typed[c][j]
        BY <3>2, <4>1, Appended
      <4> QED
        BY <4>2, <4>3
    <3>6. \A c \in V!Client : ClientAsked(c)'
      BY <1>1, <2>2, <3>2, <3>3, <3>4, <3>5 DEF ClientAsked
    <3>7. V!EvidenceIsItsOwn'
      BY <1>1, <3>3, EvidenceStays
    <3> QED
      BY <2>4, <3>6, <3>7 DEF ServicePings
  <2>7. ASSUME NEW c \in V!Client, V!PingResolves(c) \/ V!PingEnds(c)
        PROVE  ServicePings'
    <3> DEFINE e == running[c]
    <3>1. e \in V!Expectation /\ Asked(e, i) /\ ClientOf[e] = c /\ UNCHANGED <<checks, i>>
      <4>1. e # "none" /\ UNCHANGED <<checks, i>>
        BY <2>7 DEF V!PingResolves, V!PingEnds
      <4> QED
        BY <1>1, <4>1 DEF ServiceTypeOK, ClientAsked
    <3>2. PICK m \in Saying : /\ m.of = e /\ MaySay(m.of, m.says)
                             /\ text' = [text EXCEPT ![c] = Append(@, m)]
      BY <1>1, <2>7, <3>1, LineSaid
    <3>3. \/ UNCHANGED <<running, typed>>
          \/ /\ running' = [running EXCEPT ![c] = IF typed[c] = <<>> THEN "none" ELSE Head(typed[c])]
             /\ typed' = [typed EXCEPT ![c] = IF typed[c] = <<>> THEN typed[c] ELSE Tail(typed[c])]
      BY <2>7 DEF V!PingResolves, V!PingEnds, ServiceTypeOK
    <3> HIDE DEF e
    <3>5. /\ text[c] \in Seq(Saying) /\ text'[c] = Append(text[c], m)
          /\ \A b \in V!Client \ {c} : text'[b] = text[b]
      BY <3>2 DEF ServiceTypeOK
    <3>6. /\ Len(text[c]) \in Nat /\ Len(text'[c]) = Len(text[c]) + 1
          /\ text'[c][Len(text[c]) + 1] = m
          /\ \A j \in 1..Len(text[c]) : text'[c][j] = text[c][j]
      BY <3>2, <3>5, Appended
    <3>7. ASSUME typed[c] # <<>>
          PROVE  /\ Head(typed[c]) = typed[c][1] /\ 1 \in 1..Len(typed[c])
                 /\ \A j \in 1..Len(Tail(typed[c])) :
                       Tail(typed[c])[j] = typed[c][j + 1] /\ j + 1 \in 1..Len(typed[c])
      BY <3>7, Taken DEF ServiceTypeOK
    <3>8. ClientAsked(c)'
      <4>1. running'[c] # "none" => Asked(running'[c], i') /\ ClientOf[running'[c]] = c
        <5>0. CASE UNCHANGED running
          BY <1>1, <2>2, <5>0 DEF ClientAsked
        <5>1. CASE ~UNCHANGED running /\ typed[c] = <<>>
          BY <3>3, <5>1 DEF ServiceTypeOK
        <5>2. CASE ~UNCHANGED running /\ typed[c] # <<>>
          <6>1. running'[c] = typed[c][1]
            BY <3>3, <3>7, <5>2 DEF ServiceTypeOK
          <6> QED
            BY <1>1, <3>1, <3>7, <5>2, <6>1 DEF ClientAsked
        <5> QED
          BY <5>0, <5>1, <5>2
      <4>2. \A k \in 1..Len(typed'[c]) : Asked(typed'[c][k], i') /\ ClientOf[typed'[c][k]] = c
        <5>1. CASE typed[c] = <<>> \/ UNCHANGED typed
          BY <1>1, <3>1, <3>3, <5>1 DEF ClientAsked, ServiceTypeOK
        <5>2. CASE typed[c] # <<>> /\ ~UNCHANGED typed
          <6>1. typed'[c] = Tail(typed[c])
            BY <3>3, <5>2 DEF ServiceTypeOK
          <6> QED
            BY <1>1, <3>1, <3>7, <5>2, <6>1 DEF ClientAsked
        <5> QED
          BY <5>1, <5>2
      <4>3. \A k \in 1..Len(text'[c]) : /\ Asked(text'[c][k].of, i') /\ ClientOf[text'[c][k].of] = c
                                       /\ MaySay(text'[c][k].of, text'[c][k].says)
        <5>1. \A k \in 1..Len(text'[c]) : k \in 1..Len(text[c]) \/ k = Len(text[c]) + 1
          BY <3>6
        <5>2. Asked(m.of, i) /\ ClientOf[m.of] = c /\ MaySay(m.of, m.says)
          BY <3>1, <3>2
        <5>3. \A k \in 1..Len(text[c]) : /\ Asked(text[c][k].of, i) /\ ClientOf[text[c][k].of] = c
                                        /\ MaySay(text[c][k].of, text[c][k].says)
          BY <1>1 DEF ClientAsked
        <5>4. i' = i
          BY <3>1
        <5> HIDE DEF ClientAsked
        <5> TAKE k \in 1..Len(text'[c])
        <5>5. CASE k \in 1..Len(text[c])
          <6>1. text'[c][k] = text[c][k]
            BY <3>6, <5>5
          <6> QED
            BY <5>3, <5>4, <5>5, <6>1
        <5>6. CASE k = Len(text[c]) + 1
          <6>1. text'[c][k] = m
            BY <3>6, <5>6
          <6> QED
            BY <5>2, <5>4, <6>1
        <5> QED
          BY <5>1, <5>5, <5>6
      <4> QED
        BY <2>2, <4>1, <4>2, <4>3 DEF ClientAsked
    <3>9. \A b \in V!Client \ {c} : ClientAsked(b)'
      <4>1. \A b \in V!Client \ {c} : running'[b] = running[b] /\ typed'[b] = typed[b]
        BY <3>3 DEF ServiceTypeOK
      <4> SUFFICES ASSUME NEW b \in V!Client \ {c}
                   PROVE  ClientAsked(b)'
        OBVIOUS
      <4>2. /\ running'[b] = running[b] /\ typed'[b] = typed[b] /\ text'[b] = text[b]
            /\ i' = i
        BY <3>1, <3>5, <4>1
      <4>3. ClientAsked(b)
        BY <1>1
      <4> QED
        BY <4>2, <4>3 DEF ClientAsked
    <3>10. V!EvidenceIsItsOwn'
      <4>1. \A b \in V!Client : \A k \in 1..Len(text[b]) :
               k \in 1..Len(text'[b]) /\ text'[b][k] = text[b][k]
        BY <3>5, <3>6
      <4> QED
        BY <1>1, <3>1, <4>1, EvidenceStays
    <3> QED
      BY <2>4, <3>8, <3>9, <3>10 DEF ServicePings
  <2> QED
    BY <1>4, <2>5, <2>6, <2>7
    DEF Verifies, V!PassExpectation, V!Read, V!TypePing, V!PingDoesNotStart, V!PollPing, V!own
<1> QED
  BY <1>2, <1>3, <1>4 DEF V!Next, Dispatches, Verifies

\* The invariant of the service application is inductive.
LEMMA ServiceStep ==
    ASSUME ServiceInv, [V!Next]_V!vars
    PROVE  ServiceInv'
<1>1. CASE V!Next
  BY <1>1, ServiceTypeStep, ServiceGroundStep, ServicePingsStep DEF ServiceInv
<1>2. CASE UNCHANGED V!vars
  <2>1. UNCHANGED <<channel, device, i, checks, running, typed, text>>
    BY <1>2 DEF V!vars, V!own
  <2>2. ServiceTypeOK' /\ ServiceGround'
    BY <1>2 DEF V!vars, V!dispatch, V!own, ServiceInv, ServiceTypeOK, ServiceGround, V!LateScriptFindsItsGround
  <2>3. V!EvidenceIsItsOwn'
    BY <2>1, EvidenceStays DEF ServiceInv, ServicePings
  <2> QED
    BY <2>1, <2>2, <2>3 DEF ServiceInv, ServicePings, ChannelAsked, ClientAsked
<1> QED
  BY <1>1, <1>2

-----------------------------------------------------------------------------
(* The security policies.                                                  *)

PA       == S!Action
Sent     == {S!Message({a}) : a \in PA}
Undo     == [kind : {"cleanup"}, of : PA]
Verdicts == {"failed", "unobservable", "unknown", "verified"}

\* A policy in a queue; that none is there twice; that no cleanup is there.
In(a, q)  == \E k \in 1..Len(q) : q[k] = S!Message({a})
Once(q)   == \A j, k \in 1..Len(q) : q[j] = q[k] /\ q[j] \in Sent => j = k
NoUndo(q) == \A k \in 1..Len(q) : q[k] \notin Undo

Probing   == {"behavior", "cleanup", "judge", "returned"}
Probed    == {"cleanup", "judge", "returned"}
Recovered == {"judge", "returned"}

SecurityTypeOK ==
    /\ scope = PA /\ batch \in SUBSET PA /\ call \in SUBSET PA
    /\ results \in [PA -> S!Result] /\ device \in [PA -> BOOLEAN]
    /\ channel \in Seq(Sent \cup Undo)
    /\ control \in BOOLEAN
    /\ direct \in [Readable -> S!Check] /\ enforced \in [Denies -> S!Check]
    /\ recovered \in [Recovers -> S!Check]

\* A policy is sent once, and is not in effect before.
QueueInv ==
    /\ pc = "preflight" => \A a \in PA : results[a] = "none"
    /\ pc = "call" => call # {} /\ \A a \in call : results[a] = "none"
    /\ \A a \in PA : results[a] = "none" => ~In(a, channel) /\ ~device[a]
    /\ \A a \in PA : device[a] => ~In(a, channel)
    /\ Once(channel)
    /\ pc \in {"observed"} \cup Probing => \A a \in PA : results[a] # "none"
    /\ ~control \/ pc \notin Probed => NoUndo(channel)

\* What the baseline and the probes have shown.  Without a cleanup a policy
\* stays; with one, a policy that was in effect is not on its way any more.
ProbeInv ==
    /\ pc \notin {"preflight", "refused"} => worked = Denies
    /\ pc = "cleanup" => control
    /\ pc \in Probing => \A a \in Readable :
          /\ S!Satisfied(results[a]) => direct[a] \in Verdicts
          /\ direct[a] = "verified" /\ (~control \/ pc = "behavior") => device[a]
    /\ pc \in Probed => \A a \in Denies :
          /\ S!MayProbe(a) => enforced[a] \in Verdicts
          /\ enforced[a] = "verified" => ~In(a, channel) /\ (~control => device[a])
    /\ pc \in Recovered /\ control => \A a \in Recovers :
          /\ S!CleanedUp /\ S!Satisfied(results[a]) => recovered[a] \in Verdicts
          /\ recovered[a] = "verified" /\ enforced[a] = "verified" => ~device[a]

StatusInv ==
    status = "verified" =>
        /\ pc = "returned"
        /\ \A a \in Denies : enforced[a] = "verified"
        /\ \A a \in Readable : direct[a] = "verified"
        /\ control => \A a \in Recovers : recovered[a] = "verified"

SecurityInv == SecurityTypeOK /\ QueueInv /\ ProbeInv /\ StatusInv

\* What the assumption says of the policies.
LEMMA SecurityFacts ==
    /\ Policies \in Seq(PA) /\ PA = S!Range(Policies)
    /\ Denies \subseteq PA /\ Readable \subseteq PA /\ Recovers \subseteq Denies
<1>1. S!SecurityAssumption
  BY ApplicationsAssumption
<1> QED
  BY <1>1 DEF S!SecurityAssumption, S!DispatchAssumption, S!Action, PA

\* No two policies have one message, and no message is both an order and its
\* undoing.
LEMMA MessagesDiffer ==
    /\ \A a, b \in PA : S!Message({a}) = S!Message({b}) => a = b
    /\ \A m \in Sent : m.kind = "action" /\ m \notin Undo
    /\ \A m \in Undo : m.kind = "cleanup" /\ m \notin Sent
<1>1. \A a \in PA : S!Message({a}).of = {a} /\ S!Message({a}).kind = "action"
  BY DEF S!Message
<1>2. \A m \in Undo : m.kind = "cleanup"
  BY DEF Undo
<1>3. \A m \in Sent : m.kind = "action"
  BY <1>1 DEF Sent
<1>4. \A a, b \in PA : {a} = {b} => a = b
  OBVIOUS
<1> QED
  BY <1>1, <1>2, <1>3, <1>4

\* What a message at the end of a queue changes, and what taking the first.
LEMMA QueueGrows ==
    ASSUME NEW q \in Seq(Sent \cup Undo), NEW m \in Sent \cup Undo
    PROVE  /\ Append(q, m) \in Seq(Sent \cup Undo)
           /\ \A a \in PA : In(a, Append(q, m)) <=> In(a, q) \/ m = S!Message({a})
           /\ Once(q) /\ (m \in Sent => \A k \in 1..Len(q) : q[k] # m) => Once(Append(q, m))
           /\ NoUndo(q) /\ m \in Sent => NoUndo(Append(q, m))
<1> DEFINE r == Append(q, m)
<1>1. /\ r \in Seq(Sent \cup Undo) /\ Len(q) \in Nat /\ Len(r) = Len(q) + 1
      /\ r[Len(q) + 1] = m /\ \A j \in 1..Len(q) : r[j] = q[j] /\ j \in 1..Len(r)
  BY Appended
<1> HIDE DEF r
<1>2. \A k \in 1..Len(r) : k \in 1..Len(q) \/ k = Len(q) + 1
  BY <1>1
<1>3. Len(q) + 1 \in 1..Len(r)
  BY <1>1
<1>4. \A a \in PA : In(a, r) <=> In(a, q) \/ m = S!Message({a})
  BY <1>1, <1>2, <1>3 DEF In
<1>5. Once(q) /\ (m \in Sent => \A k \in 1..Len(q) : q[k] # m) => Once(r)
  BY <1>1, <1>2 DEF Once
<1>6. NoUndo(q) /\ m \in Sent => NoUndo(r)
  BY <1>1, <1>2, MessagesDiffer DEF NoUndo
<1> QED
  BY <1>1, <1>4, <1>5, <1>6 DEF r

\* A message that runs takes one order of its policy out of the queue.
LEMMA QueueShrinks ==
    ASSUME NEW q \in Seq(Sent \cup Undo), q # <<>>
    PROVE  /\ Tail(q) \in Seq(Sent \cup Undo) /\ Head(q) \in Sent \cup Undo
           /\ \A a \in PA : In(a, Tail(q)) => In(a, q)
           /\ Once(q) => Once(Tail(q))
           /\ NoUndo(q) => NoUndo(Tail(q)) /\ Head(q) \in Sent
           /\ \A a \in PA : Head(q) = S!Message({a}) => In(a, q) /\ (Once(q) => ~In(a, Tail(q)))
<1> DEFINE r == Tail(q)
<1>1. /\ r \in Seq(Sent \cup Undo) /\ Head(q) \in Sent \cup Undo /\ Len(q) \in Nat \ {0}
      /\ Head(q) = q[1] /\ 1 \in 1..Len(q)
      /\ \A j \in 1..Len(r) : r[j] = q[j + 1] /\ j + 1 \in 1..Len(q) /\ j \in Nat
  BY Taken
<1> HIDE DEF r
<1>2. \A a \in PA : In(a, r) => In(a, q)
  BY <1>1 DEF In
<1>3. Once(q) => Once(r)
  <2> SUFFICES ASSUME Once(q), NEW j \in 1..Len(r), NEW k \in 1..Len(r), r[j] = r[k], r[j] \in Sent
               PROVE  j = k
    BY DEF Once
  <2>1. j + 1 = k + 1
    BY <1>1 DEF Once
  <2> QED
    BY <1>1, <2>1
<1>4. NoUndo(q) => NoUndo(r) /\ Head(q) \in Sent
  BY <1>1 DEF NoUndo
<1>5. ASSUME NEW a \in PA, Head(q) = S!Message({a})
      PROVE  In(a, q) /\ (Once(q) => ~In(a, r))
  <2>1. q[1] = S!Message({a}) /\ S!Message({a}) \in Sent
    BY <1>1, <1>5 DEF Sent
  <2>2. \A j \in 1..Len(r) : j + 1 # 1
    BY <1>1
  <2> QED
    BY <1>1, <2>1, <2>2 DEF In, Once
<1> QED
  BY <1>1, <1>2, <1>3, <1>4, <1>5 DEF r

-----------------------------------------------------------------------------
(* The first and the last of some actions of a plan.                       *)

\* A set of numbers that is not empty has a least one.
LEMMA LeastOfNumbers ==
    ASSUME NEW N \in SUBSET Nat, N # {}
    PROVE  \E m \in N : \A k \in N : m <= k
<1> DEFINE R == {ss \in Nat \X Nat : ss[1] < ss[2]}
<1>1. IsWellFoundedOn(R, Nat)
  BY NatLessThanWellFounded, Zenon DEF OpToRel
<1>2. PICK m \in N : \A k \in N : ~(<<k, m>> \in R)
  <2> HIDE DEF R
  <2> QED
    BY <1>1, WFMin
<1>3. ASSUME NEW k \in N
      PROVE  ~(k < m)
  <2>1. k < m => <<k, m>> \in R
    OBVIOUS
  <2> HIDE DEF R
  <2> QED
    BY <2>1, <1>2
<1>4. \A k \in N : k \in Nat /\ m \in Nat
  OBVIOUS
<1> HIDE DEF R
<1> QED
  BY <1>3, <1>4

\* Whatever is numbered has a least one.
LEMMA LeastIsThere ==
    ASSUME NEW B, B # {}, NEW f \in [B -> Nat]
    PROVE  \E a \in B : \A b \in B : f[a] <= f[b]
<1> DEFINE N == {f[a] : a \in B}
<1>1. N \in SUBSET Nat /\ N # {}
  OBVIOUS
<1>2. PICK m \in N : \A k \in N : m <= k
  <2> HIDE DEF N
  <2> QED
    BY <1>1, LeastOfNumbers
<1> QED
  BY <1>2

\* Every policy has a place in the plan.
LEMMA PlacesInPlan ==
    \A a \in PA : S!Place(a) \in 1..Len(Policies) /\ Len(Policies) \in Nat
<1>1. Len(Policies) \in Nat /\ DOMAIN Policies = 1..Len(Policies)
  BY SecurityFacts
<1>2. \A a \in PA : \E k \in 1..Len(Policies) : Policies[k] = a
  BY <1>1, SecurityFacts DEF S!Range
<1> QED
  BY <1>1, <1>2 DEF S!Place

\* The first and the last of some policies are among them.
LEMMA FirstAndLast ==
    ASSUME NEW B \in SUBSET PA, B # {}
    PROVE  S!FirstOf(B) \in B /\ S!LastOf(B) \in B
<1> DEFINE up   == [a \in B |-> S!Place(a)]
           down == [a \in B |-> Len(Policies) - S!Place(a)]
<1>1. up \in [B -> Nat] /\ down \in [B -> Nat]
  BY PlacesInPlan
<1>2. \E a \in B : \A b \in B : S!Place(a) <= S!Place(b)
  <2>1. \E a \in B : \A b \in B : up[a] <= up[b]
    <3> HIDE DEF up
    <3> QED
      BY <1>1, LeastIsThere
  <2> QED
    BY <2>1
<1>3. \E a \in B : \A b \in B : S!Place(b) <= S!Place(a)
  <2>1. PICK a \in B : \A b \in B : down[a] <= down[b]
    <3> HIDE DEF down
    <3> QED
      BY <1>1, LeastIsThere
  <2>2. ASSUME NEW b \in B
        PROVE  S!Place(b) <= S!Place(a)
    <3>1. Len(Policies) - S!Place(a) <= Len(Policies) - S!Place(b)
      BY <2>1
    <3>2. S!Place(a) \in Nat /\ S!Place(b) \in Nat /\ Len(Policies) \in Nat
      BY PlacesInPlan
    <3> QED
      BY <3>1, <3>2
  <2> QED
    BY <2>2
<1> QED
  BY <1>2, <1>3 DEF S!FirstOf, S!LastOf

-----------------------------------------------------------------------------
(* Every step of the security application keeps its invariant.             *)

\* A security application that has not begun has sent nothing.
LEMMA SecurityInit ==
    ASSUME S!Init
    PROVE  SecurityInv
<1>1. channel = <<>> /\ pc = "preflight" /\ scope = PA
  BY DEF S!Init, S!DispatchInit, PA
<1>2. SecurityTypeOK
  BY <1>1 DEF S!Init, S!DispatchInit, SecurityTypeOK, PA, S!Result, S!Check
<1>3. QueueInv
  BY <1>1 DEF S!Init, S!DispatchInit, QueueInv, PA, In, Once, NoUndo, Probing
<1>4. ProbeInv
  BY <1>1 DEF ProbeInv, Probing, Probed, Recovered
<1>5. StatusInv
  BY DEF S!Init, StatusInv
<1> QED
  BY <1>2, <1>3, <1>4, <1>5 DEF SecurityInv

\* The stages before any policy is sent.
LEMMA SecurityBegins ==
    ASSUME SecurityInv, S!Refuse \/ S!Baseline
    PROVE  SecurityInv'
<1>1. /\ pc = "preflight" /\ pc' \in {"refused", "dispatch"}
      /\ UNCHANGED <<scope, batch, call, channel, device, control, direct, enforced, recovered, undone>>
      /\ status' \in {status, "failed"}
      /\ results' = results \/ results' = S!Given
  BY DEF S!Refuse, S!Baseline, S!dispatch
<1>2. pc' = "dispatch" => worked' = Denies
  BY DEF S!Refuse, S!Baseline, S!BaselineHolds
<1>3. S!Given \in [PA -> S!Result] /\ \A a \in PA : S!Given[a] # "applied"
  BY DEF S!Given, S!Result, PA, SecurityInv, SecurityTypeOK
<1>4. SecurityTypeOK'
  BY <1>1, <1>3 DEF SecurityInv, SecurityTypeOK
<1>5. QueueInv'
  BY <1>1, <1>3 DEF SecurityInv, QueueInv, Probed, Probing
<1>6. ProbeInv' /\ StatusInv'
  BY <1>1, <1>2 DEF SecurityInv, ProbeInv, StatusInv, Probing, Probed, Recovered
<1> QED
  BY <1>4, <1>5, <1>6 DEF SecurityInv

\* Until the verification the invariant says of the stages only that denied
\* traffic was seen.
LEMMA NotYetProbed ==
    ASSUME SecurityInv, pc \notin {"preflight", "refused"}, pc' \notin {"preflight", "refused"} \cup Probing,
           UNCHANGED <<worked, status>>, pc # "returned"
    PROVE  ProbeInv' /\ StatusInv'
  BY DEF SecurityInv, ProbeInv, StatusInv, Probing, Probed, Recovered

\* The loop that sends them.
LEMMA SecurityDispatches ==
    ASSUME SecurityInv, S!Dispatch \/ S!Send \/ S!Raise
    PROVE  SecurityInv'
<1>1. /\ pc \in {"dispatch", "call"} /\ pc' \in {"dispatch", "call", "observed"}
      /\ UNCHANGED <<scope, device, control, direct, enforced, recovered, worked, status>>
  BY DEF S!Dispatch, S!NextBatch, S!DispatchEnds, S!Send, S!SendAction, S!Raise, S!CallRaises, S!own
<1>2. ProbeInv' /\ StatusInv'
  BY <1>1, NotYetProbed DEF Probing
<1>3. CASE S!NextBatch
  <2> DEFINE rs == S!Blocked(results)
  <2>1. /\ rs \in [PA -> S!Result]
        /\ \A a \in PA : rs[a] = "none" => results[a] = "none"
    BY DEF S!Blocked, PA, S!Result, SecurityInv, SecurityTypeOK
  <2>2. /\ results' = rs /\ call' \subseteq S!Ready(rs) /\ batch' = call' /\ UNCHANGED channel
        /\ pc' = "call"
    BY <1>3 DEF S!NextBatch
  <2>3. S!Ready(rs) \subseteq PA /\ \A a \in S!Ready(rs) : rs[a] = "none"
    BY DEF S!Ready, PA
  <2>4. call' # {}
    <3>1. S!Ready(rs) # {}
      BY <1>3 DEF S!NextBatch
    <3>2. S!FirstOf(S!Ready(rs)) \in S!Ready(rs)
      BY <2>3, <3>1, FirstAndLast
    <3> QED
      BY <1>3, <3>2 DEF S!NextBatch
  <2> HIDE DEF rs
  <2>5. SecurityTypeOK'
    BY <1>1, <2>1, <2>2, <2>3 DEF SecurityInv, SecurityTypeOK
  <2>6. QueueInv'
    BY <1>1, <2>1, <2>2, <2>3, <2>4 DEF SecurityInv, QueueInv, Probed, Probing
  <2> QED
    BY <1>2, <2>5, <2>6 DEF SecurityInv
<1>4. CASE S!DispatchEnds("observed")
  <2>1. /\ results' = [a \in PA |-> IF results[a] = "none" THEN "blocked" ELSE results[a]]
        /\ pc' = "observed" /\ UNCHANGED <<batch, call, channel>>
    BY <1>4 DEF S!DispatchEnds, PA
  <2>2. SecurityTypeOK'
    BY <1>1, <2>1 DEF SecurityInv, SecurityTypeOK, S!Result
  <2>3. QueueInv'
    BY <1>1, <2>1 DEF SecurityInv, QueueInv, Probed, Probing
  <2> QED
    BY <1>2, <2>2, <2>3 DEF SecurityInv
<1>5. CASE S!CallRaises
  <2>1. /\ results' = [a \in PA |-> IF a \in batch THEN "failed" ELSE results[a]]
        /\ pc' = "dispatch" /\ call' = {} /\ UNCHANGED <<batch, channel>>
    BY <1>5 DEF S!CallRaises, PA
  <2>2. SecurityTypeOK'
    BY <1>1, <2>1 DEF SecurityInv, SecurityTypeOK, S!Result
  <2>3. QueueInv'
    BY <1>1, <2>1 DEF SecurityInv, QueueInv, Probed, Probing
  <2> QED
    BY <1>2, <2>2, <2>3 DEF SecurityInv
<1>6. CASE S!SendAction
  <2> DEFINE a == S!FirstOf(call)
  <2>1. pc = "call" /\ call # {} /\ call \in SUBSET PA
    BY <1>6 DEF S!SendAction, SecurityInv, QueueInv, SecurityTypeOK
  <2>2. a \in call /\ a \in PA /\ results[a] = "none" /\ ~In(a, channel) /\ ~device[a]
    BY <2>1, FirstAndLast DEF SecurityInv, QueueInv
  <2>3. /\ channel' = channel \/ channel' = Append(channel, S!Message({a}))
        /\ \E s \in {"applied", "failed"} : results' = [results EXCEPT ![a] = s]
        /\ call' = call \ {a} /\ UNCHANGED batch
        /\ pc' = IF call' = {} THEN "dispatch" ELSE "call"
    BY <1>6 DEF S!SendAction
  <2> HIDE DEF a
  <2>4. S!Message({a}) \in Sent
    BY <2>2 DEF Sent
  <2>5. channel \in Seq(Sent \cup Undo) /\ Once(channel) /\ NoUndo(channel)
    BY <1>1 DEF SecurityInv, SecurityTypeOK, QueueInv, Probed, Probing
  <2>6. /\ channel' \in Seq(Sent \cup Undo) /\ Once(channel') /\ NoUndo(channel')
        /\ \A b \in PA : In(b, channel') => In(b, channel) \/ b = a
    <3>1. \A k \in 1..Len(channel) : channel[k] # S!Message({a})
      BY <2>2 DEF In
    <3>2. \A b \in PA : S!Message({a}) = S!Message({b}) => b = a
      BY <2>2, MessagesDiffer
    <3> QED
      BY <2>3, <2>4, <2>5, <3>1, <3>2, QueueGrows
  <2>7. results' \in [PA -> S!Result] /\ results'[a] # "none" /\ \A b \in PA \ {a} : results'[b] = results[b]
    BY <2>2, <2>3 DEF SecurityInv, SecurityTypeOK, S!Result
  <2>8. SecurityTypeOK'
    BY <1>1, <2>3, <2>6, <2>7 DEF SecurityInv, SecurityTypeOK
  <2>9. QueueInv'
    BY <1>1, <2>1, <2>2, <2>3, <2>6, <2>7 DEF SecurityInv, QueueInv, Probing
  <2> QED
    BY <1>2, <2>8, <2>9 DEF SecurityInv
<1> QED
  BY <1>3, <1>4, <1>5, <1>6 DEF S!Dispatch, S!Send, S!Raise

\* Packet Tracer runs a policy: the one it takes is not in the channel any more.
LEMMA SecurityRuns ==
    ASSUME SecurityInv, S!Run
    PROVE  SecurityInv'
<1>1. /\ channel # <<>> /\ Head(channel).kind = "action" /\ channel' = Tail(channel)
      /\ UNCHANGED <<scope, batch, call, results, pc, control, direct, enforced, recovered, undone,
                     status, worked>>
  BY DEF S!Run, S!RunAction, S!Awaits, S!own, S!dispatch
<1>2. /\ channel \in Seq(Sent \cup Undo) /\ Once(channel)
  BY DEF SecurityInv, SecurityTypeOK, QueueInv
<1>3. Head(channel) \in Sent
  BY <1>1, <1>2, QueueShrinks, MessagesDiffer
<1>4. PICK b \in PA : Head(channel) = S!Message({b})
  BY <1>3 DEF Sent
<1>5. PICK ok \in SUBSET {b} : device' = [a \in PA |-> device[a] \/ a \in ok]
  <2>1. Head(channel).of = {b}
    BY <1>4 DEF S!Message
  <2> QED
    BY <2>1 DEF S!Run, S!RunAction, PA
<1>6. /\ device' \in [PA -> BOOLEAN] /\ \A a \in PA \ {b} : device'[a] = device[a]
      /\ \A a \in PA : device[a] => device'[a]
  BY <1>5 DEF SecurityInv, SecurityTypeOK
<1>7. /\ channel' \in Seq(Sent \cup Undo) /\ Once(channel')
      /\ \A a \in PA : In(a, channel') => In(a, channel)
      /\ NoUndo(channel) => NoUndo(channel')
      /\ In(b, channel) /\ ~In(b, channel')
  BY <1>1, <1>2, <1>4, QueueShrinks
<1>8. SecurityTypeOK'
  BY <1>1, <1>6, <1>7 DEF SecurityInv, SecurityTypeOK
<1>9. QueueInv'
  BY <1>1, <1>6, <1>7 DEF SecurityInv, QueueInv
<1>10. ProbeInv'
  <2>1. (S!CleanedUp' <=> S!CleanedUp) /\ \A a \in Denies : S!MayProbe(a)' <=> S!MayProbe(a)
    BY <1>1 DEF S!CleanedUp, S!MayProbe
  <2> QED
    BY <1>1, <1>6, <1>7, <2>1, SecurityFacts DEF SecurityInv, ProbeInv, Probing, Probed, Recovered
<1>11. StatusInv'
  BY <1>1 DEF SecurityInv, StatusInv
<1> QED
  BY <1>8, <1>9, <1>10, <1>11 DEF SecurityInv

\* Reading the policies back changes nothing but what is known of them.
LEMMA SecurityReads ==
    ASSUME SecurityInv, S!VerifyDirect
    PROVE  SecurityInv'
<1>1. /\ pc = "observed" /\ pc' = "behavior"
      /\ UNCHANGED <<scope, batch, call, results, channel, device, control, enforced, recovered,
                     undone, status, worked>>
  BY DEF S!VerifyDirect, S!dispatch
<1>2. /\ direct' \in [Readable -> S!Check]
      /\ \A a \in Readable : direct'[a] \in IF S!Satisfied(results[a]) THEN S!Probe(a, FALSE) ELSE {"blocked"}
  BY DEF S!VerifyDirect
<1>3. \A a \in Readable : /\ S!Satisfied(results[a]) => direct'[a] \in Verdicts
                          /\ direct'[a] = "verified" => device[a]
  BY <1>2, SecurityFacts DEF S!Probe, Verdicts, SecurityInv, SecurityTypeOK
<1>4. SecurityTypeOK' /\ QueueInv' /\ StatusInv'
  BY <1>1, <1>2 DEF SecurityInv, SecurityTypeOK, QueueInv, StatusInv, Probed, Probing
<1>5. ProbeInv'
  BY <1>1, <1>3 DEF SecurityInv, ProbeInv, Probing, Probed, Recovered
<1> QED
  BY <1>4, <1>5 DEF SecurityInv

\* The probes after the policies tell whether what flowed before is denied.
LEMMA SecurityProbes ==
    ASSUME SecurityInv, S!VerifyBehavior
    PROVE  SecurityInv'
<1>1. /\ pc = "behavior" /\ pc' = IF control THEN "cleanup" ELSE "judge"
      /\ UNCHANGED <<scope, results, channel, device, control, direct, recovered, undone, status, worked>>
      /\ call' \in SUBSET PA /\ batch' = call'
  BY DEF S!VerifyBehavior, PA
<1>2. /\ enforced' \in [Denies -> S!Check]
      /\ \A a \in Denies : enforced'[a] \in IF S!MayProbe(a) THEN S!Probe(a, FALSE) ELSE {"blocked"}
  BY DEF S!VerifyBehavior
<1>3. \A a \in Denies : /\ S!MayProbe(a) => enforced'[a] \in Verdicts
                        /\ enforced'[a] = "verified" => device[a]
  BY <1>2, SecurityFacts DEF S!Probe, Verdicts, SecurityInv, SecurityTypeOK
<1>4. \A a \in Denies : enforced'[a] = "verified" => ~In(a, channel)
  BY <1>3, SecurityFacts DEF SecurityInv, QueueInv
<1>5. SecurityTypeOK'
  BY <1>1, <1>2 DEF SecurityInv, SecurityTypeOK
<1>6. QueueInv' /\ StatusInv'
  BY <1>1 DEF SecurityInv, QueueInv, StatusInv, Probed, Probing
<1>7. \A a \in Denies : S!MayProbe(a)' <=> S!MayProbe(a)
  BY <1>1 DEF S!MayProbe
<1>8. ProbeInv'
  BY <1>1, <1>3, <1>4, <1>7 DEF SecurityInv, ProbeInv, Probing, Probed, Recovered
<1> QED
  BY <1>5, <1>6, <1>8 DEF SecurityInv

\* The cleanup of a control.
LEMMA SecurityCleansUp ==
    ASSUME SecurityInv, S!Cleanup \/ S!CleanupRaises
    PROVE  SecurityInv'
<1>1. /\ pc = "cleanup" /\ pc' = pc /\ call' \in SUBSET call
      /\ UNCHANGED <<scope, batch, results, device, control, direct, enforced, recovered, status, worked>>
  BY DEF S!Cleanup, S!CleanupRaises
<1>2. /\ channel' \in Seq(Sent \cup Undo) /\ Once(channel')
      /\ \A a \in PA : In(a, channel') => In(a, channel)
  <2>1. CASE channel' = channel
    BY <2>1 DEF SecurityInv, SecurityTypeOK, QueueInv
  <2>2. CASE S!Cleanup /\ channel' = Append(channel, [kind |-> "cleanup", of |-> S!LastOf(call)])
    <3>1. call # {} /\ call \in SUBSET PA
      BY <2>2 DEF S!Cleanup, SecurityInv, SecurityTypeOK
    <3>2. [kind |-> "cleanup", of |-> S!LastOf(call)] \in Undo
      BY <3>1, FirstAndLast DEF Undo
    <3> DEFINE m == [kind |-> "cleanup", of |-> S!LastOf(call)]
    <3>3. m \in Sent \cup Undo /\ m \notin Sent /\ \A a \in PA : m # S!Message({a})
      BY <3>2, MessagesDiffer DEF Sent
    <3>4. channel \in Seq(Sent \cup Undo) /\ Once(channel) /\ channel' = Append(channel, m)
      BY <2>2 DEF SecurityInv, SecurityTypeOK, QueueInv
    <3> HIDE DEF m
    <3> QED
      BY <3>3, <3>4, QueueGrows
  <2> QED
    BY <2>1, <2>2 DEF S!Cleanup, S!CleanupRaises
<1>3. control
  BY <1>1 DEF SecurityInv, ProbeInv
<1>4. SecurityTypeOK'
  BY <1>1, <1>2 DEF SecurityInv, SecurityTypeOK
<1>5. QueueInv'
  BY <1>1, <1>2, <1>3 DEF SecurityInv, QueueInv, Probed, Probing
<1>6. \A a \in Denies : S!MayProbe(a)' <=> S!MayProbe(a)
  BY <1>1 DEF S!MayProbe
<1>7. ProbeInv' /\ StatusInv'
  BY <1>1, <1>2, <1>3, <1>6, SecurityFacts DEF SecurityInv, ProbeInv, StatusInv, Probing, Probed, Recovered
<1> QED
  BY <1>4, <1>5, <1>7 DEF SecurityInv

\* Packet Tracer runs a cleanup: a policy may be gone.
LEMMA SecurityUndoes ==
    ASSUME SecurityInv, S!RunCleanup
    PROVE  SecurityInv'
<1>1. /\ channel # <<>> /\ Head(channel).kind = "cleanup" /\ channel' = Tail(channel)
      /\ UNCHANGED <<scope, batch, call, results, pc, control, direct, enforced, recovered, undone,
                     status, worked>>
  BY DEF S!RunCleanup, S!Awaits, S!own, S!dispatch
<1>2. channel \in Seq(Sent \cup Undo) /\ Once(channel)
  BY DEF SecurityInv, SecurityTypeOK, QueueInv
<1>3. Head(channel) \notin Sent /\ ~NoUndo(channel)
  BY <1>1, <1>2, QueueShrinks, MessagesDiffer
<1>4. control /\ pc \in Probed
  BY <1>3 DEF SecurityInv, SecurityTypeOK, QueueInv
<1>5. device' \in [PA -> BOOLEAN] /\ \A a \in PA : device'[a] => device[a]
  <2>1. PICK ok \in BOOLEAN : device' = [device EXCEPT ![Head(channel).of] = @ /\ ~ok]
    BY DEF S!RunCleanup
  <2>2. device \in [PA -> BOOLEAN]
    BY DEF SecurityInv, SecurityTypeOK
  <2> QED
    BY <2>1, <2>2
<1>6. /\ channel' \in Seq(Sent \cup Undo) /\ Once(channel')
      /\ \A a \in PA : In(a, channel') => In(a, channel)
  BY <1>1, <1>2, QueueShrinks
<1>7. SecurityTypeOK'
  BY <1>1, <1>5, <1>6 DEF SecurityInv, SecurityTypeOK
<1>8. QueueInv'
  BY <1>1, <1>4, <1>5, <1>6 DEF SecurityInv, QueueInv
<1>9. (S!CleanedUp' <=> S!CleanedUp) /\ \A a \in Denies : S!MayProbe(a)' <=> S!MayProbe(a)
  BY <1>1 DEF S!CleanedUp, S!MayProbe
<1>10. ProbeInv' /\ StatusInv'
  BY <1>1, <1>4, <1>5, <1>6, <1>9, SecurityFacts
  DEF SecurityInv, ProbeInv, StatusInv, Probing, Probed, Recovered
<1> QED
  BY <1>7, <1>8, <1>10 DEF SecurityInv

\* The probes after the cleanup of a control tell whether it flows again.
LEMMA SecurityProbesAgain ==
    ASSUME SecurityInv, S!VerifyRecovery
    PROVE  SecurityInv'
<1>1. /\ pc = "cleanup" /\ pc' = "judge"
      /\ UNCHANGED <<scope, batch, call, results, channel, device, control, direct, enforced, undone,
                     status, worked>>
  BY DEF S!VerifyRecovery, S!dispatch
<1>2. /\ recovered' \in [Recovers -> S!Check]
      /\ \A a \in Recovers :
            recovered'[a] \in IF ~S!CleanedUp THEN {"skipped"}
                              ELSE IF S!Satisfied(results[a]) THEN S!Probe(a, TRUE) ELSE {"blocked"}
  BY DEF S!VerifyRecovery
<1>3. \A a \in Recovers : /\ S!CleanedUp /\ S!Satisfied(results[a]) => recovered'[a] \in Verdicts
                          /\ recovered'[a] = "verified" => ~device[a]
  BY <1>2, SecurityFacts DEF S!Probe, Verdicts, SecurityInv, SecurityTypeOK
<1>4. SecurityTypeOK' /\ QueueInv' /\ StatusInv'
  BY <1>1, <1>2 DEF SecurityInv, SecurityTypeOK, QueueInv, StatusInv, Probed, Probing
<1>5. (S!CleanedUp' <=> S!CleanedUp) /\ \A a \in Denies : S!MayProbe(a)' <=> S!MayProbe(a)
  BY <1>1 DEF S!CleanedUp, S!MayProbe
<1>6. ProbeInv'
  BY <1>1, <1>3, <1>5 DEF SecurityInv, ProbeInv, Probing, Probed, Recovered
<1> QED
  BY <1>4, <1>6 DEF SecurityInv

\* The result: VERIFIED leaves no probe without its verdict.
LEMMA SecurityJudges ==
    ASSUME SecurityInv, S!Judge
    PROVE  SecurityInv'
<1>1. /\ pc = "judge" /\ pc' = "returned" /\ status' = S!Overall
      /\ UNCHANGED <<scope, batch, call, results, channel, device, control, direct, enforced, recovered,
                     undone, worked>>
  BY DEF S!Judge, S!dispatch
<1>2. ASSUME S!Overall = "verified"
      PROVE  /\ \A a \in Denies : enforced[a] = "verified"
             /\ \A a \in Readable : direct[a] = "verified"
             /\ control => \A a \in Recovers : recovered[a] = "verified"
  <2>1. /\ \A a \in PA : results[a] \notin {"failed", "skipped", "blocked"}
        /\ control => S!CleanedUp
        /\ \A a \in Denies : enforced[a] \notin {"failed", "unknown", "unobservable"}
        /\ control => \A a \in Recovers : recovered[a] \in {"skipped", "verified"}
        /\ \A a \in Readable : direct[a] \notin {"failed", "unknown", "unobservable"}
    BY <1>2 DEF S!Overall, PA
  <2>2. \A a \in PA : S!Satisfied(results[a])
    BY <1>1, <2>1 DEF SecurityInv, SecurityTypeOK, QueueInv, Probing, S!Result, S!Satisfied
  <2>3. \A a \in Readable : direct[a] = "verified"
    BY <1>1, <2>1, <2>2, SecurityFacts DEF SecurityInv, ProbeInv, Verdicts, Probing
  <2>4. \A a \in Denies : S!MayProbe(a)
    BY <2>2, <2>3, SecurityFacts DEF S!MayProbe
  <2>5. \A a \in Denies : enforced[a] = "verified"
    BY <1>1, <2>1, <2>4 DEF SecurityInv, ProbeInv, Verdicts, Probed
  <2>6. control => \A a \in Recovers : recovered[a] = "verified"
    BY <1>1, <2>1, <2>2, SecurityFacts DEF SecurityInv, ProbeInv, Verdicts, Recovered
  <2> QED
    BY <2>3, <2>5, <2>6
<1>3. SecurityTypeOK' /\ QueueInv'
  BY <1>1 DEF SecurityInv, SecurityTypeOK, QueueInv, Probed, Probing
<1>4. StatusInv'
  BY <1>1, <1>2 DEF StatusInv
<1>5. (S!CleanedUp' <=> S!CleanedUp) /\ \A a \in Denies : S!MayProbe(a)' <=> S!MayProbe(a)
  BY <1>1 DEF S!CleanedUp, S!MayProbe
<1>6. ProbeInv'
  BY <1>1, <1>5 DEF SecurityInv, ProbeInv, Probing, Probed, Recovered
<1> QED
  BY <1>3, <1>4, <1>6 DEF SecurityInv

\* The invariant of the security application is inductive.
LEMMA SecurityStep ==
    ASSUME SecurityInv, [S!Next]_S!vars
    PROVE  SecurityInv'
<1>1. CASE UNCHANGED S!vars
  <2>1. UNCHANGED <<scope, batch, call, results, channel, device, control, direct, enforced, recovered,
                    undone, status, worked, pc>>
    BY <1>1 DEF S!vars, S!own, S!dispatch
  <2>2. (S!CleanedUp' <=> S!CleanedUp) /\ \A a \in Denies : S!MayProbe(a)' <=> S!MayProbe(a)
    BY <2>1 DEF S!CleanedUp, S!MayProbe
  <2> QED
    BY <2>1, <2>2 DEF SecurityInv, SecurityTypeOK, QueueInv, ProbeInv, StatusInv
<1> QED
  BY <1>1, SecurityBegins, SecurityDispatches, SecurityRuns, SecurityReads, SecurityProbes,
     SecurityCleansUp, SecurityUndoes, SecurityProbesAgain, SecurityJudges
  DEF S!Next

\* What the invariant says of a plan, and of a control, that is VERIFIED.
LEMMA SecurityInvSays == SecurityInv => S!VerifiedIsSo
<1> SUFFICES ASSUME SecurityInv, status = "verified"
             PROVE  /\ worked = Denies
                    /\ IF control THEN \A a \in Recovers : ~device[a]
                       ELSE \A a \in Denies \cup Readable : device[a]
  BY DEF S!VerifiedIsSo
<1>1. /\ pc = "returned" /\ control \in BOOLEAN
      /\ \A a \in Denies : enforced[a] = "verified"
      /\ \A a \in Readable : direct[a] = "verified"
      /\ control => \A a \in Recovers : recovered[a] = "verified"
  BY DEF SecurityInv, SecurityTypeOK, StatusInv
<1> QED
  BY <1>1, SecurityFacts DEF SecurityInv, ProbeInv, Probing, Probed, Recovered

-----------------------------------------------------------------------------
(* The three together.                                                     *)

Inv ==
    /\ which = "security" => SecurityInv
    /\ which = "service" => ServiceInv
    /\ which = "phone" => PhoneInv

\* The three applications begin in their invariants.
LEMMA InitInv == Init => Inv
  BY SecurityInit, ServiceInit, PhoneInit DEF Init, Inv

\* A step of one application leaves the others in their invariants.
LEMMA NextInv ==
    ASSUME Inv, [Next]_vars
    PROVE  Inv'
<1>1. CASE Security
  BY <1>1, SecurityStep DEF Security, Inv
<1>2. CASE Service
  BY <1>2, ServiceStep DEF Service, Inv
<1>3. CASE Driver \/ Outside \/ \E k \in P!Number : Passes(k)
  <2>1. which = "phone" /\ which' = which /\ P!Next
    BY <1>3 DEF Driver, Outside, Passes, P!Next, P!Controller
  <2> QED
    BY <2>1, PhoneStep DEF Inv
<1>4. CASE UNCHANGED vars
  <2>1. UNCHANGED S!vars /\ UNCHANGED V!vars /\ UNCHANGED P!vars /\ which' = which
    BY <1>4 DEF vars, shared, security, service, phone, S!vars, S!own, S!dispatch, V!vars, V!own,
                V!dispatch, P!vars
  <2> QED
    BY <2>1, SecurityStep, ServiceStep, PhoneStep DEF Inv
<1> QED
  BY <1>1, <1>2, <1>3, <1>4 DEF Next

\* The invariants of the three hold in every behaviour.
THEOREM InvHolds == Spec => []Inv
<1>1. Init => Inv
  BY InitInv
<1>2. Inv /\ [Next]_vars => Inv'
  BY NextInv
<1> QED
  BY <1>1, <1>2, PTL DEF Spec

\* A security plan that is VERIFIED denies what flowed before, and a control
\* that is VERIFIED has taken its policies away again, however late their
\* scripts run (_overall of apply_security.py).
THEOREM VerifiedPoliciesAreSo == Spec => []VerifiedIsSo
<1>1. Inv => VerifiedIsSo
  BY SecurityInvSays DEF Inv, VerifiedIsSo
<1> QED
  BY <1>1, InvHolds, PTL

\* The script of a batch, however late it runs, finds what it rests on in
\* effect (satisfies_apply_dependency in apply of apply_services.py).
THEOREM LateScriptsFindTheirGround == Spec => []LateScriptFindsItsGround
<1>1. Inv => LateScriptFindsItsGround
  BY DEF Inv, ServiceInv, ServiceGround, LateScriptFindsItsGround
<1> QED
  BY <1>1, InvHolds, PTL

\* What a DNS expectation was verified by was said by its own ping, when no
\* earlier expectation of its client has an address that its own is a part of,
\* or is of a name that does not exist either (_fresh_command_window and
\* "expected in window" of enterprise_service_runtime.py).
THEOREM EvidenceIsOwn == Spec => []EvidenceIsItsOwn
<1>1. Inv => EvidenceIsItsOwn
  BY DEF Inv, ServiceInv, ServicePings, EvidenceIsItsOwn
<1> QED
  BY <1>1, InvHolds, PTL

\* A verified call was set up and ended in time by its own attempt, whatever
\* the controller outside does (_observation of native_ui_phone_driver.py).
THEOREM VerifiedCallsWereMade == Spec => []VerifiedCallWasMade
<1>1. Inv => VerifiedCallWasMade
  BY DEF Inv, PhoneInv, VerifiedCallWasMade
<1> QED
  BY <1>1, InvHolds, PTL

-----------------------------------------------------------------------------
(* The journal.                                                            *)

\* The order of _RESIDUE_SEVERITY.
LEMMA SeverityValues ==
    /\ Severity["clean"] = 0
    /\ Severity["recoverable"] = 1
    /\ Severity["unknown"] = 2
    /\ Severity["unrecoverable"] = 3
  BY DEF Severity, Dirty

\* Worse is the maximum of the order.
LEMMA WorseIsMaximum ==
    ASSUME NEW d \in Dirty, NEW e \in Dirty
    PROVE  /\ Worse(d, e) \in Dirty
           /\ Severity[Worse(d, e)] >= Severity[d]
           /\ Severity[Worse(d, e)] >= Severity[e]
           /\ Worse(d, e) = "clean" => d = "clean" /\ e = "clean"
  BY SeverityValues DEF Worse, Dirty

\* A disposition derives a state, and an UNKNOWN entry derives UNKNOWN.
LEMMA DeriveFacts ==
    ASSUME NEW es \in Seq(Entry), NEW lo \in Int, NEW hi \in Int
    PROVE  /\ Derive(es, lo, hi) \in Dirty
           /\ (\E k \in lo..hi : es[k].disposition = "unknown")
              => Derive(es, lo, hi) = "unknown"
  BY DEF Derive, Dirty

\* A verdict turns only RECOVERABLE into CLEAN, and never betters doubt.
LEMMA JudgedFacts ==
    ASSUME NEW state \in Dirty, NEW given \in Compensation, NEW undid \in BOOLEAN
    PROVE  /\ Judged(state, given, undid) \in Dirty
           /\ state = "unknown" => Severity[Judged(state, given, undid)] >= 2
           /\ Judged(state, given, undid) = "clean"
              => \/ state = "clean"
                 \/ state = "recoverable" /\ given = "succeeded" /\ undid
  BY SeverityValues DEF Judged, Dirty, Compensation, Verdict

\* What a verdict proves is a state.
LEMMA FloorType ==
    ASSUME NEW given \in Verdict
    PROVE  FloorOf(given) \in Dirty
  BY DEF FloorOf, Dirty, Verdict

\* The composition is at least as bad as the floor and as the doubt of the
\* transport or of any entry; CLEAN, it says that what the verdict covers was
\* judged CLEAN (_recompose).
LEMMA RecomposeFacts ==
    ASSUME NEW es \in Seq(Entry), NEW given \in Compensation, NEW undid \in BOOLEAN,
           NEW ordinal \in -1..Len(es), NEW floor \in Dirty, NEW doubt \in BOOLEAN,
           NEW covered, covered = IF ordinal < 0 THEN Len(es) ELSE ordinal,
           NEW state, state = Recompose(es, given, undid, ordinal, floor, doubt)
    PROVE  /\ state \in Dirty
           /\ Severity[state] >= Severity[floor]
           /\ doubt \/ (\E k \in 1..Len(es) : es[k].disposition = "unknown")
              => Severity[state] >= 2
           /\ state = "clean" => Judged(Derive(es, 1, covered), given, undid) = "clean"
<1> DEFINE before  == Derive(es, 1, covered)
           after   == Derive(es, covered + 1, Len(es))
           judged  == Judged(before, given, undid)
           sending == IF doubt THEN "unknown" ELSE "clean"
<1>1. covered \in 0..Len(es) /\ Len(es) \in Nat
  OBVIOUS
<1>2. before \in Dirty /\ after \in Dirty /\ sending \in Dirty
  BY <1>1, DeriveFacts DEF Dirty
<1>3. judged \in Dirty
  BY <1>2, JudgedFacts
<1>4. state = Worse(Worse(judged, floor), Worse(after, sending))
  BY DEF Recompose
<1> DEFINE one == Worse(judged, floor)
           two == Worse(after, sending)
<1>5. /\ one \in Dirty /\ Severity[one] >= Severity[judged]
      /\ Severity[one] >= Severity[floor] /\ (one = "clean" => judged = "clean")
  BY <1>3, WorseIsMaximum
<1>6. /\ two \in Dirty /\ Severity[two] >= Severity[after]
      /\ Severity[two] >= Severity[sending]
  BY <1>2, WorseIsMaximum
<1>7. /\ state \in Dirty /\ Severity[state] >= Severity[one]
      /\ Severity[state] >= Severity[two] /\ (state = "clean" => one = "clean")
  <2> HIDE DEF one, two
  <2> QED
    BY <1>4, <1>5, <1>6, WorseIsMaximum DEF one, two
<1>8. \A d \in Dirty : Severity[d] \in Int
  BY SeverityValues DEF Dirty
<1> HIDE DEF before, after, judged, sending, one, two
<1>9. Severity[state] >= Severity[floor]
  BY <1>3, <1>5, <1>7, <1>8
<1>10. ASSUME doubt
       PROVE  Severity[state] >= 2
  <2>1. sending = "unknown"
    BY <1>10 DEF sending
  <2> QED
    BY <2>1, <1>6, <1>7, <1>8, <1>2, SeverityValues
<1>11. ASSUME NEW k \in 1..Len(es), es[k].disposition = "unknown"
       PROVE  Severity[state] >= 2
  <2>1. CASE k <= covered
    <3>1. before = "unknown"
      BY <2>1, <1>1, <1>11, DeriveFacts DEF before
    <3>2. Severity[judged] >= 2
      BY <3>1, <1>2, JudgedFacts DEF judged
    <3> QED
      BY <3>2, <1>3, <1>5, <1>7, <1>8
  <2>2. CASE k > covered
    <3>1. after = "unknown"
      BY <2>2, <1>1, <1>11, DeriveFacts DEF after
    <3> QED
      BY <3>1, <1>2, <1>6, <1>7, <1>8, SeverityValues
  <2> QED
    BY <2>1, <2>2, <1>1
<1> QED
  BY <1>5, <1>7, <1>9, <1>10, <1>11 DEF judged, before

\* The journal starts CLEAN, with nothing recorded.
LEMMA JournalStarts ==
    ASSUME JournalInit
    PROVE  JournalInv
<1> USE DEF JournalInit
<1>1. JournalTypeOK
  <2>1. entries \in Seq(Entry) /\ Len(entries) = 0
    OBVIOUS
  <2>2. Len(entries) <= MaxEntries /\ cleanupOrdinal \in -1..Len(entries)
    BY <2>1, JournalAssumption
  <2>3. /\ dirty \in Dirty /\ residueFloor \in Dirty
        /\ cleanupStatus \in Compensation
    BY DEF Dirty, Compensation
  <2>4. /\ cleanupUndid \in BOOLEAN /\ transportUnknown \in BOOLEAN
        /\ verdicts \subseteq Verdict
    OBVIOUS
  <2> QED
    BY ONLY <2>1, <2>2, <2>3, <2>4 DEF JournalTypeOK
<1>2. Derive(entries, 1, Len(entries)) = "clean"
      /\ Derive(entries, Len(entries) + 1, Len(entries)) = "clean"
  BY DEF Derive
<1>3. dirty = Recompose(entries, cleanupStatus, cleanupUndid, cleanupOrdinal,
                        residueFloor, transportUnknown)
  BY <1>2 DEF Recompose, Judged, Worse
<1> QED
  BY <1>1, <1>3 DEF JournalInv

\* Every operation composes dirty_state anew, and keeps the floor.
LEMMA JournalStep ==
    ASSUME JournalInv, [JournalNext]_journalVars
    PROVE  JournalInv'
<1> USE DEF JournalInv
<1>1. ASSUME NEW e \in Entry, AppendEntry(e)
      PROVE  JournalInv'
  <2>1. /\ entries' \in Seq(Entry) /\ Len(entries') = Len(entries) + 1
        /\ Len(entries') <= MaxEntries /\ cleanupOrdinal \in -1..Len(entries')
    BY <1>1, JournalAssumption DEF AppendEntry, JournalTypeOK
  <2>2. dirty' \in Dirty
    BY <1>1, <2>1, RecomposeFacts DEF AppendEntry, JournalTypeOK
  <2> QED
    BY <1>1, <2>1, <2>2 DEF AppendEntry, JournalTypeOK, judgement
<1>2. CASE MarkPreflightFailure
  BY <1>2 DEF MarkPreflightFailure, JournalTypeOK, judgement
<1>3. CASE MarkTransportUnknown
  <2>1. dirty' \in Dirty
    BY <1>3, RecomposeFacts DEF MarkTransportUnknown, JournalTypeOK
  <2> QED
    BY <1>3, <2>1 DEF MarkTransportUnknown, JournalTypeOK, judgement
<1>4. ASSUME NEW given \in Verdict, NEW undid \in BOOLEAN, RecordVerdict(given, undid)
      PROVE  JournalInv'
  <2> USE <1>4 DEF RecordVerdict
  <2>1. /\ given \in Compensation /\ Len(entries) \in -1..Len(entries)
        /\ FloorOf(given) \in Dirty /\ residueFloor \in Dirty
    BY FloorType DEF JournalTypeOK, Compensation
  <2>2. /\ residueFloor' \in Dirty
        /\ Severity[residueFloor'] >= Severity[residueFloor]
        /\ Severity[residueFloor'] >= Severity[FloorOf(given)]
    BY <2>1, WorseIsMaximum
  <2>3. dirty' \in Dirty
    BY <2>1, <2>2, RecomposeFacts DEF JournalTypeOK
  <2>4. JournalTypeOK'
    BY <2>1, <2>2, <2>3 DEF JournalTypeOK
  <2>5. ASSUME NEW s \in verdicts'
        PROVE  Severity[residueFloor'] >= Severity[FloorOf(s)]
    <3>1. s \in verdicts \/ s = given
      BY <2>5
    <3>2. CASE s \in verdicts
      <4>1. /\ s \in Verdict /\ FloorOf(s) \in Dirty
            /\ Severity[residueFloor] >= Severity[FloorOf(s)]
        BY <3>2, FloorType DEF JournalTypeOK
      <4> QED
        BY <4>1, <2>1, <2>2, SeverityValues DEF Dirty
    <3> QED
      BY <3>1, <3>2, <2>2
  <2> QED
    BY <2>4, <2>5
<1>5. CASE UNCHANGED journalVars
  BY <1>5 DEF journalVars, judgement, JournalTypeOK
<1> QED
  BY <1>1, <1>2, <1>3, <1>4, <1>5 DEF JournalNext, MarkCleanup, RecordScenarioRestore

\* JournalInv holds of every journal: its dirty_state is always composed, never
\* edited (_recompose).
THEOREM JournalHolds == JournalSpec => []JournalInv
  BY JournalStarts, JournalStep, PTL DEF JournalSpec

\* The journal's fields keep their types (ApplicationExecutionJournal).
THEOREM JournalTypes == JournalSpec => []JournalTypeOK
<1>1. JournalInv => JournalTypeOK
  BY DEF JournalInv
<1> QED
  BY <1>1, JournalHolds, PTL

\* A residue a verdict has proved outlives every later operation
\* (_record_verdict, residue_floor).
THEOREM ResidueStays == JournalSpec => []ResidueIsNeverLost
<1>1. ASSUME JournalInv
      PROVE  ResidueIsNeverLost
  <2>1. dirty \in Dirty /\ residueFloor \in Dirty /\ Severity[dirty] >= Severity[residueFloor]
    BY <1>1, RecomposeFacts DEF JournalInv, JournalTypeOK
  <2>2. ASSUME NEW given \in verdicts
        PROVE  AtLeast(FloorOf(given))
    <3>1. FloorOf(given) \in Dirty /\ Severity[residueFloor] >= Severity[FloorOf(given)]
      BY <1>1, FloorType DEF JournalInv, JournalTypeOK
    <3> QED
      BY <2>1, <3>1, SeverityValues DEF AtLeast, Dirty
  <2> QED
    BY <2>2 DEF ResidueIsNeverLost
<1> QED
  BY <1>1, JournalHolds, PTL

\* No verdict settles a mutation that may have happened (mark_cleanup,
\* transport_unknown).
THEOREM DoubtStays == JournalSpec => []DoubtIsNeverSettled
<1>1. ASSUME JournalInv
      PROVE  DoubtIsNeverSettled
  BY <1>1, RecomposeFacts, SeverityValues DEF JournalInv, JournalTypeOK, DoubtIsNeverSettled, AtLeast
<1> QED
  BY <1>1, JournalHolds, PTL

\* With nothing recorded after the verdict, CLEAN is backed by the entries or
\* by a compensation that had an inverse for each (_recompose).
THEOREM CleanIsBacked == JournalSpec => []CleanIsProvedAtTheVerdict
<1>1. ASSUME JournalInv
      PROVE  CleanIsProvedAtTheVerdict
  <2> SUFFICES ASSUME dirty = "clean", cleanupOrdinal \in {-1, Len(entries)}
               PROVE  \/ Applied = "clean"
                      \/ Applied = "recoverable" /\ cleanupStatus = "succeeded" /\ cleanupUndid
    BY DEF CleanIsProvedAtTheVerdict
  <2>1. Len(entries) = IF cleanupOrdinal < 0 THEN Len(entries) ELSE cleanupOrdinal
    BY <1>1 DEF JournalInv, JournalTypeOK
  <2>2. Judged(Applied, cleanupStatus, cleanupUndid) = "clean"
    <3>1. /\ entries \in Seq(Entry) /\ cleanupStatus \in Compensation
          /\ cleanupUndid \in BOOLEAN /\ cleanupOrdinal \in -1..Len(entries)
          /\ residueFloor \in Dirty /\ transportUnknown \in BOOLEAN
      BY ONLY <1>1 DEF JournalInv, JournalTypeOK
    <3>2. dirty = Recompose(entries, cleanupStatus, cleanupUndid, cleanupOrdinal,
                            residueFloor, transportUnknown)
      BY ONLY <1>1 DEF JournalInv
    <3>3. dirty = "clean" => Judged(Derive(entries, 1, Len(entries)), cleanupStatus, cleanupUndid)
                                = "clean"
      BY ONLY <3>1, <3>2, <2>1, RecomposeFacts
    <3> QED
      BY <3>3 DEF Applied
  <2>3. Applied \in Dirty
    <3>1. entries \in Seq(Entry) /\ Len(entries) \in Int /\ 1 \in Int
      BY <1>1 DEF JournalInv, JournalTypeOK
    <3> QED
      BY <3>1, DeriveFacts DEF Applied
  <2> QED
    BY <1>1, <2>2, <2>3, JudgedFacts DEF JournalInv, JournalTypeOK
<1> QED
  BY <1>1, JournalHolds, PTL

=============================================================================
