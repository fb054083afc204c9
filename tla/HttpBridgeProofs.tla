--------------------------- MODULE HttpBridgeProofs --------------------------
(***************************************************************************)
(* Proofs about HttpBridge, for any operations, any capacities of queue,   *)
(* results and batch, with or without loss.                                *)
(***************************************************************************)
EXTENDS HttpBridge, FiniteSetTheorems, SequenceTheorems, WellFoundedInduction, TLAPS

-----------------------------------------------------------------------------
(* The inductive invariant.                                                *)

\* The types of the state.
TypeOK ==
    /\ caller \in [Op -> {"new", "posting", "getting", "returned", "failed"}]
    /\ answer \in [Ask -> Ask \cup {NoBody}]
    /\ handler \in [Op -> {"none", "register", "enqueue", "queued", "refused",
                           "take", "waiting", "answered", "empty"}]
    /\ slot \in [Ask -> {"none", "pending", "ready", "consumed", "timed_out"}]
    /\ body \in [Ask -> Ask \cup {NoBody}]
    /\ expired \subseteq Ask
    /\ queue \in Seq(Op) /\ batch \in Seq(Op) /\ arrival \in Seq(Op)
    /\ posts \subseteq [rid : Ask, body : Ask]
    /\ ran \in Seq(Seq(Op))

\* Two operations that one batch evaluated.
Together(r, b) == \E k \in 1..Len(ran) : {r, b} \subseteq InBatch(ran[k])

\* Wherever a result is, the batch that made it was the rid's own.
ResultInv ==
    /\ \A p \in posts : Together(p.rid, p.body)
    /\ \A r \in Ask : body[r] # NoBody => Together(r, body[r])
    /\ \A r \in Ask : answer[r] # NoBody => Together(r, answer[r])

\* A slot belongs to a call that was made, and does not expire in it; a ready
\* slot and an answer have a body.
SlotInv ==
    \A r \in Ask :
        /\ caller[r] = "new" => slot[r] = "none"
        /\ caller[r] \in {"new", "posting", "getting"} => r \notin expired
        /\ slot[r] = "ready" \/ handler[r] = "answered" => body[r] # NoBody

\* Before its command is in the queue an operation is nowhere behind it.
Unqueued(o) == handler[o] \in {"none", "register", "enqueue"}

Distinct(s) == \A i, j \in 1..Len(s) : s[i] = s[j] => i = j

\* A command of the queue q, the batch b, and the batches e that ran was
\* queued in a, and is in one place of one of them.
OnePlace(q, b, a, e) ==
    /\ InBatch(q) \cup InBatch(b) \subseteq InBatch(a)
    /\ Distinct(q) /\ Distinct(b) /\ Len(b) <= MaxBatch
    /\ InBatch(q) \cap InBatch(b) = {}
    /\ \A k \in 1..Len(e) :
          /\ InBatch(e[k]) \subseteq InBatch(a)
          /\ InBatch(e[k]) \cap (InBatch(q) \cup InBatch(b)) = {}
          /\ Len(e[k]) <= MaxBatch

PlaceInv ==
    /\ \A o \in Op : caller[o] = "new" => handler[o] = "none"
    /\ \A o \in Op : Unqueued(o) => o \notin InBatch(arrival)
    /\ OnePlace(queue, batch, arrival, ran)

Inv == TypeOK /\ ResultInv /\ SlotInv /\ PlaceInv

-----------------------------------------------------------------------------
(* Lemmas about the operators.                                             *)

\* A set of numbers has a least one.
LEMMA LeastOfNumbers ==
    ASSUME NEW S \in SUBSET Nat, S # {}
    PROVE  \E m \in S : \A k \in S : m <= k
<1> DEFINE R == {ss \in Nat \X Nat : ss[1] < ss[2]}
<1>1. IsWellFoundedOn(R, Nat)
  BY NatLessThanWellFounded, Zenon DEF OpToRel
<1>2. PICK m \in S : \A k \in S : ~(<<k, m>> \in R)
  <2> HIDE DEF R
  <2> QED
    BY <1>1, WFMin
<1>3. ASSUME NEW k \in S
      PROVE  ~(k < m)
  <2>1. k < m => <<k, m>> \in R
    OBVIOUS
  <2> HIDE DEF R
  <2> QED
    BY <2>1, <1>2
<1>4. \A k \in S : k \in Nat /\ m \in Nat
  OBVIOUS
<1> HIDE DEF R
<1> QED
  BY <1>3, <1>4

\* The rid a batch reports to is the one of a command in it (reportResult).
LEMMA ReportRidIsInBatch ==
    ASSUME NEW b \in Seq(Op), InBatch(b) \cap Ask # {}
    PROVE  ReportRid(b) \in InBatch(b) \cap Ask
<1> DEFINE Back == {k \in Nat : k < Len(b) /\ b[Len(b) - k] \in Ask}
           Last(i) == b[i] \in Ask /\ \A j \in (i + 1)..Len(b) : b[j] \notin Ask
<1>1. PICK i \in 1..Len(b) : b[i] \in Ask
  BY DEF InBatch
<1>2. Len(b) - i \in Back
  BY <1>1
<1>3. PICK m \in Back : \A k \in Back : m <= k
  BY <1>2, LeastOfNumbers
<1>4. Len(b) - m \in 1..Len(b) /\ b[Len(b) - m] \in Ask
  BY <1>3
<1>5. ASSUME NEW j \in (Len(b) - m + 1)..Len(b), b[j] \in Ask
      PROVE  FALSE
  <2>1. Len(b) - j \in Back /\ Len(b) - j < m
    BY <1>3, <1>5
  <2> QED
    BY <1>3, <2>1
<1>6. \E n \in 1..Len(b) : Last(n)
  BY <1>4, <1>5
<1>7. LET n == CHOOSE n \in 1..Len(b) : Last(n) IN n \in 1..Len(b) /\ b[n] \in Ask
  BY <1>6
<1> QED
  BY <1>7 DEF ReportRid, InBatch

\* The commands of a queue with one more.
LEMMA AppendedBatch ==
    ASSUME NEW b \in Seq(Op), NEW o \in Op
    PROVE  InBatch(Append(b, o)) = InBatch(b) \cup {o}
<1>1. Append(b, o) \in Seq(Op) /\ Len(Append(b, o)) = Len(b) + 1
  OBVIOUS
<1>2. \A i \in 1..Len(b) : Append(b, o)[i] = b[i]
  OBVIOUS
<1>3. Append(b, o)[Len(b) + 1] = o
  OBVIOUS
<1>4. 1..(Len(b) + 1) = (1..Len(b)) \cup {Len(b) + 1}
  OBVIOUS
<1> QED
  BY <1>1, <1>2, <1>3, <1>4 DEF InBatch

\* More batches keep what ran together.
LEMMA TogetherStays ==
    ASSUME TypeOK, NEW b \in Seq(Op), ran' = Append(ran, b), NEW r, NEW o, Together(r, o)
    PROVE  Together(r, o)'
<1>1. PICK k \in 1..Len(ran) : {r, o} \subseteq InBatch(ran[k])
  BY DEF Together
<1>2. k \in 1..Len(ran') /\ ran'[k] = ran[k]
  BY <1>1 DEF TypeOK
<1> QED
  BY <1>1, <1>2 DEF Together, InBatch

\* A poll takes the first commands of the queue and leaves the others.
LEMMA DrainSplits ==
    ASSUME TypeOK, Drain
    PROVE  /\ batch' \in Seq(Op) /\ queue' \in Seq(Op) /\ batch' # <<>>
           /\ Len(batch') <= MaxBatch
           /\ Len(batch') + Len(queue') = Len(queue)
           /\ \A i \in 1..Len(batch') : batch'[i] = queue[i]
           /\ \A i \in 1..Len(queue') : queue'[i] = queue[Len(batch') + i]
<1> DEFINE n == Least(MaxBatch, Len(queue))
<1>1. queue \in Seq(Op) /\ Len(queue) \in Nat /\ Len(queue) > 0
  BY DEF TypeOK, Drain
<1>2. n \in 1..Len(queue) /\ n <= MaxBatch
  BY <1>1, HttpAssumption DEF Least
<1>3. batch' = SubSeq(queue, 1, n) /\ queue' = SubSeq(queue, n + 1, Len(queue))
  BY DEF Drain
<1> HIDE DEF n
<1>4. /\ batch' \in Seq(Op) /\ Len(batch') = n
      /\ \A i \in 1..n : batch'[i] = queue[i]
  BY <1>1, <1>2, <1>3
<1>5. /\ queue' \in Seq(Op) /\ Len(queue') = Len(queue) - n
      /\ \A i \in 1..(Len(queue) - n) : queue'[i] = queue[n + i]
  BY <1>1, <1>2, <1>3
<1> QED
  BY <1>1, <1>2, <1>4, <1>5

-----------------------------------------------------------------------------
(* The types.                                                              *)

\* The bridge starts with its types.
LEMMA TypeInit == Init => TypeOK
  BY HttpAssumption DEF Init, TypeOK

\* Every request, handler, loss and timeout keeps them.
LEMMA TypeStep ==
    ASSUME TypeOK, [Next]_vars
    PROVE  TypeOK'
<1> USE DEF callers, results, webview, history
<1>1. ASSUME NEW o \in Op, Post(o) \/ CallerStep(o) \/ GiveUp(o)
      PROVE  TypeOK'
  BY <1>1 DEF TypeOK, Post, CallerStep, PostQueued, PostRefused, GetResult, GiveUp, Op
<1>2. ASSUME NEW o \in Op, Enqueue(o) \/ EnqueueFull(o)
      PROVE  TypeOK'
  <2>1. CASE Enqueue(o)
    BY <2>1 DEF TypeOK, Enqueue
  <2>2. CASE EnqueueFull(o)
    <3>1. slot' \in [Ask -> {"none", "pending", "ready", "consumed", "timed_out"}]
      BY <2>2 DEF TypeOK, EnqueueFull
    <3>2. expired' \subseteq Ask
      BY <2>2 DEF TypeOK, EnqueueFull
    <3> QED
      BY <2>2, <3>1, <3>2 DEF TypeOK, EnqueueFull
  <2> QED
    BY <1>2, <2>1, <2>2
<1>3. ASSUME NEW r \in Ask, Register(r)
      PROVE  TypeOK'
  BY <1>3 DEF TypeOK, Register, SetResults, Kept, Op
<1>4. ASSUME NEW r \in Ask, \/ RegisterFull(r) \/ Take(r) \/ TakeReady(r)
                            \/ TakeTimeout(r) \/ TakeNothing(r) \/ Expire(r)
      PROVE  TypeOK'
  BY <1>4 DEF TypeOK, RegisterFull, Take, TakeReady, TakeTimeout, TakeNothing, Expire,
     SetResults, Kept, Op
<1>5. CASE Drain
  BY <1>5, DrainSplits DEF TypeOK, Drain
<1>6. CASE RunBatch
  <2>1. posts' \subseteq [rid : Ask, body : Ask]
    <3>1. ASSUME NEW o \in InBatch(batch) \cap Ask
          PROVE  ReportRid(batch) \in Ask
      BY ReportRidIsInBatch DEF TypeOK
    <3> QED
      BY <1>6, <3>1 DEF TypeOK, RunBatch
  <2>2. batch' \in Seq(Op) /\ ran' \in Seq(Seq(Op))
    BY <1>6 DEF TypeOK, RunBatch
  <2> QED
    BY <1>6, <2>1, <2>2 DEF TypeOK, RunBatch
<1>7. CASE LoseBatch
  BY <1>7 DEF TypeOK, LoseBatch
<1>8. ASSUME NEW p \in posts, PutResult(p) \/ LosePost(p)
      PROVE  TypeOK'
  BY <1>8 DEF TypeOK, PutResult, LosePost, SetResults, Kept
<1>9. CASE UNCHANGED vars
  BY <1>9 DEF TypeOK, vars
<1> QED
  BY <1>1, <1>2, <1>3, <1>4, <1>5, <1>6, <1>7, <1>8, <1>9 DEF Next, HandlerStep, WebviewStep

-----------------------------------------------------------------------------
(* Results.                                                                *)

\* A result only moves, or is new from the batch that ran.
LEMMA ResultStep ==
    ASSUME TypeOK, ResultInv, [Next]_vars
    PROVE  ResultInv'
<1> USE DEF callers, results, webview, history, ResultInv
<1>0. ASSUME UNCHANGED ran
      PROVE  \A r, o : Together(r, o)' <=> Together(r, o)
  BY <1>0 DEF Together
<1>1. ASSUME UNCHANGED ran, posts' \subseteq posts, UNCHANGED answer,
             \A r \in Ask : body'[r] \in {body[r], NoBody} \cup {p.body : p \in {q \in posts : q.rid = r}}
      PROVE  ResultInv'
  BY <1>0, <1>1 DEF TypeOK
<1>2. ASSUME NEW o \in Op, Post(o) \/ PostQueued(o) \/ PostRefused(o) \/ GiveUp(o)
      PROVE  ResultInv'
  BY <1>2 DEF Together, Post, PostQueued, PostRefused, GiveUp
<1>3. ASSUME NEW o \in Op, GetResult(o)
      PROVE  ResultInv'
  BY <1>0, <1>3 DEF GetResult, TypeOK
<1>4. ASSUME NEW o \in Op, Enqueue(o) \/ EnqueueFull(o)
      PROVE  ResultInv'
  BY <1>4 DEF Together, Enqueue, EnqueueFull
<1>5. ASSUME NEW r \in Ask, \/ Register(r) \/ RegisterFull(r) \/ Take(r) \/ TakeReady(r)
                            \/ TakeTimeout(r) \/ TakeNothing(r) \/ Expire(r)
      PROVE  ResultInv'
  BY <1>5, <1>1 DEF Register, RegisterFull, Take, TakeReady, TakeTimeout, TakeNothing, Expire,
     SetResults, TypeOK
<1>6. CASE Drain \/ LoseBatch
  BY <1>6 DEF Together, Drain, LoseBatch
<1>7. CASE RunBatch
  <2>1. \A r, o : Together(r, o) => Together(r, o)'
    BY <1>7, TogetherStays DEF RunBatch, TypeOK
  <2>2. ASSUME NEW o \in InBatch(batch) \cap Ask, NEW r, r = ReportRid(batch)
        PROVE  Together(r, o)'
    <3>1. {r, o} \subseteq InBatch(batch)
      BY <2>2, ReportRidIsInBatch DEF TypeOK
    <3>2. Len(ran') \in 1..Len(ran') /\ ran'[Len(ran')] = batch
      BY <1>7 DEF RunBatch, TypeOK
    <3> QED
      BY <2>2, <3>1, <3>2 DEF Together
  <2>3. ASSUME NEW p \in posts'
        PROVE  Together(p.rid, p.body)'
    <3>1. CASE p \in posts
      BY <3>1, <2>1
    <3>2. CASE \E o \in InBatch(batch) \cap Ask : p = [rid |-> ReportRid(batch), body |-> o]
      BY <3>2, <2>2
    <3> QED
      BY <1>7, <3>1, <3>2 DEF RunBatch
  <2>4. UNCHANGED <<answer, body>>
    BY <1>7 DEF RunBatch
  <2> QED
    BY <2>1, <2>3, <2>4
<1>8. ASSUME NEW p \in posts, PutResult(p) \/ LosePost(p)
      PROVE  ResultInv'
  BY <1>8, <1>1 DEF PutResult, LosePost, SetResults, TypeOK
<1>9. CASE UNCHANGED vars
  BY <1>9 DEF Together, vars
<1> QED
  BY <1>2, <1>3, <1>4, <1>5, <1>6, <1>7, <1>8, <1>9 DEF Next, CallerStep, HandlerStep, WebviewStep

\* A slot is touched by its own call, and by results that come for it.
LEMMA SlotStep ==
    ASSUME TypeOK, SlotInv, PlaceInv, [Next]_vars
    PROVE  SlotInv'
<1> USE DEF callers, results, webview, history
<1>1. ASSUME NEW o \in Op, Post(o) \/ CallerStep(o) \/ GiveUp(o)
      PROVE  SlotInv'
  BY <1>1 DEF TypeOK, SlotInv, Post, CallerStep, PostQueued, PostRefused, GetResult, GiveUp, Op
<1>2. ASSUME NEW o \in Op, Enqueue(o)
      PROVE  SlotInv'
  BY <1>2 DEF TypeOK, SlotInv, Enqueue, Op
<1>3. ASSUME NEW o \in Op, EnqueueFull(o)
      PROVE  SlotInv'
  <2>1. \A r \in Ask : slot'[r] \in {slot[r], "none"} /\ (r \in expired' => r \in expired)
    BY <1>3 DEF TypeOK, EnqueueFull
  <2> QED
    BY <1>3, <2>1 DEF TypeOK, SlotInv, EnqueueFull, Op
<1>4. ASSUME NEW r \in Ask, Register(r)
      PROVE  SlotInv'
  BY <1>4 DEF TypeOK, SlotInv, PlaceInv, Register, SetResults, Kept, Op
<1>5. ASSUME NEW r \in Ask, \/ RegisterFull(r) \/ Take(r) \/ TakeReady(r)
                            \/ TakeTimeout(r) \/ TakeNothing(r) \/ Expire(r)
      PROVE  SlotInv'
  BY <1>5 DEF TypeOK, SlotInv, PlaceInv, RegisterFull, Take, TakeReady, TakeTimeout,
     TakeNothing, Expire, SetResults, Kept, InCall, Op
<1>6. CASE Drain \/ LoseBatch \/ RunBatch
  BY <1>6 DEF SlotInv, Drain, LoseBatch, RunBatch
<1>7. ASSUME NEW p \in posts, PutResult(p) \/ LosePost(p)
      PROVE  SlotInv'
  BY <1>7, HttpAssumption DEF TypeOK, SlotInv, PutResult, LosePost, SetResults, Kept
<1>8. CASE UNCHANGED vars
  BY <1>8 DEF SlotInv, vars
<1> QED
  BY <1>1, <1>2, <1>3, <1>4, <1>5, <1>6, <1>7, <1>8 DEF Next, HandlerStep, WebviewStep

-----------------------------------------------------------------------------
(* Places.                                                                 *)

\* A handler that goes on does not come back before the queue.
LEMMA HandlerGoesOn ==
    ASSUME TypeOK, PlaceInv, [Next]_vars, NEW o \in Op, Unqueued(o)'
    PROVE  Unqueued(o) /\ (UNCHANGED arrival \/ \E x \in Op \ {o} : arrival' = Append(arrival, x))
<1> USE DEF callers, results, webview, history, TypeOK, Unqueued
<1>1. ASSUME NEW x \in Op, Post(x) \/ CallerStep(x) \/ GiveUp(x)
      PROVE  Unqueued(o) /\ UNCHANGED arrival
  BY <1>1 DEF PlaceInv, Post, CallerStep, PostQueued, PostRefused, GetResult, GiveUp
<1>2. ASSUME NEW x \in Op, Enqueue(x)
      PROVE  Unqueued(o) /\ x # o /\ arrival' = Append(arrival, x)
  BY <1>2 DEF Enqueue
<1>3. ASSUME NEW x \in Op, EnqueueFull(x)
      PROVE  Unqueued(o) /\ UNCHANGED arrival
  BY <1>3 DEF EnqueueFull
<1>4. ASSUME NEW r \in Ask, \/ Register(r) \/ RegisterFull(r) \/ Take(r) \/ TakeReady(r)
                            \/ TakeTimeout(r) \/ TakeNothing(r) \/ Expire(r)
      PROVE  Unqueued(o) /\ UNCHANGED arrival
  BY <1>4 DEF Register, RegisterFull, Take, TakeReady, TakeTimeout, TakeNothing, Expire, Op
<1>5. ASSUME NEW p \in posts, PutResult(p) \/ LosePost(p)
      PROVE  Unqueued(o) /\ UNCHANGED arrival
  BY <1>5 DEF PutResult, LosePost
<1>6. CASE Drain \/ LoseBatch \/ RunBatch \/ UNCHANGED vars
  BY <1>6 DEF Drain, LoseBatch, RunBatch, vars
<1> QED
  BY <1>1, <1>2, <1>3, <1>4, <1>5, <1>6 DEF Next, HandlerStep, WebviewStep

\* What moves a command, and what it leaves alone.
LEMMA OnlyThreeMove ==
    ASSUME [Next]_vars
    PROVE  \/ \E o \in Op : Enqueue(o)
           \/ Drain \/ LoseBatch \/ RunBatch
           \/ UNCHANGED <<queue, batch, arrival, ran>>
  BY DEF Next, CallerStep, HandlerStep, WebviewStep, callers, results, webview, history, vars,
     Post, PostQueued, PostRefused, GetResult, GiveUp, EnqueueFull, Register, RegisterFull,
     Take, TakeReady, TakeTimeout, TakeNothing, Expire, PutResult, LosePost

\* An operation whose caller has not started has no handler.
LEMMA NewHasNoHandler ==
    ASSUME TypeOK, PlaceInv, [Next]_vars, NEW o \in Op, caller'[o] = "new"
    PROVE  handler'[o] = "none"
<1> USE DEF callers, results, webview, history, TypeOK, PlaceInv
<1>1. ASSUME NEW x \in Op, Post(x) \/ CallerStep(x) \/ GiveUp(x)
      PROVE  handler'[o] = "none"
  BY <1>1 DEF Post, CallerStep, PostQueued, PostRefused, GetResult, GiveUp
<1>2. ASSUME NEW x \in Op, Enqueue(x) \/ EnqueueFull(x)
      PROVE  handler'[o] = "none"
  BY <1>2 DEF Enqueue, EnqueueFull
<1>3. ASSUME NEW r \in Ask, \/ Register(r) \/ RegisterFull(r) \/ Take(r) \/ TakeReady(r)
                            \/ TakeTimeout(r) \/ TakeNothing(r) \/ Expire(r)
      PROVE  handler'[o] = "none"
  BY <1>3 DEF Register, RegisterFull, Take, TakeReady, TakeTimeout, TakeNothing, Expire, Op
<1>4. ASSUME NEW p \in posts, PutResult(p) \/ LosePost(p)
      PROVE  handler'[o] = "none"
  BY <1>4 DEF PutResult, LosePost
<1>5. CASE Drain \/ LoseBatch \/ RunBatch \/ UNCHANGED vars
  BY <1>5 DEF Drain, LoseBatch, RunBatch, vars
<1> QED
  BY <1>1, <1>2, <1>3, <1>4, <1>5 DEF Next, HandlerStep, WebviewStep

\* Every step keeps each command in its one place.
LEMMA PlaceStep ==
    ASSUME TypeOK, PlaceInv, [Next]_vars
    PROVE  PlaceInv'
<1>1. \A o \in Op : caller'[o] = "new" => handler'[o] = "none"
  BY NewHasNoHandler
<1>2. ASSUME NEW o \in Op, Unqueued(o)'
      PROVE  o \notin InBatch(arrival')
  <2>1. o \notin InBatch(arrival)
    BY <1>2, HandlerGoesOn DEF PlaceInv
  <2>2. ASSUME NEW x \in Op \ {o}, arrival' = Append(arrival, x)
        PROVE  o \notin InBatch(arrival')
    BY <2>1, <2>2, AppendedBatch DEF TypeOK
  <2> QED
    BY <1>2, <2>1, <2>2, HandlerGoesOn
<1>3. ASSUME NEW o \in Op, Enqueue(o)
      PROVE  OnePlace(queue', batch', arrival', ran')
  <2>1. /\ InBatch(queue') = InBatch(queue) \cup {o}
        /\ InBatch(arrival') = InBatch(arrival) \cup {o}
    BY <1>3, AppendedBatch DEF Enqueue, TypeOK
  <2>2. batch' = batch /\ ran' = ran
    BY <1>3 DEF Enqueue, webview
  <2>3. o \notin InBatch(arrival)
    BY <1>3 DEF Enqueue, PlaceInv, Unqueued
  <2>4. Distinct(queue')
    <3>1. /\ queue \in Seq(Op) /\ queue' = Append(queue, o)
          /\ \A i \in 1..Len(queue) : queue[i] # o
      BY <1>3, <2>3 DEF Enqueue, PlaceInv, OnePlace, TypeOK, InBatch
    <3> QED
      BY <3>1 DEF PlaceInv, OnePlace, Distinct
  <2> QED
    BY <2>1, <2>2, <2>3, <2>4 DEF PlaceInv, OnePlace
<1>4. ASSUME Drain
      PROVE  OnePlace(queue', batch', arrival', ran')
  <2>1. arrival' = arrival /\ ran' = ran /\ queue \in Seq(Op)
    BY <1>4 DEF Drain, history, TypeOK
  <2>2. /\ batch' \in Seq(Op) /\ queue' \in Seq(Op) /\ Len(batch') <= MaxBatch
        /\ Len(batch') + Len(queue') = Len(queue)
        /\ \A i \in 1..Len(batch') : batch'[i] = queue[i]
        /\ \A i \in 1..Len(queue') : queue'[i] = queue[Len(batch') + i]
    BY <1>4, DrainSplits
  <2>3. \A i \in 1..Len(batch') : i \in 1..Len(queue)
    BY <2>1, <2>2
  <2>4. \A i \in 1..Len(queue') : Len(batch') + i \in 1..Len(queue)
    BY <2>1, <2>2
  <2>5. InBatch(queue') \subseteq InBatch(queue) /\ InBatch(batch') \subseteq InBatch(queue)
    BY <2>2, <2>3, <2>4 DEF InBatch
  <2>6. InBatch(queue') \cap InBatch(batch') = {}
    <3>1. ASSUME NEW i \in 1..Len(batch'), NEW j \in 1..Len(queue'), batch'[i] = queue'[j]
          PROVE  FALSE
      <4>1. i = Len(batch') + j
        BY <3>1, <2>2, <2>3, <2>4 DEF PlaceInv, OnePlace, Distinct
      <4> QED
        BY <4>1, <3>1, <2>2
    <3> QED
      BY <3>1 DEF InBatch
  <2>7. Distinct(queue')
    BY <2>2, <2>4 DEF PlaceInv, OnePlace, Distinct
  <2>8. Distinct(batch')
    BY <2>2, <2>3 DEF PlaceInv, OnePlace, Distinct
  <2> QED
    BY <2>1, <2>2, <2>5, <2>6, <2>7, <2>8 DEF PlaceInv, OnePlace
<1>5. ASSUME LoseBatch
      PROVE  OnePlace(queue', batch', arrival', ran')
  <2>1. queue' = queue /\ arrival' = arrival /\ ran' = ran /\ batch' = <<>>
    BY <1>5 DEF LoseBatch
  <2>2. InBatch(batch') = {} /\ Distinct(batch') /\ Len(batch') <= MaxBatch
    BY <2>1, HttpAssumption DEF InBatch, Distinct
  <2> QED
    BY <2>1, <2>2 DEF PlaceInv, OnePlace
<1>6. ASSUME RunBatch
      PROVE  OnePlace(queue', batch', arrival', ran')
  <2>1. queue' = queue /\ arrival' = arrival /\ batch' = <<>> /\ ran' = Append(ran, batch)
    BY <1>6 DEF RunBatch
  <2>2. InBatch(batch') = {} /\ Distinct(batch') /\ Len(batch') <= MaxBatch
    BY <2>1, HttpAssumption DEF InBatch, Distinct
  <2>3. \A k \in 1..Len(ran') : ran'[k] = batch \/ (k \in 1..Len(ran) /\ ran'[k] = ran[k])
    BY <2>1, AppendProperties DEF TypeOK
  <2> QED
    BY <2>1, <2>2, <2>3 DEF PlaceInv, OnePlace
<1>7. ASSUME UNCHANGED <<queue, batch, arrival, ran>>
      PROVE  OnePlace(queue', batch', arrival', ran')
  BY <1>7 DEF PlaceInv
<1>8. OnePlace(queue', batch', arrival', ran')
  BY <1>3, <1>4, <1>5, <1>6, <1>7, OnlyThreeMove
<1> QED
  BY <1>1, <1>2, <1>8 DEF PlaceInv

-----------------------------------------------------------------------------
(* The theorems.                                                           *)

\* A bridge that has started holds no command and no result.
LEMMA InvInit == Init => Inv
<1> SUFFICES ASSUME Init
             PROVE  Inv
  OBVIOUS
<1>1. TypeOK
  BY TypeInit
<1>2. ResultInv /\ SlotInv
  BY DEF Init, ResultInv, SlotInv, Op
<1>3. PlaceInv
  BY HttpAssumption DEF Init, PlaceInv, OnePlace, Distinct, InBatch
<1> QED
  BY <1>1, <1>2, <1>3 DEF Inv

\* The state of the bridge is always as Inv describes it.
THEOREM InvHolds == Spec => []Inv
<1>1. Inv /\ [Next]_vars => Inv'
  BY TypeStep, ResultStep, SlotStep, PlaceStep DEF Inv
<1> QED
  BY InvInit, <1>1, PTL DEF Spec

\* A caller that gets a body gets it from the batch its own command ran in
\* (correlated_http_send_and_wait).
THEOREM AnswersAreFromOwnBatch == Spec => []AnswerIsFromOwnBatch
<1>1. Inv => AnswerIsFromOwnBatch
  BY DEF Inv, ResultInv, Together, AnswerIsFromOwnBatch
<1> QED
  BY <1>1, InvHolds, PTL

\* A slot somebody waits for is not given up to make room, nor for its age
\* (register_result, _purge_results_locked).
THEOREM AwaitedSlotsAreKept == Spec => AwaitedSlotIsKept
<1> DEFINE Stays(r) == Awaited(r) /\ slot[r] \in {"pending", "ready"} /\ slot'[r] = "none"
                       => handler'[r] = "refused"
<1>1. ASSUME Inv, [Next]_vars, NEW r \in Ask, Awaited(r), slot[r] \in {"pending", "ready"},
             slot'[r] = "none"
      PROVE  handler'[r] = "refused"
  <2> USE DEF callers, results, webview, history, Inv, TypeOK
  <2>1. r \notin expired /\ Kept(r) = slot[r] /\ r \notin Tombstones
    BY <1>1 DEF SlotInv, Awaited, InCall, Kept, Tombstones
  <2>2. ASSUME NEW o \in Op, Post(o) \/ CallerStep(o) \/ GiveUp(o)
        PROVE  FALSE
    BY <1>1, <2>2 DEF Post, CallerStep, PostQueued, PostRefused, GetResult, GiveUp
  <2>3. ASSUME NEW o \in Op, Enqueue(o) \/ EnqueueFull(o)
        PROVE  handler'[r] = "refused"
    BY <1>1, <2>3 DEF Enqueue, EnqueueFull
  <2>4. ASSUME NEW x \in Ask, Register(x)
        PROVE  FALSE
    BY <1>1, <2>1, <2>4 DEF Register, SetResults
  <2>5. ASSUME NEW x \in Ask, \/ RegisterFull(x) \/ Take(x) \/ TakeReady(x)
                              \/ TakeTimeout(x) \/ TakeNothing(x) \/ Expire(x)
        PROVE  FALSE
    BY <1>1, <2>1, <2>5 DEF RegisterFull, Take, TakeReady, TakeTimeout, TakeNothing, Expire,
       SetResults
  <2>6. ASSUME NEW p \in posts, PutResult(p) \/ LosePost(p)
        PROVE  FALSE
    BY <1>1, <2>1, <2>6 DEF PutResult, LosePost, SetResults
  <2>7. CASE Drain \/ LoseBatch \/ RunBatch \/ UNCHANGED vars
    BY <1>1, <2>7 DEF Drain, LoseBatch, RunBatch, vars
  <2> QED
    BY <1>1, <2>2, <2>3, <2>4, <2>5, <2>6, <2>7 DEF Next, HandlerStep, WebviewStep
<1>2. Inv /\ [Next]_vars => [\A r \in Ask : Stays(r)]_vars
  BY <1>1
<1> QED
  BY <1>2, InvHolds, PTL DEF Spec, AwaitedSlotIsKept

-----------------------------------------------------------------------------
(* The refinement of CommandDelivery.                                      *)

\* A batch that runs is the first run of each of its commands, and no run of
\* any other.
LEMMA RunsOnce ==
    ASSUME Inv, RunBatch, NEW o \in Op
    PROVE  /\ o \in InBatch(batch) => RanAt(o) = {} /\ Cardinality(RanAt(o)') = 1
           /\ o \notin InBatch(batch) => RanAt(o)' = RanAt(o)
<1> USE DEF Inv, TypeOK
<1>1. /\ Len(ran') = Len(ran) + 1 /\ ran'[Len(ran) + 1] = batch
      /\ \A k \in 1..Len(ran) : ran'[k] = ran[k]
  BY DEF RunBatch
<1>2. Len(ran) \in Nat /\ Len(batch) \in Nat /\ Len(batch) <= MaxBatch /\ MaxBatch \in Nat
  BY HttpAssumption DEF PlaceInv, OnePlace
<1>3. CASE o \in InBatch(batch)
  <2>1. PICK i \in 1..Len(batch) : batch[i] = o
    BY <1>3 DEF InBatch
  <2>2. ASSUME NEW k \in 1..Len(ran), NEW j \in 1..Len(ran[k])
        PROVE  ran[k][j] # o
    BY <1>3, <2>2 DEF PlaceInv, OnePlace, InBatch
  <2>3. RanAt(o) = {}
    <3>1. \A k \in 1..Len(ran) : Len(ran[k]) \in Nat
      OBVIOUS
    <3> QED
      BY <2>2, <3>1, <1>2 DEF RanAt
  <2>4. RanAt(o)' = {<<Len(ran) + 1, i>>}
    <3>1. <<Len(ran) + 1, i>> \in RanAt(o)'
      BY <1>1, <1>2, <2>1 DEF RanAt
    <3>2. ASSUME NEW at \in RanAt(o)'
          PROVE  at = <<Len(ran) + 1, i>>
      <4>1. /\ at[1] \in 1..(Len(ran) + 1) /\ at[2] \in 1..MaxBatch /\ at = <<at[1], at[2]>>
            /\ at[2] <= Len(ran'[at[1]]) /\ ran'[at[1]][at[2]] = o
        BY <1>1 DEF RanAt
      <4>2. at[1] = Len(ran) + 1
        <5> SUFFICES ASSUME at[1] \in 1..Len(ran)
                     PROVE  FALSE
          BY <4>1, <1>2
        <5>1. at[2] \in 1..Len(ran[at[1]])
          BY <4>1, <1>1
        <5> QED
          BY <5>1, <4>1, <1>1, <2>2
      <4>3. at[2] = i
        BY <4>1, <4>2, <1>1, <1>2, <2>1 DEF PlaceInv, OnePlace, Distinct
      <4> QED
        BY <4>1, <4>2, <4>3
    <3> QED
      BY <3>1, <3>2
  <2> QED
    BY <1>3, <2>3, <2>4, FS_Singleton
<1>4. CASE o \notin InBatch(batch)
  <2>1. ASSUME NEW at \in RanAt(o)'
        PROVE  at \in RanAt(o)
    <3>1. /\ at[1] \in 1..(Len(ran) + 1) /\ at[2] \in 1..MaxBatch /\ at = <<at[1], at[2]>>
          /\ at[2] <= Len(ran'[at[1]]) /\ ran'[at[1]][at[2]] = o
      BY <1>1 DEF RanAt
    <3>2. at[1] \in 1..Len(ran)
      BY <3>1, <1>1, <1>2, <1>4 DEF InBatch
    <3> QED
      BY <3>1, <3>2, <1>1 DEF RanAt
  <2>2. RanAt(o) \subseteq RanAt(o)'
    BY <1>1, <1>2 DEF RanAt
  <2> QED
    BY <1>4, <2>1, <2>2
<1> QED
  BY <1>3, <1>4

\* A caller with a body has had its command run.
LEMMA AnsweredHasRun ==
    ASSUME Inv, NEW r \in Ask, handler[r] = "answered"
    PROVE  RanAt(r) # {}
<1> USE DEF Inv, TypeOK
<1>1. PICK k \in 1..Len(ran) : r \in InBatch(ran[k])
  BY DEF SlotInv, ResultInv, Together
<1>2. PICK i \in 1..Len(ran[k]) : ran[k][i] = r
  BY <1>1 DEF InBatch
<1>3. i \in 1..MaxBatch /\ i <= Len(ran[k])
  BY HttpAssumption DEF PlaceInv, OnePlace
<1>4. <<k, i>> \in RanAt(r)
  BY <1>2, <1>3 DEF RanAt
<1> QED
  BY <1>4

\* The places a command was evaluated at can be counted.
LEMMA RunsAreFinite ==
    ASSUME Inv, NEW o \in Op
    PROVE  /\ Cardinality(RanAt(o)) \in Nat
           /\ RanAt(o) # {} => Cardinality(RanAt(o)) > 0
<1>1. Len(ran) \in Nat /\ MaxBatch \in Nat
  BY HttpAssumption DEF Inv, TypeOK
<1>2. IsFiniteSet(1..Len(ran)) /\ IsFiniteSet(1..MaxBatch)
  BY <1>1, FS_Interval
<1>3. IsFiniteSet((1..Len(ran)) \X (1..MaxBatch))
  BY <1>2, FS_Product
<1>4. IsFiniteSet(RanAt(o))
  BY <1>3, FS_Subset DEF RanAt
<1> QED
  BY <1>4, FS_CardinalityType, FS_EmptySet

\* The bridge starts as a channel that has accepted nothing.
LEMMA DeliveryInit == Init => Delivery!Init
<1> SUFFICES ASSUME Init
             PROVE  Delivery!Init
  OBVIOUS
<1>1. InBatch(arrival) = {}
  BY DEF Init, InBatch
<1>2. \A o \in Op : RanAt(o) = {}
  BY DEF Init, RanAt
<1>3. Execs = [o \in Op |-> 0]
  BY <1>2, FS_EmptySet DEF Execs
<1>4. Told = [o \in Op |-> "waiting"]
  BY DEF Init, Told
<1> QED
  BY <1>1, <1>3, <1>4 DEF Delivery!Init

\* Every step of the bridge is a step of the channel, or none.
LEMMA DeliveryStep ==
    ASSUME Inv, [Next]_vars
    PROVE  [Delivery!Next]_Delivery!vars
<1> USE DEF callers, results, webview, history
<1>1. UNCHANGED ran => Execs' = Execs
  BY DEF Execs, RanAt
<1>2. UNCHANGED arrival => InBatch(arrival)' = InBatch(arrival)
  BY DEF InBatch
<1>3. UNCHANGED caller => Told' = Told
  BY DEF Told
<1>4. CASE UNCHANGED <<caller, arrival, ran>>
  BY <1>1, <1>2, <1>3, <1>4 DEF Delivery!vars
<1>5. ASSUME NEW o \in Op, UNCHANGED <<arrival, ran>>, caller[o] \in {"posting", "getting"},
             caller' = [caller EXCEPT ![o] = "failed"]
      PROVE  Delivery!Abandon(o)
  <2>1. Told[o] = "waiting"
    BY <1>5 DEF Told
  <2>2. Told' = [Told EXCEPT ![o] = "nothing"]
    BY <1>5 DEF Told, Inv, TypeOK
  <2> QED
    BY <2>1, <2>2, <1>1, <1>2, <1>5 DEF Delivery!Abandon
<1>6. ASSUME NEW o \in Op, Post(o) \/ PostQueued(o)
      PROVE  UNCHANGED Delivery!vars
  <2>1. Told' = Told
    BY <1>6, HttpAssumption DEF Post, PostQueued, Told, Inv, TypeOK
  <2>2. UNCHANGED <<arrival, ran>>
    BY <1>6 DEF Post, PostQueued
  <2> QED
    BY <2>1, <2>2, <1>1, <1>2 DEF Delivery!vars
<1>7. ASSUME NEW o \in Op, PostRefused(o) \/ GiveUp(o)
      PROVE  Delivery!Abandon(o)
  BY <1>5, <1>7 DEF PostRefused, GiveUp
<1>8. ASSUME NEW o \in Op, GetResult(o)
      PROVE  Delivery!Abandon(o) \/ Delivery!Confirm(o) \/ UNCHANGED Delivery!vars
  <2>1. UNCHANGED <<arrival, ran>> /\ caller[o] = "getting"
    BY <1>8 DEF GetResult
  <2>2. CASE handler[o] # "answered"
    BY <1>5, <1>8, <2>1, <2>2 DEF GetResult
  <2>3. CASE handler[o] = "answered" /\ o \in Ask
    <3>1. Execs[o] > 0
      BY <2>3, AnsweredHasRun, RunsAreFinite DEF Execs
    <3>2. Told[o] = "waiting"
      BY <2>1 DEF Told
    <3>3. Told' = [Told EXCEPT ![o] = "ran"]
      BY <1>8, <2>3 DEF GetResult, Told, Inv, TypeOK
    <3> QED
      BY <3>1, <3>2, <3>3, <2>1, <1>1, <1>2 DEF Delivery!Confirm
  <2>4. CASE handler[o] = "answered" /\ o \notin Ask
    <3>1. Told' = Told
      BY <1>8, <2>4 DEF GetResult, Told, Inv, TypeOK
    <3> QED
      BY <3>1, <2>1, <1>1, <1>2 DEF Delivery!vars
  <2> QED
    BY <2>2, <2>3, <2>4
<1>9. ASSUME NEW o \in Op, Enqueue(o)
      PROVE  Delivery!Accept(o)
  <2>1. o \notin InBatch(arrival)
    BY <1>9 DEF Enqueue, Inv, PlaceInv, Unqueued
  <2>2. InBatch(arrival)' = InBatch(arrival) \cup {o}
    BY <1>9, AppendedBatch DEF Enqueue, Inv, TypeOK
  <2>3. UNCHANGED <<caller, ran>>
    BY <1>9 DEF Enqueue
  <2> QED
    BY <2>1, <2>2, <2>3, <1>1, <1>3 DEF Delivery!Accept
<1>10. ASSUME RunBatch
       PROVE  Delivery!Execute(InBatch(batch))
  <2>1. InBatch(batch) \subseteq InBatch(arrival) /\ InBatch(batch) # {} /\ InBatch(batch) \subseteq Op
    <3>1. batch \in Seq(Op) /\ batch # <<>>
      BY <1>10 DEF RunBatch, Inv, TypeOK
    <3>2. InBatch(batch) \subseteq InBatch(arrival)
      BY DEF Inv, PlaceInv, OnePlace
    <3>3. 1 \in 1..Len(batch)
      BY <3>1
    <3> QED
      BY <3>1, <3>2, <3>3 DEF InBatch
  <2>2. \A o \in InBatch(batch) : Execs[o] = 0 /\ Execs'[o] = 1
    BY <1>10, <2>1, RunsOnce, FS_EmptySet DEF Execs
  <2>3. \A o \in Op \ InBatch(batch) : Execs'[o] = Execs[o]
    BY <1>10, RunsOnce DEF Execs
  <2>4. Execs' = [o \in Op |-> IF o \in InBatch(batch) THEN Delivery!More(Execs[o]) ELSE Execs[o]]
    BY <2>2, <2>3 DEF Execs, Delivery!More
  <2>5. UNCHANGED <<caller, arrival>>
    BY <1>10 DEF RunBatch
  <2> QED
    BY <2>1, <2>2, <2>4, <2>5, <1>2, <1>3 DEF Delivery!Execute
<1>11. CASE RunBatch
  <2>1. InBatch(batch) \in SUBSET Op
    BY DEF Inv, TypeOK, InBatch
  <2> QED
    BY <2>1, <1>10, <1>11 DEF Delivery!Next
<1>12. ASSUME NEW o \in Op, Post(o) \/ CallerStep(o) \/ GiveUp(o) \/ Enqueue(o)
       PROVE  [Delivery!Next]_Delivery!vars
  BY <1>6, <1>7, <1>8, <1>9, <1>12 DEF CallerStep, Delivery!Next
<1>13. \/ \E o \in Op : Post(o) \/ CallerStep(o) \/ GiveUp(o) \/ Enqueue(o)
       \/ RunBatch
       \/ UNCHANGED <<caller, arrival, ran>>
  BY DEF Next, HandlerStep, WebviewStep, vars, EnqueueFull, Register, RegisterFull, Take,
     TakeReady, TakeTimeout, TakeNothing, Expire, Drain, LoseBatch, PutResult, LosePost
<1> QED
  BY <1>4, <1>11, <1>12, <1>13

\* The HTTP bridge is a channel that runs no command twice, and tells no caller
\* that a command ran before it did (CommandDelivery, MayRepeat FALSE).
THEOREM BridgeDelivers == Spec => DeliversCommands
  BY DeliveryInit, DeliveryStep, InvHolds, PTL DEF Spec, DeliversCommands, Delivery!Spec
=============================================================================
