--------------------------- MODULE LiveDeployProofs ---------------------------
(***************************************************************************)
(* Proofs about LiveDeploy: what a deployment reports is there, nothing    *)
(* but the reconcile and a request that could not be removed adds an item  *)
(* again, and the commands of an earlier deployment are out of the channel *)
(* before this one sends.                                                  *)
(***************************************************************************)
EXTENDS LiveDeploy, TLAPS, SequenceTheorems, NaturalsInduction, WellFoundedInduction

Asked   == Item \cup {Probe}
Payload == [adds : SUBSET Item, asks : Asked \cup {None}, live : BOOLEAN]
\* A link is there or not; 2 is more than one.
Copies  == {ws \in [Item -> 0..2] : \A l \in Link : ws[l] <= 1}
\* A request that slipped.
Slip    == [id : Nat, adds : SUBSET Item, ran : BOOLEAN]
Reply   == [item : Asked \cup {None, "refused"}, found : BOOLEAN]

Probing   == {"http", "file", "select"}
Deploying == {"send", "verify", "resend", "reverify"}
Verifying == {"verify", "reverify"}

TypeOK ==
    /\ up \subseteq Channel /\ fresh \subseteq Channel /\ faults \in Nat
    /\ box \in [Channel -> Seq(Payload)]
    /\ copies \in Copies
    /\ plan \in 0..Len(Plan)
    /\ pc \in {"idle"} \cup Probing \cup Deploying
    /\ pc # "idle" => plan # 0
    /\ responsive \subseteq Channel /\ pinned \in Channel \cup {None}
    /\ sent \in Nat
    /\ todo \subseteq Item /\ failed \subseteq Item
    /\ asked \in Asked \cup {None} /\ reply \in Reply
    /\ stuck \subseteq Slip
    /\ resent \subseteq Item /\ kept \subseteq Item /\ gaveUp \in BOOLEAN
    /\ DOMAIN result = 1..Len(Plan)

\* Where the tool is, and what it then waits for.
ControlInv ==
    /\ pc \in Probing => pinned = None /\ sent = 0
    /\ pc \in Deploying => pinned # None
    /\ asked # None => pc \in Channel \cup Verifying
    /\ asked # None /\ pc \in Channel => asked = Probe
    /\ asked # None /\ pc \in Verifying => asked \in todo
    /\ pc = "resend" => todo \subseteq Items(plan)
    /\ \A p \in 1..Len(Plan) : p > plan \/ (p = plan /\ pc # "idle") => result[p] = None

\* The channel a question goes to.
Current == IF pc \in Channel THEN pc ELSE pinned

\* The question somebody waits for is the last one of its channel, and nobody
\* waits for another; the mailbox holds no other, and the queue of the bridge
\* none before one was given up.
QuestionInv ==
    \A ch \in Channel : \A k \in 1..Len(box[ch]) :
        /\ box[ch][k].live =>
              /\ box[ch][k].asks # None /\ box[ch][k].asks = asked /\ reply = Nothing
              /\ ch = Current /\ k = Len(box[ch])
        /\ box[ch][k].asks # None /\ (ch = "file" \/ ~gaveUp) => box[ch][k].live

\* Whether an answer is that of its own question.
Own == Current = "file" \/ ~gaveUp

\* When an answer has come, all that was before its question is out of the
\* channel, and an answer of one's own is so.
ReplyInv ==
    /\ asked = None => reply = Nothing
    /\ reply.found => box[Current] = <<>>
    /\ reply.found /\ Own => reply.item = asked /\ (asked = Probe \/ copies[asked] > 0)

\* A channel that has answered is empty, and the deployment fills it.
EarlierInv ==
    /\ pc = "http" => responsive = {}
    /\ pc = "file" => responsive \subseteq {"http"}
    /\ pc \in Probing => \A ch \in responsive : box[ch] = <<>>
    /\ EarlierIsOver

\* What has not been sent is nowhere; what has been sent once is in one place
\* of one channel, or has left it.
Unsent(p, k) == p > plan \/ (p = plan /\ pc \in Probing \cup {"send"} /\ k > sent)

\* What may run again: it was sent again, or its request stayed.
Caused == resent \cup kept

\* A request that slipped is one of those that were sent, and what it adds for
\* the first time is in no other place.
StuckInv ==
    \A r \in stuck : \A i \in r.adds :
        /\ \A p \in 1..Len(Plan) : \A k \in 1..Len(Plan[p]) : Unsent(p, k) => Plan[p][k] # i
        /\ i \notin Caused =>
              /\ copies[i] = 0
              /\ \A ch \in Channel : \A n \in 1..Len(box[ch]) : i \notin box[ch][n].adds
              /\ \A s \in stuck : i \in s.adds => s = r

OnceInv ==
    /\ \A p \in 1..Len(Plan) : \A k \in 1..Len(Plan[p]) :
          Unsent(p, k) =>
              /\ copies[Plan[p][k]] = 0
              /\ \A ch \in Channel : \A n \in 1..Len(box[ch]) : Plan[p][k] \notin box[ch][n].adds
    /\ \A i \in Item \ Caused : \A ch \in Channel : \A n \in 1..Len(box[ch]) :
          i \in box[ch][n].adds =>
              /\ copies[i] = 0
              /\ \A c \in Channel : \A m \in 1..Len(box[c]) :
                    i \in box[c][m].adds => c = ch /\ m = n
    /\ StuckInv
    /\ RepeatedForCause

\* What was verified is there.
Trusted == pinned = "file" \/ ~gaveUp

PresentInv ==
    /\ Trusted /\ pc = "verify" => \A i \in Items(plan) \ (todo \cup failed) : copies[i] > 0
    /\ Trusted /\ pc \in {"resend", "reverify"} => \A i \in Items(plan) \ failed : copies[i] > 0
    /\ ReportedIsPresent

\* The inductive invariant.
Inv == TypeOK /\ ControlInv /\ QuestionInv /\ ReplyInv /\ EarlierInv /\ OnceInv /\ PresentInv

-----------------------------------------------------------------------------
(* Sequences and numbers.                                                  *)

\* A queue with one payload more.
LEMMA Appended ==
    ASSUME NEW T, NEW q \in Seq(T), NEW m \in T
    PROVE  /\ Append(q, m) \in Seq(T)
           /\ Len(q) \in Nat /\ Len(Append(q, m)) = Len(q) + 1
           /\ Append(q, m)[Len(q) + 1] = m
           /\ \A j \in 1..Len(q) : Append(q, m)[j] = q[j]
  OBVIOUS

\* What is left of a queue whose first payloads are taken.
LEMMA Dropped ==
    ASSUME NEW T, NEW q \in Seq(T), NEW n \in 0..Len(q)
    PROVE  LET r == SubSeq(q, n + 1, Len(q))
           IN  /\ r \in Seq(T) /\ Len(q) \in Nat /\ Len(r) = Len(q) - n
               /\ \A k \in 1..Len(r) : n + k \in 1..Len(q) /\ r[k] = q[n + k]
<1>1. Len(q) \in Nat /\ \A k \in n+1..Len(q) : q[k] \in T
  OBVIOUS
<1> DEFINE r == SubSeq(q, n + 1, Len(q))
<1>2. /\ r \in Seq(T)
      /\ Len(r) = IF n + 1 <= Len(q) THEN Len(q) - (n + 1) + 1 ELSE 0
      /\ \A k \in 1..Len(q) - (n + 1) + 1 : r[k] = q[n + 1 + k - 1]
  BY <1>1, SubSeqProperties
<1> HIDE DEF r
<1>3. Len(r) = Len(q) - n
  BY <1>1, <1>2
<1>4. \A k \in 1..Len(r) : n + k \in 1..Len(q) /\ r[k] = q[n + k]
  <2> TAKE k \in 1..Len(r)
  <2>1. k \in 1..Len(q) - (n + 1) + 1 /\ n + 1 + k - 1 = n + k /\ n + k \in 1..Len(q)
    BY <1>1, <1>3
  <2> QED
    BY <1>2, <2>1
<1> QED
  BY <1>1, <1>2, <1>3, <1>4 DEF r

\* A queue without its last payload.
LEMMA Shortened ==
    ASSUME NEW T, NEW q \in Seq(T), q # <<>>
    PROVE  LET r == SubSeq(q, 1, Len(q) - 1)
           IN  /\ r \in Seq(T) /\ Len(q) \in Nat \ {0} /\ Len(r) = Len(q) - 1
               /\ \A k \in 1..Len(r) : k \in 1..Len(q) /\ r[k] = q[k]
<1>1. Len(q) \in Nat /\ Len(q) >= 1 /\ \A k \in 1..Len(q) - 1 : q[k] \in T
  OBVIOUS
<1> DEFINE r == SubSeq(q, 1, Len(q) - 1)
<1>2. /\ r \in Seq(T)
      /\ Len(r) = IF 1 <= Len(q) - 1 THEN Len(q) - 1 - 1 + 1 ELSE 0
      /\ \A k \in 1..Len(q) - 1 - 1 + 1 : r[k] = q[1 + k - 1]
  BY <1>1, SubSeqProperties
<1> HIDE DEF r
<1>3. Len(r) = Len(q) - 1
  <2> DEFINE n == Len(q)
             m == Len(r)
  <2>1. n \in Nat /\ n >= 1 /\ m = IF 1 <= n - 1 THEN n - 1 - 1 + 1 ELSE 0
    BY <1>1, <1>2
  <2> HIDE DEF n, m
  <2>2. m = n - 1
    BY <2>1
  <2> QED
    BY <2>2 DEF n, m
<1>4. \A k \in 1..Len(r) : k \in 1..Len(q) /\ r[k] = q[k]
  <2> TAKE k \in 1..Len(r)
  <2>1. k \in 1..Len(q) - 1 - 1 + 1 /\ 1 + k - 1 = k /\ k \in 1..Len(q)
    BY <1>1, <1>3
  <2> QED
    BY <1>2, <2>1
<1> QED
  BY <1>1, <1>2, <1>3, <1>4 DEF r

\* A queue whose questions nobody waits for any more.
LEMMA Unawaited ==
    ASSUME NEW q \in Seq(Payload)
    PROVE  LET r == [k \in 1..Len(q) |-> [q[k] EXCEPT !.live = FALSE]]
           IN  /\ r \in Seq(Payload) /\ Len(q) \in Nat /\ Len(r) = Len(q)
               /\ \A k \in 1..Len(q) :
                     r[k].adds = q[k].adds /\ r[k].asks = q[k].asks /\ r[k].live = FALSE
<1> DEFINE r == [k \in 1..Len(q) |-> [q[k] EXCEPT !.live = FALSE]]
<1>1. Len(q) \in Nat /\ \A k \in 1..Len(q) : q[k] \in Payload
  OBVIOUS
<1>2. \A k \in 1..Len(q) : [q[k] EXCEPT !.live = FALSE] \in Payload
  BY <1>1 DEF Payload
<1>3. r \in [1..Len(q) -> Payload]
  BY <1>2
<1>4. \A k \in 1..Len(q) :
         r[k].adds = q[k].adds /\ r[k].asks = q[k].asks /\ r[k].live = FALSE
  BY <1>1 DEF Payload
<1>5. DOMAIN r = 1..Len(q)
  OBVIOUS
<1> HIDE DEF r
<1>6. r \in Seq(Payload)
  BY <1>1, <1>3, SeqDef
<1>7. Len(r) = Len(q)
  BY <1>1, <1>5, <1>6, LenProperties
<1> QED
  BY <1>1, <1>4, <1>6, <1>7 DEF r

\* A set of numbers that is not empty has a least one.
LEMMA LeastOfNumbers ==
    ASSUME NEW N \in SUBSET Nat, N # {}
    PROVE  \E m \in N : \A k \in N : m <= k
<1> DEFINE R == {ss \in Nat \X Nat : ss[1] < ss[2]}
<1>1. IsWellFoundedOn(R, Nat)
  BY NatLessThanWellFounded, Zenon DEF OpToRel
<1>2. PICK m \in N : \A k \in N : ~(<<k, m>> \in R)
  <2> HIDE DEF R
  <2> QED
    BY <1>1, WFMin
<1>3. ASSUME NEW k \in N
      PROVE  ~(k < m)
  <2>1. k < m => <<k, m>> \in R
    OBVIOUS
  <2> HIDE DEF R
  <2> QED
    BY <2>1, <1>2
<1>4. \A k \in N : k \in Nat /\ m \in Nat
  OBVIOUS
<1> HIDE DEF R
<1> QED
  BY <1>3, <1>4

\* A set that has 0, and with each number below n the next one, has them all.
LEMMA SetInduction ==
    ASSUME NEW n \in Nat, NEW T, 0 \in T, \A k \in 0..n-1 : k \in T => k + 1 \in T
    PROVE  \A k \in 0..n : k \in T
<1> SUFFICES ASSUME (0..n) \ T # {}
             PROVE  FALSE
  OBVIOUS
<1>1. (0..n) \ T \in SUBSET Nat
  OBVIOUS
<1>2. PICK m \in (0..n) \ T : \A k \in (0..n) \ T : m <= k
  BY ONLY <1>1, (0..n) \ T # {}, LeastOfNumbers
<1>3. m # 0 /\ m - 1 \in 0..n-1 /\ m - 1 \in T
  BY <1>2
<1> QED
  BY <1>2, <1>3

-----------------------------------------------------------------------------
(* Scripts.                                                                *)

Start0(ws) == [ws |-> ws, said |-> Nothing, live |-> FALSE]

\* What holds at the start of a script, and goes over from payload to payload,
\* holds at its end: G[k] are the runs that are as they should be after k.
LEMMA RunsReach ==
    ASSUME NEW q, NEW N \in Nat, NEW ws, NEW G,
           Start0(ws) \in G[0],
           \A k \in 1..N : \A run \in G[k - 1] : Ran(q[k], run) \subseteq G[k]
    PROVE  Runs(q, N, ws) \subseteq G[N]
<1> DEFINE After(k, S) == IF k = 0 THEN {Start0(ws)} ELSE UNION {Ran(q[k], run) : run \in S}
           UpTo(n, f) == f = [k \in 0..n |-> After(k, f[k - 1])]
           ran == CHOOSE f : UpTo(N, f)
           T == {n \in 0..N : \E f : UpTo(n, f)}
           In == {n \in 0..N : ran[n] \subseteq G[n]}
<1>1. Runs(q, N, ws) = ran[N]
  BY DEF Runs, Start0
\* The stages of the run exist.
<1>2. UpTo(N, ran)
  <2>1. 0 \in T
    <3> DEFINE f == [k \in 0..0 |-> {Start0(ws)}]
    <3>1. UpTo(0, f)
      OBVIOUS
    <3> HIDE DEF UpTo, f
    <3> QED
      BY <3>1
  <2>2. ASSUME NEW n \in 0..N-1, n \in T
        PROVE  n + 1 \in T
    <3> HIDE DEF UpTo
    <3>1. PICK f : UpTo(n, f)
      BY <2>2
    <3> HIDE DEF After
    <3> DEFINE g == [k \in 0..n+1 |-> After(k, f[k - 1])]
    <3>2. \A k \in 0..n : g[k] = f[k]
      BY <3>1, <2>2 DEF UpTo
    <3>3. \A k \in 0..n+1 : After(k, f[k - 1]) = After(k, g[k - 1])
      <4>1. \A k \in 0..n+1 : k = 0 \/ k - 1 \in 0..n
        BY <2>2
      <4>2. \A k \in 0..n+1 : k = 0 \/ g[k - 1] = f[k - 1]
        BY <3>2, <4>1
      <4>3. \A S, R : After(0, S) = After(0, R)
        BY DEF After
      <4> HIDE DEF g
      <4> QED
        BY <4>2, <4>3, Zenon
    <3>4. g = [k \in 0..n+1 |-> After(k, g[k - 1])]
      <4>1. g = [k \in 0..n+1 |-> After(k, f[k - 1])]
        OBVIOUS
      <4> HIDE DEF g
      <4> QED
        BY <3>3, <4>1, Zenon
    <3>5. UpTo(n + 1, g)
      BY <3>4 DEF UpTo
    <3> HIDE DEF g
    <3>6. n + 1 \in 0..N
      BY <2>2
    <3> QED
      BY <3>5, <3>6
  <2> HIDE DEF T
  <2>3. \A k \in 0..N : k \in T
    BY <2>1, <2>2, SetInduction
  <2>4. N \in T
    BY <2>3
  <2> HIDE DEF UpTo
  <2> QED
    BY <2>4, Zenon DEF T
<1> HIDE DEF ran, After
<1>3. ran = [k \in 0..N |-> After(k, ran[k - 1])]
  BY <1>2
<1>4. \A k \in 0..N : k \in In
  <2>1. 0 \in In
    BY <1>3 DEF After
  <2>2. ASSUME NEW n \in 0..N-1, n \in In
        PROVE  n + 1 \in In
    <3>1. n + 1 \in 0..N /\ n + 1 \in 1..N /\ n + 1 # 0 /\ (n + 1) - 1 = n
      OBVIOUS
    <3>2. ran[n + 1] = After(n + 1, ran[n])
      BY <1>3, <3>1
    <3>3. After(n + 1, ran[n]) = UNION {Ran(q[n + 1], run) : run \in ran[n]}
      BY <3>1 DEF After
    <3> QED
      BY <2>2, <3>1, <3>2, <3>3
  <2> HIDE DEF In
  <2> QED
    BY <2>1, <2>2, SetInduction
<1> QED
  BY <1>1, <1>4

Run == [ws : Copies, said : Reply, live : BOOLEAN]

\* Whether the payloads up to k add i.
Added(q, k, i) == \E m \in 1..k : i \in q[m].adds

\* How a run may be after k payloads: it has taken nothing away, has added what
\* they add and nothing twice that was sent once, answers a question there was,
\* and is awaited only if one of them is.
After(q, k, ws) ==
    {run \in Run :
        /\ \A i \in Item : run.ws[i] >= ws[i]
        /\ \A i \in Item : ~Added(q, k, i) => run.ws[i] = ws[i]
        /\ \A i \in Item :
              ws[i] = 0 /\ (\A m, n \in 1..Len(q) : i \in q[m].adds /\ i \in q[n].adds => m = n)
              => run.ws[i] <= 1
        /\ run.said # Nothing =>
              /\ \E m \in 1..k : q[m].asks # None /\ q[m].asks = run.said.item
              /\ run.said.found => run.said.item = Probe \/ run.ws[run.said.item] > 0
        /\ run.live => run.said # Nothing /\ \E m \in 1..k : q[m].live}

\* What commands make of a workspace.
LEMMA EffectFacts ==
    ASSUME NEW ws \in Copies, NEW works \in SUBSET Item
    PROVE  /\ Effect(works, ws) \in Copies
           /\ \A i \in Item : /\ Effect(works, ws)[i] >= ws[i]
                              /\ i \notin works => Effect(works, ws)[i] = ws[i]
                              /\ ws[i] = 0 => Effect(works, ws)[i] <= 1
<1> DEFINE made == [i \in Item |-> IF i \in works \cap Device THEN IF ws[i] = 0 THEN 1 ELSE 2
                                   ELSE ws[i]]
<1>1. \A i \in Item : ws[i] \in 0..2 /\ (i \notin Device => ws[i] <= 1)
  BY DEF Copies, Link
<1>2. \A i \in Item : /\ made[i] \in 0..2 /\ made[i] >= ws[i] /\ (i \notin Device => made[i] = ws[i])
                      /\ (i \notin works => made[i] = ws[i]) /\ (ws[i] = 0 => made[i] <= 1)
  BY <1>1
<1>3. Effect(works, ws) = [i \in Item |-> IF i \in works \ Device /\ \A d \in Ends[i] : made[d] > 0
                                          THEN 1 ELSE made[i]]
  BY DEF Effect
<1> HIDE DEF made
<1>4. \A i \in Item : \/ i \in works \ Device /\ Effect(works, ws)[i] = 1
                      \/ Effect(works, ws)[i] = made[i]
  BY <1>3
<1>5. \A i \in Item : /\ Effect(works, ws)[i] \in 0..2 /\ (i \notin Device => Effect(works, ws)[i] <= 1)
                      /\ Effect(works, ws)[i] >= ws[i]
                      /\ i \notin works => Effect(works, ws)[i] = ws[i]
                      /\ ws[i] = 0 => Effect(works, ws)[i] <= 1
  BY <1>1, <1>2, <1>4
<1>6. Effect(works, ws) \in [Item -> 0..2]
  BY <1>3, <1>5
<1> QED
  BY <1>5, <1>6 DEF Copies, Link

\* A script goes from one payload to the next as After says.
LEMMA RanGoesOn ==
    ASSUME NEW q \in Seq(Payload), NEW k \in 1..Len(q), NEW ws \in Copies,
           NEW run \in After(q, k - 1, ws)
    PROVE  Ran(q[k], run) \subseteq After(q, k, ws)
<1> DEFINE p == q[k]
<1>1. p \in Payload /\ p.adds \subseteq Item /\ p.asks \in Asked \cup {None} /\ p.live \in BOOLEAN
  <2>1. p \in Payload
    OBVIOUS
  <2> HIDE DEF p
  <2> QED
    BY <2>1 DEF Payload
<1>2. /\ k - 1 \in Nat /\ k \in 1..k /\ \A m \in 1..k-1 : m \in 1..k /\ m # k /\ m \in 1..Len(q)
      /\ \A m \in 1..k : m = k \/ m \in 1..k-1
  OBVIOUS
<1>3. run \in Run /\ run.ws \in Copies /\ run.said \in Reply /\ run.live \in BOOLEAN
  BY DEF After, Run
<1>4. \A i \in Item : ws[i] \in 0..2 /\ run.ws[i] \in 0..2
  BY <1>3 DEF Copies
<1>5. ASSUME p.asks = None, NEW works \in SUBSET p.adds
      PROVE  [run EXCEPT !.ws = Effect(works, @)] \in After(q, k, ws)
  <2> DEFINE new == [run EXCEPT !.ws = Effect(works, @)]
             made == Effect(works, run.ws)
  <2>1. new \in Run /\ new.ws = made /\ new.said = run.said /\ new.live = run.live
    BY <1>1, <1>3, <1>5, EffectFacts DEF Run
  <2>2. \A i \in Item : /\ made[i] \in 0..2 /\ made[i] >= run.ws[i]
                        /\ i \notin works => made[i] = run.ws[i]
                        /\ run.ws[i] = 0 => made[i] <= 1
    BY <1>1, <1>3, <1>5, EffectFacts DEF Copies
  <2> HIDE DEF new, made
  <2>3. \A i \in Item : made[i] >= ws[i]
    BY <1>4, <2>2 DEF After
  <2>4. \A i \in Item : ~Added(q, k, i) => made[i] = ws[i]
    <3> TAKE i \in Item
    <3> HAVE ~Added(q, k, i)
    <3>1. i \notin p.adds /\ ~Added(q, k - 1, i)
      BY <1>2 DEF Added
    <3> QED
      BY <1>5, <2>2, <3>1 DEF After
  <2>5. ASSUME NEW i \in Item, ws[i] = 0,
               \A m, n \in 1..Len(q) : i \in q[m].adds /\ i \in q[n].adds => m = n
        PROVE  made[i] <= 1
    <3>1. CASE i \in p.adds
      <4>1. ~Added(q, k - 1, i)
        BY <1>2, <2>5, <3>1 DEF Added
      <4> QED
        BY <2>2, <2>5, <4>1 DEF After
    <3>2. CASE i \notin p.adds
      BY <1>5, <2>2, <2>5, <3>2 DEF After
    <3> QED
      BY <3>1, <3>2
  <2>6. run.said # Nothing =>
           /\ \E m \in 1..k : q[m].asks # None /\ q[m].asks = run.said.item
           /\ run.said.found => run.said.item = Probe \/ made[run.said.item] > 0
    <3> HAVE run.said # Nothing
    <3>1. PICK m \in 1..k-1 : q[m].asks # None /\ q[m].asks = run.said.item
      BY DEF After
    <3>2. q[m] \in Payload
      BY <1>2, <3>1
    <3>3. run.said.item \in Item \cup {Probe}
      BY <3>1, <3>2 DEF Payload, Asked
    <3>4. run.said.found => run.said.item = Probe \/ run.ws[run.said.item] > 0
      BY DEF After
    <3>5. \A i \in Item : run.ws[i] > 0 => made[i] > 0
      BY <1>4, <2>2
    <3> QED
      BY <1>2, <3>1, <3>3, <3>4, <3>5
  <2>7. run.live => run.said # Nothing /\ \E m \in 1..k : q[m].live
    BY <1>2 DEF After
  <2> QED
    BY <2>1, <2>3, <2>4, <2>5, <2>6, <2>7 DEF After, new
<1>6. ASSUME p.asks # None
      PROVE  [run EXCEPT !.said = IF @ = Nothing THEN Found(p.asks, run.ws) ELSE @,
                         !.live = p.live] \in After(q, k, ws)
  <2> DEFINE said == IF run.said = Nothing THEN Found(p.asks, run.ws) ELSE run.said
             new == [run EXCEPT !.said = IF @ = Nothing THEN Found(p.asks, run.ws) ELSE @,
                                !.live = p.live]
  <2>1. p.asks \in Item \cup {Probe}
    BY <1>1, <1>6 DEF Asked
  <2>2. Found(p.asks, run.ws) \in Reply /\ Found(p.asks, run.ws) # Nothing
    BY <1>6, <2>1 DEF Found, Reply, Nothing, Asked
  <2>3. said \in Reply /\ said # Nothing
    BY <1>3, <2>2
  <2>4. new \in Run /\ new.ws = run.ws /\ new.said = said /\ new.live = p.live
    BY <1>1, <1>3, <2>3 DEF Run
  <2>5. /\ \E m \in 1..k : q[m].asks # None /\ q[m].asks = said.item
        /\ said.found => said.item = Probe \/ run.ws[said.item] > 0
    <3>1. CASE run.said = Nothing
      BY <1>2, <1>6, <3>1 DEF Found
    <3>2. CASE run.said # Nothing
      BY <1>2, <3>2 DEF After
    <3> QED
      BY <3>1, <3>2
  <2> HIDE DEF said, new
  <2>6. \A i \in Item : ~Added(q, k, i) => ~Added(q, k - 1, i)
    BY <1>2 DEF Added
  <2>7. p.live => \E m \in 1..k : q[m].live
    BY <1>2
  <2> QED
    BY <2>3, <2>4, <2>5, <2>6, <2>7 DEF After, new
<1> QED
  BY <1>5, <1>6 DEF Ran

\* What a script that Packet Tracer runs has done.
LEMMA ScriptFacts ==
    ASSUME NEW q \in Seq(Payload), NEW n \in 1..Len(q), NEW ws \in Copies,
           NEW run \in Runs(q, n, ws)
    PROVE  run \in After(q, n, ws)
<1> DEFINE G == [k \in 0..n |-> After(q, k, ws)]
<1>1. n \in Nat /\ \A k \in 1..n : k \in 1..Len(q) /\ k - 1 \in 0..n /\ k \in 0..n
  OBVIOUS
<1>2. Start0(ws) \in After(q, 0, ws)
  <2>1. Start0(ws) \in Run
    BY DEF Start0, Run, Reply, Nothing
  <2>2. \A i \in Item : ws[i] \in 0..2
    BY DEF Copies
  <2> QED
    BY <2>1, <2>2 DEF Start0, After
<1>3. \A k \in 1..n : \A r \in After(q, k - 1, ws) : Ran(q[k], r) \subseteq After(q, k, ws)
  BY <1>1, RanGoesOn
<1>4. Start0(ws) \in G[0] /\ \A k \in 1..n : \A r \in G[k - 1] : Ran(q[k], r) \subseteq G[k]
  BY <1>1, <1>2, <1>3
<1>5. Runs(q, n, ws) \subseteq G[n]
  <2> HIDE DEF G
  <2> QED
    BY <1>1, <1>4, RunsReach
<1> QED
  BY <1>1, <1>5

-----------------------------------------------------------------------------
(* What the steps do to the channels.                                      *)

\* r is what is left of q when its first n payloads are gone.
Suffix(q, r, n) ==
    /\ n \in 0..Len(q) /\ Len(r) = Len(q) - n
    /\ \A k \in 1..Len(r) : n + k \in 1..Len(q) /\ r[k] = q[n + k]

\* Each channel has lost its first payloads, or none.
Shrunk(b, c) == \A ch \in Channel : \E n \in 0..Len(b[ch]) : Suffix(b[ch], c[ch], n)

\* A payload more in one channel.
Grown(b, c, ch, payload) ==
    /\ Len(c[ch]) = Len(b[ch]) + 1 /\ c[ch][Len(b[ch]) + 1] = payload
    /\ \A k \in 1..Len(b[ch]) : c[ch][k] = b[ch][k]
    /\ \A d \in Channel \ {ch} : c[d] = b[d]

\* What a channel holds are payloads.
LEMMA Lengths ==
    ASSUME TypeOK, NEW ch \in Channel
    PROVE  /\ box[ch] \in Seq(Payload) /\ Len(box[ch]) \in Nat
           /\ \A k \in 1..Len(box[ch]) :
                 /\ box[ch][k] \in Payload /\ box[ch][k].adds \subseteq Item
                 /\ box[ch][k].asks \in Asked \cup {None} /\ box[ch][k].live \in BOOLEAN
<1>1. box[ch] \in Seq(Payload)
  BY DEF TypeOK
<1>2. Len(box[ch]) \in Nat /\ \A k \in 1..Len(box[ch]) : box[ch][k] \in Payload
  BY <1>1
<1> QED
  BY <1>1, <1>2 DEF Payload

\* A channel that is left alone has lost no payload.
LEMMA Unchanged ==
    ASSUME TypeOK, box' = box
    PROVE  Shrunk(box, box')
<1> SUFFICES ASSUME NEW ch \in Channel
             PROVE  Suffix(box[ch], box[ch], 0) /\ 0 \in 0..Len(box[ch])
  BY DEF Shrunk
<1>1. Len(box[ch]) \in Nat
  BY Lengths
<1> QED
  BY <1>1 DEF Suffix

\* A channel without its first n payloads.
LEMMA BoxShrinks ==
    ASSUME TypeOK, NEW ch \in Channel, NEW n \in 0..Len(box[ch]),
           box' = [box EXCEPT ![ch] = SubSeq(@, n + 1, Len(@))]
    PROVE  /\ box' \in [Channel -> Seq(Payload)]
           /\ Suffix(box[ch], box'[ch], n)
           /\ \A c \in Channel \ {ch} : box'[c] = box[c]
           /\ Shrunk(box, box')
<1> DEFINE r == SubSeq(box[ch], n + 1, Len(box[ch]))
<1>1. box[ch] \in Seq(Payload) /\ box \in [Channel -> Seq(Payload)]
  BY DEF TypeOK
<1>2. r \in Seq(Payload) /\ Suffix(box[ch], r, n)
  BY <1>1, Dropped DEF Suffix
<1>3. box' = [box EXCEPT ![ch] = r]
  OBVIOUS
<1> HIDE DEF r
<1>4. box' \in [Channel -> Seq(Payload)] /\ box'[ch] = r /\ \A c \in Channel \ {ch} : box'[c] = box[c]
  BY <1>1, <1>2, <1>3
<1>5. \A c \in Channel : \E m \in 0..Len(box[c]) : Suffix(box[c], box'[c], m)
  <2> TAKE c \in Channel
  <2>1. CASE c = ch
    BY <1>2, <1>4, <2>1
  <2>2. CASE c # ch
    <3>1. box'[c] = box[c] /\ Len(box[c]) \in Nat
      BY <1>4, <2>2, Lengths
    <3>2. 0 \in 0..Len(box[c]) /\ Suffix(box[c], box[c], 0)
      BY <3>1 DEF Suffix
    <3> QED
      BY <3>1, <3>2
  <2> QED
    BY <2>1, <2>2
<1> QED
  BY <1>2, <1>4, <1>5 DEF Shrunk

\* What is queued is last in its channel.
LEMMA BoxGrows ==
    ASSUME TypeOK, NEW ch \in Channel, NEW payload \in Payload, Queued(ch, payload)
    PROVE  box' \in [Channel -> Seq(Payload)] /\ Grown(box, box', ch, payload)
<1>1. box[ch] \in Seq(Payload) /\ box \in [Channel -> Seq(Payload)]
  BY DEF TypeOK
<1> DEFINE r == Append(box[ch], payload)
<1>2. box' = [box EXCEPT ![ch] = r]
  BY DEF Queued
<1>3. r \in Seq(Payload) /\ Len(r) = Len(box[ch]) + 1 /\ r[Len(box[ch]) + 1] = payload
      /\ \A k \in 1..Len(box[ch]) : r[k] = box[ch][k]
  BY <1>1, Appended
<1> HIDE DEF r
<1> QED
  BY <1>1, <1>2, <1>3 DEF Grown

\* A question is taken back, or nobody waits for it any more.
LEMMA BoxWithdraws ==
    ASSUME TypeOK, NEW ch \in Channel, box' = Withdrawn(ch)
    PROVE  /\ box' \in [Channel -> Seq(Payload)]
           /\ \A c \in Channel \ {ch} : box'[c] = box[c]
           /\ Len(box'[ch]) \in Nat
           /\ \A k \in 1..Len(box'[ch]) :
                 /\ k \in 1..Len(box[ch])
                 /\ box'[ch][k].adds = box[ch][k].adds /\ box'[ch][k].asks = box[ch][k].asks
                 /\ ch = "http" => ~box'[ch][k].live
                 /\ ch = "file" => box'[ch][k] = box[ch][k]
           /\ ch = "file" /\ box[ch] # <<>> /\ box[ch][Len(box[ch])].live
              => Len(box'[ch]) = Len(box[ch]) - 1
<1>1. box[ch] \in Seq(Payload) /\ box \in [Channel -> Seq(Payload)] /\ Len(box[ch]) \in Nat
  BY Lengths DEF TypeOK
<1>2. CASE ch = "http"
  <2> DEFINE r == [k \in 1..Len(box[ch]) |-> [box[ch][k] EXCEPT !.live = FALSE]]
  <2>1. box' = [box EXCEPT ![ch] = r]
    BY <1>2 DEF Withdrawn
  <2>2. /\ r \in Seq(Payload) /\ Len(r) = Len(box[ch])
        /\ \A k \in 1..Len(box[ch]) :
              r[k].adds = box[ch][k].adds /\ r[k].asks = box[ch][k].asks /\ r[k].live = FALSE
    BY <1>1, Unawaited
  <2> HIDE DEF r
  <2>3. box' \in [Channel -> Seq(Payload)] /\ box'[ch] = r /\ \A c \in Channel \ {ch} : box'[c] = box[c]
    BY <1>1, <2>1, <2>2
  <2> QED
    BY <1>1, <1>2, <2>2, <2>3
<1>3. CASE ch = "file"
  <2>1. CASE box[ch] # <<>> /\ box[ch][Len(box[ch])].live
    <3> DEFINE r == SubSeq(box[ch], 1, Len(box[ch]) - 1)
    <3>1. box' = [box EXCEPT ![ch] = r]
      BY <1>3, <2>1 DEF Withdrawn
    <3>2. /\ r \in Seq(Payload) /\ Len(r) = Len(box[ch]) - 1 /\ Len(box[ch]) \in Nat \ {0}
          /\ \A k \in 1..Len(r) : k \in 1..Len(box[ch]) /\ r[k] = box[ch][k]
      BY <1>1, <2>1, Shortened
    <3> HIDE DEF r
    <3>3. box' \in [Channel -> Seq(Payload)] /\ box'[ch] = r /\ \A c \in Channel \ {ch} : box'[c] = box[c]
      BY <1>1, <3>1, <3>2
    <3> QED
      BY <1>3, <2>1, <3>2, <3>3
  <2>2. CASE ~(box[ch] # <<>> /\ box[ch][Len(box[ch])].live)
    <3>1. box' = [box EXCEPT ![ch] = box[ch]]
      BY <1>3, <2>2 DEF Withdrawn
    <3>2. box' = box
      BY <1>1, <3>1
    <3> QED
      BY <1>1, <1>3, <2>2, <3>2
  <2> QED
    BY <2>1, <2>2
<1> QED
  BY <1>2, <1>3 DEF Channel

-----------------------------------------------------------------------------
(* The steps, by what they do.                                             *)

\* The executors, but for the scripts they run.
Elsewhere ==
    \/ \E ch \in Channel : StopExecutor(ch) \/ GoStale(ch) \/ ResumeExecutor(ch)
    \/ \E n \in 1..MaxBatch : LoseBatch(n)

\* The requests of the mailbox that slip.
Slipping == SkipRequest \/ KeepRequest \/ \E r \in stuck : RunStuck(r) \/ PurgeStuck(r)

\* The tool, where it leaves the channels alone.
Quiet ==
    \/ Start \/ Select \/ BeginVerify \/ ItemAnswered \/ EndVerify \/ BeginReverify
    \/ EndReverify
    \/ \E ch \in Channel : SkipProbe(ch) \/ ProbeAnswered(ch)

\* Every step is of one of these groups.
LEMMA StepCases ==
    ASSUME Next
    PROVE  \/ Elsewhere
           \/ \E ch \in Channel : \E n \in Nat : Execute(ch, n)
           \/ Quiet
           \/ AskItem \/ \E ch \in Channel : SendProbe(ch)
           \/ ItemTimedOut \/ \E ch \in Channel : ProbeTimedOut(ch)
           \/ SendBatch \/ Resend
           \/ Slipping
<1>1. MaxBatch \in Nat /\ \A n \in 1..MaxBatch : n \in Nat
  BY DeployAssumption
<1>2. "http" \in Channel /\ "file" \in Channel
  BY DEF Channel
<1> QED
  BY <1>1, <1>2 DEF Next, ToolStep, Environment, Elsewhere, Quiet, ExecuteHttp, ExecuteFile,
     Slipping

\* An executor that stops or goes on touches neither the tool nor the workspace.
LEMMA ElsewhereFacts ==
    ASSUME TypeOK, Elsewhere
    PROVE  /\ UNCHANGED <<stuck, copies, tool, history>>
           /\ up' \subseteq Channel /\ fresh' \subseteq Channel /\ faults' \in Nat
           /\ box' \in [Channel -> Seq(Payload)] /\ Shrunk(box, box')
<1>1. ASSUME NEW ch \in Channel, StopExecutor(ch) \/ GoStale(ch)
      PROVE  /\ UNCHANGED <<box, stuck, copies, tool, history>>
             /\ up' \subseteq Channel /\ fresh' \subseteq Channel /\ faults' \in Nat
  BY <1>1 DEF StopExecutor, GoStale, TypeOK
<1>2. ASSUME NEW ch \in Channel, ResumeExecutor(ch)
      PROVE  /\ UNCHANGED <<stuck, copies, tool, history>>
             /\ up' \subseteq Channel /\ fresh' \subseteq Channel /\ faults' \in Nat
             /\ \E n \in 0..Len(box[ch]) : box' = [box EXCEPT ![ch] = SubSeq(@, n + 1, Len(@))]
  <2>1. Len(box[ch]) \in Nat
    BY Lengths
  <2>2. PICK n \in 0..(IF ch = "file" THEN Len(box[ch]) ELSE 0) :
           box' = [box EXCEPT ![ch] = SubSeq(@, n + 1, Len(@))]
    BY <1>2 DEF ResumeExecutor
  <2>3. n \in 0..Len(box[ch])
    BY <2>1
  <2>4. /\ UNCHANGED <<stuck, copies, tool, history>>
        /\ up' \subseteq Channel /\ fresh' \subseteq Channel /\ faults' \in Nat
    BY <1>2 DEF ResumeExecutor, TypeOK
  <2> QED
    BY <2>2, <2>3, <2>4
<1>3. ASSUME NEW m \in 1..MaxBatch, LoseBatch(m)
      PROVE  /\ UNCHANGED <<stuck, copies, tool, history>>
             /\ up' \subseteq Channel /\ fresh' \subseteq Channel /\ faults' \in Nat
             /\ "http" \in Channel
             /\ \E n \in 0..Len(box["http"]) : box' = [box EXCEPT !["http"] = SubSeq(@, n + 1, Len(@))]
  <2>1. Len(box["http"]) \in Nat /\ "http" \in Channel
    BY Lengths DEF Channel
  <2>2. m \in 0..Len(box["http"]) /\ box' = [box EXCEPT !["http"] = SubSeq(@, m + 1, Len(@))]
    BY <1>3, <2>1 DEF LoseBatch
  <2>3. /\ UNCHANGED <<stuck, copies, tool, history>>
        /\ up' \subseteq Channel /\ fresh' \subseteq Channel /\ faults' \in Nat
    BY <1>3 DEF LoseBatch, TypeOK
  <2> QED
    BY <2>1, <2>2, <2>3
<1>4. box' = box => box' \in [Channel -> Seq(Payload)] /\ Shrunk(box, box')
  BY Unchanged DEF TypeOK
<1>5. \A ch \in Channel :
         (\E n \in 0..Len(box[ch]) : box' = [box EXCEPT ![ch] = SubSeq(@, n + 1, Len(@))])
         => box' \in [Channel -> Seq(Payload)] /\ Shrunk(box, box')
  BY BoxShrinks
<1> QED
  BY <1>1, <1>2, <1>3, <1>4, <1>5 DEF Elsewhere

\* A script that is run.
LEMMA ExecuteFacts ==
    ASSUME TypeOK, NEW ch \in Channel, NEW n \in Nat, Execute(ch, n)
    PROVE  /\ n \in 1..Len(box[ch])
           /\ UNCHANGED <<up, fresh, faults, stuck, plan, pc, responsive, pinned, sent, todo, failed,
                          asked, result, history>>
           /\ box' \in [Channel -> Seq(Payload)]
           /\ Suffix(box[ch], box'[ch], n) /\ \A c \in Channel \ {ch} : box'[c] = box[c]
           /\ Shrunk(box, box')
           /\ \E run \in After(box[ch], n, copies) :
                 copies' = run.ws /\ reply' = IF run.live THEN run.said ELSE reply
<1>1. n \in 1..Len(box[ch]) /\ Len(box[ch]) \in Nat /\ box[ch] \in Seq(Payload)
  BY Lengths DEF Execute
<1>2. n \in 0..Len(box[ch]) /\ box' = [box EXCEPT ![ch] = SubSeq(@, n + 1, Len(@))]
  BY <1>1 DEF Execute
<1>3. PICK run \in Runs(box[ch], n, copies) :
         copies' = run.ws /\ reply' = IF run.live THEN run.said ELSE reply
  BY DEF Execute
<1>4. run \in After(box[ch], n, copies)
  BY <1>1, <1>3, ScriptFacts DEF TypeOK
<1>5. UNCHANGED <<up, fresh, faults, stuck, plan, pc, responsive, pinned, sent, todo, failed,
                  asked, result, history>>
  BY DEF Execute
<1> QED
  BY <1>1, <1>2, <1>3, <1>4, <1>5, BoxShrinks

\* Items of a plan are items.
LEMMA ItemsOfPlans ==
    ASSUME NEW p \in 1..Len(Plan)
    PROVE  /\ Items(p) \subseteq Item /\ Len(Plan[p]) \in Nat
           /\ \A k \in 1..Len(Plan[p]) : Plan[p][k] \in Items(p) /\ Plan[p][k] \in Item
<1>1. Plan \in Seq(Seq(Item))
  BY DeployAssumption
<1>2. Plan[p] \in Seq(Item)
  BY <1>1
<1>3. Items(p) \subseteq Item
  BY DEF Item
<1> QED
  BY <1>2, <1>3 DEF Items

\* A question adds nothing, and somebody waits for it.
LEMMA QuestionIsPayload ==
    ASSUME NEW i \in Asked
    PROVE  Question(i) \in Payload /\ Question(i).adds = {} /\ Question(i).asks = i
           /\ Question(i).live /\ i # None /\ i \notin {None}
<1>1. i # None
  BY DeployAssumption DEF Asked
<1> QED
  BY <1>1 DEF Question, Payload

\* Commands ask nothing, and nobody waits for them.
LEMMA CommandsArePayload ==
    ASSUME NEW is \in SUBSET Item
    PROVE  Commands(is) \in Payload /\ Commands(is).adds = is /\ Commands(is).asks = None
           /\ ~Commands(is).live
  BY DEF Commands, Payload

\* A question is in its channel, or is refused.
LEMMA AskFacts ==
    ASSUME TypeOK, NEW ch \in Channel, NEW i \in Asked, Ask(ch, i)
    PROVE  /\ asked = None /\ asked' = i /\ reply' \in Reply /\ ~reply'.found
           /\ box' \in [Channel -> Seq(Payload)]
           /\ \/ Grown(box, box', ch, Question(i)) /\ reply' = Nothing
              \/ box' = box
<1>1. Nothing \in Reply /\ Refused \in Reply /\ ~Nothing.found /\ ~Refused.found
  BY DEF Nothing, Refused, Reply
<1>2. CASE Queued(ch, Question(i)) /\ reply' = Nothing
  BY <1>1, <1>2, QuestionIsPayload, BoxGrows DEF Ask
<1>3. CASE UNCHANGED box /\ reply' = Refused
  BY <1>1, <1>3 DEF Ask, TypeOK
<1> QED
  BY <1>2, <1>3 DEF Ask

\* Commands are in their channel, or the sender knows that it does not know.
LEMMA SendsFacts ==
    ASSUME TypeOK, NEW ch \in Channel, NEW is \in SUBSET Item, NEW ok \in BOOLEAN,
           Sends(ch, Commands(is), ok)
    PROVE  /\ box' \in [Channel -> Seq(Payload)]
           /\ Grown(box, box', ch, Commands(is)) \/ (~ok /\ box' = box)
           /\ stuck' \subseteq stuck
<1>1. Queued(ch, Commands(is)) =>
         box' \in [Channel -> Seq(Payload)] /\ Grown(box, box', ch, Commands(is))
  BY CommandsArePayload, BoxGrows
<1>2. box' = box => box' \in [Channel -> Seq(Payload)]
  BY DEF TypeOK
<1>3. stuck' \subseteq stuck
  BY DEF Sends, Collects
<1> QED
  BY <1>1, <1>2, <1>3 DEF Sends

\* A batch and its place in the plan.
LEMMA SendBatchFacts ==
    ASSUME TypeOK, ControlInv, SendBatch
    PROVE  /\ pc = "send" /\ plan \in 1..Len(Plan) /\ pinned \in Channel /\ asked = None
           /\ sent < Len(Plan[plan]) /\ Len(Plan[plan]) \in Nat
           /\ \E upto \in Nat : \E ok \in BOOLEAN :
                 /\ sent < upto /\ upto <= Len(Plan[plan])
                 /\ {Plan[plan][k] : k \in sent + 1..upto} \subseteq Items(plan)
                 /\ box' \in [Channel -> Seq(Payload)]
                 /\ \/ Grown(box, box', pinned, Commands({Plan[plan][k] : k \in sent + 1..upto}))
                    \/ ~ok /\ box' = box
                 /\ ok => sent' = upto /\ UNCHANGED <<pc, result>>
                 /\ ~ok => Return("send_failed") /\ UNCHANGED sent
           /\ stuck' \subseteq stuck
           /\ UNCHANGED <<up, fresh, faults, copies, plan, responsive, pinned, todo, failed,
                          asked, reply, history>>
<1>1. /\ pc = "send" /\ plan \in 1..Len(Plan) /\ pinned \in Channel /\ asked = None
      /\ sent < Len(Plan[plan]) /\ sent \in Nat
      /\ UNCHANGED <<up, fresh, faults, copies, plan, responsive, pinned, todo, failed,
                     asked, reply, history>>
  <2>1. pc = "send" /\ plan # 0 /\ plan \in 0..Len(Plan)
    BY DEF SendBatch, TypeOK
  <2>2. Len(Plan) \in Nat
    BY DeployAssumption
  <2> QED
    BY <2>1, <2>2 DEF SendBatch, TypeOK, ControlInv, Deploying, Verifying, Channel
<1>2. Len(Plan[plan]) \in Nat /\ \A k \in 1..Len(Plan[plan]) : Plan[plan][k] \in Items(plan)
  BY <1>1, ItemsOfPlans
<1> DEFINE upto == Least(sent + Chunk, Len(Plan[plan]))
           is == {Plan[plan][k] : k \in sent + 1..upto}
<1>3. PICK ok \in BOOLEAN : /\ Sends(pinned, Commands(is), ok)
                            /\ ok => sent' = upto /\ UNCHANGED <<pc, result>>
                            /\ ~ok => Return("send_failed") /\ UNCHANGED sent
  BY DEF SendBatch
<1>4. upto \in Nat /\ sent < upto /\ upto <= Len(Plan[plan])
  BY <1>1, <1>2, DeployAssumption DEF Least
<1> HIDE DEF upto
<1>5. is \subseteq Items(plan)
  BY <1>1, <1>2, <1>4
<1>6. is \subseteq Item
  BY <1>1, <1>5, ItemsOfPlans
<1>7. /\ box' \in [Channel -> Seq(Payload)]
      /\ (Grown(box, box', pinned, Commands(is)) \/ (~ok /\ box' = box))
      /\ stuck' \subseteq stuck
  <2> HIDE DEF is
  <2> QED
    BY <1>1, <1>3, <1>6, SendsFacts
<1> QED
  BY <1>1, <1>2, <1>3, <1>4, <1>5, <1>7

\* What the reconcile sends is an item still to send again.
LEMMA ResendFacts ==
    ASSUME TypeOK, ControlInv, Resend
    PROVE  /\ pc = "resend" /\ plan \in 1..Len(Plan) /\ pinned \in Channel /\ asked = None
           /\ \E i \in todo : \E ok \in BOOLEAN :
                 /\ box' \in [Channel -> Seq(Payload)]
                 /\ Grown(box, box', pinned, Commands({i})) \/ (~ok /\ box' = box)
                 /\ ok => todo' = todo \ {i} /\ UNCHANGED <<pc, result>>
                 /\ ~ok => Return("reconcile_failed") /\ UNCHANGED todo
                 /\ resent' = resent \cup {i}
           /\ stuck' \subseteq stuck
           /\ UNCHANGED <<up, fresh, faults, copies, plan, responsive, pinned, sent, failed,
                          asked, reply, kept, gaveUp>>
<1>1. /\ pc = "resend" /\ plan \in 1..Len(Plan) /\ pinned \in Channel /\ asked = None
      /\ UNCHANGED <<up, fresh, faults, copies, plan, responsive, pinned, sent, failed,
                     asked, reply, kept, gaveUp>>
  <2>1. pc = "resend" /\ plan # 0 /\ plan \in 0..Len(Plan)
    BY DEF Resend, TypeOK
  <2>2. Len(Plan) \in Nat
    BY DeployAssumption
  <2> QED
    BY <2>1, <2>2 DEF Resend, TypeOK, ControlInv, Deploying, Verifying, Channel
<1>2. PICK i \in todo, ok \in BOOLEAN :
         /\ Sends(pinned, Commands({i}), ok)
         /\ ok => todo' = todo \ {i} /\ UNCHANGED <<pc, result>>
         /\ ~ok => Return("reconcile_failed") /\ UNCHANGED todo
         /\ resent' = resent \cup {i}
  BY DEF Resend, Foremost
<1>3. {i} \subseteq Item
  BY <1>2 DEF TypeOK
<1>4. /\ box' \in [Channel -> Seq(Payload)]
      /\ (Grown(box, box', pinned, Commands({i})) \/ (~ok /\ box' = box))
      /\ stuck' \subseteq stuck
  BY <1>1, <1>2, <1>3, SendsFacts
<1> QED
  BY <1>1, <1>2, <1>4

\* The tool asks, in the channel it is in.
LEMMA AskingFacts ==
    ASSUME TypeOK, ControlInv, AskItem \/ \E ch \in Channel : SendProbe(ch)
    PROVE  /\ Current \in Channel /\ asked = None /\ pc \in Channel \cup Verifying
           /\ \E i \in Asked :
                 /\ asked' = i /\ reply' \in Reply /\ ~reply'.found
                 /\ pc \in Channel => i = Probe
                 /\ pc \in Verifying => i \in todo
                 /\ \/ Grown(box, box', Current, Question(i)) /\ reply' = Nothing
                    \/ box' = box
           /\ box' \in [Channel -> Seq(Payload)]
           /\ UNCHANGED <<up, fresh, faults, stuck, copies, plan, pc, responsive, pinned, sent, todo,
                          failed, result, history>>
<1>1. CASE AskItem
  <2>1. /\ pc \in Verifying
        /\ UNCHANGED <<up, fresh, faults, stuck, copies, plan, pc, responsive, pinned, sent, todo,
                       failed, result, history>>
    BY <1>1 DEF AskItem, Verifying
  <2>2. Current = pinned /\ pinned \in Channel /\ pc \notin Channel
    BY <2>1 DEF TypeOK, ControlInv, Current, Verifying, Deploying, Channel
  <2>3. PICK i \in todo : Ask(pinned, i)
    BY <1>1 DEF AskItem, Foremost
  <2>4. i \in Asked
    BY <2>3 DEF TypeOK, Asked
  <2> QED
    BY <2>1, <2>2, <2>3, <2>4, AskFacts
<1>2. CASE \E ch \in Channel : SendProbe(ch)
  <2>1. PICK ch \in Channel : SendProbe(ch)
    BY <1>2
  <2>2. /\ pc = ch /\ Ask(ch, Probe)
        /\ UNCHANGED <<up, fresh, faults, stuck, copies, plan, pc, responsive, pinned, sent, todo,
                       failed, result, history>>
    BY <2>1 DEF SendProbe
  <2>3. Current = ch /\ pc \in Channel /\ pc \notin Verifying /\ Probe \in Asked
    BY <2>1, <2>2 DEF Current, Channel, Verifying, Asked
  <2> QED
    BY <2>2, <2>3, AskFacts
<1> QED
  BY <1>1, <1>2

\* The tool gives a question up.
LEMMA GivingUpFacts ==
    ASSUME TypeOK, ControlInv, ItemTimedOut \/ \E ch \in Channel : ProbeTimedOut(ch)
    PROVE  /\ Current \in Channel /\ box' = Withdrawn(Current) /\ gaveUp' = TRUE
           /\ asked # None /\ reply = Nothing /\ asked' = None /\ reply' = Nothing
           /\ \/ /\ pc \in Verifying /\ asked \in todo
                 /\ todo' = todo \ {asked} /\ failed' = failed \cup {asked} /\ pc' = pc
              \/ /\ pc \in Channel /\ pc' = AfterProbe(pc) /\ UNCHANGED <<todo, failed>>
           /\ UNCHANGED <<up, fresh, faults, stuck, copies, plan, responsive, pinned, sent,
                          result, resent, kept>>
<1>1. CASE ItemTimedOut
  <2>1. pc \in Verifying /\ TimedOut(pinned)
    BY <1>1 DEF ItemTimedOut, Verifying
  <2>2. Current = pinned /\ pinned \in Channel
    BY <2>1 DEF TypeOK, ControlInv, Current, Verifying, Deploying, Channel
  <2> QED
    BY <1>1, <2>1, <2>2 DEF ItemTimedOut, TimedOut, Settled, ControlInv
<1>2. CASE \E ch \in Channel : ProbeTimedOut(ch)
  <2>1. PICK ch \in Channel : ProbeTimedOut(ch)
    BY <1>2
  <2>2. pc = ch /\ Current = ch
    BY <2>1 DEF ProbeTimedOut, Current
  <2> QED
    BY <2>1, <2>2 DEF ProbeTimedOut, TimedOut, Settled
<1> QED
  BY <1>1, <1>2

\* Commands that run take nothing away, and add what is theirs.
LEMMA WorksFacts ==
    ASSUME TypeOK, NEW adds \in SUBSET Item, Works(adds)
    PROVE  /\ copies' \in Copies
           /\ \A i \in Item : /\ copies[i] \in Nat /\ copies'[i] \in Nat
                              /\ copies'[i] >= copies[i]
                              /\ i \notin adds => copies'[i] = copies[i]
                              /\ copies[i] = 0 => copies'[i] <= 1
<1>1. PICK works \in SUBSET adds : copies' = Effect(works, copies)
  BY DEF Works
<1>2. copies \in Copies /\ works \in SUBSET Item
  BY DEF TypeOK
<1>3. /\ copies' \in Copies
      /\ \A i \in Item : /\ copies'[i] >= copies[i]
                         /\ i \notin works => copies'[i] = copies[i]
                         /\ copies[i] = 0 => copies'[i] <= 1
  BY <1>1, <1>2, EffectFacts
<1>4. \A i \in Item : copies[i] \in Nat /\ copies'[i] \in Nat
  BY <1>2, <1>3 DEF Copies
<1> QED
  BY <1>1, <1>3, <1>4

\* The request that slips is the first of the mailbox, and leaves its order.
LEMMA SlipsFacts ==
    ASSUME TypeOK, SkipRequest \/ KeepRequest
    PROVE  /\ UNCHANGED <<up, fresh, tool, resent, gaveUp>> /\ faults' \in Nat
           /\ 1 \in 1..Len(box["file"]) /\ "file" \in Channel
           /\ box["file"][1].adds \in SUBSET Item
           /\ box' \in [Channel -> Seq(Payload)]
           /\ Suffix(box["file"], box'["file"], 1)
           /\ \A c \in Channel \ {"file"} : box'[c] = box[c]
           /\ Shrunk(box, box')
           /\ \E r \in Slip :
                 stuck' = stuck \cup {r} /\ r.adds = box["file"][1].adds
           /\ SkipRequest => UNCHANGED <<copies, kept>>
           /\ KeepRequest =>
                 Works(box["file"][1].adds) /\ kept' = kept \cup box["file"][1].adds
<1>0. PICK ran \in BOOLEAN : Slips(ran)
  BY Zenon DEF SkipRequest, KeepRequest
<1>1. "file" \in Channel
  BY DEF Channel
<1>2. box["file"] \in Seq(Payload) /\ Len(box["file"]) \in Nat /\ box["file"] # <<>>
  BY <1>0, <1>1, Lengths DEF Slips
<1>3. 1 \in 1..Len(box["file"]) /\ 1 \in 0..Len(box["file"])
  BY <1>2
<1>4. box["file"][1].adds \in SUBSET Item
  BY <1>1, <1>3, Lengths
<1>5. box' = [box EXCEPT !["file"] = SubSeq(@, 1 + 1, Len(@))]
  BY <1>0 DEF Slips
<1>6. /\ box' \in [Channel -> Seq(Payload)]
      /\ Suffix(box["file"], box'["file"], 1)
      /\ \A c \in Channel \ {"file"} : box'[c] = box[c]
      /\ Shrunk(box, box')
  BY <1>1, <1>3, <1>5, BoxShrinks
<1>7. /\ UNCHANGED <<up, fresh, tool, resent, gaveUp>> /\ faults' \in Nat /\ faults \in Nat
      /\ stuck' = stuck \cup {[id |-> faults, adds |-> box["file"][1].adds, ran |-> ran]}
  BY <1>0 DEF Slips, TypeOK
<1> DEFINE r == [id |-> faults, adds |-> box["file"][1].adds, ran |-> ran]
<1>8. r \in Slip /\ r.adds = box["file"][1].adds /\ stuck' = stuck \cup {r}
  BY <1>4, <1>7 DEF Slip
<1> HIDE DEF r
<1>9. SkipRequest => UNCHANGED <<copies, kept>>
  BY Zenon DEF SkipRequest
<1>10. KeepRequest => Works(box["file"][1].adds) /\ kept' = kept \cup box["file"][1].adds
  BY Zenon DEF KeepRequest
<1> QED
  BY <1>1, <1>3, <1>4, <1>6, <1>7, <1>8, <1>9, <1>10

\* What slips, runs late or runs again touches neither the tool nor the order
\* of the channels.
LEMMA SlippingFacts ==
    ASSUME TypeOK, Slipping
    PROVE  /\ UNCHANGED <<up, fresh, tool, resent, gaveUp>> /\ faults' \in Nat
           /\ box' \in [Channel -> Seq(Payload)] /\ Shrunk(box, box')
           /\ copies' \in Copies
           /\ \A i \in Item : copies[i] \in Nat /\ copies'[i] \in Nat /\ copies'[i] >= copies[i]
           /\ stuck' \subseteq Slip /\ kept \subseteq kept' /\ kept' \subseteq Item
<1>1. \A i \in Item : copies[i] \in Nat
  BY DEF TypeOK, Copies
<1>2. CASE SkipRequest
  <2>1. UNCHANGED <<copies, kept>> /\ stuck' \subseteq Slip
    BY <1>2, SlipsFacts DEF TypeOK
  <2> QED
    BY <1>1, <1>2, <2>1, SlipsFacts DEF TypeOK
<1>3. CASE KeepRequest
  <2>1. /\ Works(box["file"][1].adds) /\ kept' = kept \cup box["file"][1].adds
        /\ box["file"][1].adds \in SUBSET Item
    BY <1>3, SlipsFacts
  <2>2. stuck' \subseteq Slip
    BY <1>3, SlipsFacts DEF TypeOK
  <2>3. /\ copies' \in Copies
        /\ \A i \in Item : copies[i] \in Nat /\ copies'[i] \in Nat /\ copies'[i] >= copies[i]
    BY <2>1, WorksFacts
  <2> QED
    BY <1>3, <2>1, <2>2, <2>3, SlipsFacts DEF TypeOK
<1>4. ASSUME NEW r \in stuck, RunStuck(r) \/ PurgeStuck(r)
      PROVE  /\ UNCHANGED <<up, fresh, faults, box, tool, resent, gaveUp>>
             /\ copies' \in Copies
             /\ \A i \in Item : copies[i] \in Nat /\ copies'[i] \in Nat /\ copies'[i] >= copies[i]
             /\ stuck' \subseteq Slip /\ kept \subseteq kept' /\ kept' \subseteq Item
  <2>1. r \in Slip /\ r.adds \in SUBSET Item /\ [r EXCEPT !.ran = TRUE] \in Slip
    BY DEF TypeOK, Slip
  <2>2. CASE RunStuck(r)
    <3>1. /\ copies' \in Copies
          /\ \A i \in Item : copies[i] \in Nat /\ copies'[i] \in Nat /\ copies'[i] >= copies[i]
      BY <2>1, <2>2, WorksFacts DEF RunStuck
    <3>2. UNCHANGED <<up, fresh, faults, box, tool, resent, gaveUp>>
      BY <2>2 DEF RunStuck
    <3>3. \/ stuck' = stuck \ {r} /\ kept' = kept
          \/ stuck' = (stuck \ {r}) \cup {[r EXCEPT !.ran = TRUE]} /\ kept' = kept \cup r.adds
      BY <2>2 DEF RunStuck
    <3>4. stuck' \subseteq Slip /\ kept \subseteq kept' /\ kept' \subseteq Item
      BY <2>1, <3>3 DEF TypeOK
    <3> QED
      BY <3>1, <3>2, <3>4
  <2>3. CASE PurgeStuck(r)
    BY <1>1, <2>3 DEF PurgeStuck, TypeOK, history
  <2> QED
    BY <1>4, <2>2, <2>3
<1>5. (\E r \in stuck : RunStuck(r) \/ PurgeStuck(r)) =>
         box' \in [Channel -> Seq(Payload)] /\ Shrunk(box, box') /\ faults' \in Nat
  BY <1>4, Unchanged DEF TypeOK
<1> QED
  BY <1>2, <1>3, <1>4, <1>5 DEF Slipping

-----------------------------------------------------------------------------
(* The step keeps each part of the invariant.                              *)

\* Every step keeps the types.
LEMMA TypeStep ==
    ASSUME TypeOK, ControlInv, [Next]_vars
    PROVE  TypeOK'
<1>1. Len(Plan) \in Nat
  BY DeployAssumption
<1>2. ASSUME Elsewhere PROVE TypeOK'
  BY <1>2, ElsewhereFacts DEF TypeOK, tool, history
<1>3. ASSUME NEW ch \in Channel, NEW n \in Nat, Execute(ch, n) PROVE TypeOK'
  <2>1. PICK run \in After(box[ch], n, copies) :
           copies' = run.ws /\ reply' = IF run.live THEN run.said ELSE reply
    BY <1>3, ExecuteFacts
  <2>2. copies' \in Copies /\ reply' \in Reply
    BY <2>1 DEF After, Run, TypeOK
  <2>3. /\ box' \in [Channel -> Seq(Payload)]
        /\ UNCHANGED <<up, fresh, faults, stuck, plan, pc, responsive, pinned, sent, todo, failed,
                       asked, result, history>>
    BY <1>3, ExecuteFacts
  <2> QED
    BY <2>2, <2>3 DEF TypeOK, history
<1>4. ASSUME AskItem \/ \E ch \in Channel : SendProbe(ch) PROVE TypeOK'
  BY <1>4, AskingFacts DEF TypeOK, history
<1>5. ASSUME ItemTimedOut \/ \E ch \in Channel : ProbeTimedOut(ch) PROVE TypeOK'
  <2>1. box' \in [Channel -> Seq(Payload)] /\ Nothing \in Reply
    BY <1>5, GivingUpFacts, BoxWithdraws DEF Nothing, Reply
  <2>2. AfterProbe(pc) \in {"file", "select"} /\ (pc \in Channel \cup Verifying => pc # "idle")
    BY DEF AfterProbe, Channel, Verifying
  <2>3. asked \in todo => asked \in Item
    BY DEF TypeOK
  <2> QED
    BY <1>5, <2>1, <2>2, <2>3, GivingUpFacts DEF TypeOK, Probing
<1>6. ASSUME SendBatch PROVE TypeOK'
  <2>1. PICK upto \in Nat, ok \in BOOLEAN :
           /\ box' \in [Channel -> Seq(Payload)]
           /\ ok => sent' = upto /\ UNCHANGED <<pc, result>>
           /\ ~ok => Return("send_failed") /\ UNCHANGED sent
    BY <1>6, SendBatchFacts
  <2>2. UNCHANGED <<up, fresh, faults, copies, plan, responsive, pinned, todo, failed,
                    asked, reply, history>> /\ stuck' \subseteq stuck
    BY <1>6, SendBatchFacts
  <2> QED
    BY <2>1, <2>2 DEF TypeOK, Return, history
<1>7. ASSUME Resend PROVE TypeOK'
  <2>1. PICK i \in todo, ok \in BOOLEAN :
           /\ box' \in [Channel -> Seq(Payload)]
           /\ ok => todo' = todo \ {i} /\ UNCHANGED <<pc, result>>
           /\ ~ok => Return("reconcile_failed") /\ UNCHANGED todo
           /\ resent' = resent \cup {i}
    BY <1>7, ResendFacts
  <2>2. UNCHANGED <<up, fresh, faults, copies, plan, responsive, pinned, sent, failed,
                    asked, reply, kept, gaveUp>> /\ stuck' \subseteq stuck
    BY <1>7, ResendFacts
  <2> QED
    BY <2>1, <2>2 DEF TypeOK, Return
<1>8. ASSUME Quiet PROVE TypeOK'
  <2>1. Nothing \in Reply /\ Nothing.found = FALSE /\ None \in Asked \cup {None}
    BY DEF Nothing, Reply
  <2>2. CASE Start
    BY <1>1, <2>2 DEF Start, TypeOK, Probing, channels, history
  <2>3. CASE Select
    BY <2>3 DEF Select, TypeOK, Selectable, Deploying, Return, channels, history, Channel
  <2>4. CASE BeginVerify
    <3>1. plan \in 1..Len(Plan)
      BY <1>1, <2>4 DEF BeginVerify, TypeOK
    <3> QED
      BY <2>4, <3>1, ItemsOfPlans DEF BeginVerify, TypeOK, Deploying, channels, history
  <2>5. CASE ItemAnswered
    <3>1. asked \in Item
      BY <2>5 DEF ItemAnswered, Answered, ControlInv, Verifying, TypeOK
    <3> QED
      BY <2>1, <2>5, <3>1 DEF ItemAnswered, Settled, TypeOK, channels, history
  <2>6. CASE EndVerify
    <3>1. plan \in 1..Len(Plan)
      BY <1>1, <2>6 DEF EndVerify, TypeOK
    <3>2. Retried \subseteq Item
      BY <3>1, ItemsOfPlans DEF Retried
    <3> QED
      BY <2>6, <3>2 DEF EndVerify, TypeOK, Deploying, Return, channels, history
  <2>7. CASE BeginReverify
    BY <2>7 DEF BeginReverify, TypeOK, Deploying, channels, history
  <2>8. CASE EndReverify
    BY <2>8 DEF EndReverify, TypeOK, Return, channels, history
  <2>9. ASSUME NEW ch \in Channel, SkipProbe(ch) PROVE TypeOK'
    BY <2>9 DEF SkipProbe, AfterProbe, TypeOK, Probing, Channel, channels, history
  <2>10. ASSUME NEW ch \in Channel, ProbeAnswered(ch) PROVE TypeOK'
    BY <2>1, <2>10 DEF ProbeAnswered, AfterProbe, Settled, TypeOK, Probing, Channel, channels, history
  <2> QED
    BY <1>8, <2>2, <2>3, <2>4, <2>5, <2>6, <2>7, <2>8, <2>9, <2>10 DEF Quiet
<1>9. ASSUME UNCHANGED vars PROVE TypeOK'
  BY <1>9 DEF vars, channels, tool, history, TypeOK
<1>10. ASSUME Slipping PROVE TypeOK'
  BY <1>10, SlippingFacts DEF TypeOK, tool
<1> QED
  BY <1>2, <1>3, <1>4, <1>5, <1>6, <1>7, <1>8, <1>9, <1>10, StepCases

\* A tool that returns waits for nothing, and leaves what is to come alone.
LEMMA ReturnFacts ==
    ASSUME TypeOK, ControlInv, NEW r, Return(r), asked' = None, plan' = plan
    PROVE  ControlInv'
<1>1. pc' = "idle" /\ result' = [result EXCEPT ![plan] = r] /\ plan \in Nat
  BY DeployAssumption DEF Return, TypeOK
<1>2. \A p \in 1..Len(Plan) : p > plan => result'[p] = result[p]
  BY <1>1 DEF TypeOK
<1> QED
  BY <1>1, <1>2 DEF ControlInv, Probing, Deploying

\* Wherever the tool goes, it waits only for what it has asked there.
LEMMA ControlStep ==
    ASSUME TypeOK, ControlInv, [Next]_vars
    PROVE  ControlInv'
<1>1. Len(Plan) \in Nat /\ plan \in 0..Len(Plan)
  BY DeployAssumption DEF TypeOK
<1>2. ASSUME UNCHANGED tool PROVE ControlInv'
  BY <1>2 DEF ControlInv, tool
<1>3. ASSUME NEW ch \in Channel, NEW n \in Nat, Execute(ch, n) PROVE ControlInv'
  BY <1>3, ExecuteFacts DEF ControlInv
<1>4. ASSUME AskItem \/ \E ch \in Channel : SendProbe(ch) PROVE ControlInv'
  BY <1>4, AskingFacts DEF ControlInv
<1>5. ASSUME ItemTimedOut \/ \E ch \in Channel : ProbeTimedOut(ch) PROVE ControlInv'
  <2>1. pc \in Channel => pc \in Probing /\ AfterProbe(pc) \in Probing /\ AfterProbe(pc) # "idle"
    BY DEF AfterProbe, Channel, Probing
  <2>2. /\ pc \in Channel => pc' \in Probing /\ pc' \notin Deploying /\ pc \in Probing
                             /\ pc # "idle" /\ pc' # "idle" /\ pc \notin Verifying
        /\ pc \in Verifying => pc \notin Channel
        /\ pc' # "resend"
    BY <1>5, <2>1, GivingUpFacts DEF Probing, Deploying, Verifying, Channel
  <2> QED
    BY <1>5, <2>1, <2>2, GivingUpFacts DEF ControlInv
<1>6. ASSUME SendBatch PROVE ControlInv'
  <2>1. Return("send_failed") \/ UNCHANGED <<pc, result>>
    BY <1>6, SendBatchFacts
  <2>2. pc = "send" /\ UNCHANGED <<plan, pinned, todo, asked>> /\ asked = None
    BY <1>6, SendBatchFacts
  <2>3. UNCHANGED <<pc, result>> => ControlInv'
    BY <2>2 DEF ControlInv, Probing
  <2> QED
    BY <2>1, <2>2, <2>3, ReturnFacts
<1>7. ASSUME Resend PROVE ControlInv'
  <2>1. Return("reconcile_failed") \/ UNCHANGED <<pc, result>>
    BY <1>7, ResendFacts
  <2>2. /\ pc = "resend" /\ UNCHANGED <<plan, pinned, sent, asked>> /\ asked = None
        /\ todo' \subseteq todo
    BY <1>7, ResendFacts
  <2>3. UNCHANGED <<pc, result>> => ControlInv'
    BY <2>2 DEF ControlInv, Probing
  <2> QED
    BY <2>1, <2>2, <2>3, ReturnFacts
<1>8. ASSUME Quiet PROVE ControlInv'
  <2>1. \A p \in 1..Len(Plan) : p > plan + 1 => p > plan
    BY <1>1
  <2>2. CASE Start
    <3>1. \A p \in 1..Len(Plan) : p > plan' \/ (p = plan' /\ pc' # "idle") => result'[p] = None
      <4>1. plan' = plan + 1 /\ plan + 1 \in 1..Len(Plan)
        BY <1>1, <2>2 DEF Start
      <4>2. CASE fresh = {}
        <5>1. pc' = "idle" /\ result' = [result EXCEPT ![plan + 1] = "no_bridge"]
          BY <2>2, <4>2 DEF Start
        <5> QED
          BY <1>1, <4>1, <5>1 DEF ControlInv, TypeOK
      <4>3. CASE fresh # {}
        <5>1. result' = result
          BY <2>2, <4>3 DEF Start
        <5> QED
          BY <1>1, <4>1, <5>1 DEF ControlInv
      <4> QED
        BY <4>2, <4>3
    <3>2. asked = None
      BY <2>2 DEF Start, ControlInv, Channel, Verifying
    <3>3. pc' \in {"idle", "http"} /\ pinned' = None /\ sent' = 0 /\ asked' = None
      BY <2>2, <3>2 DEF Start
    <3> QED
      BY <3>1, <3>3 DEF ControlInv, Probing, Deploying
  <2>3. CASE Select
    <3>1. asked = None /\ asked' = None /\ plan' = plan
      BY <2>3 DEF Select, ControlInv, Channel, Verifying
    <3>2. Return("no_channel") \/ (pc' = "send" /\ pinned' \in Channel /\ result' = result)
      BY <2>3 DEF Select, Channel
    <3>3. pc # "idle" /\ None \notin Channel
      BY <2>3 DEF Select, Channel, None
    <3>4. pc' = "send" /\ pinned' \in Channel /\ result' = result => ControlInv'
      BY <3>1, <3>3 DEF ControlInv, Probing, Deploying
    <3> QED
      BY <3>1, <3>2, <3>4, ReturnFacts
  <2>4. CASE BeginVerify
    BY <2>4 DEF BeginVerify, ControlInv, Probing, Deploying, Channel, Verifying
  <2>5. CASE ItemAnswered
    BY <2>5 DEF ItemAnswered, Settled, ControlInv
  <2>6. CASE EndVerify
    <3>1. asked = None /\ UNCHANGED <<asked, plan, pinned>> /\ pc = "verify"
      BY <2>6 DEF EndVerify, ControlInv, Verifying
    <3>2. Return("ok") \/ (pc' = "resend" /\ result' = result /\ todo' \subseteq Items(plan))
      BY <2>6 DEF EndVerify, Retried
    <3>3. pc' = "resend" /\ result' = result /\ todo' \subseteq Items(plan) => ControlInv'
      BY <3>1 DEF ControlInv, Probing, Deploying
    <3> QED
      BY <3>1, <3>2, <3>3, ReturnFacts
  <2>7. CASE BeginReverify
    BY <2>7 DEF BeginReverify, ControlInv, Probing, Deploying, Channel, Verifying
  <2>8. CASE EndReverify
    <3>1. asked = None /\ UNCHANGED <<asked, plan, pinned>> /\ pc = "reverify"
      BY <2>8 DEF EndReverify, ControlInv, Verifying
    <3>2. Return(IF failed = {} THEN "ok" ELSE "incomplete")
      BY <2>8 DEF EndReverify
    <3> QED
      BY <3>1, <3>2, ReturnFacts
  <2>9. ASSUME NEW ch \in Channel, SkipProbe(ch) PROVE ControlInv'
    BY <2>9 DEF SkipProbe, AfterProbe, ControlInv, Probing, Deploying, Channel
  <2>10. ASSUME NEW ch \in Channel, ProbeAnswered(ch) PROVE ControlInv'
    BY <2>10 DEF ProbeAnswered, AfterProbe, Settled, ControlInv, Probing, Deploying, Channel
  <2> QED
    BY <1>8, <2>2, <2>3, <2>4, <2>5, <2>6, <2>7, <2>8, <2>9, <2>10 DEF Quiet
<1>9. Elsewhere \/ Slipping \/ UNCHANGED vars => UNCHANGED tool
  BY ElsewhereFacts, SlippingFacts DEF vars
<1> QED
  BY <1>2, <1>3, <1>4, <1>5, <1>6, <1>7, <1>8, <1>9, StepCases

\* Nobody waits, or the answer is there: then no question is awaited.
LEMMA NoneAwaited ==
    ASSUME TypeOK, QuestionInv, asked = None \/ reply # Nothing
    PROVE  \A ch \in Channel : \A k \in 1..Len(box[ch]) : ~box[ch][k].live
  BY DEF QuestionInv

\* The quiet steps of the tool are not in the middle of a question.
LEMMA QuietFacts ==
    ASSUME TypeOK, ControlInv, Quiet
    PROVE  /\ asked = None \/ reply # Nothing
           /\ asked' = None /\ (asked = None => reply' = reply) /\ (asked # None => reply' = Nothing)
           /\ UNCHANGED <<channels, copies, history>>
<1>1. CASE Start
  BY <1>1 DEF Start, ControlInv, Channel, Verifying
<1>2. CASE Select
  BY <1>2 DEF Select, ControlInv, Channel, Verifying
<1>3. CASE BeginVerify
  BY <1>3 DEF BeginVerify, ControlInv, Channel, Verifying
<1>4. CASE ItemAnswered
  BY <1>4 DEF ItemAnswered, Answered, Settled
<1>5. CASE EndVerify
  BY <1>5 DEF EndVerify, ControlInv, Channel, Verifying
<1>6. CASE BeginReverify
  BY <1>6 DEF BeginReverify, ControlInv, Channel, Verifying
<1>7. CASE EndReverify
  BY <1>7 DEF EndReverify, ControlInv, Channel, Verifying
<1>8. ASSUME NEW ch \in Channel, SkipProbe(ch) \/ ProbeAnswered(ch)
      PROVE  /\ asked = None \/ reply # Nothing
             /\ asked' = None /\ (asked = None => reply' = reply) /\ (asked # None => reply' = Nothing)
             /\ UNCHANGED <<channels, copies, history>>
  BY <1>8 DEF SkipProbe, ProbeAnswered, Answered, Settled
<1> QED
  BY <1>1, <1>2, <1>3, <1>4, <1>5, <1>6, <1>7, <1>8 DEF Quiet

\* The awaited question stays the last of its channel.
LEMMA QuestionStep ==
    ASSUME TypeOK, ControlInv, QuestionInv, ReplyInv, [Next]_vars
    PROVE  QuestionInv'
<1>1. \A ch \in Channel : Len(box[ch]) \in Nat
  BY Lengths
<1>2. ASSUME UNCHANGED <<tool, gaveUp>>, Shrunk(box, box') PROVE QuestionInv'
  <2>1. UNCHANGED <<asked, reply, pc, pinned, gaveUp>> /\ Current' = Current
    BY <1>2 DEF tool, Current
  <2> SUFFICES ASSUME NEW ch \in Channel, NEW k \in 1..Len(box'[ch])
               PROVE  /\ box'[ch][k].live =>
                           /\ box'[ch][k].asks # None /\ box'[ch][k].asks = asked /\ reply = Nothing
                           /\ ch = Current /\ k = Len(box'[ch])
                      /\ box'[ch][k].asks # None /\ (ch = "file" \/ ~gaveUp) => box'[ch][k].live
    BY <2>1 DEF QuestionInv
  <2>2. PICK n \in 0..Len(box[ch]) : Suffix(box[ch], box'[ch], n)
    BY <1>2 DEF Shrunk
  <2>3. n + k \in 1..Len(box[ch]) /\ box'[ch][k] = box[ch][n + k] /\ Len(box'[ch]) = Len(box[ch]) - n
    BY <2>2 DEF Suffix
  <2>4. n + k = Len(box[ch]) => k = Len(box'[ch])
    BY <1>1, <2>3
  <2> QED
    BY <2>3, <2>4 DEF QuestionInv
<1>3. ASSUME NEW ch \in Channel, NEW n \in Nat, Execute(ch, n) PROVE QuestionInv'
  <2>1. /\ n \in 1..Len(box[ch]) /\ Suffix(box[ch], box'[ch], n)
        /\ \A c \in Channel \ {ch} : box'[c] = box[c]
        /\ UNCHANGED <<asked, pc, pinned, gaveUp>>
    BY <1>3, ExecuteFacts DEF history
  <2>2. PICK run \in After(box[ch], n, copies) :
           copies' = run.ws /\ reply' = IF run.live THEN run.said ELSE reply
    BY <1>3, ExecuteFacts
  <2>3. ASSUME NEW c \in Channel, NEW k \in 1..Len(box'[c])
        PROVE  \E m \in 1..Len(box[c]) : /\ box'[c][k] = box[c][m]
                                         /\ m = Len(box[c]) => k = Len(box'[c])
                                         /\ c = ch => m > n
    <3>1. CASE c = ch
      <4>1. n + k \in 1..Len(box[ch]) /\ box'[ch][k] = box[ch][n + k] /\ Len(box'[ch]) = Len(box[ch]) - n
        BY <2>1, <2>3, <3>1 DEF Suffix
      <4>2. (n + k = Len(box[ch]) => k = Len(box'[ch])) /\ n + k > n
        BY <1>1, <4>1, <2>1, <2>3, <3>1
      <4> QED
        BY <3>1, <4>1, <4>2
    <3>2. CASE c # ch
      BY <2>1, <2>3, <3>2
    <3> QED
      BY <3>1, <3>2
  <2>4. ASSUME NEW c \in Channel, NEW k \in 1..Len(box'[c]), box'[c][k].live
        PROVE  ~run.live
    <3>1. PICK m \in 1..Len(box[c]) : box'[c][k] = box[c][m] /\ (c = ch => m > n)
      BY <2>3, <2>4
    <3>2. c = Current /\ m = Len(box[c])
      BY <2>4, <3>1 DEF QuestionInv
    <3>3. SUFFICES ASSUME run.live PROVE FALSE
      OBVIOUS
    <3>4. PICK j \in 1..n : box[ch][j].live
      BY <3>3 DEF After
    <3>5. j \in 1..Len(box[ch])
      BY <1>1, <2>1
    <3>6. ch = Current /\ j = Len(box[ch])
      BY <3>4, <3>5 DEF QuestionInv
    <3> QED
      BY <1>1, <2>1, <3>1, <3>2, <3>6
  <2>5. Current' = Current
    BY <2>1 DEF Current
  <2> SUFFICES ASSUME NEW c \in Channel, NEW k \in 1..Len(box'[c])
               PROVE  /\ box'[c][k].live =>
                           /\ box'[c][k].asks # None /\ box'[c][k].asks = asked /\ reply' = Nothing
                           /\ c = Current /\ k = Len(box'[c])
                      /\ box'[c][k].asks # None /\ (c = "file" \/ ~gaveUp) => box'[c][k].live
    BY <2>1, <2>5 DEF QuestionInv
  <2>6. PICK m \in 1..Len(box[c]) : box'[c][k] = box[c][m] /\ (m = Len(box[c]) => k = Len(box'[c]))
    BY <2>3
  <2>7. box'[c][k].live => reply' = reply
    BY <2>2, <2>4
  <2> QED
    BY <2>6, <2>7 DEF QuestionInv
<1>4. ASSUME Quiet PROVE QuestionInv'
  <2>1. box' = box /\ gaveUp' = gaveUp
    BY <1>4, QuietFacts DEF channels, history
  <2>2. \A ch \in Channel : \A k \in 1..Len(box[ch]) : ~box[ch][k].live
    BY <1>4, QuietFacts, NoneAwaited
  <2> QED
    BY <2>1, <2>2 DEF QuestionInv
<1>5. ASSUME AskItem \/ \E ch \in Channel : SendProbe(ch) PROVE QuestionInv'
  <2>1. PICK i \in Asked : /\ asked' = i
                           /\ \/ Grown(box, box', Current, Question(i)) /\ reply' = Nothing
                              \/ box' = box
    BY <1>5, AskingFacts
  <2>2. Current \in Channel /\ asked = None /\ UNCHANGED <<pc, pinned, gaveUp>>
    BY <1>5, AskingFacts DEF history
  <2>3. \A ch \in Channel : \A k \in 1..Len(box[ch]) : ~box[ch][k].live
    BY <2>2, NoneAwaited
  <2>4. Current' = Current
    BY <2>2 DEF Current
  <2>5. CASE box' = box
    BY <2>2, <2>3, <2>5 DEF QuestionInv
  <2>6. CASE Grown(box, box', Current, Question(i)) /\ reply' = Nothing
    <3> DEFINE cur == Current
    <3>1. cur \in Channel /\ Current' = cur
      BY <2>2, <2>4
    <3> SUFFICES ASSUME NEW ch \in Channel, NEW k \in 1..Len(box'[ch])
                 PROVE  /\ box'[ch][k].live =>
                             /\ box'[ch][k].asks # None /\ box'[ch][k].asks = i
                             /\ ch = cur /\ k = Len(box'[ch])
                        /\ box'[ch][k].asks # None /\ (ch = "file" \/ ~gaveUp) => box'[ch][k].live
      BY <2>1, <2>2, <2>6, <3>1 DEF QuestionInv
    <3> HIDE DEF cur
    <3>2. Grown(box, box', cur, Question(i))
      BY <2>6 DEF cur
    <3>3. CASE ch = cur /\ k = Len(box[ch]) + 1
      BY <3>2, <3>3, QuestionIsPayload DEF Grown
    <3>4. CASE ch = cur /\ k # Len(box[ch]) + 1
      <4>1. k \in 1..Len(box[ch]) /\ box'[ch][k] = box[ch][k]
        BY <1>1, <3>2, <3>4 DEF Grown
      <4> QED
        BY <2>3, <4>1 DEF QuestionInv
    <3>5. CASE ch # cur
      <4>1. box'[ch] = box[ch]
        BY <3>2, <3>5 DEF Grown
      <4> QED
        BY <2>3, <4>1 DEF QuestionInv
    <3> QED
      BY <3>3, <3>4, <3>5
  <2> QED
    BY <2>1, <2>5, <2>6
<1>6. ASSUME ItemTimedOut \/ \E ch \in Channel : ProbeTimedOut(ch) PROVE QuestionInv'
  <2>1. Current \in Channel /\ box' = Withdrawn(Current) /\ gaveUp' = TRUE
    BY <1>6, GivingUpFacts
  <2> DEFINE cur == Current
  <2>2. /\ \A c \in Channel \ {cur} : box'[c] = box[c]
        /\ Len(box'[cur]) \in Nat
        /\ \A k \in 1..Len(box'[cur]) :
              /\ k \in 1..Len(box[cur])
              /\ box'[cur][k].asks = box[cur][k].asks
              /\ cur = "http" => ~box'[cur][k].live
              /\ cur = "file" => box'[cur][k] = box[cur][k]
        /\ cur = "file" /\ box[cur] # <<>> /\ box[cur][Len(box[cur])].live
              => Len(box'[cur]) = Len(box[cur]) - 1
    BY <2>1, BoxWithdraws
  <2>3. cur \in {"http", "file"} /\ cur \in Channel
    BY <2>1 DEF Channel
  <2>4. \A ch \in Channel : \A k \in 1..Len(box[ch]) :
           /\ box[ch][k].live => ch = cur /\ k = Len(box[ch])
           /\ ch = "file" /\ box[ch][k].asks # None => box[ch][k].live
    BY DEF QuestionInv
  <2> HIDE DEF cur
  <2>5. \A ch \in Channel : \A k \in 1..Len(box'[ch]) : ~box'[ch][k].live
    <3> SUFFICES ASSUME NEW ch \in Channel, NEW k \in 1..Len(box'[ch]), box'[ch][k].live
                 PROVE  FALSE
      OBVIOUS
    <3>1. ch = cur
      BY <2>2, <2>4
    <3>2. cur = "file" /\ k \in 1..Len(box[cur]) /\ box'[cur][k] = box[cur][k]
      BY <2>2, <2>3, <3>1
    <3>3. k = Len(box[cur]) /\ box[cur] # <<>>
      BY <2>3, <2>4, <3>1, <3>2
    <3>4. Len(box'[cur]) = Len(box[cur]) - 1
      BY <2>2, <3>1, <3>2, <3>3
    <3> QED
      BY <1>1, <2>3, <3>1, <3>3, <3>4
  <2>6. ASSUME NEW ch \in Channel, NEW k \in 1..Len(box'[ch]), ch = "file"
        PROVE  box'[ch][k].asks = None
    <3>1. k \in 1..Len(box[ch]) /\ box'[ch][k] = box[ch][k]
      BY <2>2, <2>3, <2>6
    <3> QED
      BY <2>4, <2>5, <2>6, <3>1
  <2> QED
    BY <2>1, <2>5, <2>6 DEF QuestionInv
<1>7. ASSUME NEW ch \in Channel, NEW is \in SUBSET Item, asked = None, gaveUp' = gaveUp,
             Grown(box, box', ch, Commands(is)) \/ box' = box
      PROVE  QuestionInv'
  <2>1. \A c \in Channel : \A k \in 1..Len(box[c]) : ~box[c][k].live
    BY <1>7, NoneAwaited
  <2>2. ASSUME NEW c \in Channel, NEW k \in 1..Len(box'[c])
        PROVE  \/ k \in 1..Len(box[c]) /\ box'[c][k] = box[c][k]
               \/ box'[c][k].asks = None /\ ~box'[c][k].live
    <3>1. CASE box' = box
      BY <3>1
    <3>2. CASE c = ch /\ Grown(box, box', ch, Commands(is))
      <4>1. k \in 1..Len(box[c]) \/ k = Len(box[c]) + 1
        BY <1>1, <3>2 DEF Grown
      <4> QED
        BY <3>2, <4>1, CommandsArePayload DEF Grown
    <3>3. CASE c # ch /\ Grown(box, box', ch, Commands(is))
      BY <3>3 DEF Grown
    <3> QED
      BY <1>7, <3>1, <3>2, <3>3
  <2> QED
    BY <1>7, <2>1, <2>2 DEF QuestionInv
<1>8. ASSUME SendBatch PROVE QuestionInv'
  <2>1. pinned \in Channel /\ asked = None /\ gaveUp' = gaveUp /\ plan \in 1..Len(Plan)
    BY <1>8, SendBatchFacts DEF history
  <2>2. PICK upto \in Nat :
           /\ {Plan[plan][k] : k \in sent + 1..upto} \subseteq Items(plan)
           /\ \/ Grown(box, box', pinned, Commands({Plan[plan][k] : k \in sent + 1..upto}))
              \/ box' = box
    BY <1>8, SendBatchFacts
  <2>3. Items(plan) \subseteq Item
    BY <2>1, ItemsOfPlans
  <2> QED
    BY <1>7, <2>1, <2>2, <2>3
<1>9. ASSUME Resend PROVE QuestionInv'
  <2>1. pinned \in Channel /\ asked = None /\ gaveUp' = gaveUp
    BY <1>9, ResendFacts
  <2>2. PICK i \in todo : Grown(box, box', pinned, Commands({i})) \/ box' = box
    BY <1>9, ResendFacts
  <2>3. {i} \subseteq Item
    BY DEF TypeOK
  <2> QED
    BY <1>7, <2>1, <2>2, <2>3
<1>10. Elsewhere \/ Slipping \/ UNCHANGED vars => UNCHANGED <<tool, gaveUp>> /\ Shrunk(box, box')
  BY ElsewhereFacts, SlippingFacts, Unchanged DEF vars, channels, history
<1> QED
  BY <1>2, <1>3, <1>4, <1>5, <1>6, <1>8, <1>9, <1>10, StepCases

\* A script takes nothing away.
LEMMA CopiesStay ==
    ASSUME TypeOK, NEW ch \in Channel, NEW n \in Nat, Execute(ch, n)
    PROVE  \A i \in Item : copies[i] \in 0..2 /\ copies'[i] \in 0..2 /\ copies'[i] >= copies[i]
<1>1. PICK run \in After(box[ch], n, copies) : copies' = run.ws
  BY ExecuteFacts
<1>2. run.ws \in Copies /\ \A i \in Item : run.ws[i] >= copies[i]
  BY DEF After, Run
<1>3. copies \in Copies
  BY DEF TypeOK
<1> QED
  BY <1>1, <1>2, <1>3 DEF Copies

\* An answer comes with its channel empty, and its own answer is so.
LEMMA ReplyStep ==
    ASSUME TypeOK, ControlInv, QuestionInv, ReplyInv, [Next]_vars
    PROVE  ReplyInv'
<1>1. \A ch \in Channel : Len(box[ch]) \in Nat /\ (Len(box[ch]) = 0 <=> box[ch] = <<>>)
  BY DEF TypeOK
<1>2. ~Nothing.found /\ Nothing.item = None
  BY DEF Nothing
<1>3. ASSUME UNCHANGED <<tool, gaveUp>>, Shrunk(box, box'), TypeOK',
             \A i \in Item : copies[i] > 0 => copies'[i] > 0
      PROVE  ReplyInv'
  <2>1. UNCHANGED <<asked, reply, pc, pinned, gaveUp>> /\ Current' = Current /\ Own' = Own
    BY <1>3 DEF tool, Current, Own
  <2>2. reply.found => box'[Current] = <<>>
    <3> HAVE reply.found
    <3>1. Current \in Channel
      BY <1>2 DEF ReplyInv, ControlInv, Current, TypeOK, Verifying, Deploying
    <3>2. PICK n \in 0..Len(box[Current]) : Suffix(box[Current], box'[Current], n)
      BY <1>3, <3>1 DEF Shrunk
    <3>3. box[Current] = <<>>
      BY DEF ReplyInv
    <3>4. Len(box'[Current]) = 0
      BY <1>1, <3>1, <3>2, <3>3 DEF Suffix
    <3>5. box' \in [Channel -> Seq(Payload)]
      BY <1>3 DEF TypeOK
    <3> QED
      BY <3>1, <3>4, <3>5
  <2>3. reply.found => asked = Probe \/ asked \in Item
    BY <1>2 DEF ReplyInv, TypeOK, Asked
  <2> QED
    BY <1>3, <2>1, <2>2, <2>3 DEF ReplyInv
<1>4. ASSUME NEW ch \in Channel, NEW n \in Nat, Execute(ch, n), TypeOK' PROVE ReplyInv'
  <2>1. /\ n \in 1..Len(box[ch]) /\ Suffix(box[ch], box'[ch], n)
        /\ \A c \in Channel \ {ch} : box'[c] = box[c]
        /\ UNCHANGED <<asked, pc, pinned, gaveUp>>
    BY <1>4, ExecuteFacts DEF history
  <2>2. PICK run \in After(box[ch], n, copies) :
           copies' = run.ws /\ reply' = IF run.live THEN run.said ELSE reply
    BY <1>4, ExecuteFacts
  <2>3. Current' = Current /\ Own' = Own
    BY <2>1 DEF Current, Own
  <2>4. CASE run.live
    <3>1. PICK j \in 1..n : box[ch][j].live
      BY <2>4 DEF After
    <3>2. j \in 1..Len(box[ch])
      BY <1>1, <2>1
    <3>3. ch = Current /\ j = Len(box[ch]) /\ asked # None
      BY <3>1, <3>2 DEF QuestionInv
    <3>4. n = Len(box[ch]) /\ Len(box'[ch]) = 0
      BY <1>1, <2>1, <3>3 DEF Suffix
    <3>5. box'[Current] = <<>>
      <4>1. box'[ch] \in Seq(Payload)
        BY <1>4 DEF TypeOK
      <4> QED
        BY <3>3, <3>4, <4>1
    <3>6. PICK m \in 1..n : box[ch][m].asks # None /\ box[ch][m].asks = run.said.item
      BY <2>4 DEF After
    <3>7. m \in 1..Len(box[ch])
      BY <1>1, <2>1
    <3>8. Own => run.said.item = asked
      BY <3>3, <3>6, <3>7 DEF QuestionInv, Own
    <3>9. run.said.found => run.said.item = Probe \/ run.ws[run.said.item] > 0
      BY <2>4 DEF After
    <3> QED
      BY <2>1, <2>2, <2>3, <2>4, <3>3, <3>5, <3>8, <3>9 DEF ReplyInv
  <2>5. CASE ~run.live
    <3>1. reply' = reply
      BY <2>2, <2>5
    <3>2. reply.found => box'[Current] = <<>>
      <4> HAVE reply.found
      <4>1. box[Current] = <<>>
        BY DEF ReplyInv
      <4>2. Current \in Channel
        BY <1>2 DEF ReplyInv, ControlInv, Current, TypeOK, Verifying, Deploying
      <4>3. Current # ch
        BY <1>1, <2>1, <4>1, <4>2
      <4> QED
        BY <2>1, <4>1, <4>2, <4>3
    <3>3. reply.found /\ Own => reply.item = asked /\ (asked = Probe \/ copies'[asked] > 0)
      <4> HAVE reply.found /\ Own
      <4>1. reply.item = asked /\ (asked = Probe \/ copies[asked] > 0)
        BY DEF ReplyInv
      <4>2. asked # None
        BY <1>2 DEF ReplyInv
      <4>3. asked = Probe \/ asked \in Item
        BY <4>2 DEF TypeOK, Asked
      <4>4. \A i \in Item : copies'[i] >= copies[i] /\ copies'[i] \in Nat /\ copies[i] \in Nat
        BY <1>4, CopiesStay
      <4> QED
        BY <4>1, <4>3, <4>4
    <3> QED
      BY <2>1, <2>3, <3>1, <3>2, <3>3 DEF ReplyInv
  <2> QED
    BY <2>4, <2>5
<1>5. ASSUME Quiet PROVE ReplyInv'
  <2>1. asked' = None /\ reply' = Nothing
    BY <1>5, QuietFacts DEF ReplyInv
  <2> QED
    BY <1>2, <2>1 DEF ReplyInv
<1>6. ASSUME AskItem \/ \E ch \in Channel : SendProbe(ch) PROVE ReplyInv'
  <2>1. asked' \in Asked /\ ~reply'.found
    BY <1>6, AskingFacts
  <2> QED
    BY <2>1, QuestionIsPayload DEF ReplyInv
<1>7. ASSUME ItemTimedOut \/ \E ch \in Channel : ProbeTimedOut(ch) PROVE ReplyInv'
  BY <1>2, <1>7, GivingUpFacts DEF ReplyInv
<1>8. ASSUME SendBatch \/ Resend PROVE ReplyInv'
  <2>1. asked = None /\ asked' = asked /\ reply' = reply
    BY <1>8, SendBatchFacts, ResendFacts
  <2> QED
    BY <1>2, <2>1 DEF ReplyInv
<1>9. ASSUME Elsewhere \/ Slipping \/ UNCHANGED vars
      PROVE  /\ UNCHANGED <<tool, gaveUp>> /\ Shrunk(box, box')
             /\ \A i \in Item : copies[i] > 0 => copies'[i] > 0
  <2>1. CASE Elsewhere \/ UNCHANGED vars
    BY <2>1, ElsewhereFacts, Unchanged DEF vars, channels, history
  <2>2. CASE Slipping
    BY <2>2, SlippingFacts
  <2> QED
    BY <1>9, <2>1, <2>2
<1> QED
  BY <1>3, <1>4, <1>5, <1>6, <1>7, <1>8, <1>9, StepCases, TypeStep

\* A channel that is empty stays so when its payloads run.
LEMMA EmptyStays ==
    ASSUME TypeOK, TypeOK', Shrunk(box, box'), NEW ch \in Channel, box[ch] = <<>>
    PROVE  box'[ch] = <<>>
<1>1. PICK n \in 0..Len(box[ch]) : Suffix(box[ch], box'[ch], n)
  BY DEF Shrunk
<1>2. box'[ch] \in Seq(Payload) /\ Len(box[ch]) = 0
  BY DEF TypeOK
<1>3. Len(box'[ch]) = 0
  BY <1>1, <1>2 DEF Suffix
<1> QED
  BY <1>2, <1>3

\* A channel that has answered stays empty until the deployment fills it.
LEMMA EarlierStep ==
    ASSUME TypeOK, ControlInv, QuestionInv, ReplyInv, EarlierInv, TypeOK', [Next]_vars
    PROVE  EarlierInv'
<1>1. \A ch \in Channel : Len(box[ch]) \in Nat
  BY Lengths
<1>2. ASSUME UNCHANGED <<pc, responsive, pinned, plan>>, Shrunk(box, box') PROVE EarlierInv'
  <2>1. \A ch \in Channel : box[ch] = <<>> => box'[ch] = <<>>
    BY <1>2, EmptyStays
  <2>2. pc \in Probing => \A ch \in responsive : box'[ch] = <<>>
    BY <2>1 DEF EarlierInv, TypeOK
  <2>3. ASSUME pinned # None, pc # "idle", NEW k \in 1..Len(box'[pinned])
        PROVE  box'[pinned][k].adds \subseteq Items(plan)
    <3>1. pinned \in Channel
      BY <2>3 DEF TypeOK
    <3>2. PICK n \in 0..Len(box[pinned]) : Suffix(box[pinned], box'[pinned], n)
      BY <1>2, <3>1 DEF Shrunk
    <3>3. n + k \in 1..Len(box[pinned]) /\ box'[pinned][k] = box[pinned][n + k]
      BY <2>3, <3>2 DEF Suffix
    <3> QED
      BY <2>3, <3>3 DEF EarlierInv, EarlierIsOver
  <2> QED
    BY <1>2, <2>2, <2>3 DEF EarlierInv, EarlierIsOver
<1>3. ASSUME Elsewhere \/ Slipping \/ UNCHANGED vars PROVE EarlierInv'
  BY <1>2, <1>3, ElsewhereFacts, SlippingFacts, Unchanged DEF vars, channels, tool
<1>4. ASSUME NEW ch \in Channel, NEW n \in Nat, Execute(ch, n) PROVE EarlierInv'
  BY <1>2, <1>4, ExecuteFacts
\* A deployment under way whose channel gets nothing but commands of its own.
<1>5. ASSUME pc \in Deploying, pinned \in Channel, UNCHANGED <<pinned, plan, responsive>>,
             pc' \in Deploying \cup {"idle"},
             \A k \in 1..Len(box'[pinned]) :
                \/ k \in 1..Len(box[pinned]) /\ box'[pinned][k].adds = box[pinned][k].adds
                \/ box'[pinned][k].adds \subseteq Items(plan)
      PROVE  EarlierInv'
  <2>1. pc' \notin Probing /\ pc' # "http" /\ pc' # "file" /\ pc # "idle" /\ pinned # None
    BY <1>5 DEF Probing, Deploying, Channel, None
  <2> QED
    BY <1>5, <2>1 DEF EarlierInv, EarlierIsOver
<1>6. ASSUME AskItem PROVE EarlierInv'
  <2>1. pc \in Verifying /\ pc' = pc /\ UNCHANGED <<pinned, plan, responsive>> /\ pinned \in Channel
        /\ Current = pinned
    <3>1. pc \in Verifying
      BY <1>6 DEF AskItem, Verifying
    <3> QED
      BY <1>6, <3>1 DEF AskItem, ControlInv, TypeOK, Current, Deploying, Verifying, Channel
  <2>2. PICK i \in Asked : Grown(box, box', Current, Question(i)) \/ box' = box
    BY <1>6, AskingFacts
  <2>3. ASSUME NEW k \in 1..Len(box'[pinned])
        PROVE  \/ k \in 1..Len(box[pinned]) /\ box'[pinned][k].adds = box[pinned][k].adds
               \/ box'[pinned][k].adds \subseteq Items(plan)
    <3>1. CASE box' = box
      BY <2>3, <3>1
    <3>2. CASE Grown(box, box', pinned, Question(i))
      <4>1. k \in 1..Len(box[pinned]) \/ k = Len(box[pinned]) + 1
        BY <1>1, <2>1, <2>3, <3>2 DEF Grown
      <4> QED
        BY <3>2, <4>1, QuestionIsPayload DEF Grown
    <3> QED
      BY <2>1, <2>2, <3>1, <3>2
  <2> QED
    BY <1>5, <2>1, <2>3 DEF Verifying, Deploying
<1>7. ASSUME SendBatch \/ Resend PROVE EarlierInv'
  <2>1. pc \in Deploying /\ pc' \in {pc, "idle"} /\ UNCHANGED <<pinned, plan, responsive>>
        /\ pinned \in Channel /\ plan \in 1..Len(Plan)
    <3>1. CASE SendBatch
      BY <3>1, SendBatchFacts DEF Deploying, Return
    <3>2. CASE Resend
      BY <3>2, ResendFacts DEF Deploying, Return
    <3> QED
      BY <1>7, <3>1, <3>2
  <2>2. PICK is \in SUBSET Items(plan) : Grown(box, box', pinned, Commands(is)) \/ box' = box
    <3>1. CASE SendBatch
      <4>1. PICK upto \in Nat :
               /\ {Plan[plan][k] : k \in sent + 1..upto} \subseteq Items(plan)
               /\ \/ Grown(box, box', pinned, Commands({Plan[plan][k] : k \in sent + 1..upto}))
                  \/ box' = box
        BY <3>1, SendBatchFacts
      <4> QED
        BY <4>1
    <3>2. CASE Resend
      <4>1. PICK i \in todo : Grown(box, box', pinned, Commands({i})) \/ box' = box
        BY <3>2, ResendFacts
      <4>2. i \in Items(plan)
        BY <4>1, <3>2, ResendFacts DEF ControlInv
      <4> QED
        BY <4>1, <4>2
    <3> QED
      BY <1>7, <3>1, <3>2
  <2>3. is \subseteq Item
    BY <2>1, <2>2, ItemsOfPlans
  <2>4. ASSUME NEW k \in 1..Len(box'[pinned])
        PROVE  \/ k \in 1..Len(box[pinned]) /\ box'[pinned][k].adds = box[pinned][k].adds
               \/ box'[pinned][k].adds \subseteq Items(plan)
    <3>1. CASE box' = box
      BY <2>4, <3>1
    <3>2. CASE Grown(box, box', pinned, Commands(is))
      <4>1. k \in 1..Len(box[pinned]) \/ k = Len(box[pinned]) + 1
        BY <1>1, <2>1, <2>4, <3>2 DEF Grown
      <4> QED
        BY <2>2, <2>3, <3>2, <4>1, CommandsArePayload DEF Grown
    <3> QED
      BY <2>2, <3>1, <3>2
  <2> QED
    BY <1>5, <2>1, <2>4
\* A probe is asked in a channel that has not answered yet.
<1>8. ASSUME NEW ch \in Channel, SendProbe(ch) PROVE EarlierInv'
  <2>1. pc = ch /\ pc \in Channel /\ UNCHANGED <<pc, responsive, pinned>> /\ Current = ch
        /\ pinned = None
    BY <1>8 DEF SendProbe, Current, ControlInv, Probing, Channel
  <2>2. PICK i \in Asked : Grown(box, box', ch, Question(i)) \/ box' = box
    BY <1>8, <2>1, AskingFacts
  <2>3. ch \notin responsive
    BY <2>1 DEF EarlierInv, Channel
  <2>4. \A c \in Channel \ {ch} : box'[c] = box[c]
    BY <2>2 DEF Grown
  <2> QED
    BY <2>1, <2>3, <2>4 DEF EarlierInv, EarlierIsOver, TypeOK
<1>9. ASSUME ItemTimedOut \/ \E ch \in Channel : ProbeTimedOut(ch) PROVE EarlierInv'
  <2> DEFINE cur == Current
  <2>1. /\ cur \in Channel /\ UNCHANGED <<plan, responsive, pinned>>
        /\ \A c \in Channel \ {cur} : box'[c] = box[c]
        /\ \A k \in 1..Len(box'[cur]) :
              k \in 1..Len(box[cur]) /\ box'[cur][k].adds = box[cur][k].adds
    BY <1>9, GivingUpFacts, BoxWithdraws
  <2>2. CASE pc \in Verifying
    <3>1. cur = pinned /\ pc' = pc /\ pc \in Deploying
      BY <1>9, <2>2, GivingUpFacts DEF Current, Verifying, Deploying, Channel
    <3> QED
      BY <1>5, <2>1, <3>1
  <2>3. CASE pc \in Channel
    <3>1. cur = pc /\ pc' = AfterProbe(pc) /\ pc \in Probing /\ pinned = None
      BY <1>9, <2>3, GivingUpFacts DEF Current, Channel, Verifying, ControlInv, Probing
    <3>2. cur \notin responsive /\ responsive \subseteq {"http"}
      BY <2>3, <3>1 DEF EarlierInv, Channel
    <3>3. \A ch \in responsive : box'[ch] = <<>>
      BY <2>1, <3>1, <3>2 DEF EarlierInv, TypeOK
    <3>4. pc' \in {"file", "select"}
      BY <3>1 DEF AfterProbe
    <3> QED
      BY <2>1, <3>1, <3>2, <3>3, <3>4 DEF EarlierInv, EarlierIsOver
  <2> QED
    BY <1>9, <2>2, <2>3, GivingUpFacts
<1>10. ASSUME Quiet PROVE EarlierInv'
  <2>1. box' = box
    BY <1>10, QuietFacts DEF channels
  <2>2. CASE Start
    <3>1. pinned' = None /\ responsive' = {} /\ pc' \in {"idle", "http"}
      BY <2>2 DEF Start
    <3> QED
      BY <3>1 DEF EarlierInv, EarlierIsOver
  <2>3. CASE Select
    <3>1. pc = "select" /\ pc \in Probing
      BY <2>3 DEF Select, Probing
    <3>2. \/ pc' = "idle"
          \/ pc' = "send" /\ pinned' \in responsive
      BY <2>3 DEF Select, Return, Selectable, TypeOK, Channel
    <3>3. pinned' \in responsive => box'[pinned'] = <<>>
      BY <2>1, <3>1 DEF EarlierInv
    <3> QED
      BY <3>2, <3>3 DEF EarlierInv, EarlierIsOver, Probing
  <2>4. CASE BeginVerify \/ ItemAnswered \/ EndVerify \/ BeginReverify \/ EndReverify
    <3>1. pc \in Deploying /\ UNCHANGED <<pinned, plan, responsive>> /\ pc' \in Deploying \cup {"idle"}
      BY <2>4 DEF BeginVerify, ItemAnswered, EndVerify, BeginReverify, EndReverify, Return, Deploying
    <3>2. pinned \in Channel
      BY <3>1 DEF ControlInv, TypeOK
    <3> QED
      BY <1>5, <2>1, <3>1, <3>2
  <2>5. ASSUME NEW ch \in Channel, SkipProbe(ch) PROVE EarlierInv'
    <3>1. pc = ch /\ pc' = AfterProbe(ch) /\ UNCHANGED <<responsive, pinned>> /\ pinned = None
          /\ pc \in Probing
      BY <2>5 DEF SkipProbe, ControlInv, Probing, Channel
    <3>2. pc' \in {"file", "select"} /\ responsive \subseteq {"http"}
      BY <3>1 DEF AfterProbe, EarlierInv, Channel
    <3> QED
      BY <2>1, <3>1, <3>2 DEF EarlierInv, EarlierIsOver
  <2>6. ASSUME NEW ch \in Channel, ProbeAnswered(ch) PROVE EarlierInv'
    <3>1. pc = ch /\ pc' = AfterProbe(ch) /\ pinned' = pinned /\ pinned = None /\ pc \in Probing
          /\ responsive' = IF Confirms(Probe) THEN responsive \cup {ch} ELSE responsive
      BY <2>6 DEF ProbeAnswered, ControlInv, Probing, Channel
    <3>2. Confirms(Probe) => box[ch] = <<>>
      BY <3>1 DEF Confirms, ReplyInv, Current
    <3>3. \A c \in responsive' : box'[c] = <<>>
      BY <2>1, <3>1, <3>2 DEF EarlierInv
    <3>4. /\ pc' \in {"file", "select"}
          /\ pc' = "file" => responsive' \subseteq {"http"}
      BY <3>1 DEF AfterProbe, EarlierInv, Channel
    <3> QED
      BY <3>1, <3>3, <3>4 DEF EarlierInv, EarlierIsOver
  <2> QED
    BY <1>10, <2>2, <2>3, <2>4, <2>5, <2>6 DEF Quiet
<1> QED
  BY <1>3, <1>4, <1>6, <1>7, <1>8, <1>9, <1>10, StepCases

\* Each payload that adds something was there before, in the same channel and
\* in the same order.
Moved(b, c) ==
    \A ch \in Channel : \E d \in Nat : \A k \in 1..Len(c[ch]) :
        c[ch][k].adds # {} => d + k \in 1..Len(b[ch]) /\ c[ch][k].adds = b[ch][d + k].adds

\* i is one of the commands that were sent.
WasSent(i) == \A p \in 1..Len(Plan) : \A k \in 1..Len(Plan[p]) : Unsent(p, k) => Plan[p][k] # i

\* A payload that runs, slips or is lost takes its commands with it: what it
\* adds was nowhere else, and is in one place at most.
LEMMA OnceMoves ==
    ASSUME TypeOK, TypeOK', OnceInv, Moved(box, box'), Caused \subseteq Caused',
           \A p \in 1..Len(Plan) : \A k \in 1..Len(Plan[p]) : Unsent(p, k)' => Unsent(p, k),
           \A i \in Item : copies'[i] # copies[i] =>
              /\ WasSent(i)
              /\ i \notin Caused' =>
                    /\ copies'[i] <= 1
                    /\ \A ch \in Channel : \A n \in 1..Len(box'[ch]) : i \notin box'[ch][n].adds
                    /\ \A s \in stuck' : i \notin s.adds,
           \A r \in stuck' \ stuck : \A i \in r.adds :
              /\ WasSent(i)
              /\ i \notin Caused' =>
                    /\ copies'[i] = 0
                    /\ \A ch \in Channel : \A n \in 1..Len(box'[ch]) : i \notin box'[ch][n].adds
                    /\ \A s \in stuck' : i \in s.adds => s = r
    PROVE  OnceInv'
<1>1. \A ch \in Channel : Len(box[ch]) \in Nat /\ Len(box'[ch]) \in Nat
  <2>1. box \in [Channel -> Seq(Payload)] /\ box' \in [Channel -> Seq(Payload)]
    BY DEF TypeOK
  <2> QED
    BY <2>1
<1>2. ASSUME NEW i, NEW ch \in Channel, NEW n \in 1..Len(box'[ch]), i \in box'[ch][n].adds
      PROVE  \E m \in 1..Len(box[ch]) : i \in box[ch][m].adds
  BY <1>2 DEF Moved
<1>3. ASSUME NEW p \in 1..Len(Plan), NEW k \in 1..Len(Plan[p]), Unsent(p, k)'
      PROVE  /\ copies'[Plan[p][k]] = 0
             /\ \A ch \in Channel : \A n \in 1..Len(box'[ch]) : Plan[p][k] \notin box'[ch][n].adds
  <2> DEFINE i == Plan[p][k]
  <2>1. Unsent(p, k) /\ i \in Item
    BY <1>3, ItemsOfPlans
  <2>2. copies[i] = 0 /\ \A ch \in Channel : \A n \in 1..Len(box[ch]) : i \notin box[ch][n].adds
    BY <2>1 DEF OnceInv
  <2>3. copies'[i] = 0
    BY <2>1, <2>2 DEF WasSent
  <2> HIDE DEF i
  <2>4. \A ch \in Channel : \A n \in 1..Len(box'[ch]) : i \notin box'[ch][n].adds
    BY <1>2, <2>2
  <2> QED
    BY <2>3, <2>4 DEF i
<1>4. ASSUME NEW i \in Item \ Caused', NEW ch \in Channel, NEW n \in 1..Len(box'[ch]),
             i \in box'[ch][n].adds
      PROVE  /\ copies'[i] = 0
             /\ \A c \in Channel : \A m \in 1..Len(box'[c]) :
                   i \in box'[c][m].adds => c = ch /\ m = n
  <2>0. i \in Item \ Caused
    OBVIOUS
  <2>1. PICK u \in 1..Len(box[ch]) : i \in box[ch][u].adds
    BY <1>2, <1>4
  <2>2. copies[i] = 0
    BY <2>0, <2>1 DEF OnceInv
  <2>3. copies'[i] = 0
    BY <1>4, <2>2
  <2>4. ASSUME NEW c \in Channel, NEW m \in 1..Len(box'[c]), i \in box'[c][m].adds
        PROVE  c = ch /\ m = n
    <3>1. PICK w \in 1..Len(box[c]) : i \in box[c][w].adds
      BY <1>2, <2>4
    <3>2. c = ch
      BY <2>0, <2>1, <3>1 DEF OnceInv
    <3>3. PICK d \in Nat : \A j \in 1..Len(box'[ch]) : box'[ch][j].adds # {} =>
             d + j \in 1..Len(box[ch]) /\ box'[ch][j].adds = box[ch][d + j].adds
      BY DEF Moved
    <3>4. /\ d + n \in 1..Len(box[ch]) /\ i \in box[ch][d + n].adds
          /\ d + m \in 1..Len(box[ch]) /\ i \in box[ch][d + m].adds
      BY <1>4, <2>4, <3>2, <3>3
    <3>5. d + n = d + m
      BY <2>0, <3>4 DEF OnceInv
    <3>6. m \in Nat /\ n \in Nat
      BY <1>1
    <3> QED
      BY <3>2, <3>3, <3>5, <3>6
  <2> QED
    BY <2>3, <2>4
<1>5. ASSUME NEW i \in Item, copies'[i] > 1
      PROVE  i \in Caused'
  <2>1. copies'[i] \in 0..2
    BY DEF TypeOK, Copies
  <2>2. copies[i] > 1 => i \in Caused
    BY DEF OnceInv, RepeatedForCause, Caused
  <2> QED
    BY <1>5, <2>1, <2>2
<1>6. ASSUME NEW r \in stuck', NEW i \in r.adds
      PROVE  /\ \A p \in 1..Len(Plan) : \A k \in 1..Len(Plan[p]) : Unsent(p, k)' => Plan[p][k] # i
             /\ i \notin Caused' =>
                   /\ copies'[i] = 0
                   /\ \A ch \in Channel : \A n \in 1..Len(box'[ch]) : i \notin box'[ch][n].adds
                   /\ \A s \in stuck' : i \in s.adds => s = r
  <2>1. CASE r \notin stuck
    BY <1>6, <2>1 DEF WasSent
  <2>2. CASE r \in stuck
    <3>1. /\ \A p \in 1..Len(Plan) : \A k \in 1..Len(Plan[p]) : Unsent(p, k) => Plan[p][k] # i
          /\ i \notin Caused =>
                /\ copies[i] = 0
                /\ \A ch \in Channel : \A n \in 1..Len(box[ch]) : i \notin box[ch][n].adds
                /\ \A s \in stuck : i \in s.adds => s = r
      BY <1>6, <2>2 DEF OnceInv, StuckInv
    <3>2. i \in Item
      BY <1>6, <2>2 DEF TypeOK, Slip
    <3>3. ASSUME i \notin Caused'
          PROVE  /\ copies'[i] = 0
                 /\ \A ch \in Channel : \A n \in 1..Len(box'[ch]) : i \notin box'[ch][n].adds
                 /\ \A s \in stuck' : i \in s.adds => s = r
      <4>1. i \notin Caused
        BY <3>3
      <4>2. copies'[i] = 0
        BY <1>6, <3>1, <3>2, <3>3, <4>1
      <4>3. \A ch \in Channel : \A n \in 1..Len(box'[ch]) : i \notin box'[ch][n].adds
        BY <1>2, <3>1, <4>1
      <4>4. \A s \in stuck' : i \in s.adds => s = r
        BY <1>6, <3>1, <3>3, <4>1
      <4> QED
        BY <4>2, <4>3, <4>4
    <3> QED
      BY <3>1, <3>3
  <2> QED
    BY <2>1, <2>2
<1>7. StuckInv'
  BY <1>6 DEF StuckInv
<1> QED
  BY <1>3, <1>4, <1>5, <1>7 DEF OnceInv, RepeatedForCause, Caused

\* Commands that are sent were nowhere before, or are sent again.
LEMMA OnceGrows ==
    ASSUME TypeOK, TypeOK', OnceInv, NEW ch \in Channel, NEW is \in SUBSET Item,
           Grown(box, box', ch, Commands(is)), copies' = copies,
           Caused \subseteq Caused', stuck' \subseteq stuck,
           \A p \in 1..Len(Plan) : \A k \in 1..Len(Plan[p]) :
              Unsent(p, k)' => Unsent(p, k) /\ Plan[p][k] \notin is,
           \A i \in is \ Caused' :
              /\ copies[i] = 0
              /\ \A c \in Channel : \A n \in 1..Len(box[c]) : i \notin box[c][n].adds
              /\ \A r \in stuck : i \notin r.adds
    PROVE  OnceInv'
<1>1. \A c \in Channel : Len(box[c]) \in Nat
  BY Lengths
<1>2. Commands(is).adds = is
  BY CommandsArePayload
<1>3. ASSUME NEW i, NEW c \in Channel, NEW n \in 1..Len(box'[c]), i \in box'[c][n].adds
      PROVE  \/ n \in 1..Len(box[c]) /\ i \in box[c][n].adds
             \/ c = ch /\ n = Len(box[ch]) + 1 /\ i \in is
  <2>1. CASE c # ch
    BY <1>3, <2>1 DEF Grown
  <2>2. CASE c = ch
    <3>1. n \in 1..Len(box[ch]) \/ n = Len(box[ch]) + 1
      BY <1>1, <1>3, <2>2 DEF Grown
    <3> QED
      BY <1>2, <1>3, <2>2, <3>1 DEF Grown
  <2> QED
    BY <2>1, <2>2
<1>4. ASSUME NEW p \in 1..Len(Plan), NEW k \in 1..Len(Plan[p]), Unsent(p, k)'
      PROVE  /\ copies'[Plan[p][k]] = 0
             /\ \A c \in Channel : \A n \in 1..Len(box'[c]) : Plan[p][k] \notin box'[c][n].adds
  <2> DEFINE i == Plan[p][k]
  <2>1. Unsent(p, k) /\ i \notin is
    BY <1>4
  <2>2. copies[i] = 0 /\ \A c \in Channel : \A n \in 1..Len(box[c]) : i \notin box[c][n].adds
    BY <2>1 DEF OnceInv
  <2> HIDE DEF i
  <2>3. \A c \in Channel : \A n \in 1..Len(box'[c]) : i \notin box'[c][n].adds
    BY <1>3, <2>1, <2>2
  <2> QED
    BY <2>2, <2>3 DEF i
<1>5. ASSUME NEW i \in Item \ Caused', NEW c \in Channel, NEW n \in 1..Len(box'[c]),
             i \in box'[c][n].adds
      PROVE  /\ copies'[i] = 0
             /\ \A e \in Channel : \A m \in 1..Len(box'[e]) :
                   i \in box'[e][m].adds => e = c /\ m = n
  <2>1. CASE i \in is
    <3>1. copies[i] = 0 /\ \A e \in Channel : \A m \in 1..Len(box[e]) : i \notin box[e][m].adds
      BY <1>5, <2>1
    <3>2. \A e \in Channel : \A m \in 1..Len(box'[e]) :
             i \in box'[e][m].adds => e = ch /\ m = Len(box[ch]) + 1
      BY <1>3, <3>1
    <3> QED
      BY <1>5, <3>1, <3>2
  <2>2. CASE i \notin is
    <3>1. n \in 1..Len(box[c]) /\ i \in box[c][n].adds /\ i \in Item \ Caused
      BY <1>3, <1>5, <2>2
    <3>2. copies[i] = 0 /\ \A e \in Channel : \A m \in 1..Len(box[e]) :
             i \in box[e][m].adds => e = c /\ m = n
      BY <3>1 DEF OnceInv
    <3>3. \A e \in Channel : \A m \in 1..Len(box'[e]) :
             i \in box'[e][m].adds => m \in 1..Len(box[e]) /\ i \in box[e][m].adds
      BY <1>3, <2>2
    <3> QED
      BY <3>2, <3>3
  <2> QED
    BY <2>1, <2>2
<1>6. StuckInv'
  <2> SUFFICES ASSUME NEW r \in stuck', NEW i \in r.adds
               PROVE  /\ \A p \in 1..Len(Plan) : \A k \in 1..Len(Plan[p]) :
                            Unsent(p, k)' => Plan[p][k] # i
                      /\ i \notin Caused' =>
                            /\ copies'[i] = 0
                            /\ \A c \in Channel : \A n \in 1..Len(box'[c]) : i \notin box'[c][n].adds
                            /\ \A s \in stuck' : i \in s.adds => s = r
    BY DEF StuckInv
  <2>1. r \in stuck
    OBVIOUS
  <2>2. /\ \A p \in 1..Len(Plan) : \A k \in 1..Len(Plan[p]) : Unsent(p, k) => Plan[p][k] # i
        /\ i \notin Caused =>
              /\ copies[i] = 0
              /\ \A c \in Channel : \A n \in 1..Len(box[c]) : i \notin box[c][n].adds
              /\ \A s \in stuck : i \in s.adds => s = r
    BY <2>1 DEF OnceInv, StuckInv
  <2>3. ASSUME i \notin Caused'
        PROVE  \A c \in Channel : \A n \in 1..Len(box'[c]) : i \notin box'[c][n].adds
    <3>1. i \notin is
      BY <2>1, <2>3
    <3> QED
      BY <1>3, <2>2, <2>3, <3>1
  <2> QED
    BY <2>2, <2>3
<1>7. RepeatedForCause'
  BY DEF OnceInv, RepeatedForCause, Caused
<1> QED
  BY <1>4, <1>5, <1>6, <1>7 DEF OnceInv

\* Payloads that go in their order.
LEMMA ShrunkMoves ==
    ASSUME TypeOK, TypeOK', Shrunk(box, box')
    PROVE  Moved(box, box')
<1> SUFFICES ASSUME NEW ch \in Channel
             PROVE  \E d \in Nat : \A k \in 1..Len(box'[ch]) : box'[ch][k].adds # {} =>
                       d + k \in 1..Len(box[ch]) /\ box'[ch][k].adds = box[ch][d + k].adds
  BY DEF Moved
<1>1. PICK d \in 0..Len(box[ch]) : Suffix(box[ch], box'[ch], d)
  BY DEF Shrunk
<1>2. d \in Nat
  BY <1>1
<1> QED
  BY <1>1, <1>2 DEF Suffix

\* The commands of the plans are all different.
LEMMA PlansDiffer ==
    ASSUME NEW p \in 1..Len(Plan), NEW q \in 1..Len(Plan), NEW j \in 1..Len(Plan[p]),
           NEW k \in 1..Len(Plan[q]), p # q \/ j # k
    PROVE  Plan[p][j] # Plan[q][k]
<1>1. Len(Plan[p]) \in Nat /\ Plan[p][j] \in Items(p) /\ Plan[q][k] \in Items(q)
  BY ItemsOfPlans
<1>2. CASE p # q
  BY <1>1, <1>2, DeployAssumption
<1>3. CASE p = q
  <2>1. j < k \/ k < j
    BY <1>1, <1>3
  <2> QED
    BY <1>3, <2>1, DeployAssumption
<1> QED
  BY <1>2, <1>3

\* A request that slips takes its commands out of the order, and only one that
\* has run and stays repeats them.
LEMMA OnceSlips ==
    ASSUME TypeOK, OnceInv, TypeOK', Slipping
    PROVE  OnceInv'
<1>1. /\ UNCHANGED <<plan, pc, sent, resent>> /\ kept \subseteq kept'
      /\ Shrunk(box, box')
  BY SlippingFacts DEF tool
<1>2. Moved(box, box') /\ Caused \subseteq Caused'
  BY <1>1, ShrunkMoves DEF Caused
<1>3. \A p \in 1..Len(Plan) : \A k \in 1..Len(Plan[p]) : Unsent(p, k)' => Unsent(p, k)
  BY <1>1 DEF Unsent
<1>4. \A ch \in Channel : \A n \in 1..Len(box[ch]) : \A i \in box[ch][n].adds : WasSent(i)
  BY DEF OnceInv, WasSent
<1>5. \A r \in stuck : \A i \in r.adds : WasSent(i)
  BY DEF OnceInv, StuckInv, WasSent
<1>6. CASE SkipRequest
  <2>1. UNCHANGED <<copies, kept>>
    BY <1>6, SlipsFacts
  <2>2. /\ 1 \in 1..Len(box["file"]) /\ "file" \in Channel
        /\ box["file"][1].adds \in SUBSET Item
        /\ Suffix(box["file"], box'["file"], 1)
        /\ \A c \in Channel \ {"file"} : box'[c] = box[c]
    BY <1>6, SlipsFacts
  <2>3. PICK new \in Slip : stuck' = stuck \cup {new} /\ new.adds = box["file"][1].adds
    BY <1>6, SlipsFacts
  <2>4. new.adds = box["file"][1].adds /\ stuck' = stuck \cup {new}
    BY <2>3
  <2>5. Caused' = Caused
    BY <1>1, <2>1 DEF Caused
  <2>6. ASSUME NEW i \in new.adds, i \notin Caused
        PROVE  /\ copies'[i] = 0
               /\ \A ch \in Channel : \A n \in 1..Len(box'[ch]) : i \notin box'[ch][n].adds
               /\ \A s \in stuck' : i \in s.adds => s = new
    <3>1. i \in Item \ Caused /\ i \in box["file"][1].adds
      BY <2>2, <2>4, <2>6
    <3>2. /\ copies[i] = 0
          /\ \A c \in Channel : \A m \in 1..Len(box[c]) : i \in box[c][m].adds => c = "file" /\ m = 1
      BY <2>2, <3>1 DEF OnceInv
    <3>3. ASSUME NEW ch \in Channel, NEW n \in 1..Len(box'[ch]), i \in box'[ch][n].adds
          PROVE  FALSE
      <4>1. ch = "file"
        BY <2>2, <3>2, <3>3
      <4>2. 1 + n \in 1..Len(box["file"]) /\ box'["file"][n] = box["file"][1 + n]
        BY <2>2, <3>3, <4>1 DEF Suffix
      <4>3. 1 + n = 1
        BY <2>2, <3>2, <3>3, <4>1, <4>2
      <4>4. n >= 1 /\ n \in Nat
        <5>1. Len(box'["file"]) \in Nat
          BY <2>2 DEF TypeOK
        <5> QED
          BY <3>3, <4>1, <5>1
      <4> QED
        BY <4>3, <4>4
    <3>4. \A s \in stuck : i \notin s.adds
      BY <2>2, <3>1 DEF OnceInv, StuckInv
    <3> QED
      BY <2>1, <2>4, <3>2, <3>3, <3>4
  <2>7. \A r \in stuck' \ stuck : r = new
    BY <2>4
  <2>8. \A i \in new.adds : WasSent(i)
    BY <1>4, <2>2, <2>4
  <2> QED
    BY <1>2, <1>3, <2>1, <2>5, <2>6, <2>7, <2>8, OnceMoves
<1>7. CASE KeepRequest
  <2>1. /\ Works(box["file"][1].adds) /\ kept' = kept \cup box["file"][1].adds
        /\ 1 \in 1..Len(box["file"]) /\ "file" \in Channel
        /\ box["file"][1].adds \in SUBSET Item
    BY <1>7, SlipsFacts
  <2> DEFINE adds == box["file"][1].adds
  <2>3. adds \subseteq Caused' /\ \A i \in adds : WasSent(i)
    BY <1>4, <2>1 DEF Caused
  <2>4. \A r \in stuck' \ stuck : r.adds = adds
    <3>1. PICK r \in Slip : stuck' = stuck \cup {r} /\ r.adds = adds
      BY <1>7, SlipsFacts
    <3> HIDE DEF adds
    <3> QED
      BY <3>1
  <2>5. \A i \in Item : copies'[i] # copies[i] => i \in adds
    BY <2>1, WorksFacts
  <2> HIDE DEF adds
  <2>6. \A i \in Item : copies'[i] # copies[i] => WasSent(i) /\ i \in Caused'
    BY <2>3, <2>5
  <2>7. \A r \in stuck' \ stuck : \A i \in r.adds : WasSent(i) /\ i \in Caused'
    BY <2>3, <2>4
  <2> QED
    BY <1>2, <1>3, <2>6, <2>7, OnceMoves
<1>8. ASSUME NEW r \in stuck, RunStuck(r) PROVE OnceInv'
  <2>1. Works(r.adds) /\ box' = box /\ r.adds \in SUBSET Item
    BY <1>8 DEF RunStuck, TypeOK, Slip
  <2>2. \A i \in Item : /\ copies'[i] # copies[i] => i \in r.adds
                        /\ copies[i] = 0 => copies'[i] <= 1
    BY <2>1, WorksFacts
  <2>3. \A i \in r.adds : WasSent(i)
    BY <1>5
  <2>4. CASE stuck' = stuck \ {r} /\ kept' = kept
    <3>1. Caused' = Caused
      BY <1>1, <2>4 DEF Caused
    <3>2. ASSUME NEW i \in Item, copies'[i] # copies[i], i \notin Caused
          PROVE  /\ copies'[i] <= 1
                 /\ \A ch \in Channel : \A n \in 1..Len(box'[ch]) : i \notin box'[ch][n].adds
                 /\ \A s \in stuck' : i \notin s.adds
      <4>1. i \in r.adds
        BY <2>2, <3>2
      <4>2. /\ copies[i] = 0
            /\ \A ch \in Channel : \A n \in 1..Len(box[ch]) : i \notin box[ch][n].adds
            /\ \A s \in stuck : i \in s.adds => s = r
        BY <3>2, <4>1 DEF OnceInv, StuckInv
      <4> QED
        BY <2>1, <2>2, <2>4, <4>2
    <3>3. stuck' \ stuck = {}
      BY <2>4
    <3> QED
      BY <1>2, <1>3, <2>2, <2>3, <3>1, <3>2, <3>3, OnceMoves
  <2>5. CASE /\ stuck' = (stuck \ {r}) \cup {[r EXCEPT !.ran = TRUE]}
             /\ kept' = kept \cup r.adds
    <3>1. r.adds \subseteq Caused'
      BY <2>5 DEF Caused
    <3>2. [r EXCEPT !.ran = TRUE].adds = r.adds
      BY DEF TypeOK, Slip
    <3>3. \A s \in stuck' \ stuck : s.adds = r.adds
      BY <2>5, <3>2
    <3>4. \A s \in stuck' \ stuck : \A i \in s.adds : WasSent(i) /\ i \in Caused'
      BY <2>3, <3>1, <3>3
    <3>5. \A i \in Item : copies'[i] # copies[i] => WasSent(i) /\ i \in Caused'
      BY <2>2, <2>3, <3>1
    <3> QED
      BY <1>2, <1>3, <3>4, <3>5, OnceMoves
  <2> QED
    BY <1>8, <2>4, <2>5 DEF RunStuck
<1>9. ASSUME NEW r \in stuck, PurgeStuck(r) PROVE OnceInv'
  <2>1. copies' = copies /\ stuck' \ stuck = {}
    BY <1>9 DEF PurgeStuck
  <2> QED
    BY <1>2, <1>3, <2>1, OnceMoves
<1> QED
  BY <1>6, <1>7, <1>8, <1>9 DEF Slipping

\* No step puts a command into a second place without a cause.
LEMMA OnceStep ==
    ASSUME TypeOK, ControlInv, OnceInv, TypeOK', [Next]_vars
    PROVE  OnceInv'
<1>1. Len(Plan) \in Nat /\ plan \in Nat /\ sent \in Nat
  BY DeployAssumption DEF TypeOK
<1>2. \A p \in 1..Len(Plan) : Len(Plan[p]) \in Nat
  BY ItemsOfPlans
<1>3. \A ch \in Channel : Len(box[ch]) \in Nat
  BY Lengths
<1>4. ASSUME UNCHANGED <<plan, pc, sent>>
      PROVE  \A p \in 1..Len(Plan) : \A k \in 1..Len(Plan[p]) : Unsent(p, k)' => Unsent(p, k)
  BY <1>4 DEF Unsent
<1>5. ASSUME copies' = copies, Caused \subseteq Caused', stuck' \subseteq stuck, Moved(box, box'),
             \A p \in 1..Len(Plan) : \A k \in 1..Len(Plan[p]) : Unsent(p, k)' => Unsent(p, k)
      PROVE  OnceInv'
  BY <1>5, OnceMoves
<1>6. ASSUME Elsewhere \/ UNCHANGED vars PROVE OnceInv'
  <2>1. UNCHANGED <<stuck, copies, tool, history>> /\ Shrunk(box, box')
    BY <1>6, ElsewhereFacts, Unchanged DEF vars, channels
  <2>2. UNCHANGED <<plan, pc, sent>> /\ Caused' = Caused
    BY <2>1 DEF tool, history, Caused
  <2> QED
    BY <1>4, <1>5, <2>1, <2>2, ShrunkMoves
<1>7. ASSUME NEW ch \in Channel, NEW n \in Nat, Execute(ch, n) PROVE OnceInv'
  <2>1. /\ n \in 1..Len(box[ch]) /\ Suffix(box[ch], box'[ch], n)
        /\ \A c \in Channel \ {ch} : box'[c] = box[c]
        /\ UNCHANGED <<plan, pc, sent, stuck>> /\ Caused' = Caused
        /\ Shrunk(box, box')
    BY <1>7, ExecuteFacts DEF history, Caused
  <2>2. PICK run \in After(box[ch], n, copies) : copies' = run.ws
    BY <1>7, ExecuteFacts
  <2>3. ASSUME NEW i \in Item, copies'[i] # copies[i]
        PROVE  \E m \in 1..n : m \in 1..Len(box[ch]) /\ i \in box[ch][m].adds
    <3>1. Added(box[ch], n, i)
      BY <2>2, <2>3 DEF After
    <3>2. \A m \in 1..n : m \in 1..Len(box[ch])
      BY <1>3, <2>1
    <3> QED
      BY <3>1, <3>2 DEF Added
  <2>4. ASSUME NEW i \in Item, copies'[i] # copies[i], i \notin Caused
        PROVE  /\ copies'[i] <= 1
               /\ \A c \in Channel : \A m \in 1..Len(box'[c]) : i \notin box'[c][m].adds
               /\ \A s \in stuck : i \notin s.adds
    <3>1. PICK m \in 1..n : m \in 1..Len(box[ch]) /\ i \in box[ch][m].adds
      BY <2>3, <2>4
    <3>2. /\ copies[i] = 0
          /\ \A c \in Channel : \A k \in 1..Len(box[c]) : i \in box[c][k].adds => c = ch /\ k = m
      BY <2>4, <3>1 DEF OnceInv
    <3>3. copies'[i] <= 1
      <4>1. \A j, k \in 1..Len(box[ch]) : i \in box[ch][j].adds /\ i \in box[ch][k].adds => j = k
        BY <3>2
      <4> QED
        BY <2>2, <3>2, <4>1 DEF After
    <3>4. ASSUME NEW c \in Channel, NEW k \in 1..Len(box'[c]), i \in box'[c][k].adds
          PROVE  FALSE
      <4>1. c = ch
        BY <2>1, <3>2, <3>4
      <4>2. n + k \in 1..Len(box[ch]) /\ i \in box[ch][n + k].adds
        BY <2>1, <3>4, <4>1 DEF Suffix
      <4>3. n + k = m
        BY <3>2, <4>2
      <4>4. Len(box'[ch]) = Len(box[ch]) - n
        BY <2>1 DEF Suffix
      <4>5. k > 0 /\ k \in Nat
        BY <1>3, <2>1, <3>4, <4>1, <4>4
      <4> QED
        BY <3>1, <4>3, <4>5
    <3>5. \A s \in stuck : i \notin s.adds
      BY <2>4, <3>1 DEF OnceInv, StuckInv
    <3> QED
      BY <3>3, <3>4, <3>5
  <2>5. Moved(box, box')
    BY <2>1, ShrunkMoves
  <2>6. \A i \in Item : copies'[i] # copies[i] => WasSent(i)
    BY <2>3 DEF OnceInv, WasSent
  <2> QED
    BY <1>4, <2>1, <2>4, <2>5, <2>6, OnceMoves
<1>8. ASSUME Quiet PROVE OnceInv'
  <2>1. UNCHANGED <<box, stuck, copies>> /\ Caused' = Caused
    BY <1>8, QuietFacts DEF channels, history, Caused
  <2>2. Moved(box, box')
    BY <2>1, Unchanged, ShrunkMoves
  <2>3. ASSUME NEW p \in 1..Len(Plan), NEW k \in 1..Len(Plan[p]), Unsent(p, k)'
        PROVE  Unsent(p, k)
    <3>1. CASE Start
      <4>1. plan' = plan + 1
        BY <3>1 DEF Start
      <4> QED
        BY <1>1, <2>3, <4>1 DEF Unsent
    <3>2. CASE Select
      BY <2>3, <3>2 DEF Select, Return, Unsent, Probing
    <3>3. CASE BeginVerify \/ ItemAnswered \/ EndVerify \/ BeginReverify \/ EndReverify
      <4>1. plan' = plan /\ pc' \notin Probing \cup {"send"}
        BY <3>3 DEF BeginVerify, ItemAnswered, EndVerify, BeginReverify, EndReverify, Return, Probing
      <4> QED
        BY <2>3, <4>1 DEF Unsent
    <3>4. ASSUME NEW ch \in Channel, SkipProbe(ch) \/ ProbeAnswered(ch) PROVE Unsent(p, k)
      <4>1. UNCHANGED <<plan, sent>> /\ pc \in Probing
        BY <3>4 DEF SkipProbe, ProbeAnswered, Probing, Channel
      <4> QED
        BY <2>3, <4>1 DEF Unsent
    <3> QED
      BY <1>8, <3>1, <3>2, <3>3, <3>4 DEF Quiet
  <2> QED
    BY <1>5, <2>1, <2>2, <2>3
<1>9. ASSUME AskItem \/ \E ch \in Channel : SendProbe(ch) PROVE OnceInv'
  <2> DEFINE cur == Current
  <2>1. cur \in Channel /\ UNCHANGED <<plan, pc, sent, stuck, copies>> /\ Caused' = Caused
    BY <1>9, AskingFacts DEF history, Caused
  <2>2. PICK i \in Asked : Grown(box, box', cur, Question(i)) \/ box' = box
    BY <1>9, AskingFacts
  <2> HIDE DEF cur
  <2>3. ASSUME Grown(box, box', cur, Question(i)), NEW ch \in Channel, NEW k \in 1..Len(box'[ch]),
               box'[ch][k].adds # {}
        PROVE  0 + k \in 1..Len(box[ch]) /\ box'[ch][k].adds = box[ch][0 + k].adds
    <3>1. CASE ch = cur
      <4>1. k \in 1..Len(box[cur]) \/ k = Len(box[cur]) + 1
        BY <1>3, <2>1, <2>3, <3>1 DEF Grown
      <4>2. k # Len(box[cur]) + 1
        BY <2>2, <2>3, <3>1, QuestionIsPayload DEF Grown
      <4> QED
        BY <1>3, <2>1, <2>3, <3>1, <4>1, <4>2 DEF Grown
    <3>2. CASE ch # cur
      BY <1>3, <2>3, <3>2 DEF Grown
    <3> QED
      BY <3>1, <3>2
  <2>4. Moved(box, box')
    <3>1. CASE box' = box
      BY <3>1, Unchanged, ShrunkMoves
    <3>2. CASE Grown(box, box', cur, Question(i))
      BY <2>3, <3>2 DEF Moved
    <3> QED
      BY <2>2, <3>1, <3>2
  <2> QED
    BY <1>4, <1>5, <2>1, <2>4
<1>10. ASSUME ItemTimedOut \/ \E ch \in Channel : ProbeTimedOut(ch) PROVE OnceInv'
  <2> DEFINE cur == Current
  <2>1. /\ cur \in Channel /\ UNCHANGED <<plan, sent, stuck, copies>> /\ Caused' = Caused
        /\ \A c \in Channel \ {cur} : box'[c] = box[c]
        /\ \A k \in 1..Len(box'[cur]) :
              k \in 1..Len(box[cur]) /\ box'[cur][k].adds = box[cur][k].adds
    BY <1>10, GivingUpFacts, BoxWithdraws DEF Caused
  <2>2. pc' = pc \/ pc \in Probing
    BY <1>10, GivingUpFacts DEF Channel, Probing
  <2> HIDE DEF cur
  <2>3. ASSUME NEW ch \in Channel, NEW k \in 1..Len(box'[ch])
        PROVE  0 + k \in 1..Len(box[ch]) /\ box'[ch][k].adds = box[ch][0 + k].adds
    BY <1>3, <2>1
  <2>4. Moved(box, box')
    BY <2>3 DEF Moved
  <2>5. \A p \in 1..Len(Plan) : \A k \in 1..Len(Plan[p]) : Unsent(p, k)' => Unsent(p, k)
    BY <2>1, <2>2 DEF Unsent
  <2> QED
    BY <1>5, <2>1, <2>4, <2>5
<1>11. ASSUME SendBatch PROVE OnceInv'
  <2>1. /\ pc = "send" /\ plan \in 1..Len(Plan) /\ pinned \in Channel
        /\ UNCHANGED <<copies, plan>> /\ Caused' = Caused /\ stuck' \subseteq stuck
    BY <1>11, SendBatchFacts DEF history, Caused
  <2>2. PICK upto \in Nat : \E ok \in BOOLEAN :
           /\ sent < upto /\ upto <= Len(Plan[plan])
           /\ {Plan[plan][k] : k \in sent + 1..upto} \subseteq Items(plan)
           /\ \/ Grown(box, box', pinned, Commands({Plan[plan][k] : k \in sent + 1..upto}))
              \/ ~ok /\ box' = box
           /\ ok => sent' = upto /\ UNCHANGED <<pc, result>>
           /\ ~ok => Return("send_failed") /\ UNCHANGED sent
    BY <1>11, SendBatchFacts
  <2> DEFINE is == {Plan[plan][k] : k \in sent + 1..upto}
  <2>3. pc' = "idle" \/ (pc' = pc /\ sent' = upto)
    BY <2>2 DEF Return
  <2>4. \A k \in sent + 1..upto : k \in 1..Len(Plan[plan]) /\ Unsent(plan, k)
    BY <1>1, <1>2, <2>1, <2>2 DEF Unsent
  <2>5. ASSUME NEW p \in 1..Len(Plan), NEW k \in 1..Len(Plan[p]), Unsent(p, k)'
        PROVE  Unsent(p, k) /\ Plan[p][k] \notin is
    <3>1. p > plan \/ (p = plan /\ k > upto)
      BY <2>1, <2>3, <2>5 DEF Unsent, Probing
    <3>2. Unsent(p, k)
      BY <1>1, <1>2, <2>1, <2>2, <3>1 DEF Unsent
    <3>3. ASSUME NEW j \in sent + 1..upto PROVE Plan[p][k] # Plan[plan][j]
      <4>1. j \in 1..Len(Plan[plan])
        BY <2>4
      <4>2. p # plan \/ k # j
        BY <1>1, <1>2, <2>1, <2>2, <3>1
      <4> QED
        BY <2>1, <4>1, <4>2, PlansDiffer
    <3> QED
      BY <3>2, <3>3
  <2>6. CASE Grown(box, box', pinned, Commands(is))
    <3>1. \A i \in is : /\ copies[i] = 0
                        /\ \A c \in Channel : \A n \in 1..Len(box[c]) : i \notin box[c][n].adds
                        /\ \A r \in stuck : i \notin r.adds
      BY <2>1, <2>4 DEF OnceInv, StuckInv
    <3>2. is \subseteq Item
      BY <2>1, <2>2, ItemsOfPlans
    <3> HIDE DEF is
    <3> QED
      BY <2>1, <2>5, <2>6, <3>1, <3>2, OnceGrows
  <2>7. CASE box' = box
    <3>1. Moved(box, box')
      BY <2>7, Unchanged, ShrunkMoves
    <3> QED
      BY <1>5, <2>1, <2>5, <3>1
  <2> QED
    BY <2>2, <2>6, <2>7
<1>12. ASSUME Resend PROVE OnceInv'
  <2>1. /\ pc = "resend" /\ plan \in 1..Len(Plan) /\ pinned \in Channel
        /\ UNCHANGED <<copies, plan, sent, kept>> /\ stuck' \subseteq stuck
    BY <1>12, ResendFacts
  <2>2. PICK i \in todo :
           /\ Grown(box, box', pinned, Commands({i})) \/ box' = box
           /\ pc' = pc \/ pc' = "idle"
           /\ resent' = resent \cup {i}
    BY <1>12, ResendFacts DEF Return
  <2>3. i \in Items(plan) /\ i \in Item
    BY <2>1, <2>2 DEF ControlInv, TypeOK
  <2>4. ASSUME NEW p \in 1..Len(Plan), NEW k \in 1..Len(Plan[p]), Unsent(p, k)'
        PROVE  Unsent(p, k) /\ Plan[p][k] \notin {i}
    <3>1. p > plan
      BY <2>1, <2>2, <2>4 DEF Unsent, Probing
    <3>2. p # plan
      BY <1>1, <3>1
    <3>3. Items(p) \cap Items(plan) = {}
      BY <2>1, <3>2, DeployAssumption
    <3>4. Plan[p][k] \in Items(p)
      BY ItemsOfPlans
    <3> QED
      BY <2>3, <3>1, <3>3, <3>4 DEF Unsent
  <2>5. Caused \subseteq Caused' /\ i \in Caused'
    BY <2>1, <2>2 DEF Caused
  <2>6. CASE Grown(box, box', pinned, Commands({i}))
    BY <2>1, <2>3, <2>4, <2>5, <2>6, OnceGrows
  <2>7. CASE box' = box
    <3>1. Moved(box, box')
      BY <2>7, Unchanged, ShrunkMoves
    <3> QED
      BY <1>5, <2>1, <2>4, <2>5, <3>1
  <2> QED
    BY <2>2, <2>6, <2>7
<1>13. CASE Slipping
  BY <1>13, OnceSlips
<1> QED
  BY <1>6, <1>7, <1>8, <1>9, <1>10, <1>11, <1>12, <1>13, StepCases

\* No step takes anything out of the workspace.
LEMMA CopiesGrow ==
    ASSUME TypeOK, ControlInv, [Next]_vars
    PROVE  \A i \in Item : copies[i] \in Nat /\ copies'[i] \in Nat /\ copies'[i] >= copies[i]
<1>1. \A i \in Item : copies[i] \in Nat
  BY DEF TypeOK, Copies
<1>2. ASSUME NEW ch \in Channel, NEW n \in Nat, Execute(ch, n)
      PROVE  \A i \in Item : copies'[i] \in Nat /\ copies'[i] >= copies[i]
  BY <1>2, CopiesStay
<1>3. Slipping => \A i \in Item : copies'[i] \in Nat /\ copies'[i] >= copies[i]
  BY SlippingFacts
<1>4. ASSUME ~Slipping, ~(\E ch \in Channel : \E n \in Nat : Execute(ch, n))
      PROVE  copies' = copies
  BY <1>4, StepCases, ElsewhereFacts, QuietFacts, AskingFacts, GivingUpFacts, SendBatchFacts,
     ResendFacts DEF vars
<1> QED
  BY <1>1, <1>2, <1>3, <1>4

\* A deployment that ends without "ok" reports nothing as present.
LEMMA OtherReturn ==
    ASSUME TypeOK, PresentInv, NEW r, r # "ok", Return(r), plan' = plan
    PROVE  PresentInv'
<1>1. pc' = "idle" /\ result' = [result EXCEPT ![plan] = r]
  BY DEF Return
<1>2. \A p \in 1..Len(Plan) : p = plan => result'[p] # "ok"
  BY <1>1 DEF TypeOK
<1> QED
  BY <1>1, <1>2 DEF PresentInv, ReportedIsPresent

\* What was verified stays so, and is what is reported.
LEMMA PresentStep ==
    ASSUME TypeOK, ControlInv, ReplyInv, PresentInv, TypeOK', [Next]_vars
    PROVE  PresentInv'
<1>1. Len(Plan) \in Nat /\ plan \in 0..Len(Plan)
  BY DeployAssumption DEF TypeOK
<1>2. \A i \in Item : copies[i] \in Nat /\ copies'[i] \in Nat /\ copies'[i] >= copies[i]
  BY CopiesGrow
<1>3. \A p \in 1..Len(Plan) : \A i \in Items(p) : copies[i] > 0 => copies'[i] > 0
  BY <1>2, ItemsOfPlans
<1>4. plan # 0 => plan \in 1..Len(Plan)
  BY <1>1
<1>5. pc # "idle" => plan \in 1..Len(Plan) /\ result[plan] = None /\ None # "ok"
  BY <1>4 DEF TypeOK, ControlInv, None
\* What is failed or still to do gets no less, and the tool stays where it is.
<1>6. ASSUME UNCHANGED <<plan, pc, pinned, result>>, gaveUp => gaveUp', failed \subseteq failed',
             todo \cup failed \subseteq todo' \cup failed'
      PROVE  PresentInv'
  <2>1. Trusted' => Trusted
    BY <1>6 DEF Trusted
  <2>2. pc \in {"verify", "resend", "reverify"} => plan \in 1..Len(Plan)
    BY <1>5
  <2>3. Trusted' /\ pc' = "verify" =>
           \A i \in Items(plan') \ (todo' \cup failed') : copies'[i] > 0
    BY <1>3, <1>6, <2>1, <2>2 DEF PresentInv
  <2>4. Trusted' /\ pc' \in {"resend", "reverify"} =>
           \A i \in Items(plan') \ failed' : copies'[i] > 0
    BY <1>3, <1>6, <2>1, <2>2 DEF PresentInv
  <2>5. ReportedIsPresent'
    BY <1>3, <1>6, <2>1 DEF PresentInv, ReportedIsPresent, Trusted
  <2> QED
    BY <2>3, <2>4, <2>5 DEF PresentInv
\* Nothing is verified yet.
<1>7. ASSUME pc # "idle", UNCHANGED <<plan, result>>, pc' \notin {"verify", "resend", "reverify"}
      PROVE  PresentInv'
  BY <1>5, <1>7 DEF PresentInv, ReportedIsPresent
<1>8. ASSUME Elsewhere \/ Slipping \/ UNCHANGED vars PROVE PresentInv'
  <2>1. UNCHANGED <<tool, gaveUp>>
    BY <1>8, ElsewhereFacts, SlippingFacts DEF vars, history
  <2> QED
    BY <1>6, <2>1 DEF tool
<1>9. ASSUME NEW ch \in Channel, NEW n \in Nat, Execute(ch, n) PROVE PresentInv'
  BY <1>6, <1>9, ExecuteFacts DEF history
<1>10. ASSUME AskItem \/ \E ch \in Channel : SendProbe(ch) PROVE PresentInv'
  BY <1>6, <1>10, AskingFacts DEF history
<1>11. ASSUME ItemTimedOut \/ \E ch \in Channel : ProbeTimedOut(ch) PROVE PresentInv'
  <2>1. gaveUp' = TRUE /\ UNCHANGED <<plan, pinned, result>>
    BY <1>11, GivingUpFacts
  <2>2. CASE pc' = pc /\ todo' = todo \ {asked} /\ failed' = failed \cup {asked}
    BY <1>6, <2>1, <2>2
  <2>3. CASE pc \in Channel /\ pc' = AfterProbe(pc)
    BY <1>7, <2>1, <2>3 DEF Channel, AfterProbe
  <2> QED
    BY <1>11, <2>2, <2>3, GivingUpFacts
<1>12. ASSUME SendBatch PROVE PresentInv'
  <2>1. pc = "send" /\ plan' = plan /\ (Return("send_failed") \/ UNCHANGED <<pc, result>>)
    BY <1>12, SendBatchFacts
  <2> QED
    BY <1>7, <2>1, OtherReturn
<1>13. ASSUME Resend PROVE PresentInv'
  <2>1. /\ pc = "resend" /\ UNCHANGED <<plan, pinned, failed, gaveUp>>
        /\ Return("reconcile_failed") \/ UNCHANGED <<pc, result>>
    BY <1>13, ResendFacts
  <2>2. CASE UNCHANGED <<pc, result>>
    <3>1. plan \in 1..Len(Plan)
      BY <1>5, <2>1
    <3>2. Trusted' = Trusted
      BY <2>1 DEF Trusted
    <3> QED
      BY <1>3, <1>5, <2>1, <2>2, <3>1, <3>2 DEF PresentInv, ReportedIsPresent
  <2> QED
    BY <2>1, <2>2, OtherReturn
<1>14. ASSUME Quiet PROVE PresentInv'
  <2>1. UNCHANGED <<copies, gaveUp>>
    BY <1>14, QuietFacts DEF history
  <2>2. CASE Start
    <3>1. plan' = plan + 1 /\ plan + 1 \in 1..Len(Plan) /\ pc' \in {"idle", "http"}
          /\ result' \in {result, [result EXCEPT ![plan + 1] = "no_bridge"]}
      BY <1>1, <2>2 DEF Start
    <3>2. result[plan + 1] = None /\ None # "ok"
      BY <1>1, <3>1 DEF ControlInv, None
    <3>3. result'[plan + 1] # "ok"
      BY <3>1, <3>2 DEF TypeOK
    <3> QED
      BY <3>1, <3>3 DEF PresentInv, ReportedIsPresent
  <2>3. CASE Select
    <3>1. pc = "select" /\ plan' = plan
          /\ (Return("no_channel") \/ (pc' = "send" /\ result' = result))
      BY <2>3 DEF Select
    <3> QED
      BY <1>7, <3>1, OtherReturn
  <2>4. CASE BeginVerify
    <3>1. pc = "send" /\ pc' = "verify" /\ todo' = Items(plan) /\ UNCHANGED <<plan, result>>
      BY <2>4 DEF BeginVerify
    <3> QED
      BY <1>5, <3>1 DEF PresentInv, ReportedIsPresent
  <2>5. CASE ItemAnswered
    <3>1. /\ pc \in Verifying /\ UNCHANGED <<plan, pc, pinned, result>> /\ asked # None
          /\ todo' = todo \ {asked}
          /\ failed' = IF Confirms(asked) THEN failed \ {asked} ELSE failed \cup {asked}
      BY <2>5 DEF ItemAnswered, Answered, Verifying
    <3>2. Trusted' = Trusted /\ plan \in 1..Len(Plan)
      BY <1>5, <2>1, <3>1 DEF Trusted, Verifying
    <3>3. asked \in Item /\ asked # Probe
      BY <3>1, DeployAssumption DEF ControlInv, TypeOK
    <3>4. Trusted = Own
      BY <3>1 DEF Trusted, Own, Current, Verifying, Channel
    <3>5. Trusted /\ asked \notin failed' => copies[asked] > 0
      BY <3>1, <3>3, <3>4 DEF Confirms, ReplyInv
    <3>6. Trusted /\ pc = "verify" => \A i \in Items(plan) \ (todo' \cup failed') : copies[i] > 0
      BY <3>1, <3>5 DEF PresentInv
    <3>7. Trusted /\ pc = "reverify" => \A i \in Items(plan) \ failed' : copies[i] > 0
      BY <3>1, <3>5 DEF PresentInv
    <3>8. ReportedIsPresent'
      BY <1>5, <3>1 DEF ReportedIsPresent, Verifying
    <3>9. pc' # "resend"
      BY <3>1 DEF Verifying
    <3> QED
      BY <2>1, <3>1, <3>2, <3>6, <3>7, <3>8, <3>9 DEF PresentInv
  <2>6. CASE EndVerify
    <3>1. pc = "verify" /\ todo = {} /\ UNCHANGED <<plan, pinned, failed>> /\ Trusted' = Trusted
      BY <2>1, <2>6 DEF EndVerify, Trusted
    <3>2. Trusted => \A i \in Items(plan) \ failed : copies'[i] > 0
      BY <2>1, <3>1 DEF PresentInv
    <3>3. \/ failed = {} /\ pc' = "idle" /\ result' = [result EXCEPT ![plan] = "ok"]
          \/ pc' = "resend" /\ result' = result
      BY <2>6 DEF EndVerify, Return
    <3> QED
      BY <1>5, <3>1, <3>2, <3>3 DEF PresentInv, ReportedIsPresent, Trusted
  <2>7. CASE BeginReverify
    <3>1. pc = "resend" /\ pc' = "reverify" /\ UNCHANGED <<plan, pinned, failed, result>>
          /\ Trusted' = Trusted
      BY <2>1, <2>7 DEF BeginReverify, Trusted
    <3> QED
      BY <1>5, <2>1, <3>1 DEF PresentInv, ReportedIsPresent
  <2>8. CASE EndReverify
    <3>1. pc = "reverify" /\ UNCHANGED <<plan, pinned>> /\ Trusted' = Trusted
          /\ Return(IF failed = {} THEN "ok" ELSE "incomplete")
      BY <2>1, <2>8 DEF EndReverify, Trusted
    <3>2. CASE failed # {}
      BY <3>1, <3>2, OtherReturn
    <3>3. CASE failed = {}
      <4>1. Trusted => \A i \in Items(plan) : copies'[i] > 0
        BY <2>1, <3>1, <3>3 DEF PresentInv
      <4>2. pc' = "idle"
        BY <3>1 DEF Return
      <4> QED
        BY <3>1, <4>1, <4>2 DEF PresentInv, ReportedIsPresent, Trusted
    <3> QED
      BY <3>2, <3>3
  <2>9. ASSUME NEW ch \in Channel, SkipProbe(ch) \/ ProbeAnswered(ch) PROVE PresentInv'
    <3>1. pc # "idle" /\ UNCHANGED <<plan, result>> /\ pc' \in {"file", "select"}
      BY <2>9 DEF SkipProbe, ProbeAnswered, AfterProbe, Channel
    <3> QED
      BY <1>7, <3>1
  <2> QED
    BY <1>14, <2>2, <2>3, <2>4, <2>5, <2>6, <2>7, <2>8, <2>9 DEF Quiet
<1> QED
  BY <1>8, <1>9, <1>10, <1>11, <1>12, <1>13, <1>14, StepCases

-----------------------------------------------------------------------------
(* The theorems.                                                           *)

\* The tool begins with empty channels and an empty workspace.
LEMMA InitInv == Init => Inv
<1> SUFFICES ASSUME Init
             PROVE  Inv
  OBVIOUS
<1>1. \A ch \in Channel : box[ch] = <<>> /\ Len(box[ch]) = 0
  BY DEF Init
<1>2. Len(Plan) \in Nat
  BY DeployAssumption
<1>3. TypeOK
  <2>1. Nothing \in Reply
    BY DEF Nothing, Reply
  <2>2. copies \in Copies
    BY DEF Init, Copies, Link
  <2>3. box \in [Channel -> Seq(Payload)]
    BY DEF Init
  <2>4. /\ up \subseteq Channel /\ fresh \subseteq Channel /\ faults \in Nat
        /\ responsive \subseteq Channel /\ pinned \in Channel \cup {None} /\ sent \in Nat
        /\ todo \subseteq Item /\ failed \subseteq Item /\ asked \in Asked \cup {None}
        /\ resent \subseteq Item /\ gaveUp \in BOOLEAN
        /\ stuck \subseteq Slip /\ kept \subseteq Item
    BY DEF Init
  <2>5. plan \in 0..Len(Plan) /\ pc = "idle" /\ reply \in Reply /\ DOMAIN result = 1..Len(Plan)
    BY <1>2, <2>1 DEF Init
  <2> QED
    BY <2>2, <2>3, <2>4, <2>5 DEF TypeOK
<1>4. ControlInv
  BY DEF Init, ControlInv, Probing, Deploying
<1>5. QuestionInv
  BY <1>1 DEF QuestionInv
<1>6. ReplyInv
  BY DEF Init, ReplyInv, Nothing
<1>7. EarlierInv
  BY DEF Init, EarlierInv, EarlierIsOver, Probing
<1>8. OnceInv
  BY <1>1, ItemsOfPlans DEF Init, OnceInv, StuckInv, RepeatedForCause
<1>9. PresentInv
  BY DEF Init, PresentInv, ReportedIsPresent
<1> QED
  BY <1>3, <1>4, <1>5, <1>6, <1>7, <1>8, <1>9 DEF Inv

\* Every state is one of the invariant: what the tool waits for is the last
\* question of its channel, what an answer confirms is there, and each command
\* that was sent once, and whose request did not stay after it had run, is in
\* one place at most.
THEOREM InvHolds == Spec => []Inv
<1>1. Inv /\ [Next]_vars => Inv'
  <2> SUFFICES ASSUME Inv, [Next]_vars
               PROVE  Inv'
    OBVIOUS
  <2>1. TypeOK' /\ ControlInv'
    BY TypeStep, ControlStep DEF Inv
  <2>2. QuestionInv' /\ ReplyInv'
    BY QuestionStep, ReplyStep DEF Inv
  <2>3. EarlierInv' /\ OnceInv' /\ PresentInv'
    BY <2>1, EarlierStep, OnceStep, PresentStep DEF Inv
  <2> QED
    BY <2>1, <2>2, <2>3 DEF Inv
<1> QED
  BY <1>1, InitInv, PTL DEF Spec

\* pt_live_deploy reports a topology as deployed and observed only when every
\* device and link of the plan is in the workspace, as long as it verifies over
\* the mailbox or no question was given up: for all plans, all batch sizes, and
\* however often the executors stop, lose a batch or run late.
THEOREM ReportsArePresent == Spec => []ReportedIsPresent
<1>1. Inv => ReportedIsPresent
  BY DEF Inv, PresentInv
<1> QED
  BY <1>1, InvHolds, PTL

\* No command is applied a second time but one that the reconcile of
\* pt_live_deploy has sent again, or whose request the mailbox could not remove
\* after it had run: neither an ambiguous send, nor a batch that runs late, nor
\* a request that was passed over repeats one.
THEOREM RepeatsHaveACause == Spec => []RepeatedForCause
<1>1. Inv => RepeatedForCause
  BY DEF Inv, OnceInv
<1> QED
  BY <1>1, InvHolds, PTL

\* The probe of _command_path_probe clears the channel: while a deployment
\* sends and verifies, no command of an earlier one waits in the order of its
\* channel; what is left of an earlier one are requests of the mailbox that it
\* passed over or could not remove.
THEOREM EarlierCommandsAreOver == Spec => []EarlierIsOver
<1>1. Inv => EarlierIsOver
  BY DEF Inv, EarlierInv
<1> QED
  BY <1>1, InvHolds, PTL
=============================================================================
