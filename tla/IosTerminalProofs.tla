-------------------------- MODULE IosTerminalProofs --------------------------
(***************************************************************************)
(* Proofs about IosTerminal, for any queries, tables and terminals.        *)
(***************************************************************************)
EXTENDS IosTerminal, FiniteSetTheorems, WellFoundedInduction, TLAPS

What     == {"echo", "bad", "row", "more", "prompt", "reject", "log", "word", "dialog", "press"}
TokenSet == [what : What, of : Query \cup {"none"}, n : Nat, at : Nat]
Tokens   == Seq(TokenSet)
Windows  == [fresh : BOOLEAN, output : Tokens]
Classes  == {"none", "dispatched", "lost", "unobservable"}
KeySet   == [what : {"no", "return", "enable", "disable", "etx", "space"}, of : {"none"},
             whole : {TRUE}] \cup [what : {"command"}, of : Query, whole : BOOLEAN]

\* Before the query is typed, while its answer is read, and after.
Preparing == {"prepare", "again", "say_no", "said_no", "say_return", "greeted"}
AtExec    == {"mode", "enable", "enabling", "dispatch", "converge", "attribute", "advance",
              "progress"}
Reading   == {"converge", "attribute", "advance", "progress"}
Places    == {"idle", "cancel", "cancelling", "conclude", "restore", "done"} \cup Preparing \cup AtExec

Asks == [of : Query \cup {"none"}, attempt : Nat, restore : BOOLEAN, quiet : BOOLEAN, mine : Nat,
         before : Tokens, converged : BOOLEAN, window : Windows, class : Classes,
         output : Tokens, complete : BOOLEAN, pages : Nat, last : Tokens, seen : Tokens,
         then : {"none", "again", "conclude"}, anchored : BOOLEAN]

Jobs == {Idle} \cup [of : Query, next : Nat \ {0}, page : Nat, paused : BOOLEAN]
Counts == [turns : Nat, lost : Nat, overruns : Nat, garbled : Nat, logs : 0..MaxLogs]

TypeOK ==
    /\ stage \in {"booting", "dialog", "return", "exec"} /\ mode \in {"user", "privileged"}
    /\ text \in Tokens
    /\ job \in Jobs
    /\ ahead \in Seq(KeySet) /\ late \in Seq(KeySet) /\ typed \in Nat
    /\ pc \in Places
    /\ ask \in Asks /\ (pc # "idle" => ask.of \in Query)
    /\ pc \in {"cancel", "cancelling", "advance", "progress"} => ask.then # "none"
    /\ count \in Counts

\* A page is not longer than what was printed, and stops where it is full.
JobInv ==
    job # Idle =>
        /\ job.page < job.next /\ job.next <= Rows[job.of] + 1
        /\ job.paused => job.page = PageRows /\ job.next <= Rows[job.of]

\* Syslog lines in a row, and marks of a pager in a row, in any text.
LogRuns(t, m) ==
    \A i, j \in 0..Len(t) : i <= j /\ (\A k \in i+1..j : IsLog(t[k])) => j - i <= m
LoneMarks(t) ==
    \A i \in 1..Len(t) : i < Len(t) => ~(t[i].what = "more" /\ t[i + 1].what = "more")

\* The mark of a pager is only last while the pager waits, and is never written
\* behind another.
MoreInv == LoneMarks(text) /\ (text # <<>> /\ text[Len(text)].what = "more" => job.paused)

\* Syslog lines in a row are not more than were written.
LogInv == LogRuns(text, count.logs)

\* What holds of the terminal alone.
TerminalInv == JobInv /\ MoreInv /\ LogInv

\* While an answer is read nothing runs late, and at a terminal that was at
\* rest nothing else prints, or is typed but the key for another page.
ReadingInv ==
    /\ pc \in AtExec => stage = "exec"
    /\ pc \in Reading => late = <<>>
    /\ ask.mine <= typed
    /\ pc \in Reading /\ ask.quiet =>
          /\ \A i \in 1..Len(ahead) : ahead[i].what = "space"
          /\ job = Idle \/ job.of = ask.of

\* The text is what it kept of s, r tokens, and what was written since.
Since(s, t, r) ==
    /\ r \in 0..Len(t) /\ r <= Len(s)
    /\ \A i \in 1..r : t[i] = s[Len(s) - r + i]

\* A row this query may return.
Mine == {token \in TokenSet : IsRow(token) => /\ token.at >= ask.mine
                                              /\ ask.quiet => token.of = ask.of}
AllIn(tokens, M) == \A i \in 1..Len(tokens) : tokens[i] \in M
AllMine(tokens)  == AllIn(tokens, Mine)

\* Rows of the query that were printed.
Printed == IF job = Idle THEN Rows[ask.of] ELSE job.next - 1

\* What a terminal at rest writes when a query is typed: w, of which the first
\* token has rolled away if nothing older is kept and it is no echo.
Written(w, kept) ==
    /\ kept > 0 => w # <<>> /\ w[1].what \in {"echo", "bad"}
    /\ \A i \in 1..Len(w) :
          /\ w[i].what \in {"echo", "bad", "row", "more", "prompt", "reject", "log"}
          /\ w[i].what \in {"bad", "reject", "prompt"} => job = Idle
          /\ w[i].what = "more" => job.paused /\ \A j \in i+1..Len(w) : IsLog(w[j])
          /\ job.paused /\ ~IsLog(w[i]) => \E j \in i..Len(w) : w[j].what = "more"
          /\ w[i].what = "echo" =>
                i = 1 /\ ((job = Idle /\ Rejected(w)) \/ InOrder(w, 0, Printed))

FirstPage ==
    /\ ~HasActivePager(ask.before) /\ (ask.quiet => ahead = <<>>)
    /\ pc = "attribute" /\ ask.quiet /\ ask.converged => job = Idle \/ job.paused
    /\ \E r \in 0..Len(text) :
          /\ Since(ask.before, text, r) /\ AllMine(After(text, r))
          /\ ask.quiet => Written(After(text, r), r)

\* The last row of the page stands at l, and only syslog lines behind it.
PageEnds(base, l, n) ==
    /\ IsRow(base[l]) /\ base[l].n = n
    /\ \A j \in l+1..Len(base) : IsLog(base[j])

\* What is written after row n, when the pager has been answered or waits for it.
Continued(w, n) ==
    \A i \in 1..Len(w) :
        /\ w[i].what \in {"log", "row", "more", "prompt"}
        /\ IsRow(w[i]) => w[i].n > n
        /\ w[i].what = "prompt" => job = Idle /\ \A j \in i+1..Len(w) : IsLog(w[j])
        /\ IsRow(w[i]) => \A j \in i+1..Len(w) : w[j].what = "more" =>
              job.paused /\ \A k \in j+1..Len(w) : IsLog(w[k])
        /\ pc = "advance" => ~IsRow(w[i])

\* The answer so far is rows 1 to n, the last at l of the page that was read.
Answered(base, r, n, l) ==
    /\ PageEnds(base, l, n) /\ InOrder(ask.output, 0, n)
    /\ Continued(After(text, r), n) /\ Printed >= n
    /\ ahead = <<>> /\ (pc = "advance" => job.paused /\ Printed = n)
    /\ r > Len(base) - l => InOrder(After(text, r), n, Printed)

\* The hypotheses of CompleteIsWhole.
Whole == ask.anchored /\ ask.quiet /\ ask.converged /\ ask.class = "dispatched"

NextPage ==
    LET base == DropPagerPrompt(ask.seen) IN
    /\ HasActivePager(ask.seen) /\ (base # <<>> => base[Len(base)].what # "more")
    /\ ask.complete
    /\ \E r \in 0..Len(text) :
          /\ Since(base, text, r) /\ AllMine(After(text, r))
          /\ Whole => \E n \in 0..Rows[ask.of] : \E l \in 1..Len(base) : Answered(base, r, n, l)

\* Part of the answer has been read, and no more than that is noted.
Answering ==
    \/ pc \in {"advance", "progress", "conclude"}
    \/ pc \in {"cancel", "cancelling"} /\ ask.then = "conclude"

\* What was read so far, up to the result.
OutputInv ==
    /\ Answering => AllMine(ask.output)
    /\ pc \in {"cancel", "cancelling"} /\ ask.then = "conclude" => ~ask.complete
    /\ pc = "conclude" /\ Whole /\ ask.complete =>
          Rejected(ask.output) \/ InOrder(ask.output, 0, Rows[ask.of])

Inv ==
    /\ TypeOK /\ TerminalInv /\ ReadingInv /\ OutputInv
    /\ pc \in {"converge", "attribute"} => FirstPage
    /\ pc \in {"advance", "progress"} => NextPage

-----------------------------------------------------------------------------
(* Sequences.                                                              *)

\* After drops what stands first (fresh_command_window slices its text).
LEMMA AfterFacts ==
    ASSUME NEW S, NEW s \in Seq(S), NEW n \in 0..Len(s)
    PROVE  /\ After(s, n) \in Seq(S) /\ Len(After(s, n)) = Len(s) - n
           /\ \A i \in 1..Len(s) - n : After(s, n)[i] = s[n + i]
  BY DEF After

\* The constants are what IosAssumption says, one by one.
LEMMA ConstantTypes ==
    /\ "none" \notin Query /\ Rows \in [Query -> Nat]
    /\ PageRows \in Nat /\ PageRows > 0 /\ Retains \in Nat /\ Retains > 0
    /\ MinAnchor \in Nat /\ MinAnchor > 0 /\ MaxPages \in Nat /\ MaxAttempts \in Nat
    /\ MaxTurns \in Nat /\ MaxLost \in Nat /\ MaxOverruns \in Nat /\ MaxGarbled \in Nat
    /\ MaxLogs \in Nat
<1>1. \A n \in {PageRows, Retains, MaxPages, MaxAttempts, MinAnchor} : n \in Nat /\ n > 0
  <2>1. \A n \in Nat \ {0} : n \in Nat /\ n > 0
    OBVIOUS
  <2> QED
    BY <2>1, IosAssumption
<1>2. \A n \in {MaxTurns, MaxLost, MaxOverruns, MaxGarbled, MaxLogs} : n \in Nat
  BY IosAssumption
<1> QED
  BY <1>1, <1>2, IosAssumption

\* What stands first in a sequence.
LEMMA FrontFacts ==
    ASSUME NEW S, NEW s \in Seq(S), NEW n \in 0..Len(s)
    PROVE  /\ SubSeq(s, 1, n) \in Seq(S) /\ Len(SubSeq(s, 1, n)) = n
           /\ \A i \in 1..n : SubSeq(s, 1, n)[i] = s[i]
  OBVIOUS

\* Kept drops from the front only (the terminal keeps the end of its text).
LEMMA KeptFacts ==
    ASSUME NEW S, NEW s \in Seq(S)
    PROVE  \E d \in 0..Len(s) : Kept(s) = After(s, d)
<1>1. CASE Len(s) > Retains
  <2>0. Len(s) \in Nat
    OBVIOUS
  <2>1. Len(s) - Retains \in 0..Len(s)
    BY <1>1, <2>0, ConstantTypes
  <2> QED
    BY <1>1, <2>1 DEF Kept
<1>2. CASE ~(Len(s) > Retains)
  <2>1. After(s, 0) = s
    BY DEF After
  <2> QED
    BY <1>2, <2>1 DEF Kept
<1> QED
  BY <1>1, <1>2

\* What two sequences give when one is written behind the other.
LEMMA Joined ==
    ASSUME NEW S, NEW s \in Seq(S), NEW t \in Seq(S)
    PROVE  /\ s \o t \in Seq(S) /\ Len(s \o t) = Len(s) + Len(t)
           /\ Len(s) \in Nat /\ Len(t) \in Nat
           /\ \A i \in 1..Len(s) + Len(t) :
                 (s \o t)[i] = IF i <= Len(s) THEN s[i] ELSE t[i - Len(s)]
  OBVIOUS

\* A set of numbers that is not empty has a least one.
LEMMA LeastOfNumbers ==
    ASSUME NEW N \in SUBSET Nat, N # {}
    PROVE  \E m \in N : \A k \in N : m <= k
<1> DEFINE R == {ss \in Nat \X Nat : ss[1] < ss[2]}
<1>1. IsWellFoundedOn(R, Nat)
  BY NatLessThanWellFounded, Zenon DEF OpToRel
<1>2. PICK m \in N : \A k \in N : ~(<<k, m>> \in R)
  <2> HIDE DEF R
  <2> QED
    BY <1>1, WFMin
<1>3. ASSUME NEW k \in N
      PROVE  ~(k < m)
  <2>1. k < m => <<k, m>> \in R
    OBVIOUS
  <2> HIDE DEF R
  <2> QED
    BY <2>1, <1>2
<1>4. \A k \in N : k \in Nat /\ m \in Nat
  OBVIOUS
<1> HIDE DEF R
<1> QED
  BY <1>3, <1>4

\* Max of numbers that are bounded (LongestRetainedSuffix, LastSaid).
LEMMA MaxFacts ==
    ASSUME NEW b \in Nat, NEW N \in SUBSET (0..b), N # {}
    PROVE  Max(N) \in N /\ \A k \in N : k <= Max(N)
<1> DEFINE C == {b - k : k \in N}
<1>1. C \in SUBSET Nat /\ C # {}
  <2>1. \A k \in N : b - k \in Nat
    OBVIOUS
  <2> QED
    BY <2>1
<1>2. PICK m \in C : \A k \in C : m <= k
  <2> HIDE DEF C
  <2> QED
    BY <1>1, LeastOfNumbers
<1>3. PICK x \in N : m = b - x
  BY <1>2
<1>4. \A y \in N : b - y \in C
  OBVIOUS
<1>5. \A y \in N : y \in 0..b
  OBVIOUS
<1>6. ASSUME NEW y \in N
      PROVE  x >= y
  <2>1. b - x <= b - y
    <3> HIDE DEF C
    <3> QED
      BY <1>2, <1>3, <1>4
  <2> QED
    BY <2>1, <1>5
<1>7. \E z \in N : \A y \in N : z >= y
  BY <1>6
<1>8. Max(N) \in N /\ \A y \in N : Max(N) >= y
  BY <1>7 DEF Max
<1> QED
  BY <1>8, <1>5

\* The least of two numbers.
LEMMA MinOfTwo ==
    ASSUME NEW a \in Nat, NEW b \in Nat
    PROVE  Min({a, b}) = IF a <= b THEN a ELSE b
  BY DEF Min

\* Sequences that agree everywhere are equal.
LEMMA SameSequence ==
    ASSUME NEW S, NEW s \in Seq(S), NEW t \in Seq(S), Len(s) = Len(t),
           \A i \in 1..Len(s) : s[i] = t[i]
    PROVE  s = t
  OBVIOUS

\* Dropping twice is dropping once.
LEMMA AfterAfter ==
    ASSUME NEW S, NEW s \in Seq(S), NEW m \in Nat, NEW n \in Nat, m + n <= Len(s)
    PROVE  After(After(s, m), n) = After(s, m + n)
<1> DEFINE v == After(s, m)
           f == After(v, n)
           g == After(s, m + n)
           a == Len(s)
<1>1. a \in Nat /\ m \in 0..a /\ m + n \in 0..a /\ n \in 0..a - m /\ a - (m + n) \in Nat
      /\ (a - m) - n = a - (m + n) /\ m + n <= a
  OBVIOUS
<1>b. s \in Seq(S) /\ m \in 0..Len(s) /\ m + n \in 0..Len(s)
  BY <1>1
<1>2. v \in Seq(S) /\ Len(v) = a - m /\ \A i \in 1..a - m : v[i] = s[m + i]
  BY ONLY <1>b, AfterFacts
<1>3. g \in Seq(S) /\ Len(g) = a - (m + n) /\ \A i \in 1..a - (m + n) : g[i] = s[(m + n) + i]
  BY ONLY <1>b, AfterFacts
<1> HIDE DEF v, g, a
<1>4. f \in Seq(S) /\ Len(f) = Len(v) - n /\ \A i \in 1..Len(v) - n : f[i] = v[n + i]
  <2>1. v \in Seq(S) /\ n \in 0..Len(v)
    BY ONLY <1>1, <1>2
  <2> QED
    BY ONLY <2>1, AfterFacts
<1> HIDE DEF f
<1>5. Len(f) = a - (m + n) /\ \A i \in 1..a - (m + n) : f[i] = v[n + i]
  <2>1. Len(v) - n = a - (m + n)
    BY ONLY <1>1, <1>2
  <2> QED
    BY ONLY <1>4, <2>1
<1>6. ASSUME NEW i \in 1..a - (m + n)
      PROVE  f[i] = g[i]
  <2>1. PICK j \in 1..a - m : j = n + i
    <3>1. n + i \in 1..a - m
      BY <1>1
    <3> QED
      BY ONLY <3>1
  <2>2. m + j = (m + n) + i
    BY <1>1, <2>1
  <2>3. f[i] = v[j]
    BY ONLY <1>5, <2>1
  <2>4. v[j] = s[m + j]
    BY ONLY <1>2
  <2>5. g[i] = s[(m + n) + i]
    BY ONLY <1>3
  <2> QED
    BY ONLY <2>2, <2>3, <2>4, <2>5
<1>7. f = g
  <2>1. \A i \in 1..Len(f) : f[i] = g[i]
    BY ONLY <1>5, <1>6
  <2> QED
    BY ONLY <1>3, <1>4, <1>5, <2>1, SameSequence
<1> QED
  BY ONLY <1>7 DEF f, g, v

\* What is dropped of what stands first may be dropped before the rest is added.
LEMMA AfterJoined ==
    ASSUME NEW S, NEW s \in Seq(S), NEW x \in Seq(S), NEW r \in 0..Len(s)
    PROVE  After(s, r) \o x = After(s \o x, r)
<1> DEFINE w == After(s, r)
           f == w \o x
           v == s \o x
           g == After(v, r)
           a == Len(s)
           c == Len(x)
<1>1. a \in Nat /\ c \in Nat /\ r \in 0..a /\ r \in Nat /\ a - r \in Nat /\ r \in 0..a + c
      /\ (a + c) - r = (a - r) + c /\ s \in Seq(S) /\ x \in Seq(S)
  OBVIOUS
<1>2. w \in Seq(S) /\ Len(w) = a - r /\ \A i \in 1..a - r : w[i] = s[r + i]
  BY AfterFacts
<1>3. v \in Seq(S) /\ Len(v) = a + c
      /\ \A i \in 1..a + c : v[i] = IF i <= a THEN s[i] ELSE x[i - a]
  BY Joined
<1>a. c = Len(x)
  OBVIOUS
<1> HIDE DEF w, v, a, c
<1>4. f \in Seq(S) /\ Len(f) = (a - r) + c
      /\ \A i \in 1..(a - r) + c : f[i] = IF i <= a - r THEN w[i] ELSE x[i - (a - r)]
  <2>1. f \in Seq(S) /\ Len(f) = Len(w) + Len(x)
        /\ \A i \in 1..Len(w) + Len(x) : f[i] = IF i <= Len(w) THEN w[i] ELSE x[i - Len(w)]
    BY ONLY <1>1, <1>2, Joined
  <2> HIDE DEF f
  <2> QED
    BY ONLY <2>1, <1>2, <1>a
<1>5. g \in Seq(S) /\ Len(g) = (a - r) + c /\ \A i \in 1..(a - r) + c : g[i] = v[r + i]
  <2>1. g \in Seq(S) /\ Len(g) = Len(v) - r /\ \A i \in 1..Len(v) - r : g[i] = v[r + i]
    <3>1. v \in Seq(S) /\ r \in 0..Len(v)
      BY ONLY <1>1, <1>3
    <3> QED
      BY ONLY <3>1, AfterFacts
  <2> HIDE DEF g
  <2>2. Len(v) - r = (a - r) + c
    BY ONLY <1>1, <1>3
  <2> QED
    BY ONLY <2>1, <2>2
<1> HIDE DEF f, g
<1>6. ASSUME NEW i \in 1..(a - r) + c
      PROVE  f[i] = g[i]
  <2>1. PICK j \in 1..a + c : j = r + i
    <3>1. r + i \in 1..a + c
      BY <1>1
    <3> QED
      BY ONLY <3>1
  <2>2. g[i] = v[j]
    BY ONLY <1>5, <2>1
  <2>3. CASE i <= a - r
    <3>1. j <= a /\ i \in 1..a - r
      BY <1>1, <2>1, <2>3
    <3>2. f[i] = w[i]
      BY ONLY <1>4, <2>3
    <3>3. w[i] = s[j]
      BY ONLY <1>2, <2>1, <3>1
    <3>4. v[j] = s[j]
      BY ONLY <1>3, <3>1
    <3> QED
      BY ONLY <2>2, <3>2, <3>3, <3>4
  <2>4. CASE ~(i <= a - r)
    <3>1. ~(j <= a) /\ j - a \in Int /\ j - a = i - (a - r)
      BY <1>1, <2>1, <2>4
    <3>2. PICK p \in Int : p = j - a /\ p = i - (a - r)
      BY ONLY <3>1
    <3>3. f[i] = x[p]
      BY ONLY <1>4, <2>4, <3>2
    <3>4. v[j] = x[p]
      BY ONLY <1>3, <3>1, <3>2
    <3> QED
      BY ONLY <2>2, <3>3, <3>4
  <2> QED
    BY ONLY <2>3, <2>4
<1>7. f = g
  <2>1. \A i \in 1..Len(f) : f[i] = g[i]
    BY ONLY <1>4, <1>6
  <2> QED
    BY ONLY <1>4, <1>5, <2>1, SameSequence
<1> QED
  BY ONLY <1>7 DEF f, g, w, v

\* A text that follows another still does when something is added and the front
\* rolls away: it keeps less of it, and only then loses what it added before.
LEMMA SinceGrows ==
    ASSUME NEW S, NEW s \in Seq(S), NEW t \in Seq(S), NEW x \in Seq(S), NEW r, Since(s, t, r),
           NEW d \in 0..Len(t \o x), NEW u, u = After(t \o x, d)
    PROVE  \E q \in 0..Len(u), e \in 0..Len(After(t, r) \o x) :
              /\ Since(s, u, q) /\ q <= r /\ (e = 0 \/ q = 0)
              /\ After(u, q) = After(After(t, r) \o x, e)
<1> DEFINE w  == After(t, r)
           wx == w \o x
           tx == t \o x
           a  == Len(s)
           b  == Len(t)
           c  == Len(x)
           n  == Len(u)
<1>1. /\ r \in 0..b /\ r <= a /\ a \in Nat /\ b \in Nat /\ c \in Nat
      /\ \A i \in 1..r : t[i] = s[a - r + i]
  BY DEF Since
<1>2. /\ tx \in Seq(S) /\ Len(tx) = b + c
      /\ \A i \in 1..b + c : tx[i] = IF i <= b THEN t[i] ELSE x[i - b]
  BY Joined
<1>3. u = After(tx, d) /\ d \in 0..Len(tx)
  OBVIOUS
<1>4. w \in Seq(S) /\ Len(w) = b - r /\ \A i \in 1..b - r : w[i] = t[r + i]
  BY <1>1, AfterFacts
<1>5. x \in Seq(S) /\ Len(x) = c
  OBVIOUS
<1>e. b = Len(t) /\ a = Len(s) /\ n = Len(u)
  OBVIOUS
<1>g. w = After(t, r)
  OBVIOUS
<1>j. wx = After(tx, r)
  BY <1>1, AfterJoined
<1> HIDE DEF w, tx, a, b, c, n
<1>6. /\ wx \in Seq(S) /\ Len(wx) = b - r + c
      /\ \A i \in 1..b - r + c : wx[i] = IF i <= b - r THEN w[i] ELSE x[i - (b - r)]
  <2>1. /\ wx \in Seq(S) /\ Len(wx) = Len(w) + Len(x)
        /\ \A i \in 1..Len(w) + Len(x) : wx[i] = IF i <= Len(w) THEN w[i] ELSE x[i - Len(w)]
    BY ONLY <1>4, <1>5, Joined
  <2> HIDE DEF wx
  <2> QED
    BY ONLY <2>1, <1>4, <1>5
<1>h. wx = After(t, r) \o x
  BY <1>g
<1> HIDE DEF wx
<1>7. u \in Seq(S) /\ n = b + c - d /\ \A i \in 1..b + c - d : u[i] = tx[d + i]
  <2>1. /\ u \in Seq(S) /\ Len(u) = Len(tx) - d
        /\ \A i \in 1..Len(tx) - d : u[i] = tx[d + i]
    BY ONLY <1>2, <1>3, AfterFacts
  <2> QED
    BY ONLY <2>1, <1>1, <1>2, <1>3, <1>e
<1> DEFINE q == IF d <= r THEN r - d ELSE 0
           e == IF d <= r THEN 0 ELSE d - r
<1>8. d \in 0..b + c /\ d \in Nat /\ n \in Nat /\ b - r \in Nat /\ r \in Nat
  BY ONLY <1>1, <1>2, <1>3, <1>7
<1>9. /\ q \in 0..n /\ q <= r /\ q \in Nat /\ e \in 0..b - r + c /\ e \in Nat
      /\ (e = 0 \/ q = 0) /\ q + d = r + e /\ n - q = b - r + c - e
  BY ONLY <1>1, <1>7, <1>8
<1>k. d + q <= b + c
  <2>1. CASE d <= r
    BY ONLY <1>1, <1>8, <2>1
  <2>2. CASE ~(d <= r)
    BY ONLY <1>8, <2>2
  <2> QED
    BY ONLY <2>1, <2>2
<1>10. \A i \in 1..q : d + i \in 1..r /\ d + i \in 1..b + c /\ d + i <= b /\ i \in 1..b + c - d
                       /\ a - r + (d + i) = a - q + i
  BY ONLY <1>1, <1>8
<1> HIDE DEF q, e
<1>12. Since(s, u, q)
  <2>1. ASSUME NEW i \in 1..q
        PROVE  u[i] = s[a - q + i]
    <3>1. u[i] = tx[d + i]
      BY ONLY <1>1, <1>8, <1>9, <1>7, <1>10
    <3>2. tx[d + i] = t[d + i]
      BY ONLY <1>1, <1>8, <1>9, <1>2, <1>10
    <3>3. t[d + i] = s[a - r + (d + i)]
      BY ONLY <1>1, <1>8, <1>9, <1>10
    <3> QED
      BY ONLY <1>1, <1>8, <1>9, <3>1, <3>2, <3>3, <1>10
  <2>2. q \in 0..n /\ q <= a
    BY ONLY <1>1, <1>8, <1>9
  <2> QED
    BY ONLY <2>1, <2>2, <1>e DEF Since
<1>13. After(u, q) = After(wx, e)
  <2>1. After(u, q) = After(tx, d + q)
    <3>1. d + q <= Len(tx)
      BY ONLY <1>2, <1>k
    <3> QED
      BY ONLY <3>1, <1>2, <1>3, <1>8, <1>9, AfterAfter
  <2>2. wx = After(tx, r)
    BY ONLY <1>j
  <2>3. After(wx, e) = After(tx, r + e)
    <3>1. r + e <= Len(tx)
      BY ONLY <1>1, <1>2, <1>8, <1>9
    <3> QED
      BY ONLY <3>1, <2>2, <1>2, <1>8, <1>9, AfterAfter
  <2>4. d + q = r + e
    BY ONLY <1>8, <1>9
  <2> QED
    BY ONLY <2>1, <2>3, <2>4
<1>14. q \in 0..Len(u) /\ e \in 0..Len(After(t, r) \o x)
  BY <1>6, <1>9, <1>e, <1>h
<1> QED
  BY <1>9, <1>12, <1>13, <1>14, <1>h

\* The erased mark of a pager is of what was written since (Unpaged).
LEMMA SinceShrinks ==
    ASSUME NEW S, NEW s \in Seq(S), NEW t \in Seq(S), NEW r, Since(s, t, r), r < Len(t)
    PROVE  /\ SubSeq(t, 1, Len(t) - 1) \in Seq(S) /\ Len(SubSeq(t, 1, Len(t) - 1)) = Len(t) - 1
           /\ Since(s, SubSeq(t, 1, Len(t) - 1), r)
           /\ After(t, r) \in Seq(S) /\ Len(After(t, r)) = Len(t) - r
           /\ After(SubSeq(t, 1, Len(t) - 1), r) = SubSeq(After(t, r), 1, Len(After(t, r)) - 1)
<1>0. /\ SubSeq(t, 1, Len(t) - 1) \in Seq(S) /\ Len(SubSeq(t, 1, Len(t) - 1)) = Len(t) - 1
      /\ \A i \in 1..Len(t) - 1 : SubSeq(t, 1, Len(t) - 1)[i] = t[i]
  <2>1. Len(t) - 1 \in 0..Len(t)
    BY DEF Since
  <2> QED
    BY ONLY <2>1, t \in Seq(S), FrontFacts
<1> DEFINE u == SubSeq(t, 1, Len(t) - 1)
           w == After(t, r)
           f == After(u, r)
           g == SubSeq(w, 1, Len(w) - 1)
           a == Len(s)
           b == Len(t)
<1>1. /\ r \in 0..b /\ r \in 0..b - 1 /\ r <= a /\ b \in Nat /\ a \in Nat /\ b > 0
      /\ \A i \in 1..r : t[i] = s[a - r + i]
  BY DEF Since
<1>2. u \in Seq(S) /\ Len(u) = b - 1 /\ \A i \in 1..b - 1 : u[i] = t[i]
  BY <1>0
<1>3. w \in Seq(S) /\ Len(w) = b - r /\ \A i \in 1..b - r : w[i] = t[r + i]
  BY <1>1, AfterFacts
<1>4. f \in Seq(S) /\ Len(f) = b - 1 - r /\ \A i \in 1..b - 1 - r : f[i] = u[r + i]
  <2>1. r \in 0..Len(u) /\ u \in Seq(S) /\ Len(u) = b - 1
    BY <1>1, <1>2
  <2> HIDE DEF b
  <2>2. /\ f \in Seq(S) /\ Len(f) = Len(u) - r
        /\ \A i \in 1..Len(u) - r : f[i] = u[r + i]
    BY ONLY <2>1, AfterFacts
  <2> QED
    BY ONLY <2>1, <2>2
<1>5. g \in Seq(S) /\ Len(g) = b - r - 1 /\ \A i \in 1..b - r - 1 : g[i] = w[i]
  <2> HIDE DEF w, b
  <2>1. b - r \in Nat /\ b - r - 1 \in Nat
    BY <1>1
  <2> QED
    BY <2>1, <1>3
<1> HIDE DEF u, w, f, g, a, b
<1>6. Since(s, u, r)
  <2>1. \A i \in 1..r : i \in 1..b - 1
    BY ONLY <1>1
  <2> QED
    BY ONLY <1>1, <1>2, <2>1 DEF Since, a
<1>7. \A i \in 1..b - 1 - r : r + i \in 1..b - 1 /\ i \in 1..b - r /\ i \in 1..b - r - 1
  BY ONLY <1>1
<1>8. Len(f) = Len(g) /\ \A i \in 1..Len(f) : f[i] = g[i]
  BY ONLY <1>1, <1>2, <1>3, <1>4, <1>5, <1>7
<1>9. f = g
  BY ONLY <1>4, <1>5, <1>8, SameSequence
<1> QED
  BY <1>2, <1>3, <1>6, <1>9 DEF u, w, f, g, b

-----------------------------------------------------------------------------
(* Texts (CommandWindow).                                                  *)

\* What the program sees of two tokens is the same.
Alike(a, b) == a.what = b.what /\ a.n = b.n

\* Texts the program cannot tell apart are of one length, token for token.
LEMMA SameFacts ==
    ASSUME NEW s \in Tokens, NEW t \in Tokens, Same(s, t)
    PROVE  Len(s) = Len(t) /\ \A i \in 1..Len(s) : Alike(t[i], s[i])
<1>1. DOMAIN s = 1..Len(s) /\ DOMAIN t = 1..Len(t) /\ Len(s) \in Nat /\ Len(t) \in Nat
  BY DEF Tokens
<1>2. /\ DOMAIN Shown(s) = DOMAIN s
      /\ DOMAIN Shown(t) = DOMAIN t
  BY ONLY TRUE DEF Shown
<1>3. Shown(s) = Shown(t)
  BY DEF Same
<1>4. Len(s) = Len(t)
  <2>1. ASSUME NEW m \in Nat, NEW n \in Nat, 1..m = 1..n
        PROVE  m = n
    <3>1. (m > 0 => m \in 1..n) /\ (n > 0 => n \in 1..m)
      BY <2>1
    <3> QED
      BY <3>1
  <2>2. 1..Len(s) = 1..Len(t)
    BY <1>1, <1>2, <1>3
  <2> QED
    BY ONLY <2>1, <2>2, <1>1
<1>5. ASSUME NEW i \in 1..Len(s)
      PROVE  Alike(t[i], s[i])
  <2>1. s[i] \in TokenSet /\ t[i] \in TokenSet
    BY <1>4, <1>5 DEF Tokens
  <2>2. Shown(s)[i] = [s[i] EXCEPT !.at = 0] /\ Shown(t)[i] = [t[i] EXCEPT !.at = 0]
    BY <1>1, <1>4, <1>5 DEF Shown
  <2>3. [s[i] EXCEPT !.at = 0] = [t[i] EXCEPT !.at = 0]
    BY <2>2, <1>3
  <2> QED
    BY <2>1, <2>3 DEF Alike, TokenSet
<1> QED
  BY <1>4, <1>5

\* A text begins with another one token for token.
LEMMA StartsFacts ==
    ASSUME NEW s \in Tokens, NEW t \in Tokens, StartsWith(t, s)
    PROVE  Len(s) \in 0..Len(t) /\ \A i \in 1..Len(s) : Alike(t[i], s[i])
<1> DEFINE a == Shown(s)
           b == Shown(t)
<1>0. Len(s) \in Nat /\ Len(t) \in Nat /\ DOMAIN s = 1..Len(s) /\ DOMAIN t = 1..Len(t)
  BY DEF Tokens
<1>1. /\ \A i \in 1..Len(s) : s[i] \in TokenSet /\ [s[i] EXCEPT !.at = 0] \in TokenSet
      /\ \A i \in 1..Len(t) : t[i] \in TokenSet /\ [t[i] EXCEPT !.at = 0] \in TokenSet
  <2>1. \A x \in TokenSet : [x EXCEPT !.at = 0] \in TokenSet
    BY DEF TokenSet
  <2> QED
    BY <2>1 DEF Tokens
<1>2. /\ a \in [1..Len(s) -> TokenSet] /\ \A i \in 1..Len(s) : a[i] = [s[i] EXCEPT !.at = 0]
      /\ b \in [1..Len(t) -> TokenSet] /\ \A i \in 1..Len(t) : b[i] = [t[i] EXCEPT !.at = 0]
  BY <1>0, <1>1 DEF Shown
<1>3. Len(a) <= Len(b) /\ SubSeq(a, 1, Len(a)) = SubSeq(b, 1, Len(a))
  BY DEF StartsWith, IsPrefix
<1> HIDE DEF a, b
<1>4. a \in Seq(TokenSet) /\ Len(a) = Len(s) /\ b \in Seq(TokenSet) /\ Len(b) = Len(t)
  BY <1>0, <1>2
<1>5. Len(s) \in 0..Len(t)
  BY <1>0, <1>3, <1>4
<1>6. /\ \A i \in 1..Len(s) : SubSeq(a, 1, Len(a))[i] = a[i]
      /\ \A i \in 1..Len(s) : SubSeq(b, 1, Len(a))[i] = b[i]
  BY <1>4, <1>5, <1>0, FrontFacts
<1>7. ASSUME NEW i \in 1..Len(s)
      PROVE  Alike(t[i], s[i])
  <2>1. i \in 1..Len(t)
    BY <1>0, <1>5
  <2>2. [s[i] EXCEPT !.at = 0] = [t[i] EXCEPT !.at = 0]
    BY <2>1, <1>2, <1>3, <1>6
  <2> QED
    BY <2>1, <2>2, <1>1 DEF Alike, TokenSet
<1> QED
  BY <1>5, <1>7

\* The longest suffix a text retains is at least the one it does retain
\* (longest_retained_suffix).
LEMMA RetainedFacts ==
    ASSUME NEW s \in Tokens, NEW t \in Tokens, NEW k, k = LongestRetainedSuffix(s, t)
    PROVE  /\ k \in 0..Len(s) /\ k \in 0..Len(t)
           /\ \A i \in 1..k : Alike(t[i], s[Len(s) - k + i])
           /\ \A r : Since(s, t, r) => r <= k
<1> DEFINE m == Min({Len(s), Len(t)})
           K == {i \in 0..m : Same(After(s, Len(s) - i), SubSeq(t, 1, i))}
<1>1. s \in Seq(TokenSet) /\ t \in Seq(TokenSet) /\ Len(s) \in Nat /\ Len(t) \in Nat
  BY DEF Tokens
<1>2. m \in Nat /\ m <= Len(s) /\ m <= Len(t) /\ (m = Len(s) \/ m = Len(t))
  BY <1>1, MinOfTwo
<1>3. k = Max(K)
  BY DEF LongestRetainedSuffix
<1> HIDE DEF m
<1>4. ASSUME NEW r, Since(s, t, r)
      PROVE  r \in K
  <2>1. /\ r \in 0..Len(t) /\ r <= Len(s) /\ r \in 0..m /\ Len(s) - r \in 0..Len(s) /\ r \in Nat
        /\ \A i \in 1..r : t[i] = s[Len(s) - r + i]
    BY <1>1, <1>2, <1>4 DEF Since
  <2> DEFINE f == After(s, Len(s) - r)
             g == SubSeq(t, 1, r)
  <2>2. /\ f \in Seq(TokenSet) /\ Len(f) = Len(s) - (Len(s) - r)
        /\ \A i \in 1..Len(s) - (Len(s) - r) : f[i] = s[Len(s) - r + i]
    BY <1>1, <2>1, AfterFacts
  <2>3. g \in Seq(TokenSet) /\ Len(g) = r /\ \A i \in 1..r : g[i] = t[i]
    BY <1>1, <2>1, FrontFacts
  <2> HIDE DEF f, g
  <2>4. Len(s) - (Len(s) - r) = r
    BY <1>1, <2>1
  <2>5. Len(f) = Len(g) /\ \A i \in 1..Len(f) : f[i] = g[i]
    BY <2>1, <2>2, <2>3, <2>4
  <2>6. f = g
    BY ONLY <2>2, <2>3, <2>5, SameSequence
  <2>7. Same(f, g)
    BY <2>6 DEF Same
  <2> QED
    BY <2>1, <2>7 DEF f, g
<1>5. Since(s, t, 0)
  BY <1>1 DEF Since
<1>6. K \in SUBSET (0..m) /\ K # {}
  BY <1>4, <1>5
<1>7. k \in K /\ \A r \in K : r <= k
  BY ONLY <1>2, <1>3, <1>6, MaxFacts
<1>8. k \in 0..m /\ Same(After(s, Len(s) - k), SubSeq(t, 1, k)) /\ k \in Nat
  BY <1>7, <1>2
<1>9. k \in 0..Len(s) /\ k \in 0..Len(t) /\ Len(s) - k \in 0..Len(s) /\ Len(s) - (Len(s) - k) = k
  BY <1>1, <1>2, <1>8
<1>10. \A i \in 1..k : Alike(t[i], s[Len(s) - k + i])
  <2> DEFINE f == After(s, Len(s) - k)
             g == SubSeq(t, 1, k)
  <2>2. /\ f \in Seq(TokenSet) /\ Len(f) = Len(s) - (Len(s) - k)
        /\ \A i \in 1..Len(s) - (Len(s) - k) : f[i] = s[Len(s) - k + i]
    BY <1>1, <1>9, AfterFacts
  <2>3. g \in Seq(TokenSet) /\ Len(g) = k /\ \A i \in 1..k : g[i] = t[i]
    BY <1>1, <1>9, FrontFacts
  <2>4. Same(f, g)
    BY <1>8
  <2> HIDE DEF f, g
  <2>5. \A i \in 1..Len(f) : Alike(g[i], f[i])
    BY <2>2, <2>3, <2>4, SameFacts DEF Tokens
  <2> QED
    BY <2>2, <2>3, <2>5, <1>9
<1> QED
  BY <1>4, <1>7, <1>9, <1>10

\* What counts as new after a text without pager is the end of the text, and
\* nothing of what was kept (fresh_command_window).
LEMMA PlainWindowFacts ==
    ASSUME NEW s \in Tokens, NEW t \in Tokens, NEW r, Since(s, t, r),
           NEW w, w = PlainWindow(s, t), w # NoWindow
    PROVE  \E k \in 0..Len(t) : r <= k /\ w = [fresh |-> TRUE, output |-> After(t, k)]
<1>1. /\ Len(s) \in Nat /\ Len(t) \in Nat /\ r \in Nat /\ r <= Len(s)
  BY DEF Tokens, Since
<1>2. CASE StartsWith(t, s)
  <2>1. Len(s) \in 0..Len(t)
    BY <1>2, StartsFacts
  <2>2. w = [fresh |-> TRUE, output |-> After(t, Len(s))]
    BY <1>2 DEF PlainWindow, Window
  <2> QED
    BY <2>1, <2>2, <1>1
<1>3. CASE ~StartsWith(t, s)
  <2> DEFINE k == LongestRetainedSuffix(s, t)
  <2>1. k \in 0..Len(t) /\ r <= k
    BY RetainedFacts
  <2>2. w = [fresh |-> TRUE, output |-> After(t, k)]
    <3> HIDE DEF k
    <3> QED
      BY <1>3 DEF PlainWindow, Window, k
  <2> QED
    BY <2>1, <2>2
<1> QED
  BY <1>2, <1>3

\* What counts as new after a page is anchored in the page: in all of it, or
\* in an anchor of its end (_PAGER_ROLL_MIN_ANCHOR).
LEMMA PagedWindowFacts ==
    ASSUME NEW s \in Tokens, NEW t \in Tokens, NEW r, Since(s, t, r),
           NEW w, w = PagedWindow(s, t), w # NoWindow
    PROVE  \E k \in 1..Len(t) :
              /\ r <= k /\ k <= Len(s) /\ w = [fresh |-> TRUE, output |-> After(t, k)]
              /\ k = Len(s) \/ k >= MinAnchor
              /\ \A i \in 1..k : Alike(t[i], s[Len(s) - k + i])
<1>1. /\ Len(s) \in Nat /\ Len(t) \in Nat /\ r \in Nat /\ r <= Len(s)
      /\ MinAnchor \in Nat /\ MinAnchor > 0
  BY ConstantTypes DEF Tokens, Since
<1>2. CASE StartsWith(t, s) /\ s # <<>>
  <2>1. Len(s) \in 0..Len(t) /\ \A i \in 1..Len(s) : Alike(t[i], s[i])
    BY <1>2, StartsFacts
  <2>2. w = [fresh |-> TRUE, output |-> After(t, Len(s))]
    BY <1>2 DEF PagedWindow, Window
  <2>3. Len(s) > 0
    BY <1>1, <1>2 DEF Tokens
  <2>4. \A i \in 1..Len(s) : Len(s) - Len(s) + i = i
    BY <1>1
  <2>5. Len(s) \in 1..Len(t)
    BY <2>1, <2>3, <1>1
  <2>6. \A i \in 1..Len(s) : Alike(t[i], s[Len(s) - Len(s) + i])
    <3>1. ASSUME NEW i \in 1..Len(s)
          PROVE  Alike(t[i], s[Len(s) - Len(s) + i])
      <4>1. Len(s) - Len(s) + i = i /\ Alike(t[i], s[i])
        BY <2>1, <2>4
      <4> QED
        BY ONLY <4>1
    <3> QED
      BY <3>1
  <2>7. r <= Len(s) /\ Len(s) <= Len(s)
    BY <1>1
  <2> QED
    BY ONLY <2>2, <2>5, <2>6, <2>7
<1>3. CASE ~(StartsWith(t, s) /\ s # <<>>)
  <2> DEFINE k == LongestRetainedSuffix(s, t)
  <2>1. /\ k \in 0..Len(t) /\ k \in 0..Len(s) /\ r <= k
        /\ \A i \in 1..k : Alike(t[i], s[Len(s) - k + i])
    BY RetainedFacts
  <2> HIDE DEF k
  <2>2. k >= MinAnchor /\ w = [fresh |-> TRUE, output |-> After(t, k)]
    BY <1>3 DEF PagedWindow, k
  <2>3. k \in 1..Len(t) /\ k <= Len(s)
    BY <2>1, <2>2, <1>1
  <2> QED
    BY <2>1, <2>2, <2>3
<1> QED
  BY <1>2, <1>3

\* Behind the last token that says something there are syslog lines only.
LEMMA LastSaidFacts ==
    ASSUME NEW t \in Tokens, NEW m, m = LastSaid(t)
    PROVE  /\ m \in 0..Len(t) /\ (m > 0 => ~IsLog(t[m]))
           /\ \A i \in m+1..Len(t) : IsLog(t[i])
           /\ \A i \in 1..Len(t) : ~IsLog(t[i]) => i <= m
<1> DEFINE K == {0} \cup {i \in DOMAIN t : ~IsLog(t[i])}
<1>1. Len(t) \in Nat /\ DOMAIN t = 1..Len(t)
  BY DEF Tokens
<1>2. K \in SUBSET (0..Len(t)) /\ K # {}
  BY <1>1
<1>3. m = Max(K)
  BY DEF LastSaid
<1>4. m \in K /\ \A i \in K : i <= m
  <2> HIDE DEF K
  <2> QED
    BY <1>1, <1>2, <1>3, MaxFacts
<1>5. m \in 0..Len(t) /\ (m > 0 => ~IsLog(t[m]))
  BY <1>1, <1>4
<1>6. \A i \in 1..Len(t) : ~IsLog(t[i]) => i <= m
  BY <1>1, <1>4
<1>7. ASSUME NEW i \in m+1..Len(t)
      PROVE  IsLog(t[i])
  <2>1. i \in 1..Len(t) /\ ~(i <= m)
    BY <1>1, <1>5
  <2> QED
    BY <2>1, <1>6
<1> QED
  BY <1>5, <1>6, <1>7

\* A text without its pager: cut before the mark, behind which there are only
\* syslog lines (_drop_pager_prompt).
LEMMA DropFacts ==
    ASSUME NEW t \in Tokens
    PROVE  \/ ~HasActivePager(t) /\ DropPagerPrompt(t) = t
           \/ \E m \in 1..Len(t) :
                 /\ HasActivePager(t) /\ m = LastSaid(t) /\ t[m].what = "more"
                 /\ \A i \in m+1..Len(t) : IsLog(t[i])
                 /\ DropPagerPrompt(t) \in Tokens /\ Len(DropPagerPrompt(t)) = m - 1
                 /\ \A i \in 1..m - 1 : DropPagerPrompt(t)[i] = t[i]
<1>1. CASE ~HasActivePager(t)
  BY <1>1 DEF DropPagerPrompt
<1>2. CASE HasActivePager(t)
  <2> DEFINE m == LastSaid(t)
  <2>1. m \in 0..Len(t) /\ \A i \in m+1..Len(t) : IsLog(t[i])
    BY LastSaidFacts
  <2>2. m > 0 /\ t[m].what = "more"
    BY <1>2 DEF HasActivePager, EndsIn
  <2>3. Len(t) \in Nat /\ t \in Seq(TokenSet)
    BY DEF Tokens
  <2> HIDE DEF m
  <2>4. m \in 1..Len(t) /\ m - 1 \in 0..Len(t)
    BY <2>1, <2>2, <2>3
  <2>5. DropPagerPrompt(t) = SubSeq(t, 1, m - 1)
    BY <1>2 DEF DropPagerPrompt, m
  <2>6. /\ DropPagerPrompt(t) \in Seq(TokenSet) /\ Len(DropPagerPrompt(t)) = m - 1
        /\ \A i \in 1..m - 1 : DropPagerPrompt(t)[i] = t[i]
    BY <2>3, <2>4, <2>5, FrontFacts
  <2> QED
    BY <1>2, <2>1, <2>2, <2>4, <2>6 DEF m, Tokens
<1> QED
  BY <1>1, <1>2

\* A query that is dispatched has its echo in the window (classify_echo).
LEMMA EchoFacts ==
    ASSUME NEW w \in Tokens, NEW q \in Query, ClassifyEcho(q, w) = "dispatched"
    PROVE  \E i \in 1..Len(w) : w[i].what = "echo"
<1> DEFINE said == {i \in DOMAIN w : ~IsLog(w[i])}
           i == Min(said)
<1>0. Len(w) \in Nat /\ DOMAIN w = 1..Len(w)
  BY DEF Tokens
<1>1. FirstEcho(w).what = "echo" /\ FirstEcho(w).of = q
  BY DEF ClassifyEcho
<1>2. Mark("none").of = "none" /\ q # "none"
  BY ConstantTypes DEF Mark, Token
<1>3. said # {} => i \in 1..Len(w)
  <2> SUFFICES ASSUME said # {}
               PROVE  i \in said
    BY <1>0
  <2>1. said \in SUBSET Nat
    BY <1>0
  <2>2. \E m \in said : \A k \in said : m <= k
    <3> HIDE DEF said
    <3> QED
      BY <2>1, LeastOfNumbers
  <2> HIDE DEF said
  <2> QED
    BY <2>2 DEF Min
<1>4. FirstEcho(w) = IF said = {} THEN Mark("none")
                     ELSE IF w[i].what # "prompt" THEN w[i]
                     ELSE IF i < Len(w) THEN w[i + 1] ELSE Mark("none")
  BY DEF FirstEcho
<1> HIDE DEF said, i
<1>5. said # {} /\ (FirstEcho(w) = w[i] \/ (i < Len(w) /\ FirstEcho(w) = w[i + 1]))
  BY <1>1, <1>2, <1>4
<1>6. i \in 1..Len(w) /\ (i < Len(w) => i + 1 \in 1..Len(w))
  BY ONLY <1>0, <1>3, <1>5
<1> QED
  BY ONLY <1>1, <1>5, <1>6

\* The class of a window is one of three.
LEMMA ClassType ==
    ASSUME NEW q, NEW w
    PROVE  ClassifyEcho(q, w) \in Classes
  BY DEF ClassifyEcho, Classes

-----------------------------------------------------------------------------
(* Rows in order.                                                          *)

\* No row is none after row n (a syslog line, a prompt, an echo).
LEMMA NoneInOrder ==
    ASSUME NEW w \in Tokens, NEW n \in Nat, \A i \in 1..Len(w) : ~IsRow(w[i])
    PROVE  InOrder(w, n, n)
<1>1. DOMAIN w = 1..Len(w)
  BY DEF Tokens
<1>2. (n + 1)..n = {}
  OBVIOUS
<1> QED
  BY <1>1, <1>2 DEF InOrder

\* Page after page, what is read is the table (_capture_registered_pages).
LEMMA JoinInOrder ==
    ASSUME NEW v \in Tokens, NEW w \in Tokens, NEW lo \in Nat, NEW m \in Nat, NEW hi \in Nat,
           lo <= m, m <= hi, InOrder(v, lo, m), InOrder(w, m, hi)
    PROVE  InOrder(v \o w, lo, hi)
<1> DEFINE vw == v \o w
           a  == Len(v)
           b  == Len(w)
<1>1. /\ vw \in Seq(TokenSet) /\ Len(vw) = a + b /\ a \in Nat /\ b \in Nat
      /\ \A i \in 1..a + b : vw[i] = IF i <= a THEN v[i] ELSE w[i - a]
  BY Joined DEF Tokens
<1>2. DOMAIN v = 1..a /\ DOMAIN w = 1..b
  BY DEF Tokens
<1>3. \A i \in 1..a, j \in 1..b :
         IsRow(v[i]) /\ IsRow(w[j]) => v[i].n \in (lo + 1)..m /\ w[j].n \in (m + 1)..hi
  BY <1>2 DEF InOrder
<1>4. /\ \A i, j \in 1..a : i < j /\ IsRow(v[i]) /\ IsRow(v[j]) => v[i].n < v[j].n
      /\ \A i, j \in 1..b : i < j /\ IsRow(w[i]) /\ IsRow(w[j]) => w[i].n < w[j].n
  BY <1>2 DEF InOrder
<1>5. /\ \A i \in 1..a : IsRow(v[i]) => v[i].n \in (lo + 1)..m
      /\ \A i \in 1..b : IsRow(w[i]) => w[i].n \in (m + 1)..hi
  BY <1>2 DEF InOrder
<1>6. /\ \A n \in (lo + 1)..m : \E i \in 1..a : IsRow(v[i]) /\ v[i].n = n
      /\ \A n \in (m + 1)..hi : \E i \in 1..b : IsRow(w[i]) /\ w[i].n = n
  BY <1>2 DEF InOrder
<1>n. lo \in Nat /\ m \in Nat /\ hi \in Nat /\ lo <= m /\ m <= hi
  OBVIOUS
<1> HIDE DEF vw, a, b
<1>7. DOMAIN vw = 1..a + b
  BY ONLY <1>1
<1>8. ASSUME NEW i \in 1..a + b
      PROVE  \/ i \in 1..a /\ vw[i] = v[i]
             \/ i > a /\ i - a \in 1..b /\ vw[i] = w[i - a]
  BY ONLY <1>1, <1>8
<1>9. ASSUME NEW n \in (lo + 1)..hi
      PROVE  \E i \in 1..a + b : IsRow(vw[i]) /\ vw[i].n = n
  <2>1. CASE n <= m
    <3>1. PICK i \in 1..a : IsRow(v[i]) /\ v[i].n = n
      <4>1. n \in (lo + 1)..m
        BY ONLY <2>1, <1>n, <1>9
      <4> QED
        BY ONLY <4>1, <1>6
    <3>2. i \in 1..a + b /\ vw[i] = v[i]
      BY ONLY <1>1, <3>1
    <3> QED
      BY ONLY <3>1, <3>2
  <2>2. CASE n > m
    <3>1. PICK i \in 1..b : IsRow(w[i]) /\ w[i].n = n
      <4>1. n \in (m + 1)..hi
        BY ONLY <2>2, <1>n, <1>9
      <4> QED
        BY ONLY <4>1, <1>6
    <3>2. a + i \in 1..a + b /\ ~(a + i <= a) /\ a + i - a = i
      BY ONLY <1>1, <3>1
    <3>3. vw[a + i] = w[i]
      BY ONLY <1>1, <3>2
    <3> QED
      BY ONLY <3>1, <3>2, <3>3
  <2> QED
    BY ONLY <2>1, <2>2, <1>n, <1>9
<1>10. ASSUME NEW i \in 1..a + b, IsRow(vw[i])
       PROVE  vw[i].n \in (lo + 1)..hi
  <2>1. CASE i \in 1..a /\ vw[i] = v[i]
    <3>1. vw[i].n \in (lo + 1)..m
      BY ONLY <2>1, <1>5, <1>10
    <3> QED
      BY ONLY <3>1, <1>n
  <2>2. CASE i > a /\ i - a \in 1..b /\ vw[i] = w[i - a]
    <3>1. vw[i].n \in (m + 1)..hi
      BY ONLY <2>2, <1>5, <1>10
    <3> QED
      BY ONLY <3>1, <1>n
  <2> QED
    BY ONLY <2>1, <2>2, <1>8
<1>11. ASSUME NEW i \in 1..a + b, NEW j \in 1..a + b, i < j, IsRow(vw[i]), IsRow(vw[j])
       PROVE  vw[i].n < vw[j].n
  <2>1. CASE i \in 1..a /\ vw[i] = v[i] /\ j \in 1..a /\ vw[j] = v[j]
    BY ONLY <2>1, <1>4, <1>11
  <2>2. CASE i \in 1..a /\ vw[i] = v[i] /\ j > a /\ j - a \in 1..b /\ vw[j] = w[j - a]
    <3>1. vw[i].n \in (lo + 1)..m /\ vw[j].n \in (m + 1)..hi
      BY ONLY <2>2, <1>3, <1>11
    <3> QED
      BY ONLY <3>1, <1>n
  <2>3. CASE i > a /\ i - a \in 1..b /\ vw[i] = w[i - a] /\ j - a \in 1..b /\ vw[j] = w[j - a]
    <3>1. i - a < j - a
      BY ONLY <1>11, <1>1
    <3> QED
      BY ONLY <2>3, <3>1, <1>4, <1>11
  <2>4. i > a => ~(j \in 1..a)
    BY ONLY <1>11, <1>1
  <2> QED
    BY ONLY <2>1, <2>2, <2>3, <2>4, <1>8
<1>12. InOrder(vw, lo, hi)
  BY ONLY <1>7, <1>9, <1>10, <1>11 DEF InOrder
<1> QED
  BY <1>12 DEF vw

\* What is dropped behind the rows is none of them (_drop_pager_prompt).
LEMMA CutInOrder ==
    ASSUME NEW w \in Tokens, NEW f \in Tokens, NEW lo \in Nat, NEW hi \in Nat,
           Len(f) <= Len(w), \A i \in 1..Len(f) : f[i] = w[i],
           \A i \in 1..Len(w) : i > Len(f) => ~IsRow(w[i]), InOrder(w, lo, hi)
    PROVE  InOrder(f, lo, hi)
<1>1. DOMAIN w = 1..Len(w) /\ DOMAIN f = 1..Len(f) /\ Len(f) \in Nat /\ Len(w) \in Nat
  BY DEF Tokens
<1>2. \A i \in 1..Len(f) : i \in 1..Len(w) /\ f[i] = w[i]
  BY <1>1
<1>3. \A i \in 1..Len(w) : IsRow(w[i]) => i \in 1..Len(f)
  BY <1>1
<1> QED
  BY <1>1, <1>2, <1>3 DEF InOrder

\* One more row (PrintRow).
LEMMA RowInOrder ==
    ASSUME NEW n \in Nat, n > 0, NEW row \in TokenSet, IsRow(row), row.n = n
    PROVE  <<row>> \in Tokens /\ InOrder(<<row>>, n - 1, n)
<1>1. <<row>> \in Tokens /\ DOMAIN <<row>> = {1} /\ <<row>>[1] = row
  BY DEF Tokens
<1>2. ((n - 1) + 1)..n = {n}
  OBVIOUS
<1>3. ~(1 < 1)
  OBVIOUS
<1> QED
  BY <1>1, <1>2, <1>3 DEF InOrder

-----------------------------------------------------------------------------
(* What a step of the terminal does to its text.                           *)

\* The terminal writes behind its text and keeps the end of it.
LEMMA GrownFacts ==
    ASSUME NEW s \in Tokens, NEW t \in Tokens, NEW x \in Tokens, NEW r, Since(s, t, r),
           NEW u, u = Kept(t \o x)
    PROVE  /\ u \in Tokens
           /\ \E q \in 0..Len(u), e \in 0..Len(After(t, r) \o x) :
                 /\ Since(s, u, q) /\ q <= r /\ (e = 0 \/ q = 0)
                 /\ After(u, q) = After(After(t, r) \o x, e)
<1>1. s \in Seq(TokenSet) /\ t \in Seq(TokenSet) /\ x \in Seq(TokenSet)
  BY DEF Tokens
<1>2. t \o x \in Seq(TokenSet)
  BY <1>1
<1>3. PICK d \in 0..Len(t \o x) : u = After(t \o x, d)
  BY <1>2, KeptFacts
<1>4. u \in Seq(TokenSet)
  BY ONLY <1>2, <1>3, AfterFacts
<1>5. \E q \in 0..Len(u), e \in 0..Len(After(t, r) \o x) :
         /\ Since(s, u, q) /\ q <= r /\ (e = 0 \/ q = 0)
         /\ After(u, q) = After(After(t, r) \o x, e)
  BY ONLY <1>1, <1>3, Since(s, t, r), SinceGrows
<1> QED
  BY <1>4, <1>5 DEF Tokens

\* What was written since, and what is written now.
LEMMA SliceFacts ==
    ASSUME NEW w \in Tokens, NEW x \in Tokens, NEW e \in 0..Len(w \o x)
    PROVE  /\ After(w \o x, e) \in Tokens
           /\ \A i \in 1..Len(After(w \o x, e)) :
                 \/ e + i \in 1..Len(w) /\ After(w \o x, e)[i] = w[e + i]
                 \/ e + i - Len(w) \in 1..Len(x) /\ After(w \o x, e)[i] = x[e + i - Len(w)]
           /\ Len(After(w \o x, e)) = Len(w) + Len(x) - e
           /\ Len(w) \in Nat /\ Len(x) \in Nat /\ Len(After(w \o x, e)) \in Nat /\ e \in Nat
<1>1. /\ w \o x \in Seq(TokenSet) /\ Len(w \o x) = Len(w) + Len(x)
      /\ Len(w) \in Nat /\ Len(x) \in Nat
      /\ \A i \in 1..Len(w) + Len(x) :
            (w \o x)[i] = IF i <= Len(w) THEN w[i] ELSE x[i - Len(w)]
  BY Joined DEF Tokens
<1> DEFINE wx == w \o x
           v  == After(wx, e)
           a  == Len(w)
           b  == Len(x)
<1>2. /\ v \in Seq(TokenSet) /\ Len(v) = Len(wx) - e
      /\ \A i \in 1..Len(wx) - e : v[i] = wx[e + i]
  <2>1. wx \in Seq(TokenSet) /\ e \in 0..Len(wx) /\ v = After(wx, e)
    BY <1>1
  <2> HIDE DEF wx
  <2> QED
    BY ONLY <2>1, AfterFacts
<1>3. e \in 0..a + b
  BY <1>1
<1>4. /\ wx \in Seq(TokenSet) /\ Len(wx) = a + b /\ a \in Nat /\ b \in Nat
      /\ \A i \in 1..a + b : wx[i] = IF i <= a THEN w[i] ELSE x[i - a]
  BY <1>1
<1> HIDE DEF wx, a, b, v
<1>5. Len(v) = a + b - e /\ Len(v) \in Nat /\ e \in Nat
  BY ONLY <1>2, <1>3, <1>4
<1>6. ASSUME NEW i \in 1..Len(v)
      PROVE  \/ e + i \in 1..a /\ v[i] = w[e + i]
             \/ e + i - a \in 1..b /\ v[i] = x[e + i - a]
  <2>1. i \in 1..Len(wx) - e /\ e + i \in 1..a + b
    BY ONLY <1>2, <1>3, <1>4, <1>5, <1>6
  <2>2. v[i] = wx[e + i]
    BY ONLY <2>1, <1>2
  <2>3. wx[e + i] = IF e + i <= a THEN w[e + i] ELSE x[e + i - a]
    BY ONLY <2>1, <1>4
  <2>4. e + i \in Nat /\ a \in Nat /\ b \in Nat
    BY ONLY <2>1, <1>4
  <2> QED
    BY ONLY <2>1, <2>2, <2>3, <2>4
<1> QED
  BY <1>2, <1>4, <1>5, <1>6 DEF a, b, v, wx, Tokens

\* Nothing is seen of what was there before a text, when it grows.
LEMMA GrownIn ==
    ASSUME NEW M, NEW s \in Tokens, NEW t \in Tokens, NEW x \in Tokens,
           NEW r, Since(s, t, r), AllIn(After(t, r), M), AllIn(x, M),
           NEW u, u = Kept(t \o x)
    PROVE  \E q \in 0..Len(u) : Since(s, u, q) /\ AllIn(After(u, q), M)
<1> DEFINE w == After(t, r)
<1>1. w \in Tokens
  <2>1. r \in 0..Len(t)
    BY DEF Since
  <2> QED
    BY <2>1, AfterFacts DEF Tokens
<1>2. PICK q \in 0..Len(u), e \in 0..Len(w \o x) :
         Since(s, u, q) /\ After(u, q) = After(w \o x, e)
  BY GrownFacts
<1>3. AllIn(w, M) /\ AllIn(x, M)
  OBVIOUS
<1> HIDE DEF w
<1> DEFINE v == After(w \o x, e)
<1>4. \A i \in 1..Len(v) :
         \/ e + i \in 1..Len(w) /\ v[i] = w[e + i]
         \/ e + i - Len(w) \in 1..Len(x) /\ v[i] = x[e + i - Len(w)]
  <2>1. e \in 0..Len(w \o x) /\ x \in Tokens
    OBVIOUS
  <2> QED
    BY ONLY <1>1, <2>1, SliceFacts
<1> HIDE DEF v
<1>5. AllIn(v, M)
  BY ONLY <1>3, <1>4 DEF AllIn
<1> QED
  BY <1>2, <1>5 DEF v

\* A text without the mark of a pager that stands last (Unpaged).
WithoutMark(t) == IF t # <<>> /\ Last(t).what = "more" THEN Front(t) ELSE t

\* The mark a pager erases is of what was written since the text before, which
\* did not end in one.
LEMMA ErasedFacts ==
    ASSUME NEW s \in Tokens, s # <<>> => s[Len(s)].what # "more",
           NEW t \in Tokens, NEW r, Since(s, t, r), NEW u, u = WithoutMark(t)
    PROVE  /\ u \in Tokens /\ Since(s, u, r) /\ After(t, r) \in Tokens /\ After(u, r) \in Tokens
           /\ \/ After(u, r) = After(t, r)
              \/ /\ Len(After(t, r)) > 0 /\ Len(After(u, r)) = Len(After(t, r)) - 1
                 /\ After(t, r)[Len(After(t, r))].what = "more"
                 /\ \A i \in 1..Len(After(t, r)) - 1 : After(u, r)[i] = After(t, r)[i]
<1>1. s \in Seq(TokenSet) /\ t \in Seq(TokenSet) /\ Len(t) \in Nat /\ Len(s) \in Nat
  BY DEF Tokens
<1>2. /\ r \in 0..Len(t) /\ r \in Nat /\ r <= Len(s)
      /\ \A i \in 1..r : t[i] = s[Len(s) - r + i]
  BY DEF Since
<1>3. After(t, r) \in Tokens
  BY <1>1, <1>2, AfterFacts DEF Tokens
<1>4. CASE ~(t # <<>> /\ t[Len(t)].what = "more")
  <2>1. u = t
    BY <1>4 DEF WithoutMark, Last
  <2> QED
    BY <2>1, <1>3
<1>5. CASE t # <<>> /\ t[Len(t)].what = "more"
  <2>1. u = SubSeq(t, 1, Len(t) - 1) /\ Len(t) > 0
    BY <1>5, <1>1 DEF WithoutMark, Last, Front
  <2>2. r < Len(t)
    <3> SUFFICES ASSUME r = Len(t)
                 PROVE  FALSE
      BY <1>1, <1>2
    <3>1. t[r] = s[Len(s) - r + r] /\ Len(s) - r + r = Len(s)
      BY <1>1, <1>2, <2>1
    <3>2. s # <<>>
      BY <1>1, <1>2, <2>1
    <3> QED
      BY <3>1, <3>2, <1>5
  <2> DEFINE w == After(t, r)
             f == After(u, r)
  <2>3. /\ u \in Seq(TokenSet) /\ Len(u) = Len(t) - 1 /\ Since(s, u, r)
        /\ w \in Seq(TokenSet) /\ Len(w) = Len(t) - r
        /\ f = SubSeq(w, 1, Len(w) - 1)
    <3>1. Since(s, t, r)
      OBVIOUS
    <3> HIDE DEF w, f
    <3>2. /\ SubSeq(t, 1, Len(t) - 1) \in Seq(TokenSet)
          /\ Len(SubSeq(t, 1, Len(t) - 1)) = Len(t) - 1
          /\ Since(s, SubSeq(t, 1, Len(t) - 1), r)
          /\ After(t, r) \in Seq(TokenSet) /\ Len(After(t, r)) = Len(t) - r
          /\ After(SubSeq(t, 1, Len(t) - 1), r) = SubSeq(After(t, r), 1, Len(After(t, r)) - 1)
      BY ONLY <1>1, <2>2, <3>1, SinceShrinks
    <3> QED
      BY ONLY <2>1, <3>2 DEF w, f
  <2>4. w[Len(t) - r] = t[r + (Len(t) - r)] /\ r + (Len(t) - r) = Len(t)
    <3>1. \A i \in 1..Len(t) - r : w[i] = t[r + i]
      BY <1>1, <1>2, AfterFacts
    <3>2. Len(t) - r \in 1..Len(t) - r
      BY <1>1, <1>2, <2>2
    <3> HIDE DEF w
    <3> QED
      BY ONLY <3>1, <3>2, <1>1, <1>2
  <2> HIDE DEF w, f
  <2>5. Len(w) > 0 /\ Len(w) - 1 \in 0..Len(w)
    BY ONLY <2>2, <2>3, <1>1, <1>2
  <2>6. f \in Seq(TokenSet) /\ Len(f) = Len(w) - 1 /\ \A i \in 1..Len(w) - 1 : f[i] = w[i]
    BY ONLY <2>3, <2>5, FrontFacts
  <2>7. w[Len(w)].what = "more"
    BY ONLY <2>3, <2>4, <1>5
  <2> QED
    BY <2>3, <2>5, <2>6, <2>7, <1>3 DEF w, f, Tokens
<1> QED
  BY <1>4, <1>5

-----------------------------------------------------------------------------
(* What a key does, wherever it is typed.                                  *)

\* Tokens the terminal writes when a key is typed at a prompt or a greeting.
Spoken == {token \in TokenSet : token.what \notin {"row", "more", "log"}}
NewJobs == [of : Query, next : {1}, page : {0}, paused : {FALSE}]

KeyChange ==
    \/ text' = text /\ job' = job
    \/ \E x \in Seq(Spoken) :
          x # <<>> /\ text' = Kept(text \o x) /\ job' \in {job, Idle} \cup NewJobs
    \/ /\ text' = WithoutMark(text) /\ job.paused
       /\ job' = [job EXCEPT !.page = 0, !.paused = FALSE]
    \/ text' = Kept(WithoutMark(text) \o <<Mark("prompt")>>) /\ job' = Idle

KeyStep ==
    /\ KeyChange
    /\ stage' \in {"booting", "dialog", "return", "exec"} /\ (stage = "exec" => stage' = "exec")
    /\ mode' \in {"user", "privileged"} /\ ahead' \in Seq(KeySet)

\* The tokens of a greeting, and of the answer to a key.
LEMMA SpokenTokens ==
    /\ Mark("dialog") \in Spoken /\ Mark("press") \in Spoken /\ Mark("prompt") \in Spoken
    /\ Mark("reject") \in Spoken /\ Mark("word") \in Spoken
    /\ \A q \in Query \cup {"none"} :
          Token("echo", q, 0, 0) \in Spoken /\ Token("bad", q, 0, 0) \in Spoken
    /\ Mark("log") \in TokenSet /\ Mark("more") \in TokenSet
    /\ Mark("log").what = "log" /\ Mark("more").what = "more" /\ Mark("prompt").what = "prompt"
    /\ Spoken \subseteq TokenSet
    /\ \A n, a \in Nat, q \in Query : Token("row", q, n, a) \in TokenSet
  BY DEF Spoken, TokenSet, What, Mark, Token

\* A key that a pager takes (AtPager).
LEMMA AtPagerStep ==
    ASSUME TypeOK, NEW key \in KeySet, NEW rest \in Seq(KeySet), job.paused, AtPager(key, rest)
    PROVE  KeyStep
<1>1. Unpaged = WithoutMark(text)
  BY DEF Unpaged, WithoutMark
<1>2. /\ stage \in {"booting", "dialog", "return", "exec"} /\ mode \in {"user", "privileged"}
      /\ stage' = stage /\ mode' = mode
  BY DEF TypeOK, AtPager
<1>3. KeyChange
  BY <1>1 DEF AtPager, KeyChange
<1>4. ahead' \in Seq(KeySet)
  <2>1. CASE key.what = "command"
    <3>1. [key EXCEPT !.whole = FALSE] \in KeySet
      BY <2>1 DEF KeySet
    <3> DEFINE k == [key EXCEPT !.whole = FALSE]
    <3>2. ahead' = <<k>> \o rest
      BY <2>1 DEF AtPager
    <3> HIDE DEF k
    <3>3. <<k>> \in Seq(KeySet)
      BY <3>1 DEF k
    <3> QED
      BY <3>2, <3>3
  <2>2. CASE key.what # "command"
    <3>1. ahead' = rest \/ ahead' = <<>> \o rest
      BY <2>2 DEF AtPager
    <3>2. <<>> \o rest \in Seq(KeySet)
      OBVIOUS
    <3> QED
      BY <3>1, <3>2
  <2> QED
    BY <2>1, <2>2
<1> QED
  BY <1>2, <1>3, <1>4 DEF KeyStep

\* A key that is typed at a prompt (AtPrompt).
LEMMA AtPromptStep ==
    ASSUME TypeOK, NEW key \in KeySet, job = Idle, AtPrompt(key), ahead' \in Seq(KeySet)
    PROVE  KeyStep
<1>1. key.of \in Query \cup {"none"} /\ (key.what = "command" => key.of \in Query)
  BY DEF KeySet
<1>2. /\ <<Token("bad", key.of, 0, 0), Mark("reject"), Mark("prompt")>> \in Seq(Spoken)
      /\ <<Token("echo", key.of, 0, 0), Mark("reject"), Mark("prompt")>> \in Seq(Spoken)
      /\ <<Token("echo", key.of, 0, 0)>> \in Seq(Spoken)
      /\ <<Mark("word"), Mark("prompt")>> \in Seq(Spoken) /\ <<Mark("prompt")>> \in Seq(Spoken)
  BY <1>1, SpokenTokens
<1>3. stage' = stage /\ mode' \in {mode, "user", "privileged"}
  BY DEF AtPrompt
<1>4. ASSUME NEW x \in Seq(Spoken), x # <<>>, Shows(x),
             job' \in {job, Idle} \cup NewJobs
      PROVE  KeyStep
  <2>1. text' = Kept(text \o x)
    BY <1>4 DEF Shows
  <2>2. KeyChange
    BY <2>1, <1>4 DEF KeyChange
  <2>3. stage \in {"booting", "dialog", "return", "exec"} /\ mode \in {"user", "privileged"}
    BY DEF TypeOK
  <2> QED
    BY <2>2, <2>3, <1>3 DEF KeyStep
<1>5. CASE key.what = "command" /\ ~key.whole
  <2>1. /\ Shows(<<Token("bad", key.of, 0, 0), Mark("reject"), Mark("prompt")>>)
        /\ job' = job
    BY <1>5 DEF AtPrompt
  <2>2. <<Token("bad", key.of, 0, 0), Mark("reject"), Mark("prompt")>> # <<>>
    OBVIOUS
  <2> QED
    BY <2>1, <2>2, <1>2, <1>4
<1>6. CASE key.what = "command" /\ key.whole /\ key.of \in Privileged /\ mode = "user"
  <2>1. /\ Shows(<<Token("echo", key.of, 0, 0), Mark("reject"), Mark("prompt")>>)
        /\ job' = job
    BY <1>6 DEF AtPrompt
  <2>2. <<Token("echo", key.of, 0, 0), Mark("reject"), Mark("prompt")>> # <<>>
    OBVIOUS
  <2> QED
    BY <2>1, <2>2, <1>2, <1>4
<1>7. CASE key.what = "command" /\ key.whole /\ ~(key.of \in Privileged /\ mode = "user")
  <2>1. /\ Shows(<<Token("echo", key.of, 0, 0)>>)
        /\ job' = [of |-> key.of, next |-> 1, page |-> 0, paused |-> FALSE]
    BY <1>7 DEF AtPrompt
  <2>2. job' \in NewJobs
    BY <2>1, <1>1, <1>7 DEF NewJobs
  <2>3. <<Token("echo", key.of, 0, 0)>> # <<>>
    OBVIOUS
  <2> QED
    BY <2>1, <2>2, <2>3, <1>2, <1>4
<1>8. CASE key.what \in {"enable", "disable"}
  <2>1. Shows(<<Mark("word"), Mark("prompt")>>) /\ job' = job
    BY <1>8 DEF AtPrompt
  <2>2. <<Mark("word"), Mark("prompt")>> # <<>>
    OBVIOUS
  <2> QED
    BY <2>1, <2>2, <1>2, <1>4
<1>9. CASE key.what # "command" /\ key.what \notin {"enable", "disable"}
  <2>1. Shows(<<Mark("prompt")>>) /\ job' = job
    BY <1>9 DEF AtPrompt
  <2>2. <<Mark("prompt")>> # <<>>
    OBVIOUS
  <2> QED
    BY <2>1, <2>2, <1>2, <1>4
<1> QED
  BY <1>5, <1>6, <1>7, <1>8, <1>9

\* A key, wherever the terminal is (enterCommand).
LEMMA TypeStep ==
    ASSUME TypeOK, NEW key \in KeySet, Type(key)
    PROVE  KeyStep
<1>1. /\ stage \in {"booting", "dialog", "return", "exec"} /\ mode \in {"user", "privileged"}
      /\ ahead \in Seq(KeySet)
  BY DEF TypeOK
<1>2. CASE stage = "dialog" /\ key.what = "no"
  <2>1. stage' = "return" /\ Shows(<<Mark("press")>>) /\ mode' = mode /\ job' = job /\ ahead' = ahead
    BY <1>2 DEF Type, Greeting
  <2>2. <<Mark("press")>> \in Seq(Spoken) /\ <<Mark("press")>> # <<>>
    BY SpokenTokens
  <2>3. KeyChange
    BY <2>1, <2>2 DEF KeyChange, Shows
  <2> QED
    BY <2>1, <2>3, <1>1, <1>2 DEF KeyStep
<1>3. CASE stage = "return" /\ key.what \notin {"space", "etx"}
  <2>1. stage' = "exec" /\ Shows(<<Mark("prompt")>>) /\ mode' = mode /\ job' = job /\ ahead' = ahead
    BY <1>3 DEF Type, Greeting
  <2>2. <<Mark("prompt")>> \in Seq(Spoken) /\ <<Mark("prompt")>> # <<>>
    BY SpokenTokens
  <2>3. KeyChange
    BY <2>1, <2>2 DEF KeyChange, Shows
  <2> QED
    BY <2>1, <2>3, <1>1, <1>3 DEF KeyStep
<1>4. CASE stage = "exec" /\ job.paused /\ ahead = <<>>
  <2>0. job # Idle
    BY <1>4 DEF Idle
  <2>1. AtPager(key, <<>>) /\ <<>> \in Seq(KeySet)
    BY <1>4, <2>0 DEF Type
  <2> QED
    BY <2>1, <1>4, AtPagerStep
<1>5. CASE stage = "exec" /\ job # Idle /\ ~job.paused /\ key.what = "etx"
  <2>1. Shows(<<Mark("prompt")>>) /\ job' = Idle /\ stage' = stage /\ mode' = mode /\ ahead' = ahead
    BY <1>5 DEF Type
  <2>2. <<Mark("prompt")>> \in Seq(Spoken) /\ <<Mark("prompt")>> # <<>>
    BY SpokenTokens
  <2>3. KeyChange
    BY <2>1, <2>2 DEF KeyChange, Shows
  <2> QED
    BY <2>1, <2>3, <1>1 DEF KeyStep
<1>6. CASE stage = "exec" /\ job = Idle /\ ahead = <<>>
  <2>1. ~job.paused
    BY <1>6 DEF Idle
  <2>2. AtPrompt(key) /\ ahead' = ahead
    BY <1>6, <2>1 DEF Type
  <2> QED
    BY <2>2, <1>1, <1>6, AtPromptStep
<1>7. CASE /\ ~(stage = "dialog" /\ key.what = "no")
           /\ ~(stage = "return" /\ key.what \notin {"space", "etx"})
           /\ ~(stage = "exec" /\ job.paused /\ ahead = <<>>)
           /\ ~(stage = "exec" /\ job # Idle /\ ~job.paused /\ key.what = "etx")
           /\ ~(stage = "exec" /\ job = Idle /\ ahead = <<>>)
  <2>1. /\ ahead' = (IF stage = "exec" THEN Append(ahead, key) ELSE ahead)
        /\ stage' = stage /\ mode' = mode /\ text' = text /\ job' = job
    BY <1>7 DEF Type
  <2>2. ahead' \in Seq(KeySet)
    BY <2>1, <1>1
  <2> QED
    BY <2>1, <2>2, <1>1 DEF KeyStep, KeyChange
<1> QED
  BY <1>2, <1>3, <1>4, <1>5, <1>6, <1>7

\* A step that is no output of the terminal's own.
Moves ==
    /\ KeyStep /\ typed' \in {typed, typed + 1} /\ late' \in Seq(KeySet)
    /\ count' \in Counts /\ count'.logs = count.logs

\* What is not touched is a step of that kind, too.
LEMMA StillStep ==
    ASSUME TypeOK, UNCHANGED terminal
    PROVE  KeyStep /\ typed' \in {typed, typed + 1}
<1>1. /\ stage' = stage /\ mode' = mode /\ text' = text /\ job' = job /\ ahead' = ahead
      /\ typed' = typed
  BY DEF terminal
<1> QED
  BY <1>1 DEF TypeOK, KeyStep, KeyChange

\* A script: the key is typed, unless a pager is in the way of it.
LEMMA EvaluateStep ==
    ASSUME TypeOK, NEW key \in KeySet, Evaluate(key)
    PROVE  KeyStep /\ typed' \in {typed, typed + 1}
<1>1. CASE Guarded(key) /\ HasActivePager(text)
  <2>1. UNCHANGED terminal
    BY <1>1 DEF Evaluate
  <2> QED
    BY <2>1, StillStep
<1>2. CASE ~(Guarded(key) /\ HasActivePager(text))
  <2>1. Type(key) /\ typed' \in {typed, typed + 1}
    BY <1>2 DEF Evaluate
  <2> QED
    BY <2>1, TypeStep
<1> QED
  BY <1>1, <1>2

\* The keys the executor types.
LEMMA KeysTyped ==
    /\ \A what \in {"no", "return", "enable", "disable", "etx", "space"} : Key(what) \in KeySet
    /\ \A q \in Query : CommandKey(q) \in KeySet /\ Garbled(CommandKey(q)) \in KeySet
  BY DEF Key, CommandKey, Garbled, KeySet

\* Each counter is one of its own.
LEMMA CountedFacts ==
    ASSUME TypeOK
    PROVE  /\ count \in Counts
           /\ Counted("turns") => count' \in Counts /\ count'.logs = count.logs
           /\ Counted("lost") => count' \in Counts /\ count'.logs = count.logs
           /\ Counted("overruns") => count' \in Counts /\ count'.logs = count.logs
           /\ Counted("garbled") => count' \in Counts /\ count'.logs = count.logs
<1>1. count \in Counts
  BY DEF TypeOK
<1>2. ASSUME Counted("turns")
      PROVE  count' \in Counts /\ count'.logs = count.logs
  BY ONLY <1>1, <1>2 DEF Counts, Counted
<1>3. ASSUME Counted("lost")
      PROVE  count' \in Counts /\ count'.logs = count.logs
  BY ONLY <1>1, <1>3 DEF Counts, Counted
<1>4. ASSUME Counted("overruns")
      PROVE  count' \in Counts /\ count'.logs = count.logs
  BY ONLY <1>1, <1>4 DEF Counts, Counted
<1>5. ASSUME Counted("garbled")
      PROVE  count' \in Counts /\ count'.logs = count.logs
  BY ONLY <1>1, <1>5 DEF Counts, Counted
<1> QED
  BY <1>1, <1>2, <1>3, <1>4, <1>5

\* An exchange that is answered (Sends).
LEMMA SendsMoves ==
    ASSUME TypeOK, NEW key \in KeySet, Garbled(key) \in KeySet \/ key.what # "command", Sends(key)
    PROVE  Moves /\ late = <<>> /\ late' = <<>>
<1>1. late = <<>> /\ late' = <<>> /\ late' \in Seq(KeySet)
  BY DEF Sends
<1>2. CASE Evaluate(key) /\ UNCHANGED count
  <2>1. count' \in Counts /\ count'.logs = count.logs
    BY <1>2, CountedFacts
  <2> QED
    BY <1>1, <1>2, <2>1, EvaluateStep DEF Moves
<1>3. CASE key.what = "command" /\ Evaluate(Garbled(key)) /\ Counted("garbled")
  <2>1. count' \in Counts /\ count'.logs = count.logs
    BY <1>3, CountedFacts
  <2>2. KeyStep /\ typed' \in {typed, typed + 1}
    BY <1>3, EvaluateStep
  <2> QED
    BY <1>1, <2>1, <2>2 DEF Moves
<1> QED
  BY <1>2, <1>3 DEF Sends

\* An exchange that is not answered (SendsInVain).
LEMMA SendsInVainMoves ==
    ASSUME TypeOK, NEW key \in KeySet, SendsInVain(key)
    PROVE  Moves /\ UNCHANGED terminal
<1>1. late' \in Seq(KeySet)
  BY DEF SendsInVain, TypeOK
<1>2. count' \in Counts /\ count'.logs = count.logs
  BY CountedFacts DEF SendsInVain
<1>3. UNCHANGED terminal
  BY DEF SendsInVain
<1> QED
  BY <1>1, <1>2, <1>3, StillStep DEF Moves

\* A reading, answered or not, or a wait that ends in vain.
LEMMA ReadsMoves ==
    ASSUME TypeOK,
           \/ Reads \/ ReadsInVain \/ (\E holds \in BOOLEAN : WaitsInVain(holds))
           \/ UNCHANGED <<terminal, late, count>>
    PROVE  Moves /\ UNCHANGED terminal /\ late' = late
<1>1. UNCHANGED terminal /\ late' = late
  BY DEF Reads, ReadsInVain, WaitsInVain
<1>2. count' \in Counts /\ count'.logs = count.logs
  BY CountedFacts DEF Reads, ReadsInVain, WaitsInVain
<1>3. late' \in Seq(KeySet)
  BY <1>1 DEF TypeOK
<1> QED
  BY <1>1, <1>2, <1>3, StillStep DEF Moves

-----------------------------------------------------------------------------
(* The terminal keeps its own order, whoever types.                        *)

\* What the terminal keeps, token for token.
LEMMA KeptTokens ==
    ASSUME NEW t \in Tokens, NEW x \in Tokens
    PROVE  /\ Kept(t \o x) \in Tokens /\ Len(t) \in Nat /\ Len(x) \in Nat
           /\ \E d \in 0..Len(t) + Len(x) :
                 /\ Len(Kept(t \o x)) = Len(t) + Len(x) - d
                 /\ \A i \in 1..Len(Kept(t \o x)) :
                       \/ d + i \in 1..Len(t) /\ Kept(t \o x)[i] = t[d + i]
                       \/ d + i - Len(t) \in 1..Len(x) /\ Kept(t \o x)[i] = x[d + i - Len(t)]
<1>1. /\ t \o x \in Seq(TokenSet) /\ Len(t \o x) = Len(t) + Len(x)
      /\ Len(t) \in Nat /\ Len(x) \in Nat
  BY Joined DEF Tokens
<1>2. PICK d \in 0..Len(t \o x) : Kept(t \o x) = After(t \o x, d)
  BY <1>1, KeptFacts
<1>3. /\ After(t \o x, d) \in Tokens
      /\ \A i \in 1..Len(After(t \o x, d)) :
            \/ d + i \in 1..Len(t) /\ After(t \o x, d)[i] = t[d + i]
            \/ d + i - Len(t) \in 1..Len(x) /\ After(t \o x, d)[i] = x[d + i - Len(t)]
      /\ Len(After(t \o x, d)) = Len(t) + Len(x) - d
  BY SliceFacts
<1> QED
  BY ONLY <1>1, <1>2, <1>3

\* Writing what is no syslog line makes no more of them in a row, and one line
\* makes one more.
LEMMA RunsKept ==
    ASSUME NEW t \in Tokens, NEW x \in Tokens, NEW m \in Nat, LogRuns(t, m), NEW n \in Nat,
           \/ n = m /\ \A i \in 1..Len(x) : ~IsLog(x[i])
           \/ n = m + 1 /\ Len(x) = 1
    PROVE  LogRuns(Kept(t \o x), n)
<1> DEFINE u == Kept(t \o x)
           a == Len(t)
           b == Len(x)
<1>1. u \in Tokens /\ a \in Nat /\ b \in Nat
  BY KeptTokens
<1>2. PICK d \in 0..a + b :
         /\ Len(u) = a + b - d
         /\ \A i \in 1..Len(u) : \/ d + i \in 1..a /\ u[i] = t[d + i]
                                 \/ d + i - a \in 1..b /\ u[i] = x[d + i - a]
  BY KeptTokens
<1>3. /\ \A i, j \in 0..a : i <= j /\ (\A k \in i+1..j : IsLog(t[k])) => j - i <= m
      /\ (n = m /\ \A i \in 1..b : ~IsLog(x[i])) \/ (n = m + 1 /\ b = 1)
  BY DEF LogRuns
<1>n. m \in Nat /\ n \in Nat
  OBVIOUS
<1> HIDE DEF u, a, b
<1>4. d \in Nat /\ d <= a + b /\ Len(u) \in Nat
  BY ONLY <1>1, <1>2
<1>5. ASSUME NEW i \in 0..Len(u), NEW j \in 0..Len(u), i <= j,
             \A k \in i+1..j : IsLog(u[k])
      PROVE  j - i <= n
  <2>1. i \in Nat /\ j \in Nat /\ i <= j /\ d + i \in Nat /\ d + j \in Nat
    BY ONLY <1>4, <1>5
  <2>2. \A k \in i+1..j : k \in 1..Len(u) /\ k \in Nat
    BY ONLY <1>4, <1>5
  <2>a. ASSUME NEW c \in 0..a, d + i <= c, c <= d + j
        PROVE  c - (d + i) <= m
    <3>1. ASSUME NEW k \in d + i + 1..c
          PROVE  IsLog(t[k])
      <4>1. k - d \in i+1..j /\ k \in Nat /\ k <= a /\ d + (k - d) = k
        BY ONLY <2>1, <2>a, <3>1, <1>1, <1>4
      <4>2. IsLog(u[k - d]) /\ k - d \in 1..Len(u)
        BY ONLY <4>1, <2>2, <1>5
      <4>3. ~(d + (k - d) - a \in 1..b)
        BY ONLY <4>1, <1>1
      <4>4. u[k - d] = t[d + (k - d)]
        BY ONLY <4>2, <4>3, <1>2
      <4> QED
        BY ONLY <4>1, <4>2, <4>4
    <3>2. d + i \in 0..a /\ c \in 0..a
      BY ONLY <2>1, <2>a, <1>1
    <3> QED
      BY ONLY <1>3, <2>a, <3>1, <3>2
  <2>3. CASE d + j <= a
    <3>1. d + j \in 0..a /\ d + i <= d + j /\ d + j <= d + j
      BY ONLY <2>1, <2>3, <1>1
    <3>2. d + j - (d + i) <= m
      BY ONLY <2>a, <3>1
    <3> QED
      BY ONLY <3>2, <2>1, <1>3, <1>n
  <2>4. CASE d + j > a /\ i < j
    <3>1. j \in i+1..j /\ j \in 1..Len(u) /\ ~(d + j \in 1..a)
      BY ONLY <2>1, <2>4, <1>1, <1>4, <1>5
    <3>2. d + j - a \in 1..b /\ IsLog(x[d + j - a])
      BY ONLY <3>1, <1>2, <1>5
    <3>3. n = m + 1 /\ b = 1
      BY ONLY <3>2, <1>3
    <3>4. d + j = a + 1
      BY ONLY <3>2, <3>3, <2>1, <1>1
    <3>5. a \in 0..a /\ d + i <= a /\ a <= d + j
      BY ONLY <3>4, <2>1, <2>4, <1>1
    <3>6. a - (d + i) <= m
      BY ONLY <2>a, <3>5
    <3> QED
      BY ONLY <3>3, <3>4, <3>6, <2>1, <1>1, <1>4, <1>n
  <2>5. CASE i = j
    BY ONLY <2>5, <2>1, <1>n
  <2> QED
    BY ONLY <2>3, <2>4, <2>5, <2>1, <1>1
<1>6. LogRuns(u, n)
  BY ONLY <1>5 DEF LogRuns
<1> QED
  BY <1>6 DEF u

\* A mark is written behind what is no mark.
LEMMA MarksKept ==
    ASSUME NEW t \in Tokens, NEW x \in Tokens, LoneMarks(t), x # <<>>,
           \/ \A i \in 1..Len(x) : x[i].what # "more"
           \/ Len(x) = 1 /\ (t # <<>> => t[Len(t)].what # "more")
    PROVE  /\ LoneMarks(Kept(t \o x))
           /\ Kept(t \o x) # <<>> => Kept(t \o x)[Len(Kept(t \o x))] = x[Len(x)]
<1> DEFINE u == Kept(t \o x)
           a == Len(t)
           b == Len(x)
<1>1. u \in Tokens /\ a \in Nat /\ b \in Nat
  BY KeptTokens
<1>2. PICK d \in 0..a + b :
         /\ Len(u) = a + b - d
         /\ \A i \in 1..Len(u) : \/ d + i \in 1..a /\ u[i] = t[d + i]
                                 \/ d + i - a \in 1..b /\ u[i] = x[d + i - a]
  BY KeptTokens
<1>3. /\ \A i \in 1..a : i < a => ~(t[i].what = "more" /\ t[i + 1].what = "more")
      /\ \/ \A i \in 1..b : x[i].what # "more"
         \/ b = 1 /\ (a > 0 => t[a].what # "more")
      /\ b > 0
  <2>1. a > 0 => t # <<>>
    OBVIOUS
  <2>2. b > 0
    BY DEF Tokens
  <2> QED
    BY <2>1, <2>2 DEF LoneMarks
<1>e. u # <<>> => Len(u) > 0
  BY <1>1 DEF Tokens
<1> HIDE DEF u, a, b
<1>4. d \in Nat /\ d <= a + b /\ Len(u) \in Nat
  BY ONLY <1>1, <1>2
<1>5. ASSUME NEW i \in 1..Len(u), i < Len(u), u[i].what = "more", u[i + 1].what = "more"
      PROVE  FALSE
  <2>1. i \in Nat /\ i >= 1 /\ i + 1 \in 1..Len(u) /\ d + (i + 1) = d + i + 1
    BY ONLY <1>4, <1>5
  <2>2. CASE d + i + 1 \in 1..a /\ u[i + 1] = t[d + i + 1]
    <3>1. d + i \in 1..a /\ d + i < a /\ ~(d + i - a \in 1..b)
      BY ONLY <2>1, <2>2, <1>1, <1>4
    <3>2. u[i] = t[d + i]
      BY ONLY <3>1, <1>2, <1>5
    <3> QED
      BY ONLY <2>2, <3>1, <3>2, <1>3, <1>5
  <2>3. CASE d + i + 1 - a \in 1..b /\ u[i + 1] = x[d + i + 1 - a]
    <3>1. b = 1 /\ (a > 0 => t[a].what # "more")
      BY ONLY <2>3, <1>3, <1>5
    <3>2. d + i = a /\ a > 0
      BY ONLY <2>1, <2>3, <3>1, <1>1, <1>4
    <3>3. ~(d + i - a \in 1..b)
      BY ONLY <3>2, <1>1
    <3>4. u[i] = t[a]
      BY ONLY <3>2, <3>3, <1>2, <1>5
    <3> QED
      BY ONLY <3>1, <3>2, <3>4, <1>5
  <2>4. \/ d + (i + 1) \in 1..a /\ u[i + 1] = t[d + (i + 1)]
        \/ d + (i + 1) - a \in 1..b /\ u[i + 1] = x[d + (i + 1) - a]
    BY ONLY <2>1, <1>2
  <2>5. d + (i + 1) - a = d + i + 1 - a
    BY ONLY <2>1, <1>1, <1>4
  <2> QED
    BY ONLY <2>1, <2>2, <2>3, <2>4, <2>5
<1>6. LoneMarks(u)
  BY ONLY <1>5 DEF LoneMarks
<1>7. ASSUME u # <<>>
      PROVE  u[Len(u)] = x[b]
  <2>1. Len(u) \in 1..Len(u) /\ ~(d + Len(u) \in 1..a) /\ d + Len(u) - a = b
    BY ONLY <1>1, <1>2, <1>3, <1>4, <1>7, <1>e
  <2>2. \/ d + Len(u) \in 1..a /\ u[Len(u)] = t[d + Len(u)]
        \/ d + Len(u) - a \in 1..b /\ u[Len(u)] = x[d + Len(u) - a]
    BY ONLY <2>1, <1>2
  <2> QED
    BY ONLY <2>1, <2>2
<1> QED
  BY <1>6, <1>7 DEF u, b

\* A text without the mark that stands last is in order, too.
LEMMA UnmarkedFacts ==
    ASSUME NEW t \in Tokens, NEW m \in Nat, LogRuns(t, m), LoneMarks(t),
           NEW u, u = WithoutMark(t)
    PROVE  /\ u \in Tokens /\ LogRuns(u, m) /\ LoneMarks(u)
           /\ u # <<>> => u[Len(u)].what # "more"
<1>1. t \in Seq(TokenSet) /\ Len(t) \in Nat
  BY DEF Tokens
<1>2. CASE ~(t # <<>> /\ t[Len(t)].what = "more")
  <2>1. u = t
    BY <1>2 DEF WithoutMark, Last
  <2> QED
    BY <2>1, <1>2
<1>3. CASE t # <<>> /\ t[Len(t)].what = "more"
  <2>1. u = SubSeq(t, 1, Len(t) - 1) /\ Len(t) > 0
    BY <1>3, <1>1 DEF WithoutMark, Last, Front
  <2>2. Len(t) - 1 \in 0..Len(t)
    BY <2>1, <1>1
  <2>3. u \in Seq(TokenSet) /\ Len(u) = Len(t) - 1 /\ \A i \in 1..Len(t) - 1 : u[i] = t[i]
    BY ONLY <1>1, <2>1, <2>2, FrontFacts
  <2>4. LogRuns(u, m)
    <3> SUFFICES ASSUME NEW i \in 0..Len(u), NEW j \in 0..Len(u), i <= j,
                        \A k \in i+1..j : IsLog(u[k])
                 PROVE  j - i <= m
      BY DEF LogRuns
    <3>1. i \in 0..Len(t) /\ j \in 0..Len(t)
      BY <2>3, <1>1
    <3>2. \A k \in i+1..j : k \in 1..Len(t) - 1
      BY <2>3, <1>1
    <3>3. \A k \in i+1..j : IsLog(t[k])
      BY <3>2, <2>3
    <3> QED
      BY <3>1, <3>3 DEF LogRuns
  <2>5. \A i \in 1..Len(u) : i < Len(u) => i + 1 \in 1..Len(t) - 1 /\ i \in 1..Len(t) /\ i < Len(t)
    BY <2>3, <1>1
  <2>6. LoneMarks(u)
    BY <2>3, <2>5 DEF LoneMarks
  <2>7. u # <<>> => Len(u) \in 1..Len(t) /\ Len(u) < Len(t) /\ Len(u) + 1 = Len(t)
                    /\ Len(u) \in 1..Len(t) - 1
    BY <2>3, <1>1
  <2>8. u # <<>> => u[Len(u)].what # "more"
    BY <2>3, <2>7, <1>3 DEF LoneMarks
  <2> QED
    BY <2>3, <2>4, <2>6, <2>8 DEF Tokens
<1> QED
  BY <1>2, <1>3

\* Keys keep the terminal in order.
LEMMA KeyKeepsTerminal ==
    ASSUME TypeOK, TerminalInv, KeyStep, count'.logs = count.logs
    PROVE  text' \in Tokens /\ job' \in Jobs /\ TerminalInv'
<1>1. text \in Tokens /\ job \in Jobs /\ count.logs \in Nat
  BY ConstantTypes DEF TypeOK, Counts
<1>2. LogRuns(text, count.logs) /\ LoneMarks(text)
      /\ (text # <<>> /\ text[Len(text)].what = "more" => job.paused)
  BY DEF TerminalInv, MoreInv, LogInv
<1>3. JobInv
  BY DEF TerminalInv
<1>a. KeyChange
  BY DEF KeyStep
<1>4. SUFFICES /\ text' \in Tokens /\ job' \in Jobs /\ JobInv'
               /\ LogRuns(text', count.logs) /\ LoneMarks(text')
               /\ text' # <<>> /\ text'[Len(text')].what = "more" => job'.paused
  BY DEF TerminalInv, MoreInv, LogInv
<1>5. CASE text' = text /\ job' = job
  <2>1. JobInv'
    BY <1>3, <1>5 DEF JobInv
  <2> QED
    BY <2>1, <1>1, <1>2, <1>5
<1>6. CASE \E x \in Seq(Spoken) :
              x # <<>> /\ text' = Kept(text \o x) /\ job' \in {job, Idle} \cup NewJobs
  <2>1. PICK x \in Seq(Spoken) :
          x # <<>> /\ text' = Kept(text \o x) /\ job' \in {job, Idle} \cup NewJobs
    BY <1>6
  <2>2. \A i \in 1..Len(x) : x[i] \in Spoken
    BY <2>1
  <2>3. x \in Tokens /\ \A i \in 1..Len(x) : x[i].what # "more" /\ ~IsLog(x[i])
    BY <2>2, SpokenTokens DEF Tokens, Spoken, IsLog
  <2>4. text' \in Tokens
    BY <1>1, <2>1, <2>3, KeptTokens
  <2>5. LogRuns(text', count.logs)
    BY <1>1, <1>2, <2>1, <2>3, RunsKept
  <2>6. LoneMarks(text') /\ (text' # <<>> => text'[Len(text')] = x[Len(x)])
    BY <1>1, <1>2, <2>1, <2>3, MarksKept
  <2>7. Len(x) \in 1..Len(x)
    BY <2>1
  <2>8. job' \in Jobs /\ JobInv'
    <3>1. CASE job' = job
      BY <3>1, <1>1, <1>3 DEF JobInv
    <3>2. CASE job' = Idle
      BY <3>2 DEF JobInv, Jobs
    <3>3. CASE job' \in NewJobs
      <4>1. job' = [of |-> job'.of, next |-> 1, page |-> 0, paused |-> FALSE] /\ job'.of \in Query
        BY <3>3 DEF NewJobs
      <4>2. Rows[job'.of] \in Nat
        BY <4>1, ConstantTypes
      <4>3. job'.page = 0 /\ job'.next = 1 /\ job'.paused = FALSE /\ 1 \in Nat \ {0} /\ 0 \in Nat
        BY <4>1
      <4>4. job' \in Jobs
        BY <4>1, <4>3 DEF Jobs
      <4> QED
        BY <4>2, <4>3, <4>4 DEF JobInv
    <3> QED
      BY <2>1, <3>1, <3>2, <3>3
  <2> QED
    BY <2>3, <2>4, <2>5, <2>6, <2>7, <2>8
<1>7. CASE /\ text' = WithoutMark(text) /\ job.paused
           /\ job' = [job EXCEPT !.page = 0, !.paused = FALSE]
  <2>1. text' \in Tokens /\ LogRuns(text', count.logs) /\ LoneMarks(text')
        /\ (text' # <<>> => text'[Len(text')].what # "more")
    BY <1>1, <1>2, <1>7, UnmarkedFacts
  <2>2. job # Idle
    BY <1>7 DEF Idle
  <2>3. job \in [of : Query, next : Nat \ {0}, page : Nat, paused : BOOLEAN]
    BY <2>2, <1>1 DEF Jobs
  <2>4. /\ job'.of = job.of /\ job'.next = job.next /\ job'.page = 0 /\ job'.paused = FALSE
        /\ job' \in [of : Query, next : Nat \ {0}, page : Nat, paused : BOOLEAN]
    BY <2>3, <1>7
  <2>5. job' \in Jobs
    BY <2>4 DEF Jobs
  <2>6. JobInv'
    BY <2>2, <2>3, <2>4, <1>3 DEF JobInv
  <2> QED
    BY <2>1, <2>5, <2>6
<1>8. CASE text' = Kept(WithoutMark(text) \o <<Mark("prompt")>>) /\ job' = Idle
  <2> DEFINE u == WithoutMark(text)
  <2>1. u \in Tokens /\ LogRuns(u, count.logs) /\ LoneMarks(u)
    BY <1>1, <1>2, UnmarkedFacts
  <2> HIDE DEF u
  <2>2. /\ <<Mark("prompt")>> \in Tokens /\ Len(<<Mark("prompt")>>) = 1 /\ <<Mark("prompt")>> # <<>>
        /\ <<Mark("prompt")>>[1] = Mark("prompt")
        /\ \A i \in 1..1 : <<Mark("prompt")>>[i].what # "more" /\ ~IsLog(<<Mark("prompt")>>[i])
    BY SpokenTokens DEF Tokens, IsLog
  <2>3. text' \in Tokens
    BY <1>8, <2>1, <2>2, KeptTokens DEF u
  <2>4. LogRuns(text', count.logs)
    BY <1>8, <1>1, <2>1, <2>2, RunsKept DEF u
  <2>5. LoneMarks(text') /\ (text' # <<>> => text'[Len(text')] = Mark("prompt"))
    BY <1>8, <1>1, <2>1, <2>2, MarksKept DEF u
  <2>6. job' \in Jobs /\ JobInv'
    BY <1>8 DEF JobInv, Jobs
  <2> QED
    BY <2>3, <2>4, <2>5, <2>6, SpokenTokens
<1> QED
  BY <1>a, <1>5, <1>6, <1>7, <1>8 DEF KeyChange

\* What the terminal prints of its own: one token.
Prints(token) == text' = Kept(text \o <<token>>)

\* One token more keeps the text in order (PrintRow, PrintMore, PrintPrompt,
\* PrintLog).
LEMMA PrintKeepsText ==
    ASSUME TypeOK, TerminalInv, NEW token \in TokenSet, Prints(token), NEW n \in Nat,
           (n = count.logs /\ ~IsLog(token)) \/ n = count.logs + 1,
           text # <<>> => token.what # "more" \/ text[Len(text)].what # "more"
    PROVE  /\ text' \in Tokens /\ LogRuns(text', n) /\ LoneMarks(text')
           /\ text' # <<>> => text'[Len(text')] = token
<1> DEFINE x == <<token>>
<1>1. x \in Tokens /\ x # <<>> /\ Len(x) = 1 /\ x[1] = token /\ \A i \in 1..1 : x[i] = token
  BY DEF Tokens
<1> HIDE DEF x
<1>2. text \in Tokens /\ count.logs \in Nat /\ LogRuns(text, count.logs) /\ LoneMarks(text)
  BY ConstantTypes DEF TypeOK, Counts, TerminalInv, MoreInv, LogInv
<1>3. text' = Kept(text \o x)
  BY DEF Prints, x
<1>4. text' \in Tokens
  BY <1>1, <1>2, <1>3, KeptTokens
<1>5. LogRuns(Kept(text \o x), n)
  <2>1. \/ n = count.logs /\ \A i \in 1..Len(x) : ~IsLog(x[i])
        \/ n = count.logs + 1 /\ Len(x) = 1
    BY <1>1
  <2> QED
    BY ONLY <2>1, <1>1, <1>2, n \in Nat, RunsKept
<1>6. LoneMarks(text') /\ (text' # <<>> => text'[Len(text')] = x[Len(x)])
  <2>1. \/ \A i \in 1..Len(x) : x[i].what # "more"
        \/ Len(x) = 1 /\ (text # <<>> => text[Len(text)].what # "more")
    BY <1>1
  <2> QED
    BY <2>1, <1>1, <1>2, <1>3, MarksKept
<1> QED
  BY <1>1, <1>3, <1>4, <1>5, <1>6

\* The terminal prints a row, a pager, a prompt or a syslog line, or boots.
LEMMA RowKeepsTerminal ==
    ASSUME TypeOK, TerminalInv, PrintRow
    PROVE  TypeOK' /\ TerminalInv'
<1> DEFINE token == Token("row", job.of, job.next, typed)
<1>1. /\ job # Idle /\ ~job.paused /\ job.next <= Rows[job.of] /\ job.page < PageRows
      /\ Prints(token) /\ job' = [job EXCEPT !.next = @ + 1, !.page = @ + 1]
      /\ UNCHANGED <<stage, mode, ahead, late, typed, pc, ask, quarantine, result, count>>
  BY DEF PrintRow, Shows, Prints
<1>2. job \in [of : Query, next : Nat \ {0}, page : Nat, paused : BOOLEAN] /\ typed \in Nat
      /\ count.logs \in Nat
  BY <1>1, ConstantTypes DEF TypeOK, Jobs, Counts
<1>3. Rows[job.of] \in Nat
  BY <1>2, ConstantTypes
<1>4. token \in TokenSet /\ ~IsLog(token) /\ token.what = "row"
  BY <1>2, SpokenTokens DEF IsLog, Token
<1> HIDE DEF token
<1>5. /\ text' \in Tokens /\ LogRuns(text', count.logs) /\ LoneMarks(text')
      /\ text' # <<>> => text'[Len(text')] = token
  BY <1>1, <1>2, <1>4, PrintKeepsText
<1>a. job.next + 1 \in Nat \ {0} /\ job.page + 1 \in Nat /\ job.paused = FALSE
  BY <1>1, <1>2
<1>6. /\ job'.of = job.of /\ job'.next = job.next + 1 /\ job'.page = job.page + 1
      /\ job'.paused = FALSE
      /\ job' \in [of : Query, next : Nat \ {0}, page : Nat, paused : BOOLEAN]
  <2>1. job' = [job EXCEPT !.next = job.next + 1, !.page = job.page + 1]
    BY <1>1
  <2> QED
    BY <1>2, <1>a, <2>1
<1>7. job' \in Jobs
  BY <1>6 DEF Jobs
<1>8. job.page < job.next
  BY <1>1 DEF TerminalInv, JobInv
<1>9. JobInv'
  BY <1>1, <1>2, <1>3, <1>6, <1>8 DEF JobInv
<1>10. TerminalInv'
  BY <1>1, <1>4, <1>5, <1>9 DEF TerminalInv, MoreInv, LogInv
<1> QED
  BY <1>1, <1>5, <1>7, <1>10 DEF TypeOK

\* See RowKeepsTerminal (PrintMore).
LEMMA MoreKeepsTerminal ==
    ASSUME TypeOK, TerminalInv, PrintMore
    PROVE  TypeOK' /\ TerminalInv'
<1> DEFINE token == Mark("more")
<1>1. /\ job # Idle /\ ~job.paused /\ job.next <= Rows[job.of] /\ job.page = PageRows
      /\ Prints(token) /\ job' = [job EXCEPT !.paused = TRUE]
      /\ UNCHANGED <<stage, mode, ahead, late, typed, pc, ask, quarantine, result, count>>
  BY DEF PrintMore, Shows, Prints
<1>2. job \in [of : Query, next : Nat \ {0}, page : Nat, paused : BOOLEAN] /\ count.logs \in Nat
  BY <1>1, ConstantTypes DEF TypeOK, Jobs, Counts
<1>3. Rows[job.of] \in Nat
  BY <1>2, ConstantTypes
<1>4. token \in TokenSet /\ ~IsLog(token)
  BY SpokenTokens DEF IsLog
<1> HIDE DEF token
<1>a. text # <<>> => text[Len(text)].what # "more"
  BY <1>1 DEF TerminalInv, MoreInv
<1>5. text' \in Tokens /\ LogRuns(text', count.logs) /\ LoneMarks(text')
  BY <1>1, <1>2, <1>4, <1>a, PrintKeepsText
<1>6. /\ job'.of = job.of /\ job'.next = job.next /\ job'.page = job.page /\ job'.paused = TRUE
      /\ job' \in [of : Query, next : Nat \ {0}, page : Nat, paused : BOOLEAN]
  BY <1>1, <1>2
<1>7. job' \in Jobs
  BY <1>6 DEF Jobs
<1>8. job.page < job.next /\ job.next <= Rows[job.of] + 1
  BY <1>1 DEF TerminalInv, JobInv
<1>9. JobInv'
  BY <1>1, <1>6, <1>8 DEF JobInv
<1>10. TerminalInv'
  BY <1>1, <1>5, <1>6, <1>9 DEF TerminalInv, MoreInv, LogInv
<1> QED
  BY <1>1, <1>5, <1>7, <1>10 DEF TypeOK

\* See RowKeepsTerminal (PrintPrompt).
LEMMA PromptKeepsTerminal ==
    ASSUME TypeOK, TerminalInv, PrintPrompt
    PROVE  TypeOK' /\ TerminalInv'
<1> DEFINE token == Mark("prompt")
<1>1. /\ Prints(token) /\ job' = Idle
      /\ UNCHANGED <<stage, mode, ahead, late, typed, pc, ask, quarantine, result, count>>
  BY DEF PrintPrompt, Shows, Prints
<1>2. count.logs \in Nat
  BY ConstantTypes DEF TypeOK, Counts
<1>4. token \in TokenSet /\ ~IsLog(token) /\ token.what = "prompt"
  BY SpokenTokens DEF IsLog
<1> HIDE DEF token
<1>5. /\ text' \in Tokens /\ LogRuns(text', count.logs) /\ LoneMarks(text')
      /\ text' # <<>> => text'[Len(text')] = token
  BY <1>1, <1>2, <1>4, PrintKeepsText
<1>7. job' \in Jobs /\ JobInv'
  BY <1>1 DEF Jobs, JobInv
<1>10. TerminalInv'
  BY <1>1, <1>4, <1>5, <1>7 DEF TerminalInv, MoreInv, LogInv
<1> QED
  BY <1>1, <1>5, <1>7, <1>10 DEF TypeOK

\* See RowKeepsTerminal (PrintLog).
LEMMA LogKeepsTerminal ==
    ASSUME TypeOK, TerminalInv, PrintLog
    PROVE  TypeOK' /\ TerminalInv'
<1> DEFINE token == Mark("log")
<1>1. /\ Prints(token) /\ count' = [count EXCEPT !.logs = @ + 1] /\ count.logs < MaxLogs
      /\ UNCHANGED <<stage, mode, job, ahead, late, typed, pc, ask, quarantine, result>>
  BY DEF PrintLog, Shows, Prints, Counted
<1>2. count.logs \in 0..MaxLogs /\ MaxLogs \in Nat /\ count \in Counts
  BY ConstantTypes DEF TypeOK, Counts
<1>3. count' \in Counts /\ count'.logs = count.logs + 1 /\ count.logs + 1 \in Nat
  BY <1>1, <1>2 DEF Counts
<1>4. token \in TokenSet /\ token.what = "log"
  BY SpokenTokens
<1> HIDE DEF token
<1>5. /\ text' \in Tokens /\ LogRuns(text', count.logs + 1) /\ LoneMarks(text')
      /\ text' # <<>> => text'[Len(text')] = token
  BY <1>1, <1>3, <1>4, PrintKeepsText
<1>7. JobInv'
  BY <1>1 DEF TerminalInv, JobInv
<1>10. TerminalInv'
  BY <1>1, <1>3, <1>4, <1>5, <1>7 DEF TerminalInv, MoreInv, LogInv
<1> QED
  BY <1>1, <1>3, <1>5, <1>10 DEF TypeOK

\* See RowKeepsTerminal (EndBoot; Init shows a greeting, too).
LEMMA GreetingFacts ==
    ASSUME NEW s \in {"booting", "dialog", "return", "exec"}, NEW n \in Nat
    PROVE  /\ Greeting(s) \in Tokens /\ LogRuns(Greeting(s), n) /\ LoneMarks(Greeting(s))
           /\ Greeting(s) # <<>> => Greeting(s)[Len(Greeting(s))].what # "more"
<1>1. <<>> \in Tokens /\ LogRuns(<<>>, n) /\ LoneMarks(<<>>)
  BY DEF Tokens, LogRuns, LoneMarks
<1>2. ASSUME NEW token \in Spoken
      PROVE  /\ <<token>> \in Tokens /\ LogRuns(<<token>>, n) /\ LoneMarks(<<token>>)
             /\ <<token>>[Len(<<token>>)].what # "more"
  <2>1. <<token>> \in Tokens /\ Len(<<token>>) = 1 /\ <<token>>[1] = token
    BY SpokenTokens DEF Tokens
  <2>2. ~IsLog(token) /\ token.what # "more"
    BY DEF Spoken, IsLog
  <2> DEFINE t == <<token>>
  <2>3. t \in Tokens /\ Len(t) = 1 /\ t[1] = token
    BY <2>1
  <2> HIDE DEF t
  <2>4. LoneMarks(t)
    BY <2>3 DEF LoneMarks
  <2>5. LogRuns(t, n)
    <3> SUFFICES ASSUME NEW i \in 0..1, NEW j \in 0..1, i <= j, \A k \in i+1..j : IsLog(t[k])
                 PROVE  j - i <= n
      BY <2>3 DEF LogRuns
    <3>1. i < j => 1 \in i+1..j
      OBVIOUS
    <3> QED
      BY <3>1, <2>2, <2>3
  <2> QED
    BY <2>2, <2>3, <2>4, <2>5 DEF t
<1>3. Greeting(s) \in {<<>>, <<Mark("dialog")>>, <<Mark("press")>>, <<Mark("prompt")>>}
  BY DEF Greeting
<1> QED
  BY <1>1, <1>2, <1>3, SpokenTokens

\* See RowKeepsTerminal (EndBoot).
LEMMA BootKeepsTerminal ==
    ASSUME TypeOK, TerminalInv, EndBoot
    PROVE  TypeOK' /\ TerminalInv'
<1>1. /\ stage' \in {"dialog", "return"} /\ text' = Greeting(stage')
      /\ UNCHANGED <<mode, job, ahead, late, typed, pc, ask, quarantine, result, count>>
  BY DEF EndBoot
<1>2. count.logs \in Nat
  BY ConstantTypes DEF TypeOK, Counts
<1>3. /\ text' \in Tokens /\ LogRuns(text', count.logs) /\ LoneMarks(text')
      /\ text' # <<>> => text'[Len(text')].what # "more"
  BY <1>1, <1>2, GreetingFacts
<1>4. JobInv'
  BY <1>1 DEF TerminalInv, JobInv
<1>5. TerminalInv'
  BY <1>1, <1>3, <1>4 DEF TerminalInv, MoreInv, LogInv
<1> QED
  BY <1>1, <1>3, <1>5 DEF TypeOK

\* Scripts that run late, and keys that were typed ahead, are keys.
LEMMA LateMoves ==
    ASSUME TypeOK, EvaluateLate \/ TakeAhead
    PROVE  Moves /\ UNCHANGED <<pc, ask, quarantine, result, count>>
<1>1. late \in Seq(KeySet) /\ ahead \in Seq(KeySet) /\ count \in Counts
  BY DEF TypeOK
<1>2. CASE EvaluateLate
  <2>1. late # <<>> /\ Evaluate(Head(late)) /\ late' = Tail(late)
        /\ UNCHANGED <<pc, ask, quarantine, result, count>>
    BY <1>2 DEF EvaluateLate
  <2>2. Head(late) \in KeySet /\ Tail(late) \in Seq(KeySet)
    BY <1>1, <2>1
  <2> QED
    BY <1>1, <2>1, <2>2, EvaluateStep DEF Moves
<1>3. CASE TakeAhead
  <2>1. ahead # <<>> /\ UNCHANGED <<late, typed, pc, ask, quarantine, result, count>>
    BY <1>3 DEF TakeAhead
  <2>2. Head(ahead) \in KeySet /\ Tail(ahead) \in Seq(KeySet)
    BY <1>1, <2>1
  <2>3. KeyStep
    <3>1. CASE job.paused /\ AtPager(Head(ahead), Tail(ahead))
      BY <3>1, <2>2, AtPagerStep
    <3>2. CASE job = Idle /\ AtPrompt(Head(ahead)) /\ ahead' = Tail(ahead)
      BY <3>2, <2>2, AtPromptStep
    <3> QED
      BY <3>1, <3>2, <1>3 DEF TakeAhead
  <2> QED
    BY <1>1, <2>1, <2>3 DEF Moves
<1> QED
  BY <1>2, <1>3

\* Whatever moves keeps the terminal in order.
LEMMA MovesKeepTerminal ==
    ASSUME TypeOK, TerminalInv, Moves
    PROVE  /\ TerminalInv'
           /\ stage' \in {"booting", "dialog", "return", "exec"} /\ mode' \in {"user", "privileged"}
           /\ text' \in Tokens /\ job' \in Jobs /\ ahead' \in Seq(KeySet) /\ late' \in Seq(KeySet)
           /\ typed' \in Nat /\ count' \in Counts
<1>1. KeyStep /\ count'.logs = count.logs /\ typed' \in {typed, typed + 1} /\ typed \in Nat
  BY DEF Moves, TypeOK
<1>2. text' \in Tokens /\ job' \in Jobs /\ TerminalInv'
  BY <1>1, KeyKeepsTerminal
<1> QED
  BY <1>1, <1>2 DEF Moves, KeyStep

\* The types and the terminal, when the terminal moves by itself.
LEMMA TerminalKeepsTerminal ==
    ASSUME TypeOK, TerminalInv, Terminal
    PROVE  TypeOK' /\ TerminalInv' /\ UNCHANGED <<pc, ask, quarantine, result>>
<1>1. CASE EvaluateLate \/ TakeAhead
  <2>1. Moves /\ UNCHANGED <<pc, ask, quarantine, result, count>>
    BY <1>1, LateMoves
  <2>2. /\ TerminalInv'
        /\ stage' \in {"booting", "dialog", "return", "exec"} /\ mode' \in {"user", "privileged"}
        /\ text' \in Tokens /\ job' \in Jobs /\ ahead' \in Seq(KeySet) /\ late' \in Seq(KeySet)
        /\ typed' \in Nat /\ count' \in Counts
    BY <2>1, MovesKeepTerminal
  <2> QED
    BY <2>1, <2>2 DEF TypeOK
<1>2. CASE PrintRow
  BY <1>2, RowKeepsTerminal DEF PrintRow
<1>3. CASE PrintMore
  BY <1>3, MoreKeepsTerminal DEF PrintMore
<1>4. CASE PrintPrompt
  BY <1>4, PromptKeepsTerminal DEF PrintPrompt
<1>5. CASE PrintLog
  BY <1>5, LogKeepsTerminal DEF PrintLog
<1>6. CASE EndBoot
  BY <1>6, BootKeepsTerminal DEF EndBoot
<1> QED
  BY <1>1, <1>2, <1>3, <1>4, <1>5, <1>6 DEF Terminal

-----------------------------------------------------------------------------
(* What is read while the terminal moves by itself.                        *)

\* The text follows another, and of what was written since all is in a set.
Follows(s, t, M) == \E r \in 0..Len(t) : Since(s, t, r) /\ AllIn(After(t, r), M)

\* Keys write no row, and erase no more than a mark written since.
LEMMA KeyFollows ==
    ASSUME TypeOK, KeyStep, NEW s \in Tokens, s # <<>> => s[Len(s)].what # "more",
           NEW M, Spoken \subseteq M, Follows(s, text, M)
    PROVE  Follows(s, text', M)
<1>1. PICK r \in 0..Len(text) : Since(s, text, r) /\ AllIn(After(text, r), M)
  BY DEF Follows
<1>2. text \in Tokens /\ KeyChange
  BY DEF TypeOK, KeyStep
<1>3. ASSUME NEW t \in Tokens, NEW q, Since(s, t, q), AllIn(After(t, q), M),
             NEW x \in Seq(Spoken), text' = Kept(t \o x)
      PROVE  Follows(s, text', M)
  <2>1. \A i \in 1..Len(x) : x[i] \in Spoken
    BY <1>3
  <2>2. x \in Tokens /\ AllIn(x, M)
    BY <2>1, SpokenTokens DEF Tokens, AllIn
  <2> QED
    BY <1>3, <2>2, GrownIn DEF Follows
<1>4. CASE text' = text
  BY <1>1, <1>4 DEF Follows
<1>5. CASE \E x \in Seq(Spoken) : text' = Kept(text \o x)
  BY <1>1, <1>2, <1>3, <1>5
<1> DEFINE u == WithoutMark(text)
<1>6. u \in Tokens /\ Since(s, u, r) /\ AllIn(After(u, r), M)
  <2>1. /\ u \in Tokens /\ Since(s, u, r) /\ After(text, r) \in Tokens
        /\ \/ After(u, r) = After(text, r)
           \/ /\ Len(After(u, r)) = Len(After(text, r)) - 1
              /\ \A i \in 1..Len(After(text, r)) - 1 : After(u, r)[i] = After(text, r)[i]
    BY <1>1, <1>2, ErasedFacts
  <2>2. Len(After(text, r)) \in Nat
    BY <2>1 DEF Tokens
  <2> HIDE DEF u
  <2> QED
    BY <1>1, <2>1, <2>2 DEF AllIn
<1>7. CASE text' = u
  <2>1. r \in 0..Len(u)
    BY <1>6 DEF Since
  <2> QED
    BY <1>6, <1>7, <2>1 DEF Follows
<1>8. CASE text' = Kept(u \o <<Mark("prompt")>>)
  <2>1. <<Mark("prompt")>> \in Seq(Spoken)
    BY SpokenTokens
  <2> HIDE DEF u
  <2> QED
    BY <1>3, <1>6, <1>8, <2>1
<1> QED
  BY <1>2, <1>4, <1>5, <1>7, <1>8 DEF KeyChange

\* One token more follows, too.
LEMMA PrintFollows ==
    ASSUME TypeOK, NEW token \in TokenSet, Prints(token), NEW s \in Tokens,
           NEW M, token \in M, Follows(s, text, M)
    PROVE  Follows(s, text', M)
<1>1. PICK r \in 0..Len(text) : Since(s, text, r) /\ AllIn(After(text, r), M)
  BY DEF Follows
<1>2. <<token>> \in Tokens /\ AllIn(<<token>>, M)
  BY DEF Tokens, AllIn
<1>3. text \in Tokens /\ text' = Kept(text \o <<token>>)
  BY DEF TypeOK, Prints
<1> QED
  BY <1>1, <1>2, <1>3, GrownIn DEF Follows

\* What is spoken is no row of another query.
LEMMA SpokenMine == Spoken \subseteq Mine /\ Mark("log") \in Mine /\ Mark("more") \in Mine
  BY SpokenTokens DEF Mine, Spoken, IsRow

\* Rows printed are a number.
LEMMA PrintedType ==
    ASSUME TypeOK, ask.of \in Query
    PROVE  Printed \in Nat
<1>1. Rows[ask.of] \in Nat
  BY ConstantTypes
<1>2. job # Idle => job.next - 1 \in Nat
  <2>1. job # Idle => job.next \in Nat \ {0}
    BY DEF TypeOK, Jobs
  <2> QED
    BY <2>1
<1> QED
  BY <1>1, <1>2 DEF Printed

\* What the terminal prints while an answer is read.
PrintKind(token) ==
    \/ token.what = "log" /\ job' = job
    \/ /\ job # Idle /\ ~job.paused
       /\ \/ /\ token.what = "row" /\ token.n = Printed + 1 /\ Printed' = Printed + 1
             /\ job' # Idle /\ ~job'.paused
          \/ token.what = "more" /\ Printed' = Printed /\ job' # Idle /\ job'.paused
          \/ token.what = "prompt" /\ Printed' = Printed /\ job' = Idle

\* Each of the four is one token of the query (PrintRow, PrintMore, PrintPrompt,
\* PrintLog), if the terminal was at rest.
LEMMA PrintKinds ==
    ASSUME TypeOK, TerminalInv, ReadingInv, pc \in Reading,
           PrintRow \/ PrintMore \/ PrintPrompt \/ PrintLog
    PROVE  \E token \in TokenSet :
              Prints(token) /\ token \in Mine /\ (ask.quiet => PrintKind(token))
<1>1. ask.of \in Query /\ ask \in Asks /\ ask.mine \in Nat /\ typed \in Nat /\ ask.mine <= typed
      /\ Rows[ask.of] \in Nat
  <2>1. ask.of \in Query /\ ask \in Asks /\ typed \in Nat
    BY DEF TypeOK, Reading
  <2> QED
    BY <2>1, ConstantTypes DEF Asks, ReadingInv
<1>2. ask.quiet => job = Idle \/ job.of = ask.of
  BY DEF ReadingInv
<1>3. job # Idle => job \in [of : Query, next : Nat \ {0}, page : Nat, paused : BOOLEAN]
  BY DEF TypeOK, Jobs
<1>4. CASE PrintRow
  <2> DEFINE token == Token("row", job.of, job.next, typed)
  <2>1. /\ job # Idle /\ ~job.paused /\ Prints(token)
        /\ job' = [job EXCEPT !.next = @ + 1, !.page = @ + 1] /\ ask' = ask
    BY <1>4 DEF PrintRow, Shows, Prints
  <2>2. token \in TokenSet
    BY <1>1, <1>3, <2>1, SpokenTokens
  <2>3. token.what = "row" /\ token.of = job.of /\ token.n = job.next /\ token.at = typed
    BY DEF Token
  <2> HIDE DEF token
  <2>4. token \in Mine
    BY <1>1, <1>2, <2>1, <2>2, <2>3 DEF Mine
  <2>5. job'.next = job.next + 1 /\ job'.paused = FALSE /\ job' # Idle /\ job'.next \in Nat
    <3>1. job'.next = job.next + 1 /\ job'.paused = FALSE /\ job'.of = job.of /\ job.of \in Query
      BY <1>3, <2>1
    <3>2. job' # Idle
      BY <3>1, ConstantTypes DEF Idle
    <3>3. job.next \in Nat
      BY <1>3, <2>1
    <3> QED
      BY ONLY <3>1, <3>2, <3>3
  <2>6. Printed' = Printed + 1 /\ token.n = Printed + 1
    BY <1>3, <2>1, <2>3, <2>5 DEF Printed
  <2> QED
    BY <2>1, <2>2, <2>3, <2>4, <2>5, <2>6 DEF PrintKind
<1>5. CASE PrintMore
  <2>1. /\ job # Idle /\ ~job.paused /\ Prints(Mark("more"))
        /\ job' = [job EXCEPT !.paused = TRUE] /\ ask' = ask
    BY <1>5 DEF PrintMore, Shows, Prints
  <2>2. job'.next = job.next /\ job'.paused = TRUE /\ job' # Idle
    BY <1>3, <2>1 DEF Idle
  <2>3. Printed' = Printed
    BY <2>1, <2>2 DEF Printed
  <2> QED
    BY <2>1, <2>2, <2>3, SpokenTokens, SpokenMine DEF PrintKind
<1>6. CASE PrintPrompt
  <2>1. /\ job # Idle /\ job.next > Rows[job.of] /\ Prints(Mark("prompt")) /\ job' = Idle /\ ask' = ask
    BY <1>6 DEF PrintPrompt, Shows, Prints
  <2>2. job.next <= Rows[job.of] + 1 /\ (job.paused => job.next <= Rows[job.of])
    BY <2>1 DEF TerminalInv, JobInv
  <2>3. Rows[job.of] \in Nat /\ job.next \in Nat
    BY <2>1, <1>3, ConstantTypes
  <2>4. ~job.paused /\ job.next - 1 = Rows[job.of]
    BY ONLY <2>1, <2>2, <2>3
  <2>5. ask.quiet => Printed' = Printed
    BY <1>2, <2>1, <2>4 DEF Printed
  <2> QED
    BY <2>1, <2>4, <2>5, SpokenTokens, SpokenMine DEF PrintKind
<1>7. CASE PrintLog
  <2>1. Prints(Mark("log")) /\ job' = job
    BY <1>7 DEF PrintLog, Shows, Prints
  <2> QED
    BY <2>1, SpokenTokens, SpokenMine DEF PrintKind
<1> QED
  BY <1>4, <1>5, <1>6, <1>7

\* With one token more: what was written since is what it was, and the token,
\* and only loses its front when nothing older is kept.
LEMMA OneMore ==
    ASSUME NEW s \in Tokens, NEW t \in Tokens, NEW token \in TokenSet, NEW r, Since(s, t, r),
           NEW M, AllIn(After(t, r), M), token \in M
    PROVE  /\ Kept(t \o <<token>>) \in Tokens /\ After(t, r) \in Tokens
           /\ \E q \in 0..Len(Kept(t \o <<token>>)), e \in 0..Len(After(t, r)) + 1, v \in Tokens :
                 /\ Since(s, Kept(t \o <<token>>), q) /\ q <= r /\ (e = 0 \/ q = 0)
                 /\ v = After(Kept(t \o <<token>>), q)
                 /\ AllIn(v, M) /\ Len(v) = Len(After(t, r)) + 1 - e
                 /\ \A i \in 1..Len(v) : \/ e + i \in 1..Len(After(t, r)) /\ v[i] = After(t, r)[e + i]
                                         \/ e + i = Len(After(t, r)) + 1 /\ v[i] = token
                 /\ e = 0 => v = After(t, r) \o <<token>>
<1> DEFINE u == Kept(t \o <<token>>)
<1> DEFINE w == After(t, r)
           x == <<token>>
<1>1. w \in Tokens
  <2>1. r \in 0..Len(t)
    BY DEF Since
  <2> QED
    BY <2>1, AfterFacts DEF Tokens
<1>2. x \in Tokens /\ Len(x) = 1 /\ x[1] = token
  BY DEF Tokens
<1>3. u \in Tokens /\ \E q \in 0..Len(u), e \in 0..Len(w \o x) :
         Since(s, u, q) /\ q <= r /\ (e = 0 \/ q = 0) /\ After(u, q) = After(w \o x, e)
  <2>1. u = Kept(t \o x)
    OBVIOUS
  <2> HIDE DEF x
  <2>2. /\ u \in Tokens
        /\ \E q \in 0..Len(u), e \in 0..Len(After(t, r) \o x) :
              /\ Since(s, u, q) /\ q <= r /\ (e = 0 \/ q = 0)
              /\ After(u, q) = After(After(t, r) \o x, e)
    BY ONLY <1>2, <2>1, s \in Tokens, t \in Tokens, Since(s, t, r), GrownFacts
  <2> QED
    BY ONLY <2>2
<1>4. PICK q \in 0..Len(u), e \in 0..Len(w \o x) :
         Since(s, u, q) /\ q <= r /\ (e = 0 \/ q = 0) /\ After(u, q) = After(w \o x, e)
  BY <1>3
<1>5. w \o x \in Tokens /\ Len(w \o x) = Len(w) + 1 /\ Len(w) \in Nat
  <2> HIDE DEF w, x
  <2>1. w \in Seq(TokenSet) /\ x \in Seq(TokenSet)
    BY <1>1, <1>2 DEF Tokens
  <2>2. w \o x \in Seq(TokenSet) /\ Len(w \o x) = Len(w) + Len(x) /\ Len(w) \in Nat
    BY ONLY <2>1, Joined
  <2> QED
    BY ONLY <2>2, <1>2 DEF Tokens
<1>a. AllIn(w, M) /\ token \in M
  OBVIOUS
<1>b. x = <<token>>
  OBVIOUS
<1> HIDE DEF w, x, u
<1> DEFINE v == After(w \o x, e)
<1>6. /\ v \in Tokens
      /\ \A i \in 1..Len(v) :
            \/ e + i \in 1..Len(w) /\ v[i] = w[e + i]
            \/ e + i - Len(w) \in 1..Len(x) /\ v[i] = x[e + i - Len(w)]
      /\ Len(v) = Len(w) + Len(x) - e /\ e \in Nat /\ Len(v) \in Nat
  BY <1>1, <1>2, SliceFacts
<1>7. e = 0 => v = w \o x
  BY <1>5 DEF After, Tokens
<1>8. v = After(u, q) /\ e \in 0..Len(w) + 1
  BY <1>4, <1>5
<1> HIDE DEF v
<1>9. ASSUME NEW i \in 1..Len(v)
      PROVE  \/ e + i \in 1..Len(w) /\ v[i] = w[e + i]
             \/ e + i = Len(w) + 1 /\ v[i] = token
  <2>1. \/ e + i \in 1..Len(w) /\ v[i] = w[e + i]
        \/ e + i - Len(w) \in 1..Len(x) /\ v[i] = x[e + i - Len(w)]
    BY <1>6
  <2>2. ASSUME e + i - Len(w) \in 1..Len(x)
        PROVE  e + i - Len(w) = 1 /\ e + i = Len(w) + 1
    BY <1>2, <1>5, <1>6, <2>2
  <2>3. ASSUME e + i - Len(w) \in 1..Len(x), v[i] = x[e + i - Len(w)]
        PROVE  e + i = Len(w) + 1 /\ v[i] = token
    <3>1. e + i - Len(w) = 1 /\ e + i = Len(w) + 1
      BY ONLY <2>2, <2>3
    <3>2. v[i] = x[1]
      BY ONLY <2>3, <3>1
    <3> QED
      BY ONLY <3>1, <3>2, <1>2
  <2> QED
    BY ONLY <2>1, <2>3
<1>10. AllIn(v, M)
  BY ONLY <1>9, <1>a DEF AllIn
<1>11. Len(v) = Len(w) + 1 - e
  BY ONLY <1>2, <1>6
<1>12. \E q2 \in 0..Len(u), e2 \in 0..Len(w) + 1, v2 \in Tokens :
          /\ Since(s, u, q2) /\ q2 <= r /\ (e2 = 0 \/ q2 = 0)
          /\ v2 = After(u, q2)
          /\ AllIn(v2, M) /\ Len(v2) = Len(w) + 1 - e2
          /\ \A i \in 1..Len(v2) : \/ e2 + i \in 1..Len(w) /\ v2[i] = w[e2 + i]
                                   \/ e2 + i = Len(w) + 1 /\ v2[i] = token
          /\ e2 = 0 => v2 = w \o x
  <2>1. q \in 0..Len(u) /\ e \in 0..Len(w) + 1 /\ v \in Tokens
    BY ONLY <1>4, <1>6, <1>8
  <2>2. \A i \in 1..Len(v) : \/ e + i \in 1..Len(w) /\ v[i] = w[e + i]
                             \/ e + i = Len(w) + 1 /\ v[i] = token
    BY ONLY <1>9, Zenon
  <2>3. /\ Since(s, u, q) /\ q <= r /\ (e = 0 \/ q = 0)
        /\ v = After(u, q)
        /\ AllIn(v, M) /\ Len(v) = Len(w) + 1 - e
        /\ e = 0 => v = w \o x
    BY ONLY <1>4, <1>7, <1>8, <1>10, <1>11, Zenon
  <2> QED
    BY ONLY <2>1, <2>2, <2>3, Zenon
<1>13. u \in Tokens /\ w \in Tokens
  BY ONLY <1>1, <1>3
<1> QED
  BY ONLY <1>12, <1>13 DEF w, u, x

\* A token that is written keeps what a terminal at rest writes.
LEMMA WrittenGrows ==
    ASSUME NEW w \in Tokens, NEW v \in Tokens, NEW token \in TokenSet, NEW r \in Nat, NEW q \in Nat,
           NEW e \in Nat, e = 0 \/ q = 0, q <= r, Len(v) = Len(w) + 1 - e, e <= Len(w) + 1,
           \A i \in 1..Len(v) : \/ e + i \in 1..Len(w) /\ v[i] = w[e + i]
                                \/ e + i = Len(w) + 1 /\ v[i] = token,
           e = 0 => v = w \o <<token>>,
           Printed \in Nat, Printed' \in Nat, token.what = "log" => Printed' = Printed,
           Written(w, r), PrintKind(token)
    PROVE  Written(v, q)'
<1>1. Len(w) \in Nat /\ Len(v) \in Nat /\ e \in Nat
  BY DEF Tokens
<1>2. /\ r > 0 => w # <<>> /\ w[1].what \in {"echo", "bad"}
      /\ \A i \in 1..Len(w) :
            /\ w[i].what \in {"echo", "bad", "row", "more", "prompt", "reject", "log"}
            /\ w[i].what \in {"bad", "reject", "prompt"} => job = Idle
            /\ w[i].what = "more" => job.paused /\ \A j \in i+1..Len(w) : IsLog(w[j])
            /\ job.paused /\ ~IsLog(w[i]) => \E j \in i..Len(w) : w[j].what = "more"
            /\ w[i].what = "echo" =>
                  i = 1 /\ ((job = Idle /\ Rejected(w)) \/ InOrder(w, 0, Printed))
  BY DEF Written
<1>3. /\ token.what \in {"log", "row", "more", "prompt"}
      /\ token.what = "log" => job' = job /\ Printed' = Printed
      /\ token.what # "log" => job # Idle /\ ~job.paused
      /\ token.what = "row" => token.n = Printed + 1 /\ Printed' = Printed + 1 /\ ~job'.paused
      /\ token.what = "more" => Printed' = Printed /\ job'.paused
      /\ token.what = "prompt" => Printed' = Printed /\ job' = Idle
  BY DEF PrintKind
<1>4. q > 0 => v # <<>> /\ v[1].what \in {"echo", "bad"}
  <2> SUFFICES ASSUME q > 0
               PROVE  v # <<>> /\ v[1].what \in {"echo", "bad"}
    OBVIOUS
  <2>1. e = 0 /\ r > 0
    OBVIOUS
  <2>2. Len(w) >= 1
    BY <2>1, <1>2, <1>1 DEF Tokens
  <2>3. 1 \in 1..Len(v) /\ e + 1 = 1 /\ 1 # Len(w) + 1
    BY <2>1, <2>2, <1>1
  <2>4. v[1] = w[1]
    BY <2>1, <2>3, <1>1
  <2> QED
    BY <2>1, <2>3, <2>4, <1>2
<1>5. ASSUME NEW i \in 1..Len(v)
      PROVE  /\ v[i].what \in {"echo", "bad", "row", "more", "prompt", "reject", "log"}
             /\ v[i].what \in {"bad", "reject", "prompt"} => job' = Idle
             /\ v[i].what = "more" => job'.paused /\ \A j \in i+1..Len(v) : IsLog(v[j])
             /\ job'.paused /\ ~IsLog(v[i]) => \E j \in i..Len(v) : v[j].what = "more"
             /\ v[i].what = "echo" =>
                   i = 1 /\ ((job' = Idle /\ Rejected(v)) \/ InOrder(v, 0, Printed'))
  <2>0. i \in Nat /\ i >= 1 /\ i <= Len(v)
    BY <1>1
  <2>1. CASE e + i \in 1..Len(w) /\ v[i] = w[e + i]
    <3>1. v[i].what \in {"echo", "bad", "row", "more", "prompt", "reject", "log"}
      BY <1>2, <2>1
    <3>2. v[i].what \in {"bad", "reject", "prompt"} => job' = Idle
      BY <1>2, <1>3, <2>1
    <3>3. ASSUME v[i].what = "more"
          PROVE  job'.paused /\ \A j \in i+1..Len(v) : IsLog(v[j])
      <4>1. job.paused /\ token.what = "log" /\ \A j \in e+i+1..Len(w) : IsLog(w[j])
        BY <1>2, <1>3, <2>1, <3>3
      <4>2. ASSUME NEW j \in i+1..Len(v)
            PROVE  IsLog(v[j])
        <5>1. j \in 1..Len(v) /\ (e + j \in 1..Len(w) => e + j \in e+i+1..Len(w))
          BY <1>1, <2>0
        <5>2. IsLog(token)
          BY <4>1 DEF IsLog
        <5> QED
          BY <4>1, <5>1, <5>2
      <4> QED
        BY <4>1, <4>2, <1>3
    <3>4. ASSUME job'.paused, ~IsLog(v[i])
          PROVE  \E j \in i..Len(v) : v[j].what = "more"
      <4>1. token.what \in {"log", "more"}
        BY <1>3, <3>4 DEF Idle
      <4>2. CASE token.what = "more"
        <5>1. Len(v) \in 1..Len(v) /\ e + Len(v) = Len(w) + 1 /\ Len(v) \in i..Len(v)
              /\ ~(e + Len(v) \in 1..Len(w))
          BY <1>1, <2>0
        <5>2. v[Len(v)] = token
          BY <5>1
        <5> QED
          BY <4>2, <5>1, <5>2
      <4>3. CASE token.what = "log"
        <5>1. PICK j \in e+i..Len(w) : w[j].what = "more"
          BY <1>2, <1>3, <2>1, <3>4, <4>3
        <5>2. j - e \in i..Len(v) /\ j - e \in 1..Len(v) /\ e + (j - e) = j /\ j # Len(w) + 1
          BY <1>1, <2>0
        <5>3. v[j - e] = w[j]
          BY <5>2
        <5> QED
          BY <5>1, <5>2, <5>3
      <4> QED
        BY <4>1, <4>2, <4>3
    <3>5. ASSUME v[i].what = "echo"
          PROVE  i = 1 /\ ((job' = Idle /\ Rejected(v)) \/ InOrder(v, 0, Printed'))
      <4>1. e + i = 1 /\ ((job = Idle /\ Rejected(w)) \/ InOrder(w, 0, Printed))
        BY <1>2, <2>1, <3>5
      <4>2. e = 0 /\ i = 1 /\ v = w \o <<token>>
        BY <4>1, <1>1, <2>0
      <4>3. CASE job = Idle /\ Rejected(w)
        <5>1. token.what = "log" /\ job' = Idle
          BY <4>3, <1>3
        <5>2. PICK k \in 1..Len(w) : w[k].what = "reject"
          BY <4>3 DEF Rejected, Tokens
        <5>3. k \in 1..Len(v) /\ k # Len(w) + 1 /\ e + k = k
          BY <4>2, <1>1
        <5>4. v[k] = w[k] /\ DOMAIN v = 1..Len(v)
          BY <5>3 DEF Tokens
        <5>5. Rejected(v)
          BY <5>2, <5>3, <5>4 DEF Rejected
        <5> QED
          BY <4>2, <5>1, <5>5
      <4>4. CASE InOrder(w, 0, Printed)
        <5>1. CASE token.what = "row"
          <6>1. token.n = Printed + 1 /\ Printed' = Printed + 1 /\ IsRow(token) /\ Printed + 1 \in Nat
                /\ Printed + 1 > 0 /\ Printed + 1 - 1 = Printed
            BY <5>1, <1>3 DEF IsRow
          <6>2. <<token>> \in Tokens /\ InOrder(<<token>>, Printed + 1 - 1, Printed + 1)
            <7> DEFINE n == Printed + 1
            <7>1. n \in Nat /\ n > 0 /\ token \in TokenSet /\ IsRow(token) /\ token.n = n
              BY <6>1
            <7> HIDE DEF n
            <7>2. <<token>> \in Tokens /\ InOrder(<<token>>, n - 1, n)
              BY ONLY <7>1, RowInOrder
            <7> QED
              BY <7>2 DEF n
          <6>3. InOrder(w \o <<token>>, 0, Printed + 1)
            <7>1. InOrder(<<token>>, Printed, Printed + 1) /\ 0 <= Printed /\ Printed <= Printed + 1
              BY <6>1, <6>2
            <7>2. Printed \in Nat /\ 0 \in Nat
              OBVIOUS
            <7> QED
              BY <4>4, <6>1, <6>2, <7>1, <7>2, JoinInOrder
          <6> QED
            BY <4>2, <6>1, <6>3
        <5>2. CASE token.what # "row"
          <6>1. <<token>> \in Tokens /\ \A k \in 1..Len(<<token>>) : ~IsRow(<<token>>[k])
            BY <5>2 DEF Tokens, IsRow
          <6>2. InOrder(<<token>>, Printed, Printed) /\ Printed' = Printed
            BY <6>1, <5>2, <1>3, NoneInOrder
          <6>3. InOrder(w \o <<token>>, 0, Printed)
            <7>1. Printed \in Nat /\ 0 \in Nat /\ 0 <= Printed /\ Printed <= Printed
              OBVIOUS
            <7> QED
              BY <4>4, <6>1, <6>2, <7>1, JoinInOrder
          <6> QED
            BY <4>2, <6>2, <6>3
        <5> QED
          BY <5>1, <5>2
      <4> QED
        BY <4>1, <4>3, <4>4
    <3> QED
      BY <3>1, <3>2, <3>3, <3>4, <3>5
  <2>2. CASE e + i = Len(w) + 1 /\ v[i] = token
    <3>1. i = Len(v) /\ i \in i..Len(v) /\ i+1..Len(v) = {}
      BY <2>0, <2>2, <1>1
    <3>2. job'.paused /\ ~IsLog(token) => token.what = "more"
      BY <1>3 DEF IsLog, Idle
    <3> QED
      BY <1>3, <2>2, <3>1, <3>2
  <2> QED
    BY <2>1, <2>2
<1> QED
  BY <1>4, <1>5 DEF Written

\* A token that is written keeps what follows a page.
LEMMA ContinuedGrows ==
    ASSUME NEW w \in Tokens, NEW v \in Tokens, NEW token \in TokenSet,
           NEW e \in Nat, Len(v) = Len(w) + 1 - e, e <= Len(w) + 1,
           \A i \in 1..Len(v) : \/ e + i \in 1..Len(w) /\ v[i] = w[e + i]
                                \/ e + i = Len(w) + 1 /\ v[i] = token,
           Printed \in Nat, Printed' \in Nat, token.what = "log" => Printed' = Printed, pc' = pc,
           NEW n \in Nat, Printed >= n, pc = "advance" => job.paused,
           Continued(w, n), PrintKind(token)
    PROVE  Continued(v, n)' /\ Printed' >= n
<1>1. Len(w) \in Nat /\ Len(v) \in Nat /\ e \in Nat
  BY DEF Tokens
<1>2. \A i \in 1..Len(w) :
         /\ w[i].what \in {"log", "row", "more", "prompt"}
         /\ IsRow(w[i]) => w[i].n > n
         /\ w[i].what = "prompt" => job = Idle /\ \A j \in i+1..Len(w) : IsLog(w[j])
         /\ IsRow(w[i]) => \A j \in i+1..Len(w) : w[j].what = "more" =>
               job.paused /\ \A k \in j+1..Len(w) : IsLog(w[k])
         /\ pc = "advance" => ~IsRow(w[i])
  BY DEF Continued
<1>3. /\ token.what \in {"log", "row", "more", "prompt"}
      /\ token.what = "log" => job' = job /\ Printed' = Printed
      /\ token.what # "log" => job # Idle /\ ~job.paused
      /\ token.what = "row" => token.n = Printed + 1 /\ Printed' = Printed + 1 /\ ~job'.paused
      /\ token.what = "more" => Printed' = Printed /\ job'.paused
      /\ token.what = "prompt" => Printed' = Printed /\ job' = Idle
  BY DEF PrintKind
<1>4. Printed' >= n
  BY <1>3
<1>5. ASSUME NEW i \in 1..Len(v), IsLog(token),
             \A j \in e+i+1..Len(w) : IsLog(w[j])
      PROVE  \A j \in i+1..Len(v) : IsLog(v[j])
  <2>1. ASSUME NEW j \in i+1..Len(v)
        PROVE  IsLog(v[j])
    <3>1. j \in 1..Len(v) /\ (e + j \in 1..Len(w) => e + j \in e+i+1..Len(w))
      BY <1>1
    <3> QED
      BY <1>5, <3>1
  <2> QED
    BY <2>1
<1>6. ASSUME NEW i \in 1..Len(v)
      PROVE  /\ v[i].what \in {"log", "row", "more", "prompt"}
             /\ IsRow(v[i]) => v[i].n > n
             /\ v[i].what = "prompt" => job' = Idle /\ \A j \in i+1..Len(v) : IsLog(v[j])
             /\ IsRow(v[i]) => \A j \in i+1..Len(v) : v[j].what = "more" =>
                   job'.paused /\ \A k \in j+1..Len(v) : IsLog(v[k])
             /\ pc' = "advance" => ~IsRow(v[i])
  <2>0. i \in Nat /\ i >= 1 /\ i <= Len(v)
    BY <1>1
  <2>1. CASE e + i \in 1..Len(w) /\ v[i] = w[e + i]
    <3>1. v[i].what \in {"log", "row", "more", "prompt"} /\ (IsRow(v[i]) => v[i].n > n)
          /\ (pc' = "advance" => ~IsRow(v[i]))
      BY <1>2, <2>1
    <3>2. ASSUME v[i].what = "prompt"
          PROVE  job' = Idle /\ \A j \in i+1..Len(v) : IsLog(v[j])
      <4>1. job = Idle /\ \A j \in e+i+1..Len(w) : IsLog(w[j])
        BY <1>2, <2>1, <3>2
      <4>2. token.what = "log" /\ job' = Idle
        BY <4>1, <1>3
      <4> QED
        BY <4>1, <4>2, <1>5 DEF IsLog
    <3>3. ASSUME IsRow(v[i]), NEW j \in i+1..Len(v), v[j].what = "more"
          PROVE  job'.paused /\ \A k \in j+1..Len(v) : IsLog(v[k])
      <4>0. j \in 1..Len(v) /\ j \in Nat /\ (e + j \in 1..Len(w) => e + j \in e+i+1..Len(w))
        BY <1>1, <2>0
      <4>1. CASE e + j \in 1..Len(w) /\ v[j] = w[e + j]
        <5>1. job.paused /\ \A k \in e+j+1..Len(w) : IsLog(w[k])
          BY <1>2, <2>1, <3>3, <4>0, <4>1
        <5>2. token.what = "log" /\ job'.paused
          BY <5>1, <1>3
        <5> QED
          BY <5>1, <5>2, <4>0, <1>5 DEF IsLog
      <4>2. CASE e + j = Len(w) + 1 /\ v[j] = token
        <5>1. j+1..Len(v) = {}
          BY <4>2, <1>1, <4>0
        <5> QED
          BY <5>1, <4>2, <3>3, <1>3
      <4> QED
        BY <4>0, <4>1, <4>2
    <3> QED
      BY <3>1, <3>2, <3>3
  <2>2. CASE e + i = Len(w) + 1 /\ v[i] = token
    <3>1. i+1..Len(v) = {}
      BY <2>0, <2>2, <1>1
    <3>2. IsRow(token) => token.n > n /\ pc # "advance"
      BY <1>3 DEF IsRow
    <3> QED
      BY <1>3, <2>2, <3>1, <3>2
  <2> QED
    BY <2>1, <2>2
<1> QED
  BY <1>4, <1>6 DEF Continued

\* Rows of one page, and what is written behind them.
LEMMA PageGrows ==
    ASSUME NEW w \in Tokens, NEW token \in TokenSet, NEW n \in Nat, Printed \in Nat, Printed' \in Nat,
           Printed >= n, PrintKind(token), token.what = "log" => Printed' = Printed,
           InOrder(w, n, Printed)
    PROVE  InOrder(w \o <<token>>, n, Printed')
<1>1. <<token>> \in Tokens /\ Len(<<token>>) = 1 /\ <<token>>[1] = token
  BY DEF Tokens
<1>2. CASE token.what = "row"
  <2> DEFINE p == Printed + 1
  <2>1. p \in Nat /\ p > 0 /\ token \in TokenSet /\ IsRow(token) /\ token.n = p /\ Printed' = p
        /\ p - 1 = Printed /\ Printed <= p /\ n <= Printed /\ Printed \in Nat
    BY <1>2 DEF PrintKind, IsRow
  <2> HIDE DEF p
  <2>2. InOrder(<<token>>, p - 1, p)
    BY ONLY <2>1, RowInOrder
  <2>3. InOrder(<<token>>, Printed, p)
    BY <2>1, <2>2
  <2> QED
    BY <1>1, <2>1, <2>3, JoinInOrder
<1>3. CASE token.what # "row"
  <2>1. \A k \in 1..Len(<<token>>) : ~IsRow(<<token>>[k])
    BY <1>1, <1>3 DEF IsRow
  <2>2. InOrder(<<token>>, Printed, Printed) /\ Printed' = Printed
    BY <1>1, <1>3, <2>1, NoneInOrder DEF PrintKind
  <2>3. n <= Printed /\ Printed <= Printed
    OBVIOUS
  <2> QED
    BY <1>1, <2>2, <2>3, JoinInOrder
<1> QED
  BY <1>2, <1>3

\* A text without an active pager does not end in the mark of one.
LEMMA NoMarkLast ==
    ASSUME NEW s \in Tokens, ~HasActivePager(s)
    PROVE  s # <<>> => s[Len(s)].what # "more"
<1> SUFFICES ASSUME s # <<>>, s[Len(s)].what = "more"
             PROVE  FALSE
  OBVIOUS
<1>1. Len(s) \in 1..Len(s) /\ Len(s) \in Nat
  BY DEF Tokens
<1>2. ~IsLog(s[Len(s)])
  BY DEF IsLog
<1>3. Len(s) <= LastSaid(s) /\ LastSaid(s) \in 0..Len(s)
  BY <1>1, <1>2, LastSaidFacts
<1>4. LastSaid(s) = Len(s) /\ LastSaid(s) > 0
  BY <1>1, <1>3
<1> QED
  BY <1>4 DEF HasActivePager, EndsIn

\* The terminal moves while the first page is awaited.
LEMMA TerminalKeepsFirst ==
    ASSUME TypeOK, TerminalInv, ReadingInv, pc \in {"converge", "attribute"}, FirstPage, Terminal
    PROVE  FirstPage'
<1>1. /\ TypeOK' /\ UNCHANGED <<pc, ask, quarantine, result>>
      /\ stage = "exec" /\ late = <<>> /\ pc \in Reading
  BY TerminalKeepsTerminal DEF ReadingInv, AtExec, Reading
<1>2. ask.before \in Tokens /\ ask.of \in Query /\ text \in Tokens
  BY DEF TypeOK, Asks
<1>3. /\ ~HasActivePager(ask.before) /\ (ask.quiet => ahead = <<>>)
      /\ pc = "attribute" /\ ask.quiet /\ ask.converged => job = Idle \/ job.paused
      /\ \E r \in 0..Len(text) :
            /\ Since(ask.before, text, r) /\ AllMine(After(text, r))
            /\ ask.quiet => Written(After(text, r), r)
  BY DEF FirstPage
<1>4. Follows(ask.before, text, Mine) /\ Mine' = Mine
  BY <1>1, <1>3 DEF Follows, AllMine, Mine
<1>5. ask.before # <<>> => ask.before[Len(ask.before)].what # "more"
  BY <1>2, <1>3, NoMarkLast
<1>6. Follows(ask.before, text', Mine) /\ ~ask.quiet => FirstPage'
  BY <1>1, <1>3, <1>4 DEF FirstPage, Follows, AllMine
<1>7. CASE EvaluateLate \/ TakeAhead
  <2>1. ~ask.quiet
    BY <1>1, <1>3, <1>7 DEF EvaluateLate, TakeAhead
  <2>2. KeyStep
    BY <1>7, LateMoves DEF Moves
  <2>3. Follows(ask.before, text', Mine)
    BY <1>2, <1>4, <1>5, <2>2, SpokenMine, KeyFollows
  <2> QED
    BY <1>6, <2>1, <2>3
<1>8. CASE PrintRow \/ PrintMore \/ PrintPrompt \/ PrintLog
  <2>1. PICK token \in TokenSet :
          Prints(token) /\ token \in Mine /\ (ask.quiet => PrintKind(token))
    BY <1>1, <1>8, PrintKinds
  <2>2. CASE ~ask.quiet
    <3>1. Follows(ask.before, text', Mine)
      BY <1>2, <1>4, <2>1, PrintFollows
    <3> QED
      BY <1>6, <2>2, <3>1
  <2>3. CASE ask.quiet
    <3>1. PICK r \in 0..Len(text) :
            Since(ask.before, text, r) /\ AllIn(After(text, r), Mine) /\ Written(After(text, r), r)
      BY <1>3, <2>3 DEF AllMine
    <3> DEFINE w == After(text, r)
    <3>2. text' = Kept(text \o <<token>>)
      BY <2>1 DEF Prints
    <3>3. /\ w \in Tokens
          /\ \E q \in 0..Len(text'), e \in 0..Len(w) + 1, v \in Tokens :
                /\ Since(ask.before, text', q) /\ q <= r /\ (e = 0 \/ q = 0) /\ v = After(text', q)
                /\ AllIn(v, Mine) /\ Len(v) = Len(w) + 1 - e
                /\ \A i \in 1..Len(v) : \/ e + i \in 1..Len(w) /\ v[i] = w[e + i]
                                        \/ e + i = Len(w) + 1 /\ v[i] = token
                /\ e = 0 => v = w \o <<token>>
      <4> DEFINE u == Kept(text \o <<token>>)
      <4>1. /\ u \in Tokens /\ After(text, r) \in Tokens
            /\ \E q \in 0..Len(u), e \in 0..Len(After(text, r)) + 1, v \in Tokens :
                  /\ Since(ask.before, u, q) /\ q <= r /\ (e = 0 \/ q = 0)
                  /\ v = After(u, q)
                  /\ AllIn(v, Mine) /\ Len(v) = Len(After(text, r)) + 1 - e
                  /\ \A i \in 1..Len(v) :
                        \/ e + i \in 1..Len(After(text, r)) /\ v[i] = After(text, r)[e + i]
                        \/ e + i = Len(After(text, r)) + 1 /\ v[i] = token
                  /\ e = 0 => v = After(text, r) \o <<token>>
        BY <1>2, <2>1, <3>1, OneMore
      <4>2. text' = u
        BY <3>2
      <4> HIDE DEF u
      <4> QED
        BY ONLY <4>1, <4>2
    <3>4. PICK q \in 0..Len(text'), e \in 0..Len(w) + 1, v \in Tokens :
                /\ Since(ask.before, text', q) /\ q <= r /\ (e = 0 \/ q = 0) /\ v = After(text', q)
                /\ AllIn(v, Mine) /\ Len(v) = Len(w) + 1 - e
                /\ \A i \in 1..Len(v) : \/ e + i \in 1..Len(w) /\ v[i] = w[e + i]
                                        \/ e + i = Len(w) + 1 /\ v[i] = token
                /\ e = 0 => v = w \o <<token>>
      BY <3>3
    <3>5. w \in Tokens /\ Written(w, r) /\ r \in Nat
      BY <3>1, <3>3, <1>2 DEF Tokens
    <3> HIDE DEF w
    <3>6. e \in Nat /\ e <= Len(w) + 1 /\ q \in Nat
      <4>1. Len(w) \in Nat /\ Len(text') \in Nat
        BY <3>5, <1>1 DEF Tokens, TypeOK
      <4> QED
        BY <4>1
    <3>7. Printed \in Nat /\ Printed' \in Nat
      <4>1. Printed \in Nat
        BY <1>2, PrintedType
      <4>2. (TypeOK /\ ask.of \in Query => Printed \in Nat)'
        BY PrintedType, PTL
      <4> QED
        BY <1>1, <1>2, <4>1, <4>2
    <3>8. PrintKind(token) /\ (token.what = "log" => Printed' = Printed)
      BY <1>1, <2>1, <2>3 DEF PrintKind, Printed
    <3>9. Written(v, q)'
      BY ONLY <2>1, <3>4, <3>5, <3>6, <3>7, <3>8, WrittenGrows
    <3>10. pc = "attribute" /\ ask.converged => job' = Idle \/ job'.paused
      BY <1>3, <2>3, <3>8 DEF PrintKind
    <3>11. ahead' = ahead
      BY <1>8 DEF PrintRow, PrintMore, PrintPrompt, PrintLog
    <3>12. Since(ask.before, text', q) /\ AllIn(After(text', q), Mine) /\ Written(After(text, q), q)'
           /\ q \in 0..Len(text')
      BY <3>4, <3>9
    <3> QED
      BY <1>1, <1>3, <1>4, <2>3, <3>10, <3>11, <3>12 DEF FirstPage, AllMine
  <2> QED
    BY <2>2, <2>3
<1>9. ~EndBoot
  BY <1>1 DEF EndBoot
<1> QED
  BY <1>7, <1>8, <1>9 DEF Terminal

\* The terminal moves while another page is asked for.
LEMMA TerminalKeepsNext ==
    ASSUME TypeOK, TerminalInv, ReadingInv, pc \in {"advance", "progress"}, NextPage, Terminal
    PROVE  NextPage'
<1> DEFINE base == DropPagerPrompt(ask.seen)
<1>1. /\ TypeOK' /\ UNCHANGED <<pc, ask, quarantine, result>>
      /\ stage = "exec" /\ late = <<>> /\ pc \in Reading
  BY TerminalKeepsTerminal DEF ReadingInv, AtExec, Reading
<1>2. base \in Tokens /\ ask.of \in Query /\ text \in Tokens
  <2>1. ask.seen \in Tokens /\ ask.of \in Query /\ text \in Tokens
    BY DEF TypeOK, Asks
  <2> QED
    BY <2>1, DropFacts
<1>3. /\ HasActivePager(ask.seen) /\ (base # <<>> => base[Len(base)].what # "more")
      /\ ask.complete
      /\ \E r \in 0..Len(text) :
            /\ Since(base, text, r) /\ AllMine(After(text, r))
            /\ Whole => \E n \in 0..Rows[ask.of] : \E l \in 1..Len(base) : Answered(base, r, n, l)
  BY DEF NextPage
<1>b. DropPagerPrompt(ask.seen)' = base /\ Whole' = Whole
  BY <1>1 DEF Whole
<1>4. Follows(base, text, Mine) /\ Mine' = Mine
  BY <1>1, <1>3 DEF Follows, AllMine, Mine
<1>c. ASSUME NEW q \in 0..Len(text'), Since(base, text', q), AllIn(After(text', q), Mine),
             Whole => \E n \in 0..Rows[ask.of] : \E l \in 1..Len(base) : Answered(base, q, n, l)'
      PROVE  NextPage'
  <2>1. /\ (base # <<>> => base[Len(base)].what # "more") /\ HasActivePager(ask.seen)'
        /\ ask'.complete /\ AllMine(After(text, q))'
    BY <1>1, <1>3, <1>4, <1>c DEF AllMine
  <2>2. Whole' => \E n \in 0..Rows[ask'.of] : \E l \in 1..Len(base) : Answered(base, q, n, l)'
    BY <1>1, <1>b, <1>c
  <2> HIDE DEF base
  <2>3. NextPage' <=>
          /\ HasActivePager(ask.seen)' /\ (base # <<>> => base[Len(base)].what # "more")
          /\ ask'.complete
          /\ \E r \in 0..Len(text') :
                /\ Since(base, text', r) /\ AllMine(After(text, r))'
                /\ Whole' => \E n \in 0..Rows[ask'.of] : \E l \in 1..Len(base) : Answered(base, r, n, l)'
    BY <1>b DEF NextPage, base
  <2> QED
    BY <1>c, <2>1, <2>2, <2>3
<1>5. base # <<>> => base[Len(base)].what # "more"
  BY <1>3
<1> HIDE DEF base
<1>6. Follows(base, text', Mine) /\ ~Whole => NextPage'
  BY <1>c DEF Follows
<1>d. base' = base
  BY <1>b DEF base
<1>7. CASE EvaluateLate \/ TakeAhead
  <2>1. ~Whole
    BY <1>1, <1>3, <1>7 DEF EvaluateLate, TakeAhead, Answered
  <2>2. KeyStep
    BY <1>7, LateMoves DEF Moves
  <2>3. Follows(base, text', Mine)
    BY <1>2, <1>4, <1>5, <2>2, SpokenMine, KeyFollows
  <2> QED
    BY <1>6, <2>1, <2>3
<1>8. CASE PrintRow \/ PrintMore \/ PrintPrompt \/ PrintLog
  <2>1. PICK token \in TokenSet :
          Prints(token) /\ token \in Mine /\ (ask.quiet => PrintKind(token))
    BY <1>1, <1>8, PrintKinds
  <2>2. CASE ~Whole
    <3>1. Follows(base, text', Mine)
      BY <1>2, <1>4, <2>1, PrintFollows
    <3> QED
      BY <1>6, <2>2, <3>1
  <2>3. CASE Whole
    <3>1. PICK r \in 0..Len(text) :
            /\ Since(base, text, r) /\ AllIn(After(text, r), Mine)
            /\ \E n \in 0..Rows[ask.of] : \E l \in 1..Len(base) : Answered(base, r, n, l)
      BY <1>3, <2>3 DEF AllMine
    <3>2. PICK n \in 0..Rows[ask.of], l \in 1..Len(base) : Answered(base, r, n, l)
      BY <3>1
    <3> DEFINE w == After(text, r)
    <3>a. /\ PageEnds(base, l, n) /\ InOrder(ask.output, 0, n)
          /\ Continued(w, n) /\ Printed >= n
          /\ ahead = <<>> /\ (pc = "advance" => job.paused /\ Printed = n)
          /\ r > Len(base) - l => InOrder(w, n, Printed)
      BY <3>2 DEF Answered
    <3>b. text' = Kept(text \o <<token>>)
      BY <2>1 DEF Prints
    <3>3. /\ w \in Tokens
          /\ \E q \in 0..Len(text'), e \in 0..Len(w) + 1, v \in Tokens :
                /\ Since(base, text', q) /\ q <= r /\ (e = 0 \/ q = 0) /\ v = After(text', q)
                /\ AllIn(v, Mine) /\ Len(v) = Len(w) + 1 - e
                /\ \A i \in 1..Len(v) : \/ e + i \in 1..Len(w) /\ v[i] = w[e + i]
                                        \/ e + i = Len(w) + 1 /\ v[i] = token
                /\ e = 0 => v = w \o <<token>>
      <4> DEFINE u == Kept(text \o <<token>>)
      <4>1. /\ u \in Tokens /\ After(text, r) \in Tokens
            /\ \E q \in 0..Len(u), e \in 0..Len(After(text, r)) + 1, v \in Tokens :
                  /\ Since(base, u, q) /\ q <= r /\ (e = 0 \/ q = 0)
                  /\ v = After(u, q)
                  /\ AllIn(v, Mine) /\ Len(v) = Len(After(text, r)) + 1 - e
                  /\ \A i \in 1..Len(v) :
                        \/ e + i \in 1..Len(After(text, r)) /\ v[i] = After(text, r)[e + i]
                        \/ e + i = Len(After(text, r)) + 1 /\ v[i] = token
                  /\ e = 0 => v = After(text, r) \o <<token>>
        BY <1>2, <2>1, <3>1, OneMore
      <4>2. text' = u
        BY <3>b
      <4> HIDE DEF u
      <4> QED
        BY ONLY <4>1, <4>2
    <3>4. PICK q \in 0..Len(text'), e \in 0..Len(w) + 1, v \in Tokens :
                /\ Since(base, text', q) /\ q <= r /\ (e = 0 \/ q = 0) /\ v = After(text', q)
                /\ AllIn(v, Mine) /\ Len(v) = Len(w) + 1 - e
                /\ \A i \in 1..Len(v) : \/ e + i \in 1..Len(w) /\ v[i] = w[e + i]
                                        \/ e + i = Len(w) + 1 /\ v[i] = token
                /\ e = 0 => v = w \o <<token>>
      BY <3>3
    <3>5. w \in Tokens /\ r \in Nat /\ Len(base) \in Nat /\ l \in Nat /\ l <= Len(base)
      BY <3>1, <3>3, <1>2 DEF Tokens
    <3> HIDE DEF w
    <3>6. e \in Nat /\ e <= Len(w) + 1 /\ q \in Nat
      <4>1. Len(w) \in Nat /\ Len(text') \in Nat
        BY <3>5, <1>1 DEF Tokens, TypeOK
      <4> QED
        BY <4>1
    <3>7. Printed \in Nat /\ Printed' \in Nat /\ n \in Nat
      <4>1. Printed \in Nat /\ Rows[ask.of] \in Nat
        BY <1>2, PrintedType, ConstantTypes
      <4>2. (TypeOK /\ ask.of \in Query => Printed \in Nat)'
        BY PrintedType, PTL
      <4> QED
        BY <1>1, <1>2, <4>1, <4>2
    <3>8. PrintKind(token) /\ (token.what = "log" => Printed' = Printed) /\ pc' = pc
      BY <1>1, <2>1, <2>3 DEF PrintKind, Printed, Whole
    <3>c. pc = "advance" => job.paused
      BY <3>a
    <3>9. Continued(v, n)' /\ Printed' >= n
      BY ONLY <2>1, <3>4, <3>5, <3>6, <3>7, <3>8, <3>a, <3>c, ContinuedGrows
    <3>10. pc' = "advance" => job'.paused /\ Printed' = n
      BY <3>8, <3>a DEF PrintKind
    <3>11. ahead' = ahead
      BY <1>8 DEF PrintRow, PrintMore, PrintPrompt, PrintLog
    <3>12. ASSUME q > Len(base) - l
           PROVE  InOrder(v, n, Printed')
      <4>1. r > Len(base) - l /\ e = 0
        BY <3>4, <3>5, <3>6, <3>12
      <4>2. InOrder(w, n, Printed) /\ v = w \o <<token>>
        BY <3>4, <3>a, <4>1
      <4> QED
        BY <4>2, <2>1, <3>5, <3>7, <3>8, <3>a, PageGrows
    <3>13. InOrder(ask.output, 0, n)' /\ PageEnds(base, l, n)
      BY <1>1, <3>a
    <3>14. Answered(base, q, n, l)'
      <4>1. Continued(After(text, q), n)' /\ (q > Len(base) - l => InOrder(After(text, q), n, Printed)')
        BY <3>4, <3>9, <3>12
      <4>2. Answered(base, q, n, l)' <=>
              /\ PageEnds(base, l, n) /\ InOrder(ask.output, 0, n)'
              /\ Continued(After(text, q), n)' /\ Printed' >= n
              /\ ahead' = <<>> /\ (pc' = "advance" => job'.paused /\ Printed' = n)
              /\ q > Len(base) - l => InOrder(After(text, q), n, Printed)'
        BY <1>d DEF Answered
      <4> QED
        BY <3>9, <3>10, <3>11, <3>13, <3>a, <4>1, <4>2
    <3>15. AllIn(After(text', q), Mine) /\ Since(base, text', q) /\ q \in 0..Len(text')
      BY <3>4
    <3> QED
      BY <1>c, <3>14, <3>15
  <2> QED
    BY <2>2, <2>3
<1>9. ~EndBoot
  BY <1>1 DEF EndBoot
<1> QED
  BY <1>7, <1>8, <1>9 DEF Terminal

-----------------------------------------------------------------------------
(* The executor, while it reads no answer.                                 *)

\* What is noted of a query is of its type.
LEMMA AskTypes ==
    ASSUME TypeOK
    PROVE  /\ NoAsk \in Asks
           /\ \A q \in Query, k \in Nat : [NoAsk EXCEPT !.of = q, !.attempt = k] \in Asks
           /\ [ask EXCEPT !.seen = text, !.then = "again"] \in Asks
           /\ [ask EXCEPT !.restore = TRUE] \in Asks
<1>1. ask \in Asks /\ text \in Tokens
  BY DEF TypeOK
<1>2. <<>> \in Tokens /\ NoWindow \in Windows /\ "none" \in Classes
  BY DEF Tokens, NoWindow, Windows, Classes
<1>3. NoAsk \in Asks
  BY <1>2 DEF NoAsk, Asks
<1>4. \A q \in Query, k \in Nat : [NoAsk EXCEPT !.of = q, !.attempt = k] \in Asks
  BY <1>3 DEF Asks
<1> QED
  BY <1>1, <1>3, <1>4 DEF Asks

\* Whatever moves keeps the types, when the place and the query do.
LEMMA MovesTypes ==
    ASSUME TypeOK, TerminalInv, Moves, pc' \in Places, ask' \in Asks,
           pc' # "idle" => ask'.of \in Query,
           pc' \in {"cancel", "cancelling", "advance", "progress"} => ask'.then # "none"
    PROVE  TypeOK' /\ TerminalInv'
  BY MovesKeepTerminal DEF TypeOK

\* Nothing is of any kind, in any set.
LEMMA NothingIn == \A M : AllIn(<<>>, M)
  BY DEF AllIn

\* No answer is read afterwards.
LEMMA StillAsks ==
    ASSUME Inv, Moves, pc' \in Places \ Reading, pc' \in AtExec => stage' = "exec",
           \/ ask' = ask \/ ask' = NoAsk
           \/ \E q \in Query, k \in Nat : ask' = [NoAsk EXCEPT !.of = q, !.attempt = k]
           \/ ask' = [ask EXCEPT !.seen = text, !.then = "again"]
           \/ ask' = [ask EXCEPT !.restore = TRUE],
           pc' # "idle" => ask'.of \in Query,
           pc' \in {"cancel", "cancelling"} =>
              ask'.then # "none" /\ (ask'.then = "conclude" => ~ask'.complete),
           pc' = "conclude" => ~ask'.complete,
           Answering' => Answering /\ ask' = ask
    PROVE  Inv'
<1>1. TypeOK /\ TerminalInv /\ ReadingInv /\ OutputInv /\ ask \in Asks
  BY DEF Inv, TypeOK
<1>a. ASSUME \E q \in Query, k \in Nat : ask' = [NoAsk EXCEPT !.of = q, !.attempt = k]
      PROVE  ask' \in Asks
  <2>1. PICK q \in Query, k \in Nat : ask' = [NoAsk EXCEPT !.of = q, !.attempt = k]
    BY <1>a
  <2>2. ask' \in Asks
    BY <1>1, <2>1, AskTypes
  <2> QED
    BY <2>2
<1>2. ask' \in Asks
  BY <1>1, <1>a, AskTypes
<1>3. pc' \notin Reading
  OBVIOUS
<1>4. TypeOK' /\ TerminalInv'
  BY <1>1, <1>2, <1>3, MovesTypes DEF Reading
<1>5. \/ ask'.of = ask.of /\ ask'.mine = ask.mine /\ ask'.quiet = ask.quiet
           /\ ask'.output = ask.output
      \/ ask'.mine = 0 /\ ask'.output = <<>>
  <2>1. CASE ask' = ask
    BY <2>1
  <2>2. CASE ask' = NoAsk
    BY <2>2 DEF NoAsk
  <2>3. CASE \E q \in Query, k \in Nat : ask' = [NoAsk EXCEPT !.of = q, !.attempt = k]
    BY <2>3 DEF NoAsk
  <2>4. CASE ask' = [ask EXCEPT !.seen = text, !.then = "again"] \/ ask' = [ask EXCEPT !.restore = TRUE]
    BY <1>1, <2>4 DEF Asks
  <2> QED
    BY <2>1, <2>2, <2>3, <2>4
<1>6. typed \in Nat /\ ask.mine \in Nat /\ ask.mine <= typed /\ typed' \in {typed, typed + 1}
  BY <1>1 DEF TypeOK, Asks, ReadingInv, Moves
<1>7. ReadingInv'
  <2>1. ask'.mine <= typed'
    BY ONLY <1>5, <1>6
  <2> QED
    BY <1>3, <2>1 DEF ReadingInv
<1>8. Answering' => AllMine(ask.output)'
  <2> SUFFICES ASSUME Answering'
               PROVE  AllMine(ask.output)'
    OBVIOUS
  <2>1. ask' = ask /\ AllMine(ask.output)
    BY <1>1 DEF OutputInv
  <2>2. Mine' = Mine
    BY <2>1 DEF Mine
  <2> QED
    BY <2>1, <2>2 DEF AllMine
<1>9. OutputInv'
  BY <1>8 DEF OutputInv
<1> QED
  BY <1>3, <1>4, <1>7, <1>9 DEF Inv, Reading

\* A query is given up, and the mode of the terminal is to be restored.
LEMMA EndsFacts ==
    ASSUME Inv, Moves, pc # "idle", pc' = "restore" /\ ask' = ask
    PROVE  Inv'
  BY StillAsks DEF Inv, TypeOK, Answering, Places, Reading, AtExec, Preparing

\* A query is begun (execute).
LEMMA BeginStep ==
    ASSUME Inv, NEW q \in Query, Begin(q)
    PROVE  Inv'
<1>1. /\ pc' = "prepare" /\ ask' = [NoAsk EXCEPT !.of = q, !.attempt = 1]
      /\ Counted("turns") /\ UNCHANGED terminal /\ late' = late
  BY DEF Begin, GoOn
<1>2. TypeOK
  BY DEF Inv
<1>3. Moves
  <2>1. count' \in Counts /\ count'.logs = count.logs
    BY <1>1, <1>2, CountedFacts
  <2>2. late' \in Seq(KeySet)
    BY <1>1, <1>2 DEF TypeOK
  <2> QED
    BY <1>1, <1>2, <2>1, <2>2, StillStep DEF Moves
<1>4. ask'.of = q /\ 1 \in Nat
  BY <1>1 DEF NoAsk
<1> QED
  BY <1>1, <1>3, <1>4, StillAsks DEF Answering, Places, Reading, AtExec, Preparing

\* What was read decides what the session needs (_prepare_session).
LEMMA ReadyStep ==
    ASSUME Inv, Moves, UNCHANGED terminal, pc # "idle", Ready
    PROVE  Inv'
<1>1. ask.of \in Query
  BY DEF Inv, TypeOK
<1>2. CASE stage = "exec"
  <2>1. pc' = "mode" /\ ask' = ask /\ stage' = "exec"
    BY <1>2 DEF Ready, GoOn, terminal
  <2> QED
    BY <1>1, <2>1, StillAsks DEF Answering, Places, Reading, AtExec, Preparing
<1>3. CASE stage # "exec"
  <2>1. pc' \in {"say_no", "say_return", "restore"} /\ ask' = ask
    BY <1>3 DEF Ready, GoOn, FailsHere, Fails, Ends
  <2> QED
    BY <1>1, <2>1, StillAsks DEF Answering, Places, Reading, AtExec, Preparing
<1> QED
  BY <1>2, <1>3

\* The session is prepared (_prepare_session).
LEMMA PrepareStep ==
    ASSUME Inv, Prepare
    PROVE  Inv'
<1>1. pc = "prepare" /\ TypeOK /\ ask.of \in Query /\ ask \in Asks
  BY DEF Prepare, Inv, TypeOK
<1>2. Moves /\ UNCHANGED terminal
  BY <1>1, ReadsMoves DEF Prepare
<1>3. CASE FailsHere
  BY <1>1, <1>2, <1>3, EndsFacts DEF FailsHere, Fails, Ends
<1>4. CASE GoOn("cancel", [ask EXCEPT !.seen = text, !.then = "again"])
  <2>1. pc' = "cancel" /\ ask' = [ask EXCEPT !.seen = text, !.then = "again"]
    BY <1>4 DEF GoOn
  <2>2. ask'.of = ask.of /\ ask'.then = "again"
    BY <1>1, <2>1 DEF Asks
  <2> QED
    BY <1>1, <1>2, <2>1, <2>2, StillAsks DEF Answering, Places, Reading, AtExec, Preparing
<1>5. CASE Ready
  BY <1>1, <1>2, <1>5, ReadyStep
<1> QED
  BY <1>3, <1>4, <1>5 DEF Prepare

\* ... and again when a pager has been cancelled (_prepare_session).
LEMMA PrepareAgainStep ==
    ASSUME Inv, PrepareAgain
    PROVE  Inv'
<1>1. pc = "again" /\ TypeOK
  BY DEF PrepareAgain, Inv
<1>2. Moves /\ UNCHANGED terminal
  BY <1>1, ReadsMoves DEF PrepareAgain
<1>3. CASE FailsHere \/ Fails
  BY <1>1, <1>2, <1>3, EndsFacts DEF FailsHere, Fails, Ends
<1>4. CASE Ready
  BY <1>1, <1>2, <1>4, ReadyStep
<1> QED
  BY <1>3, <1>4 DEF PrepareAgain

\* A key that is no command is sent, answered or not.
LEMMA SendsKey ==
    ASSUME TypeOK, NEW what \in {"no", "return", "enable", "disable", "etx", "space"}
    PROVE  /\ Sends(Key(what)) => Moves /\ late = <<>> /\ late' = <<>>
           /\ SendsInVain(Key(what)) => Moves /\ UNCHANGED terminal
<1>1. Key(what) \in KeySet /\ Key(what).what # "command"
  BY KeysTyped DEF Key
<1> QED
  BY <1>1, SendsMoves, SendsInVainMoves

\* The setup dialog is answered (_prepare_session).
LEMMA GreetStep ==
    ASSUME Inv, Greet
    PROVE  Inv'
<1>1. pc \in {"say_no", "said_no", "say_return", "greeted"} /\ TypeOK /\ ask.of \in Query
  BY DEF Greet, Inv, TypeOK
<1>2. ASSUME NEW what \in {"no", "return"}, NEW wait \in {"said_no", "greeted"}, Answer(what, wait)
      PROVE  Inv'
  <2>1. CASE Sends(Key(what)) /\ GoOn(wait, ask)
    <3>1. Moves /\ pc' = wait /\ ask' = ask
      BY <1>1, <2>1, SendsKey DEF GoOn
    <3> QED
      BY <1>1, <3>1, StillAsks DEF Answering, Places, Reading, AtExec, Preparing
  <2>2. CASE SendsInVain(Key(what)) /\ FailsHere
    <3>1. Moves /\ pc' = "restore" /\ ask' = ask
      BY <1>1, <2>2, SendsKey DEF FailsHere, Fails, Ends
    <3> QED
      BY <1>1, <3>1, EndsFacts
  <2> QED
    BY <1>2, <2>1, <2>2 DEF Answer
<1>3. ASSUME NEW holds \in BOOLEAN, NEW where \in {"say_return", "mode"}, Await(holds, where),
             where = "mode" /\ holds => stage = "exec"
      PROVE  Inv'
  <2>1. CASE holds /\ Reads /\ GoOn(where, ask)
    <3>1. Moves /\ UNCHANGED terminal /\ pc' = where /\ ask' = ask
      BY <1>1, <2>1, ReadsMoves DEF GoOn
    <3>2. where = "mode" => stage' = "exec"
      BY <1>3, <2>1, <3>1 DEF terminal
    <3> QED
      BY <1>1, <3>1, <3>2, StillAsks DEF Answering, Places, Reading, AtExec, Preparing
  <2>2. CASE WaitsInVain(holds) /\ FailsHere
    <3>1. Moves /\ pc' = "restore" /\ ask' = ask
      BY <1>1, <2>2, ReadsMoves DEF FailsHere, Fails, Ends
    <3> QED
      BY <1>1, <3>1, EndsFacts
  <2> QED
    BY <1>3, <2>1, <2>2 DEF Await
<1>4. Has("press") \in BOOLEAN /\ (stage = "exec") \in BOOLEAN
  BY DEF Has
<1> QED
  BY <1>2, <1>3, <1>4 DEF Greet

\* A pager is cancelled (_cancel_pager).
LEMMA CancelStep ==
    ASSUME Inv, Cancel
    PROVE  Inv'
<1>1. /\ pc \in {"cancel", "cancelling"} /\ TypeOK /\ ask.of \in Query /\ ask \in Asks
      /\ ask.then # "none" /\ (ask.then = "conclude" => ~ask.complete)
  BY DEF Cancel, Inv, TypeOK, OutputInv
<1>2. CASE Sends(Key("etx")) /\ GoOn("cancelling", ask)
  <2>1. Moves /\ pc' = "cancelling" /\ ask' = ask
    BY <1>1, <1>2, SendsKey DEF GoOn
  <2> QED
    BY <1>1, <2>1, StillAsks DEF Answering, Places, Reading, AtExec, Preparing
<1>3. CASE SendsInVain(Key("etx")) /\ Fails
  <2>1. Moves /\ pc' = "restore" /\ ask' = ask
    BY <1>1, <1>3, SendsKey DEF Fails, Ends
  <2> QED
    BY <1>1, <2>1, EndsFacts
<1>4. CASE Reads /\ pc' = ask.then /\ ask' = ask
  <2>1. Moves
    BY <1>1, <1>4, ReadsMoves
  <2>2. pc' \in {"again", "conclude"}
    BY <1>1, <1>4 DEF Asks
  <2> QED
    BY <1>1, <1>4, <2>1, <2>2, StillAsks DEF Answering, Places, Reading, AtExec, Preparing
<1>5. CASE WaitsInVain(Cancelled) /\ Fails
  <2>1. Cancelled \in BOOLEAN
    BY DEF Cancelled
  <2>2. Moves /\ pc' = "restore" /\ ask' = ask
    BY <1>1, <1>5, <2>1, ReadsMoves DEF Fails, Ends
  <2> QED
    BY <1>1, <2>2, EndsFacts
<1> QED
  BY <1>2, <1>3, <1>4, <1>5 DEF Cancel

\* A terminal that runs commands goes on to do so.
LEMMA MovesStage ==
    ASSUME Inv, Moves, pc \in AtExec
    PROVE  stage' = "exec"
  BY DEF Inv, ReadingInv, Moves, KeyStep

\* The mode is read, and privileged mode entered (ensure_privileged_mode).
LEMMA ModeStep ==
    ASSUME Inv, ReadMode \/ Enable
    PROVE  Inv'
<1>1. pc \in {"mode", "enable", "enabling"} /\ TypeOK /\ ask.of \in Query /\ ask \in Asks /\ pc \in AtExec
  BY DEF ReadMode, Enable, Inv, TypeOK, AtExec
<1>2. ASSUME Moves, pc' \in {"enable", "enabling", "dispatch", "restore"},
             ask' = ask \/ ask' = [ask EXCEPT !.restore = TRUE]
      PROVE  Inv'
  <2>1. stage' = "exec"
    BY <1>1, <1>2, MovesStage
  <2>2. ask'.of = ask.of
    BY <1>1, <1>2 DEF Asks
  <2> QED
    BY <1>1, <1>2, <2>1, <2>2, StillAsks DEF Answering, Places, Reading, AtExec, Preparing
<1>3. CASE ReadMode
  <2>1. Moves
    BY <1>1, <1>3, ReadsMoves DEF ReadMode
  <2>2. pc' \in {"enable", "dispatch"} /\ ask' = ask
    BY <1>3 DEF ReadMode, GoOn
  <2> QED
    BY <1>2, <2>1, <2>2
<1>4. CASE Enable
  <2>1. (mode = "privileged") \in BOOLEAN
    OBVIOUS
  <2>2. Moves
    BY <1>1, <1>4, <2>1, SendsKey, ReadsMoves DEF Enable
  <2>3. /\ pc' \in {"enabling", "dispatch", "restore"}
        /\ ask' = ask \/ ask' = [ask EXCEPT !.restore = TRUE]
    BY <1>4 DEF Enable, GoOn, FailsHere, Fails, Ends
  <2> QED
    BY <1>2, <2>2, <2>3
<1> QED
  BY <1>3, <1>4

\* The result is there, the mode restored, the next attempt begun (execute).
LEMMA EndStep ==
    ASSUME Inv, Conclude \/ Restore \/ Finish
    PROVE  Inv'
<1>1. pc \in {"conclude", "restore", "done"} /\ TypeOK /\ ask.of \in Query /\ ask \in Asks
  BY DEF Conclude, Restore, Finish, Inv, TypeOK
<1>2. CASE Conclude
  <2>1. UNCHANGED <<terminal, late, count>> /\ pc' = "restore" /\ ask' = ask
    BY <1>2 DEF Conclude, Ends
  <2>2. Moves
    BY <1>1, <2>1, ReadsMoves
  <2> QED
    BY <1>1, <2>1, <2>2, EndsFacts
<1>3. CASE Restore
  <2>1. Moves
    BY <1>1, <1>3, SendsKey, ReadsMoves DEF Restore
  <2>2. pc' = "done" /\ ask' = ask
    BY <1>3 DEF Restore, GoOn
  <2> QED
    BY <1>1, <2>1, <2>2, StillAsks DEF Answering, Places, Reading, AtExec, Preparing
<1>4. CASE Finish
  <2>1. UNCHANGED <<terminal, late, count>>
    BY <1>4 DEF Finish
  <2>2. Moves
    BY <1>1, <2>1, ReadsMoves
  <2>3. CASE pc' = "prepare" /\ ask' = [NoAsk EXCEPT !.of = ask.of, !.attempt = ask.attempt + 1]
    <3>1. ask.attempt + 1 \in Nat
      BY <1>1 DEF Asks
    <3>2. ask'.of = ask.of
      BY <2>3 DEF NoAsk
    <3> QED
      BY <1>1, <2>2, <2>3, <3>1, <3>2, StillAsks DEF Answering, Places, Reading, AtExec, Preparing
  <2>4. CASE pc' = "idle" /\ ask' = NoAsk
    BY <1>1, <2>2, <2>4, StillAsks DEF Answering, Places, Reading, AtExec, Preparing
  <2> QED
    BY <1>4, <2>3, <2>4 DEF Finish
<1> QED
  BY <1>2, <1>3, <1>4

-----------------------------------------------------------------------------
(* The query is dispatched (_execute_once).                                *)

\* What a terminal at rest writes at first when a query is typed.
LEMMA FirstWritten ==
    ASSUME NEW x \in Tokens, x # <<>>, x[1].what \in {"echo", "bad"}, NEW e \in 0..Len(x),
           NEW q \in Nat, e = 0 \/ q = 0,
           \A i \in 1..Len(x) : /\ x[i].what \in {"echo", "bad", "reject", "prompt"}
                                /\ x[i].what \in {"bad", "reject", "prompt"} => job' = Idle
                                /\ x[i].what = "echo" => i = 1,
           ~job'.paused, (job' = Idle /\ Rejected(x)) \/ InOrder(x, 0, Printed')
    PROVE  Written(After(x, e), q)'
<1> DEFINE w == After(x, e)
<1>1. w \in Tokens /\ Len(w) = Len(x) - e /\ \A i \in 1..Len(x) - e : w[i] = x[e + i]
  BY AfterFacts DEF Tokens
<1>2. Len(x) \in Nat /\ e \in Nat /\ Len(x) > 0
  BY DEF Tokens
<1>3. e = 0 => w = x
  BY DEF After, Tokens
<1> HIDE DEF w
<1>4. q > 0 => w # <<>> /\ w[1].what \in {"echo", "bad"}
  BY <1>3
<1>5. ASSUME NEW i \in 1..Len(w)
      PROVE  /\ w[i].what \in {"echo", "bad", "row", "more", "prompt", "reject", "log"}
             /\ w[i].what \in {"bad", "reject", "prompt"} => job' = Idle
             /\ w[i].what = "more" => job'.paused /\ \A j \in i+1..Len(w) : IsLog(w[j])
             /\ job'.paused /\ ~IsLog(w[i]) => \E j \in i..Len(w) : w[j].what = "more"
             /\ w[i].what = "echo" =>
                   i = 1 /\ ((job' = Idle /\ Rejected(w)) \/ InOrder(w, 0, Printed'))
  <2>1. e + i \in 1..Len(x) /\ w[i] = x[e + i] /\ (e + i = 1 => e = 0 /\ i = 1)
    BY <1>1, <1>2
  <2>2. w[i].what \in {"echo", "bad", "reject", "prompt"}
        /\ (w[i].what \in {"bad", "reject", "prompt"} => job' = Idle)
    BY <2>1
  <2>3. w[i].what = "echo" => i = 1 /\ w = x
    BY <2>1, <1>3
  <2> QED
    BY <2>2, <2>3
<1> QED
  BY <1>4, <1>5 DEF Written, w

\* The whole of a text follows it.
LEMMA FollowsItself ==
    ASSUME NEW t \in Tokens
    PROVE  /\ Len(t) \in 0..Len(t) /\ Since(t, t, Len(t)) /\ After(t, Len(t)) = <<>>
           /\ \A M : Follows(t, t, M)
<1>1. t \in Seq(TokenSet) /\ Len(t) \in Nat /\ Len(t) \in 0..Len(t)
  BY DEF Tokens
<1>2. Since(t, t, Len(t))
  <2>1. \A i \in 1..Len(t) : Len(t) - Len(t) + i = i
    BY <1>1
  <2> QED
    BY <1>1, <2>1 DEF Since
<1>3. After(t, Len(t)) = <<>>
  BY <1>1 DEF After
<1> QED
  BY <1>1, <1>2, <1>3, NothingIn DEF Follows

\* A key that is typed at a terminal at rest is taken at its prompt.
LEMMA TypeAtRest ==
    ASSUME NEW key, stage = "exec", job = Idle, ahead = <<>>, key.what = "command", Type(key)
    PROVE  AtPrompt(key) /\ ahead' = ahead
<1>1. ~job.paused
  BY DEF Idle
<1> QED
  BY <1>1 DEF Type

\* What a query writes at a prompt, whole or not.
LEMMA CommandWrites ==
    ASSUME TypeOK, NEW q \in Query, NEW key \in {CommandKey(q), Garbled(CommandKey(q))},
           job = Idle, AtPrompt(key), Printed' \in Nat
    PROVE  \E x \in Tokens :
              /\ text' = Kept(text \o x) /\ x # <<>> /\ x[1].what \in {"echo", "bad"}
              /\ \A i \in 1..Len(x) : /\ x[i].what \in {"echo", "bad", "reject", "prompt"}
                                      /\ x[i].what \in {"bad", "reject", "prompt"} => job' = Idle
                                      /\ x[i].what = "echo" => i = 1
              /\ ~job'.paused /\ (job' = Idle \/ job'.of = q)
              /\ (job' = Idle /\ Rejected(x)) \/ InOrder(x, 0, Printed')
<1>1. key.what = "command" /\ key.of = q
  BY DEF CommandKey, Garbled
<1>2. ~Idle.paused
  BY DEF Idle
<1>3. ASSUME NEW first \in {"echo", "bad"}, job' = job,
             Shows(<<Token(first, q, 0, 0), Mark("reject"), Mark("prompt")>>)
      PROVE  \E x \in Tokens :
              /\ text' = Kept(text \o x) /\ x # <<>> /\ x[1].what \in {"echo", "bad"}
              /\ \A i \in 1..Len(x) : /\ x[i].what \in {"echo", "bad", "reject", "prompt"}
                                      /\ x[i].what \in {"bad", "reject", "prompt"} => job' = Idle
                                      /\ x[i].what = "echo" => i = 1
              /\ ~job'.paused /\ (job' = Idle \/ job'.of = q)
              /\ (job' = Idle /\ Rejected(x)) \/ InOrder(x, 0, Printed')
  <2> DEFINE x == <<Token(first, q, 0, 0), Mark("reject"), Mark("prompt")>>
  <2>1. /\ x \in Tokens /\ Len(x) = 3 /\ DOMAIN x = 1..3 /\ x # <<>>
        /\ x[1].what = first /\ x[2].what = "reject" /\ x[3].what = "prompt"
    <3>1. Token(first, q, 0, 0) \in TokenSet /\ Mark("reject") \in TokenSet /\ Mark("prompt") \in TokenSet
      BY SpokenTokens
    <3> QED
      BY <3>1 DEF Tokens, Token, Mark
  <2>2. text' = Kept(text \o x)
    BY <1>3 DEF Shows
  <2> HIDE DEF x
  <2>3. Rejected(x)
    BY <2>1 DEF Rejected
  <2>4. \A i \in 1..3 : i = 1 \/ i = 2 \/ i = 3
    OBVIOUS
  <2> QED
    BY <1>2, <1>3, <2>1, <2>2, <2>3, <2>4
<1>4. CASE ~key.whole
  <2>1. Shows(<<Token("bad", q, 0, 0), Mark("reject"), Mark("prompt")>>) /\ job' = job
    BY <1>1, <1>4 DEF AtPrompt
  <2> QED
    BY <1>3, <2>1
<1>5. CASE key.whole /\ key.of \in Privileged /\ mode = "user"
  <2>1. Shows(<<Token("echo", q, 0, 0), Mark("reject"), Mark("prompt")>>) /\ job' = job
    BY <1>1, <1>5 DEF AtPrompt
  <2> QED
    BY <1>3, <2>1
<1>6. CASE key.whole /\ ~(key.of \in Privileged /\ mode = "user")
  <2> DEFINE x == <<Token("echo", q, 0, 0)>>
  <2>1. /\ Shows(x)
        /\ job' = [of |-> q, next |-> 1, page |-> 0, paused |-> FALSE]
    BY <1>1, <1>6 DEF AtPrompt
  <2>2. x \in Tokens /\ Len(x) = 1 /\ x # <<>> /\ x[1].what = "echo"
    <3>1. Token("echo", q, 0, 0) \in TokenSet
      BY SpokenTokens
    <3> QED
      BY <3>1 DEF Tokens, Token
  <2>3. text' = Kept(text \o x)
    BY <2>1 DEF Shows
  <2> HIDE DEF x
  <2>4. job' # Idle /\ job'.next = 1 /\ ~job'.paused /\ job'.of = q
    <3>1. job'.of # Idle.of
      BY <2>1, ConstantTypes DEF Idle
    <3> QED
      BY <2>1, <3>1
  <2>5. Printed' = 0
    BY <2>4 DEF Printed
  <2>6. \A i \in 1..Len(x) : ~IsRow(x[i]) /\ i = 1
    BY <2>2 DEF IsRow
  <2>7. InOrder(x, 0, 0)
    BY <2>2, <2>6, NoneInOrder
  <2> QED
    BY <2>2, <2>3, <2>4, <2>5, <2>6, <2>7
<1> QED
  BY <1>4, <1>5, <1>6

\* The query is dispatched, and its answer is awaited.
LEMMA DispatchStep ==
    ASSUME Inv, Dispatch
    PROVE  Inv'
<1>1. /\ pc = "dispatch" /\ TypeOK /\ TerminalInv /\ ReadingInv /\ OutputInv
      /\ ask.of \in Query /\ ask \in Asks /\ pc \in AtExec /\ stage = "exec" /\ text \in Tokens
      /\ typed \in Nat /\ ahead \in Seq(KeySet)
  BY DEF Dispatch, Inv, TypeOK, ReadingInv, AtExec
<1> DEFINE key == CommandKey(ask.of)
<1>2. key \in KeySet /\ Garbled(key) \in KeySet /\ key.what = "command" /\ Garbled(key).what = "command"
  BY <1>1, KeysTyped DEF CommandKey, Garbled
<1>a. key = CommandKey(ask.of)
  OBVIOUS
<1> HIDE DEF key
<1>3. CASE HasActivePager(text) /\ Sends(key) /\ Fails
  <2>1. Moves /\ pc' = "restore" /\ ask' = ask
    BY <1>1, <1>2, <1>3, SendsMoves DEF Fails, Ends
  <2> QED
    BY <1>1, <2>1, EndsFacts
<1>4. CASE SendsInVain(key) /\ FailsHere
  <2>1. Moves /\ pc' = "restore" /\ ask' = ask
    BY <1>1, <1>2, <1>4, SendsInVainMoves DEF FailsHere, Fails, Ends
  <2> QED
    BY <1>1, <2>1, EndsFacts
<1>5. CASE /\ ~HasActivePager(text) /\ Sends(key)
           /\ GoOn("converge", [ask EXCEPT !.before = text, !.mine = typed',
                                           !.quiet = (job = Idle /\ ahead = <<>>)])
  <2>1. Moves /\ late' = <<>> /\ stage' = "exec"
    BY <1>1, <1>2, <1>5, SendsMoves, MovesStage
  <2>2. typed' \in Nat /\ KeyStep
    BY <1>1, <2>1 DEF Moves
  <2> DEFINE quiet == (job = Idle /\ ahead = <<>>)
  <2>3. /\ pc' = "converge" /\ ask' \in Asks /\ ask'.of = ask.of /\ ask'.before = text
        /\ ask'.mine = typed' /\ ask'.quiet = quiet
    BY <1>1, <1>5, <2>2 DEF GoOn, Asks
  <2> HIDE DEF quiet
  <2>4. TypeOK' /\ TerminalInv'
    BY <1>1, <2>1, <2>3, MovesTypes DEF Places, AtExec
  <2>5. Printed' \in Nat
    <3>1. (TypeOK /\ ask.of \in Query => Printed \in Nat)'
      BY PrintedType, PTL
    <3> QED
      BY <1>1, <2>3, <2>4, <3>1
  <2>6. text # <<>> => text[Len(text)].what # "more"
    BY <1>1, <1>5, NoMarkLast
  <2>7. Spoken \subseteq Mine'
    BY DEF Mine, Spoken, IsRow
  <2>8. \E k \in {key, Garbled(key)} : Type(k)
    BY <1>2, <1>5 DEF Sends, Evaluate
  <2>9. ASSUME quiet
        PROVE  /\ ahead' = <<>> /\ (job' = Idle \/ job'.of = ask.of)
               /\ \E q \in 0..Len(text') :
                     /\ Since(text, text', q) /\ AllIn(After(text', q), Mine')
                     /\ Written(After(text, q), q)'
    <3>1. job = Idle /\ ahead = <<>>
      BY <2>9 DEF quiet
    <3>2. PICK k \in {key, Garbled(key)} : Type(k)
      BY <2>8
    <3>3. AtPrompt(k) /\ ahead' = <<>>
      BY <1>1, <1>2, <3>1, <3>2, TypeAtRest
    <3>4. PICK x \in Tokens :
              /\ text' = Kept(text \o x) /\ x # <<>> /\ x[1].what \in {"echo", "bad"}
              /\ \A i \in 1..Len(x) : /\ x[i].what \in {"echo", "bad", "reject", "prompt"}
                                      /\ x[i].what \in {"bad", "reject", "prompt"} => job' = Idle
                                      /\ x[i].what = "echo" => i = 1
              /\ ~job'.paused /\ (job' = Idle \/ job'.of = ask.of)
              /\ (job' = Idle /\ Rejected(x)) \/ InOrder(x, 0, Printed')
      BY <1>1, <1>a, <2>5, <3>1, <3>2, <3>3, CommandWrites
    <3> DEFINE w == After(text, Len(text))
    <3>5. Since(text, text, Len(text)) /\ w = <<>>
      BY <1>1, FollowsItself
    <3>a. w = After(text, Len(text))
      OBVIOUS
    <3>6. \E q \in 0..Len(Kept(text \o x)), e \in 0..Len(w \o x) :
             /\ Since(text, Kept(text \o x), q) /\ (e = 0 \/ q = 0)
             /\ After(Kept(text \o x), q) = After(w \o x, e)
      <4> DEFINE u == Kept(text \o x)
                 r == Len(text)
      <4>1. u = Kept(text \o x) /\ text \in Tokens /\ x \in Tokens /\ Since(text, text, r)
        BY <1>1, <3>4, <3>5
      <4>2. w = After(text, r)
        BY <3>a
      <4> HIDE DEF u, r
      <4>3. /\ u \in Tokens
            /\ \E q \in 0..Len(u), e \in 0..Len(After(text, r) \o x) :
                  /\ Since(text, u, q) /\ q <= r /\ (e = 0 \/ q = 0)
                  /\ After(u, q) = After(After(text, r) \o x, e)
        BY ONLY <4>1, GrownFacts
      <4> QED
        BY ONLY <4>1, <4>2, <4>3
    <3>7. w \o x = x
      BY <3>4, <3>5 DEF Tokens
    <3> HIDE DEF w
    <3>8. PICK q \in 0..Len(text'), e \in 0..Len(x) :
             Since(text, text', q) /\ (e = 0 \/ q = 0) /\ After(text', q) = After(x, e)
      BY ONLY <3>4, <3>6, <3>7
    <3>9. q \in Nat
      BY <2>4 DEF TypeOK, Tokens
    <3>11. Written(After(x, e), q)'
      BY ONLY <3>4, <3>8, <3>9, FirstWritten
    <3>12. AllIn(After(text', q), Mine')
      <4>1. After(x, e) \in Tokens /\ Len(After(x, e)) = Len(x) - e /\ Len(x) \in Nat
            /\ \A i \in 1..Len(x) - e : After(x, e)[i] = x[e + i]
        <5>1. x \in Seq(TokenSet) /\ e \in 0..Len(x) /\ Len(x) \in Nat
          BY <3>4, <3>8 DEF Tokens
        <5> QED
          BY ONLY <5>1, AfterFacts DEF Tokens
      <4>2. \A i \in 1..Len(x) - e : e + i \in 1..Len(x)
        BY <3>8, <4>1
      <4>3. \A i \in 1..Len(x) : x[i] \in Mine'
        <5>1. \A i \in 1..Len(x) : x[i] \in TokenSet
          BY <3>4 DEF Tokens
        <5> QED
          BY <3>4, <5>1 DEF Mine, IsRow
      <4> QED
        BY <3>8, <4>1, <4>2, <4>3 DEF AllIn
    <3>13. Written(After(text, q), q)'
      BY <3>8, <3>11
    <3> QED
      BY <3>3, <3>4, <3>8, <3>12, <3>13
  <2>10. ASSUME ~quiet
         PROVE  \E q \in 0..Len(text') : Since(text, text', q) /\ AllIn(After(text', q), Mine')
    <3>1. Follows(text, text, Mine')
      BY <1>1, FollowsItself
    <3>2. Follows(text, text', Mine')
      BY <1>1, <2>2, <2>6, <2>7, <3>1, KeyFollows
    <3> QED
      BY <3>2 DEF Follows
  <2>11. FirstPage'
    <3>1. /\ ~HasActivePager(ask.before)' /\ (ask'.quiet => ahead' = <<>>)
          /\ ~(pc' = "attribute")
      BY <1>5, <2>3, <2>9
    <3>2. \E q \in 0..Len(text') :
             /\ Since(ask.before, text, q)' /\ AllMine(After(text, q))'
             /\ ask'.quiet => Written(After(text, q), q)'
      BY <2>3, <2>9, <2>10 DEF AllMine
    <3> QED
      BY <3>1, <3>2 DEF FirstPage
  <2>12. ReadingInv'
    <3>1. ask'.mine <= typed'
      BY <2>2, <2>3
    <3>2. ask'.quiet => (\A i \in 1..Len(ahead') : ahead'[i].what = "space")
                        /\ (job' = Idle \/ job'.of = ask'.of)
      <4>1. 1..Len(<<>>) = {}
        OBVIOUS
      <4> QED
        BY <2>3, <2>9, <4>1
    <3> QED
      BY <2>1, <3>1, <3>2 DEF ReadingInv
  <2>13. OutputInv'
    BY <2>3 DEF OutputInv, Answering
  <2> QED
    BY <2>3, <2>4, <2>11, <2>12, <2>13 DEF Inv
<1> QED
  BY <1>3, <1>4, <1>5, <1>a DEF Dispatch


-----------------------------------------------------------------------------
(* What was read is attributed to the query (observe, fresh_command_window). *)

\* The last token that is no syslog line.
LEMMA LastSaidIs ==
    ASSUME NEW t \in Tokens, NEW j \in 1..Len(t), ~IsLog(t[j]),
           \A i \in j+1..Len(t) : IsLog(t[i])
    PROVE  LastSaid(t) = j
<1>1. PICK m : m = LastSaid(t)
  OBVIOUS
<1>2. m \in 0..Len(t) /\ (m > 0 => ~IsLog(t[m])) /\ j <= m
  <2>1. /\ m \in 0..Len(t) /\ (m > 0 => ~IsLog(t[m]))
        /\ \A i \in 1..Len(t) : ~IsLog(t[i]) => i <= m
    BY <1>1, LastSaidFacts
  <2> QED
    BY <2>1
<1>3. Len(t) \in Nat
  BY DEF Tokens
<1>4. ~(m > j)
  <2>1. m > j => m \in j+1..Len(t)
    BY <1>2, <1>3
  <2> QED
    BY <1>2, <1>3, <2>1
<1> QED
  BY <1>1, <1>2, <1>3, <1>4

\* What ends a window ends the text it was taken from.
LEMMA LastSaidAfter ==
    ASSUME NEW t \in Tokens, NEW k \in 0..Len(t), NEW what, EndsIn(After(t, k), what)
    PROVE  /\ LastSaid(t) \in k+1..Len(t) /\ LastSaid(t) = k + LastSaid(After(t, k))
           /\ t[LastSaid(t)].what = what /\ EndsIn(t, what)
<1> DEFINE w == After(t, k)
           j == LastSaid(w)
<1>1. w \in Tokens /\ Len(w) = Len(t) - k /\ \A i \in 1..Len(t) - k : w[i] = t[k + i]
  BY AfterFacts DEF Tokens
<1>2. Len(t) \in Nat /\ k \in Nat
  BY DEF Tokens
<1>3. j > 0 /\ w[j].what = what
  BY DEF EndsIn
<1> HIDE DEF w
<1>4. j \in 1..Len(w) /\ ~IsLog(w[j]) /\ \A i \in j+1..Len(w) : IsLog(w[i])
  <2> HIDE DEF j
  <2>1. /\ j \in 0..Len(w) /\ (j > 0 => ~IsLog(w[j]))
        /\ \A i \in j+1..Len(w) : IsLog(w[i])
    BY <1>1, LastSaidFacts DEF j
  <2> QED
    BY <1>3, <2>1
<1>a. w = After(t, k)
  BY DEF w
<1>b. j = LastSaid(w)
  OBVIOUS
<1> HIDE DEF j
<1>5. k + j \in 1..Len(t) /\ t[k + j] = w[j] /\ k + j > 0 /\ k + j \in k+1..Len(t)
  BY <1>1, <1>2, <1>4
<1>6. \A i \in (k + j)+1..Len(t) : IsLog(t[i])
  <2>1. \A i \in (k + j)+1..Len(t) : i - k \in j+1..Len(w) /\ i - k \in 1..Len(t) - k /\ k + (i - k) = i
    BY <1>1, <1>2, <1>4
  <2> QED
    BY <1>1, <1>4, <2>1
<1>7. LastSaid(t) = k + j
  BY <1>4, <1>5, <1>6, LastSaidIs
<1> QED
  BY <1>3, <1>5, <1>7, <1>a, <1>b DEF EndsIn

\* A pager or a prompt that ends the text was written since it was at rest.
LEMMA EndsWritten ==
    ASSUME NEW t \in Tokens, NEW r \in 0..Len(t), Written(After(t, r), r), NEW what, EndsIn(t, what)
    PROVE  \E i \in 1..Len(After(t, r)) : i = LastSaid(t) - r /\ After(t, r)[i].what = what
<1> DEFINE w == After(t, r)
<1>1. w \in Tokens /\ Len(w) = Len(t) - r /\ \A i \in 1..Len(t) - r : w[i] = t[r + i]
  BY AfterFacts DEF Tokens
<1>2. Len(t) \in Nat /\ r \in Nat
  BY DEF Tokens
<1>3. PICK m : m = LastSaid(t)
  OBVIOUS
<1>4. m \in 1..Len(t) /\ t[m].what = what /\ \A i \in m+1..Len(t) : IsLog(t[i])
  <2>1. m \in 0..Len(t) /\ \A i \in m+1..Len(t) : IsLog(t[i])
    BY <1>3, LastSaidFacts
  <2> QED
    BY <1>3, <2>1 DEF EndsIn
<1>5. r > 0 => w # <<>> /\ w[1].what \in {"echo", "bad"}
  BY DEF Written
<1> HIDE DEF w
<1>6. m > r
  <2> SUFFICES ASSUME m <= r
               PROVE  FALSE
    BY <1>2, <1>4
  <2>1. w # <<>> /\ w[1].what \in {"echo", "bad"}
    BY <1>2, <1>4, <1>5
  <2>2. Len(w) > 0
    BY <1>1, <2>1 DEF Tokens
  <2>3. 1 \in 1..Len(t) - r /\ r + 1 \in m+1..Len(t)
    BY <1>1, <1>2, <1>4, <2>2
  <2>4. IsLog(w[1])
    BY <1>1, <1>4, <2>3
  <2> QED
    BY <2>1, <2>4 DEF IsLog
<1>7. m - r \in 1..Len(w) /\ w[m - r] = t[m]
  BY <1>1, <1>2, <1>4, <1>6
<1> QED
  BY <1>3, <1>4, <1>7 DEF w

\* A window is a part of what was written since.
LEMMA FirstWindow ==
    ASSUME NEW s \in Tokens, NEW t \in Tokens, NEW r, Since(s, t, r), ~HasActivePager(s),
           NEW w, w = FreshCommandWindow(s, t)
    PROVE  /\ w \in Windows
           /\ w.output = <<>> \/ \E k \in 0..Len(t) : r <= k /\ w.output = After(t, k)
<1>1. CASE w = NoWindow
  <2>1. <<>> \in Tokens
    BY DEF Tokens
  <2> QED
    BY <1>1, <2>1 DEF NoWindow, Windows
<1>2. CASE w # NoWindow
  <2>1. w = PlainWindow(s, t)
    BY <1>2 DEF FreshCommandWindow
  <2>2. PICK k \in 0..Len(t) : r <= k /\ w = [fresh |-> TRUE, output |-> After(t, k)]
    BY <1>2, <2>1, PlainWindowFacts
  <2>3. After(t, k) \in Tokens
    BY AfterFacts DEF Tokens
  <2> QED
    BY <2>2, <2>3 DEF Windows
<1> QED
  BY <1>1, <1>2

\* What was observed is what the terminal stops at, or the wait was in vain.
LEMMA ConvergeStep ==
    ASSUME Inv, Converge
    PROVE  Inv'
<1>1. /\ pc = "converge" /\ TypeOK /\ TerminalInv /\ ReadingInv /\ OutputInv /\ FirstPage
      /\ ask.of \in Query /\ ask \in Asks /\ text \in Tokens /\ job \in Jobs
  BY DEF Converge, Inv, TypeOK
<1>2. PICK r \in 0..Len(text) : /\ Since(ask.before, text, r) /\ AllMine(After(text, r))
                                /\ ask.quiet => Written(After(text, r), r)
  BY <1>1 DEF FirstPage
<1>3. /\ Moves /\ UNCHANGED terminal /\ late' = late /\ pc' = "attribute" /\ ask' \in Asks
      /\ ask'.of = ask.of /\ ask'.before = ask.before /\ ask'.quiet = ask.quiet
      /\ ask'.mine = ask.mine
      /\ ask'.converged => HasActivePager(text) \/ TerminalIsIdle(text)
  <2>1. CASE Converged /\ Reads /\ GoOn("attribute", [ask EXCEPT !.converged = TRUE])
    BY <1>1, <2>1, ReadsMoves DEF GoOn, Asks, Converged
  <2>2. CASE WaitsInVain(Converged) /\ GoOn("attribute", [ask EXCEPT !.converged = FALSE])
    <3>1. Converged \in BOOLEAN
      BY DEF Converged
    <3> QED
      BY <1>1, <2>2, <3>1, ReadsMoves DEF GoOn, Asks
  <2> QED
    BY <2>1, <2>2 DEF Converge
<1>4. text' = text /\ job' = job /\ ahead' = ahead /\ typed' = typed /\ stage' = stage
  BY <1>3 DEF terminal
<1>5. TypeOK' /\ TerminalInv'
  BY <1>1, <1>3, MovesTypes DEF Places, AtExec
<1>6. Mine' = Mine /\ Printed' = Printed
  BY <1>3, <1>4 DEF Mine, Printed
<1>7. ASSUME ask.quiet, HasActivePager(text) \/ TerminalIsIdle(text)
      PROVE  job = Idle \/ job.paused
  <2>1. Written(After(text, r), r)
    BY <1>2, <1>7
  <2>2. PICK what \in {"more", "prompt"} : EndsIn(text, what)
    BY <1>7 DEF HasActivePager, TerminalIsIdle
  <2>3. \E i \in 1..Len(After(text, r)) : After(text, r)[i].what = what
    BY <1>1, <2>1, <2>2, EndsWritten
  <2> QED
    BY <2>1, <2>3 DEF Written
<1>8. FirstPage'
  <2>1. /\ ~HasActivePager(ask.before)' /\ (ask'.quiet => ahead' = <<>>)
    BY <1>1, <1>3, <1>4 DEF FirstPage
  <2>2. ask'.quiet /\ ask'.converged => job' = Idle \/ job'.paused
    BY <1>1, <1>3, <1>4, <1>7 DEF FirstPage
  <2>3. Since(ask.before, text, r)' /\ AllMine(After(text, r))'
    BY <1>2, <1>3, <1>4, <1>6 DEF AllMine, AllIn
  <2>4. ask'.quiet => Written(After(text, r), r)'
    BY <1>2, <1>3, <1>4, <1>6 DEF Written
  <2>5. r \in 0..Len(text')
    BY <1>4
  <2> QED
    BY <2>1, <2>2, <2>3, <2>4, <2>5 DEF FirstPage
<1>9. ReadingInv'
  BY <1>1, <1>3, <1>4 DEF ReadingInv, AtExec, Reading
<1>10. OutputInv'
  BY <1>3 DEF OutputInv, Answering
<1> QED
  BY <1>3, <1>5, <1>8, <1>9, <1>10 DEF Inv


\* A query that was typed at rest and is recognised by its echo: its window is
\* all that was written since, and the terminal is done or waits at its pager.
LEMMA DispatchedWindow ==
    ASSUME TypeOK, NEW r \in 0..Len(text), Written(After(text, r), r), job = Idle \/ job.paused,
           NEW k \in 0..Len(text), r <= k, ClassifyEcho(ask.of, After(text, k)) = "dispatched",
           ask.of \in Query
    PROVE  /\ k = r
           /\ \/ job = Idle /\ (Rejected(After(text, r)) \/ InOrder(After(text, r), 0, Rows[ask.of]))
              \/ /\ job # Idle /\ job.paused /\ HasActivePager(After(text, r))
                 /\ InOrder(After(text, r), 0, Printed)
<1> DEFINE w == After(text, r)
           v == After(text, k)
<1>1. /\ text \in Tokens /\ Len(text) \in Nat /\ r \in Nat /\ k \in Nat
      /\ w \in Tokens /\ Len(w) = Len(text) - r /\ \A i \in 1..Len(text) - r : w[i] = text[r + i]
      /\ v \in Tokens /\ Len(v) = Len(text) - k /\ \A i \in 1..Len(text) - k : v[i] = text[k + i]
  <2>1. text \in Seq(TokenSet) /\ Len(text) \in Nat
    BY DEF TypeOK, Tokens
  <2>2. /\ w \in Seq(TokenSet) /\ Len(w) = Len(text) - r
        /\ \A i \in 1..Len(text) - r : w[i] = text[r + i]
    BY <2>1, AfterFacts
  <2>3. /\ v \in Seq(TokenSet) /\ Len(v) = Len(text) - k
        /\ \A i \in 1..Len(text) - k : v[i] = text[k + i]
    BY <2>1, AfterFacts
  <2>4. r \in Nat /\ k \in Nat
    BY <2>1
  <2> HIDE DEF w, v
  <2> QED
    BY ONLY <2>1, <2>2, <2>3, <2>4 DEF Tokens
<1>2. PICK i \in 1..Len(v) : v[i].what = "echo"
  <2>1. ClassifyEcho(ask.of, v) = "dispatched" /\ ask.of \in Query
    OBVIOUS
  <2> HIDE DEF v
  <2> QED
    BY ONLY <1>1, <2>1, EchoFacts
<1>3. Written(w, r) /\ w = After(text, r)
  OBVIOUS
<1> HIDE DEF w, v
<1>4. k - r + i \in 1..Len(w) /\ w[k - r + i] = v[i]
  <2>1. k - r + i \in 1..Len(text) - r /\ r + (k - r + i) = k + i /\ i \in 1..Len(text) - k
    BY <1>1
  <2> QED
    BY <1>1, <2>1
<1>5. k - r + i = 1 /\ ((job = Idle /\ Rejected(w)) \/ InOrder(w, 0, Printed))
  BY <1>2, <1>3, <1>4 DEF Written
<1>6. k = r
  BY <1>1, <1>5
<1>7. CASE job = Idle
  <2>1. Printed = Rows[ask.of]
    BY <1>7 DEF Printed
  <2> QED
    BY <1>3, <1>5, <1>6, <1>7, <2>1
<1>8. CASE job # Idle
  <2>1. 1 \in 1..Len(w) /\ ~IsLog(w[1]) /\ w[1].what = "echo"
    BY <1>2, <1>4, <1>5 DEF IsLog
  <2>2. PICK j \in 1..Len(w) : w[j].what = "more"
    BY <1>3, <1>8, <2>1 DEF Written
  <2>3. \A m \in j+1..Len(w) : IsLog(w[m])
    BY <1>3, <2>2 DEF Written
  <2>4. LastSaid(w) = j
    BY <1>1, <2>2, <2>3, LastSaidIs DEF IsLog
  <2>5. HasActivePager(w)
    BY <2>2, <2>4 DEF HasActivePager, EndsIn
  <2> QED
    BY <1>3, <1>5, <1>6, <1>8, <2>5
<1> QED
  BY <1>7, <1>8

\* Behind a row of a page stands one mark of the pager at most, with nothing
\* behind it but syslog lines.
OnePage(w) ==
    \A i \in 1..Len(w) :
        /\ w[i].what \in {"echo", "row", "more", "log"}
        /\ w[i].what = "echo" => i = 1
        /\ IsRow(w[i]) => \A j \in i+1..Len(w) :
              w[j].what = "more" => \A h \in j+1..Len(w) : IsLog(w[h])

\* A page that the terminal stops at ends with the last row that was printed,
\* and with syslog lines only behind it.
LEMMA PageStops ==
    ASSUME TypeOK, TerminalInv, NEW w \in Tokens, NEW k \in 0..Len(text), w = After(text, k),
           job # Idle, job.paused, HasActivePager(w),
           NEW n \in Nat, n = Printed, NEW lo \in Nat, lo < n, InOrder(w, lo, n), OnePage(w)
    PROVE  \E l \in 1..Len(DropPagerPrompt(text)) : l > k /\ PageEnds(DropPagerPrompt(text), l, n)
<1> DEFINE base == DropPagerPrompt(text)
<1>1. /\ text \in Tokens /\ Len(text) \in Nat /\ k \in Nat
      /\ Len(w) = Len(text) - k /\ \A i \in 1..Len(text) - k : w[i] = text[k + i]
  <2>1. text \in Seq(TokenSet) /\ Len(text) \in Nat /\ text \in Tokens
    BY DEF TypeOK, Tokens
  <2>2. /\ Len(After(text, k)) = Len(text) - k
        /\ \A i \in 1..Len(text) - k : After(text, k)[i] = text[k + i]
    BY ONLY <2>1, k \in 0..Len(text), AfterFacts
  <2> QED
    BY <2>1, <2>2
<1>2. LastSaid(text) \in k+1..Len(text) /\ HasActivePager(text) /\ text[LastSaid(text)].what = "more"
  BY <1>1, LastSaidAfter DEF HasActivePager
<1>3. PICK m \in 1..Len(text) :
         /\ m = LastSaid(text) /\ Len(base) = m - 1 /\ base \in Tokens
         /\ \A i \in 1..m - 1 : base[i] = text[i]
         /\ \A i \in m+1..Len(text) : IsLog(text[i])
  BY <1>1, <1>2, DropFacts
<1>4. m > k /\ m \in Nat /\ text[m].what = "more"
  BY <1>1, <1>2, <1>3
<1>5. PICK i \in 1..Len(w) : IsRow(w[i]) /\ w[i].n = n
  <2>1. n \in (lo + 1)..n
    OBVIOUS
  <2>2. DOMAIN w = 1..Len(w)
    BY DEF Tokens
  <2> QED
    BY <2>1, <2>2 DEF InOrder
<1> HIDE DEF base
<1>6. m - k \in 1..Len(w) /\ w[m - k] = text[m] /\ w[m - k].what = "more"
  <2>1. m - k \in 1..Len(text) - k /\ k + (m - k) = m
    BY <1>1, <1>4
  <2> QED
    BY <1>1, <1>4, <2>1
<1>7. i < m - k
  <2>1. i # m - k
    BY <1>5, <1>6 DEF IsRow
  <2>2. i > m - k => k + i \in m+1..Len(text) /\ i \in 1..Len(text) - k
    BY <1>1, <1>4
  <2>3. ~(i > m - k)
    BY <1>1, <1>3, <1>5, <2>2 DEF IsRow, IsLog
  <2> QED
    BY <1>1, <1>4, <2>1, <2>3
<1>8. ASSUME NEW j \in i+1..(m - k) - 1
      PROVE  IsLog(w[j])
  <2>1. j \in 1..Len(w) /\ j > i /\ j # 1 /\ m - k \in j+1..Len(w)
    BY <1>1, <1>4, <1>6
  <2>2. w[j].what # "echo" /\ w[j].what # "more"
    <3>1. \A h \in i+1..Len(w) : w[h].what = "more" => \A g \in h+1..Len(w) : IsLog(w[g])
      BY <1>5 DEF OnePage
    <3>2. j \in i+1..Len(w)
      BY <2>1
    <3>3. ~IsLog(w[m - k])
      BY <1>6 DEF IsLog
    <3>4. w[j].what # "more"
      BY <2>1, <3>1, <3>2, <3>3
    <3>5. w[j].what # "echo"
      BY <2>1 DEF OnePage
    <3> QED
      BY <3>4, <3>5
  <2>3. ~IsRow(w[j])
    <3>1. DOMAIN w = 1..Len(w)
      BY DEF Tokens
    <3>2. IsRow(w[j]) => w[j].n \in (lo + 1)..n /\ w[i].n < w[j].n
      BY <1>5, <2>1, <3>1 DEF InOrder
    <3> QED
      BY <1>5, <3>2
  <2> QED
    BY <2>1, <2>2, <2>3 DEF IsLog, IsRow, OnePage
<1> DEFINE l == k + i
<1>9. l \in 1..m - 1 /\ l > k /\ base[l] = w[i]
  <2>1. l \in 1..m - 1 /\ l > k /\ i \in 1..Len(text) - k
    BY <1>1, <1>4, <1>7
  <2> QED
    BY <1>1, <1>3, <2>1
<1>10. ASSUME NEW j \in l+1..m - 1
       PROVE  IsLog(text[j]) /\ base[j] = text[j]
  <2>1. /\ j - k \in i+1..(m - k) - 1 /\ j - k \in 1..Len(text) - k /\ k + (j - k) = j
        /\ j \in 1..m - 1
    BY <1>1, <1>4, <1>9
  <2>2. IsLog(w[j - k]) /\ w[j - k] = text[k + (j - k)] /\ base[j] = text[j]
    BY <1>1, <1>3, <1>8, <2>1
  <2> QED
    BY <2>1, <2>2
<1> HIDE DEF l
<1>11. PageEnds(base, l, n)
  <2>1. \A j \in l+1..Len(base) : IsLog(base[j])
    BY <1>3, <1>10
  <2> QED
    BY <1>3, <1>5, <1>9, <2>1 DEF PageEnds
<1> QED
  BY <1>3, <1>9, <1>11 DEF base


\* Dropping what ends a text leaves what stood in it.
LEMMA DropIn ==
    ASSUME NEW t \in Tokens, NEW M, AllIn(t, M)
    PROVE  DropPagerPrompt(t) \in Tokens /\ AllIn(DropPagerPrompt(t), M)
<1>1. CASE DropPagerPrompt(t) = t
  BY <1>1
<1>2. CASE DropPagerPrompt(t) # t
  <2>1. PICK m \in 1..Len(t) :
           /\ DropPagerPrompt(t) \in Tokens /\ Len(DropPagerPrompt(t)) = m - 1
           /\ \A i \in 1..m - 1 : DropPagerPrompt(t)[i] = t[i]
    BY <1>2, DropFacts
  <2>2. \A i \in 1..m - 1 : i \in 1..Len(t)
    BY DEF Tokens
  <2> QED
    BY <2>1, <2>2 DEF AllIn
<1> QED
  BY <1>1, <1>2

\* Without the pager that ends it a page holds the same rows.
LEMMA DropInOrder ==
    ASSUME NEW t \in Tokens, NEW lo \in Nat, NEW hi \in Nat, InOrder(t, lo, hi)
    PROVE  InOrder(DropPagerPrompt(t), lo, hi)
<1> DEFINE f == DropPagerPrompt(t)
<1>1. CASE f = t
  BY <1>1
<1>2. CASE f # t
  <2>1. PICK m \in 1..Len(t) :
           /\ t[m].what = "more" /\ \A i \in m+1..Len(t) : IsLog(t[i])
           /\ f \in Tokens /\ Len(f) = m - 1 /\ \A i \in 1..m - 1 : f[i] = t[i]
    BY <1>2, DropFacts
  <2> HIDE DEF f
  <2>2. Len(t) \in Nat /\ m \in Nat
    BY DEF Tokens
  <2>3. ASSUME NEW i \in 1..Len(t), i > Len(f)
        PROVE  ~IsRow(t[i])
    <3>1. i = m \/ i \in m+1..Len(t)
      BY <2>1, <2>2, <2>3
    <3> QED
      BY <2>1, <3>1 DEF IsLog, IsRow
  <2>4. Len(f) <= Len(t) /\ \A i \in 1..Len(f) : f[i] = t[i]
    BY <2>1, <2>2
  <2>5. InOrder(f, lo, hi)
    BY <2>1, <2>3, <2>4, CutInOrder
  <2> QED
    BY <2>5 DEF f
<1> QED
  BY <1>1, <1>2

\* What stands behind a page that was read: the mark of the pager, and syslog lines.
LEMMA BehindPage ==
    ASSUME NEW t \in Tokens, HasActivePager(t), LoneMarks(t)
    PROVE  LET base == DropPagerPrompt(t) IN
           /\ base \in Tokens /\ Len(base) = LastSaid(t) - 1 /\ Len(base) \in 0..Len(t)
           /\ Since(base, t, Len(base)) /\ (base # <<>> => base[Len(base)].what # "more")
           /\ \A i \in 1..Len(After(t, Len(base))) : After(t, Len(base))[i].what \in {"more", "log"}
<1> DEFINE base == DropPagerPrompt(t)
<1>1. PICK m \in 1..Len(t) :
         /\ m = LastSaid(t) /\ t[m].what = "more" /\ \A i \in m+1..Len(t) : IsLog(t[i])
         /\ base \in Tokens /\ Len(base) = m - 1 /\ \A i \in 1..m - 1 : base[i] = t[i]
  BY DropFacts
<1> HIDE DEF base
<1>2. Len(t) \in Nat /\ m \in Nat /\ m - 1 \in 0..Len(t) /\ Len(base) \in 0..Len(t)
  BY <1>1 DEF Tokens
<1>3. Since(base, t, Len(base))
  <2>1. Len(base) \in 0..Len(t) /\ Len(base) <= Len(base)
        /\ \A i \in 1..Len(base) : t[i] = base[Len(base) - Len(base) + i]
    BY <1>1, <1>2
  <2> QED
    BY <2>1 DEF Since
<1>4. base # <<>> => base[Len(base)].what # "more"
  <2>1. base # <<>> => m - 1 \in 1..Len(t) /\ m - 1 < Len(t) /\ m - 1 + 1 = m
    BY <1>1, <1>2 DEF Tokens
  <2>2. base # <<>> => base[Len(base)] = t[m - 1]
    BY <1>1, <1>2, <2>1
  <2> QED
    BY <1>1, <2>1, <2>2 DEF LoneMarks
<1>5. ASSUME NEW i \in 1..Len(After(t, Len(base)))
      PROVE  After(t, Len(base))[i].what \in {"more", "log"}
  <2>1. t \in Seq(TokenSet)
    BY DEF Tokens
  <2>2. /\ Len(After(t, Len(base))) = Len(t) - Len(base)
        /\ \A j \in 1..Len(t) - Len(base) : After(t, Len(base))[j] = t[Len(base) + j]
    BY ONLY <1>2, <2>1, AfterFacts
  <2>3. After(t, Len(base))[i] = t[Len(base) + i]
    BY <2>2
  <2>4. Len(base) + i = m \/ Len(base) + i \in m+1..Len(t)
    BY <1>1, <1>2, <2>2
  <2> QED
    BY <1>1, <2>3, <2>4 DEF IsLog
<1> QED
  BY <1>1, <1>2, <1>3, <1>4, <1>5 DEF base


\* What was written later than mine is mine as well.
LEMMA LaterMine ==
    ASSUME NEW t \in Tokens, NEW r \in 0..Len(t), NEW k \in r..Len(t), NEW M, AllIn(After(t, r), M)
    PROVE  AllIn(After(t, k), M)
<1>1. t \in Seq(TokenSet) /\ Len(t) \in Nat /\ k \in 0..Len(t) /\ r \in 0..Len(t)
  BY DEF Tokens
<1>2. /\ Len(After(t, r)) = Len(t) - r /\ \A i \in 1..Len(t) - r : After(t, r)[i] = t[r + i]
  BY ONLY <1>1, AfterFacts
<1>3. /\ Len(After(t, k)) = Len(t) - k /\ \A i \in 1..Len(t) - k : After(t, k)[i] = t[k + i]
  BY ONLY <1>1, AfterFacts
<1>4. ASSUME NEW i \in 1..Len(After(t, k))
      PROVE  After(t, k)[i] \in M
  <2>1. i \in 1..Len(t) - k /\ k - r + i \in 1..Len(t) - r /\ r + (k - r + i) = k + i
    BY <1>1, <1>3
  <2>2. After(t, k)[i] = t[k + i] /\ After(t, r)[k - r + i] = t[r + (k - r + i)]
    BY ONLY <1>2, <1>3, <2>1
  <2>3. After(t, r)[k - r + i] \in M
    BY <1>2, <2>1 DEF AllIn
  <2> QED
    BY <2>1, <2>2, <2>3
<1> QED
  BY <1>4 DEF AllIn

\* A page that was read and whose pager will be followed: what is kept of the
\* answer is what NextPage says.
LEMMA PageRead ==
    ASSUME TypeOK, TerminalInv, NEW k \in 0..Len(text), HasActivePager(After(text, k)),
           AllIn(After(text, k), Mine), UNCHANGED terminal, pc' = "advance", Mine' = Mine,
           Printed' = Printed, ask'.of = ask.of, ask'.seen = text, ask'.complete,
           Whole' => /\ ahead = <<>> /\ job # Idle /\ job.paused /\ job.of = ask.of
                     /\ Printed \in 1..Rows[ask.of] /\ InOrder(ask'.output, 0, Printed)
                     /\ OnePage(After(text, k))
                     /\ \E lo \in Nat : lo < Printed /\ InOrder(After(text, k), lo, Printed)
    PROVE  NextPage'
<1> DEFINE base == DropPagerPrompt(text)
           w    == After(text, k)
<1>1. /\ text \in Tokens /\ Len(text) \in Nat /\ k \in Nat /\ LoneMarks(text)
      /\ text' = text /\ job' = job /\ ahead' = ahead
  BY DEF TypeOK, Tokens, TerminalInv, MoreInv, terminal
<1>2. HasActivePager(text) /\ LastSaid(text) \in k+1..Len(text)
  BY <1>1, LastSaidAfter DEF HasActivePager
<1>3. /\ base \in Tokens /\ Len(base) = LastSaid(text) - 1 /\ Len(base) \in 0..Len(text)
      /\ Since(base, text, Len(base)) /\ (base # <<>> => base[Len(base)].what # "more")
      /\ \A i \in 1..Len(After(text, Len(base))) : After(text, Len(base))[i].what \in {"more", "log"}
  BY <1>1, <1>2, BehindPage
<1>4. AllMine(After(text, Len(base)))'
  <2>1. Len(base) \in k..Len(text)
    BY <1>1, <1>2, <1>3
  <2>2. AllIn(After(text, Len(base)), Mine)
    BY <1>1, <2>1, LaterMine
  <2> QED
    BY <1>1, <2>2 DEF AllMine
<1>5. ASSUME Whole'
      PROVE  \E n \in 0..Rows[ask.of] : \E l \in 1..Len(base) : Answered(base, Len(base), n, l)'
  <2>1. PICK n : n = Printed
    OBVIOUS
  <2>2. PICK lo \in Nat :
           /\ ahead = <<>> /\ job # Idle /\ job.paused
           /\ n \in 1..Rows[ask.of] /\ InOrder(ask'.output, 0, n)
           /\ OnePage(w) /\ lo < n /\ InOrder(w, lo, n)
    BY <1>5, <2>1
  <2>3. n \in Nat /\ w \in Tokens /\ HasActivePager(w) /\ w = After(text, k)
    <3>1. Rows[ask.of] \in Nat \/ n \in Nat
      BY <2>2
    <3>2. w \in Tokens
      BY <1>1, AfterFacts DEF Tokens
    <3> QED
      BY <2>2, <3>1, <3>2
  <2> HIDE DEF w
  <2>4. PICK l \in 1..Len(base) : PageEnds(base, l, n)
    BY <2>1, <2>2, <2>3, PageStops
  <2>5. Continued(After(text, Len(base)), n)'
    <3>1. \A i \in 1..Len(After(text, Len(base))) :
             After(text, Len(base))[i].what \in {"more", "log"} /\ ~IsRow(After(text, Len(base))[i])
      BY <1>3 DEF IsRow
    <3> QED
      BY <1>1, <3>1 DEF Continued, IsRow
  <2>6. InOrder(After(text, Len(base)), n, n)
    <3>1. \A i \in 1..Len(After(text, Len(base))) : ~IsRow(After(text, Len(base))[i])
      BY <1>3 DEF IsRow
    <3>2. After(text, Len(base)) \in Tokens
      BY <1>1, <1>3, AfterFacts DEF Tokens
    <3> QED
      BY <2>3, <3>1, <3>2, NoneInOrder
  <2>7. Answered(base, Len(base), n, l)'
    BY <1>1, <2>1, <2>2, <2>3, <2>4, <2>5, <2>6 DEF Answered, PageEnds
  <2>8. n \in 0..Rows[ask.of]
    BY <2>2
  <2> QED
    BY <2>7, <2>8
<1> QED
  BY <1>1, <1>2, <1>3, <1>4, <1>5 DEF NextPage

\* A pager at which the query waits has printed a page.
LEMMA PagePrinted ==
    ASSUME TypeOK, TerminalInv, job # Idle, job.paused, job.of = ask.of, ask.of \in Query
    PROVE  Printed \in 1..Rows[ask.of] /\ Printed \in Nat
<1>1. /\ job.page < job.next /\ job.page = PageRows /\ job.next <= Rows[job.of]
      /\ job.next \in Nat /\ PageRows \in Nat /\ PageRows > 0
  BY ConstantTypes DEF TerminalInv, JobInv, TypeOK, Jobs
<1>2. Rows[ask.of] \in Nat
  BY ConstantTypes
<1> QED
  BY <1>1, <1>2 DEF Printed

\* The first page of a paged answer, when the pager will be followed.
LEMMA FirstNext ==
    ASSUME TypeOK, TerminalInv, ReadingInv, pc = "attribute", FirstPage, ask.of \in Query,
           NEW r \in 0..Len(text), AllMine(After(text, r)),
           ask.quiet => Written(After(text, r), r),
           NEW k \in 0..Len(text), r <= k, HasActivePager(After(text, k)),
           UNCHANGED terminal, pc' = "advance", Mine' = Mine, Printed' = Printed,
           ask'.of = ask.of, ask'.quiet = ask.quiet, ask'.converged = ask.converged,
           ask'.seen = text, ask'.complete, ask'.class = ClassifyEcho(ask.of, After(text, k)),
           ask'.output = DropPagerPrompt(After(text, k))
    PROVE  NextPage'
<1> DEFINE w == After(text, k)
<1>1. text \in Tokens /\ Len(text) \in Nat /\ k \in r..Len(text)
  BY DEF TypeOK, Tokens
<1>2. AllIn(w, Mine)
  BY <1>1, LaterMine DEF AllMine
<1>3. w \in Tokens /\ HasActivePager(w)
  BY <1>1, AfterFacts DEF Tokens
<1>4. ASSUME Whole'
      PROVE  /\ ahead = <<>> /\ job # Idle /\ job.paused /\ job.of = ask.of
             /\ Printed \in 1..Rows[ask.of] /\ InOrder(ask'.output, 0, Printed)
             /\ OnePage(w)
             /\ \E lo \in Nat : lo < Printed /\ InOrder(w, lo, Printed)
  <2>1. /\ ask.quiet /\ ask.converged /\ ClassifyEcho(ask.of, After(text, k)) = "dispatched"
    BY <1>4 DEF Whole
  <2>2. /\ Written(After(text, r), r) /\ ahead = <<>> /\ (job = Idle \/ job.paused)
        /\ (job = Idle \/ job.of = ask.of)
    BY <2>1 DEF FirstPage, ReadingInv, Reading
  <2>3. /\ k = r
        /\ \/ job = Idle
           \/ job # Idle /\ job.paused /\ InOrder(After(text, r), 0, Printed)
    BY <2>1, <2>2, DispatchedWindow
  <2>4. Written(w, r)
    BY <2>2, <2>3
  <2> HIDE DEF w
  <2>5. job # Idle
    <3>1. PICK m : m = LastSaid(w)
      OBVIOUS
    <3>2. m \in 1..Len(w) /\ w[m].what = "more"
      <4>1. m \in 0..Len(w)
        BY <1>3, <3>1, LastSaidFacts
      <4> QED
        BY <1>3, <3>1, <4>1 DEF HasActivePager, EndsIn
    <3>3. job.paused
      BY <2>4, <3>2 DEF Written
    <3> QED
      BY <3>3 DEF Idle
  <2>6. job.paused /\ job.of = ask.of /\ InOrder(w, 0, Printed)
    BY <2>2, <2>3, <2>5 DEF w
  <2>7. Printed \in 1..Rows[ask.of] /\ Printed \in Nat
    BY <2>5, <2>6, PagePrinted
  <2>8. OnePage(w)
    BY <2>4, <2>5 DEF Written, OnePage
  <2>9. InOrder(ask'.output, 0, Printed)
    <3>1. InOrder(DropPagerPrompt(w), 0, Printed)
      BY <1>3, <2>6, <2>7, DropInOrder
    <3> QED
      BY <3>1 DEF w
  <2> QED
    BY <2>2, <2>5, <2>6, <2>7, <2>8, <2>9
<1> QED
  BY <1>2, <1>3, <1>4, PageRead

\* No pager ends a text without tokens.
LEMMA EmptyHasNone == ~HasActivePager(<<>>)
<1>1. <<>> \in Tokens /\ Len(<<>>) = 0
  BY DEF Tokens
<1>2. PICK m : m = LastSaid(<<>>)
  OBVIOUS
<1>3. m \in 0..Len(<<>>)
  BY <1>1, <1>2, LastSaidFacts
<1> QED
  BY <1>1, <1>2, <1>3 DEF HasActivePager, EndsIn

\* What was read is attributed, and its pager followed or cancelled.
LEMMA AttributeStep ==
    ASSUME Inv, Attribute
    PROVE  Inv'
<1>1. /\ pc = "attribute" /\ TypeOK /\ TerminalInv /\ ReadingInv /\ OutputInv /\ FirstPage
      /\ ask.of \in Query /\ ask \in Asks /\ text \in Tokens /\ ask.before \in Tokens
      /\ late = <<>> /\ stage = "exec"
  BY DEF Attribute, Inv, TypeOK, Asks, ReadingInv, AtExec, Reading
<1>2. PICK r \in 0..Len(text) : /\ Since(ask.before, text, r) /\ AllMine(After(text, r))
                                /\ ask.quiet => Written(After(text, r), r)
  BY <1>1 DEF FirstPage
<1>3. PICK output \in {text, <<>>} : /\ Reads \/ ReadsInVain
                                     /\ Attributed(output)
  BY DEF Attribute
<1> DEFINE window == FreshCommandWindow(ask.before, output)
           v      == window.output
           class  == ClassifyEcho(ask.of, v)
           follow == HasActivePager(v) /\ ask.of \in Qualified /\ ~IsCommandCorrupted(class)
<1>4. window \in Windows /\ (v = <<>> \/ \E k \in 0..Len(text) : r <= k /\ v = After(text, k) /\ output = text)
  <2>1. CASE output = text
    <3>1. ~HasActivePager(ask.before)
      BY <1>1 DEF FirstPage
    <3> QED
      BY <1>1, <1>2, <2>1, <3>1, FirstWindow
  <2>2. CASE output = <<>>
    <3>1. window = NoWindow
      BY <2>2 DEF FreshCommandWindow
    <3>2. <<>> \in Tokens
      BY DEF Tokens
    <3> QED
      BY <3>1, <3>2 DEF NoWindow, Windows
  <2> QED
    BY <2>1, <2>2
<1>5. /\ pc' = IF follow THEN "advance" ELSE IF HasActivePager(v) THEN "cancel" ELSE "conclude"
      /\ ask' = [ask EXCEPT !.before = <<>>, !.window = window, !.class = class, !.seen = output,
                            !.output = IF follow THEN DropPagerPrompt(v) ELSE v,
                            !.complete = ~HasActivePager(v) \/ follow, !.then = "conclude"]
  BY <1>3 DEF Attributed, GoOn
<1>6. v \in Tokens /\ AllIn(v, Mine) /\ DropPagerPrompt(v) \in Tokens /\ AllIn(DropPagerPrompt(v), Mine)
  <2>1. v \in Tokens
    BY <1>4 DEF Windows
  <2>2. AllIn(v, Mine)
    <3>1. CASE v = <<>>
      BY <3>1, NothingIn
    <3>2. CASE v # <<>>
      <4>1. PICK k \in 0..Len(text) : r <= k /\ v = After(text, k)
        BY <1>4, <3>2
      <4>2. k \in r..Len(text)
        BY <1>1, <4>1 DEF Tokens
      <4>3. AllIn(After(text, k), Mine)
        BY <1>1, <1>2, <4>2, LaterMine DEF AllMine
      <4> QED
        BY <4>1, <4>3
    <3> QED
      BY <3>1, <3>2
  <2> HIDE DEF v
  <2> QED
    BY <2>1, <2>2, DropIn
<1>a. class \in Classes /\ output \in Tokens /\ <<>> \in Tokens /\ (HasActivePager(v) => output = text)
  <2>1. class \in Classes
    BY ClassType
  <2>2. HasActivePager(v) => v # <<>>
    BY EmptyHasNone
  <2>3. HasActivePager(v) => output = text
    BY <1>4, <2>2
  <2>4. <<>> \in Tokens
    BY DEF Tokens
  <2> QED
    BY <1>1, <2>1, <2>3, <2>4
<1>b. class = ClassifyEcho(ask.of, v) /\ (follow => HasActivePager(v))
  OBVIOUS
<1>c. follow \in BOOLEAN /\ (~HasActivePager(v) \/ follow) \in BOOLEAN
  BY DEF HasActivePager, EndsIn
<1> HIDE DEF window, class, follow
<1>7. /\ ask' \in Asks /\ ask'.of = ask.of /\ ask'.quiet = ask.quiet /\ ask'.mine = ask.mine
      /\ ask'.converged = ask.converged /\ ask'.class = class /\ ask'.seen = output
      /\ ask'.then = "conclude" /\ ask'.complete = (~HasActivePager(v) \/ follow)
      /\ ask'.output = IF follow THEN DropPagerPrompt(v) ELSE v
  BY <1>1, <1>4, <1>5, <1>6, <1>a, <1>c DEF Asks
<1>8. Moves /\ UNCHANGED terminal /\ late' = late
  BY <1>1, <1>3, ReadsMoves
<1>9. Mine' = Mine /\ Printed' = Printed /\ text' = text /\ job' = job /\ ahead' = ahead
      /\ typed' = typed /\ stage' = stage
  BY <1>7, <1>8 DEF Mine, Printed, terminal
<1>10. TypeOK' /\ TerminalInv'
  BY <1>1, <1>5, <1>7, <1>8, MovesTypes DEF Places, AtExec
<1>11. ReadingInv'
  BY <1>1, <1>7, <1>8, <1>9 DEF ReadingInv, Reading
<1>12. OutputInv'
  <2>1. AllMine(ask.output)'
    BY <1>6, <1>7, <1>9 DEF AllMine
  <2>2. pc' \in {"cancel", "cancelling"} => ~ask'.complete
    BY <1>5, <1>7
  <2>3. ASSUME pc' = "conclude", Whole', ask'.complete
        PROVE  Rejected(ask'.output) \/ InOrder(ask'.output, 0, Rows[ask'.of])
    <3>1. ~HasActivePager(v) /\ ask'.output = v /\ class = "dispatched" /\ ask.quiet /\ ask.converged
      BY <1>5, <1>7, <1>b, <2>3 DEF Whole
    <3>2. Written(After(text, r), r) /\ (job = Idle \/ job.paused)
      BY <1>1, <1>2, <3>1 DEF FirstPage
    <3>3. v # <<>>
      <4>1. PICK i \in 1..Len(v) : v[i].what = "echo"
        BY <1>1, <1>6, <1>b, <3>1, EchoFacts
      <4>2. 1..Len(<<>>) = {}
        OBVIOUS
      <4> QED
        BY <4>1, <4>2
    <3>4. PICK k \in 0..Len(text) : r <= k /\ v = After(text, k)
      BY <1>4, <3>3
    <3>5. ClassifyEcho(ask.of, After(text, k)) = "dispatched"
      BY <1>b, <3>1, <3>4
    <3>6. /\ k = r
          /\ \/ job = Idle /\ (Rejected(After(text, r)) \/ InOrder(After(text, r), 0, Rows[ask.of]))
             \/ HasActivePager(After(text, r))
      BY <1>1, <3>2, <3>4, <3>5, DispatchedWindow
    <3> QED
      BY <1>7, <3>1, <3>4, <3>6
  <2> QED
    BY <2>1, <2>2, <2>3 DEF OutputInv
<1>13. pc' = "advance" => NextPage'
  <2> SUFFICES ASSUME pc' = "advance"
               PROVE  NextPage'
    OBVIOUS
  <2>1. follow /\ HasActivePager(v) /\ output = text
    BY <1>5, <1>a, <1>b
  <2>2. v # <<>>
    BY <2>1, EmptyHasNone
  <2>3. PICK k \in 0..Len(text) : r <= k /\ v = After(text, k)
    BY <1>4, <2>2
  <2>4. /\ HasActivePager(After(text, k)) /\ ask'.seen = text /\ ask'.complete
        /\ ask'.class = ClassifyEcho(ask.of, After(text, k))
        /\ ask'.output = DropPagerPrompt(After(text, k))
    BY <1>7, <1>b, <2>1, <2>3
  <2> QED
    BY <1>1, <1>2, <1>7, <1>8, <1>9, <2>3, <2>4, FirstNext
<1> QED
  BY <1>5, <1>10, <1>11, <1>12, <1>13 DEF Inv


-----------------------------------------------------------------------------
(* Another page is asked for and awaited (_capture_registered_pages).      *)

\* The capture of pages ends, and what was read so far is noted as incomplete.
LEMMA CaptureFailsStep ==
    ASSUME Inv, pc \in {"advance", "progress"}, Moves, NEW transcript \in Tokens,
           CaptureFails(transcript)
    PROVE  Inv'
<1>1. /\ TypeOK /\ TerminalInv /\ OutputInv /\ ask \in Asks /\ ask.of \in Query /\ ask.mine <= typed
      /\ typed \in Nat /\ ask.mine \in Nat /\ ask.then # "none"
  BY DEF Inv, TypeOK, ReadingInv, Asks
<1>2. /\ pc' = "cancel" /\ ask' \in Asks /\ ask'.of = ask.of /\ ask'.quiet = ask.quiet
      /\ ask'.mine = ask.mine /\ ask'.output = ask.output /\ ~ask'.complete /\ ask'.then = ask.then
  BY <1>1 DEF CaptureFails, GoOn, Asks
<1>3. TypeOK' /\ TerminalInv'
  BY <1>1, <1>2, MovesTypes DEF Places
<1>4. Mine' = Mine
  BY <1>2 DEF Mine
<1>5. OutputInv'
  <2>1. AllMine(ask.output)
    BY <1>1 DEF OutputInv, Answering
  <2> QED
    BY <1>2, <1>4, <2>1 DEF OutputInv, AllMine
<1>6. ReadingInv'
  <2>1. ask'.mine <= typed'
    BY <1>1, <1>2 DEF Moves
  <2> QED
    BY <1>2, <2>1 DEF ReadingInv, AtExec, Reading
<1> QED
  BY <1>2, <1>3, <1>5, <1>6 DEF Inv

\* The key for another page reaches the pager that waits, or waits itself.
LEMMA SpaceTyped ==
    ASSUME TypeOK, stage = "exec", Sends(Key("space"))
    PROVE  /\ typed' = typed
           /\ \/ /\ job.paused /\ ahead = <<>> /\ ahead' = <<>> /\ text' = WithoutMark(text)
                 /\ job' = [job EXCEPT !.page = 0, !.paused = FALSE]
              \/ /\ ~(job.paused /\ ahead = <<>>) /\ job' = job
                 /\ ahead' \in {ahead, Append(ahead, Key("space"))}
<1>1. Key("space").what = "space"
  BY DEF Key
<1>2. Type(Key("space")) /\ typed' = typed
  BY <1>1 DEF Sends, Evaluate, Guarded
<1>3. CASE job.paused /\ ahead = <<>>
  <2>1. job # Idle
    BY <1>3 DEF Idle
  <2>2. AtPager(Key("space"), <<>>)
    BY <1>1, <1>2, <1>3, <2>1 DEF Type
  <2>3. text' = Unpaged /\ job' = [job EXCEPT !.page = 0, !.paused = FALSE] /\ ahead' = <<>> \o <<>>
    BY <1>1, <2>2 DEF AtPager
  <2>4. <<>> \o <<>> = <<>>
    OBVIOUS
  <2> QED
    BY <1>2, <1>3, <2>3, <2>4 DEF Unpaged, WithoutMark
<1>4. CASE ~(job.paused /\ ahead = <<>>) /\ job = Idle /\ ahead = <<>>
  <2>1. AtPrompt(Key("space")) /\ ahead' = ahead
    BY <1>1, <1>2, <1>4 DEF Type
  <2>2. job' = job
    BY <1>1, <2>1 DEF AtPrompt
  <2> QED
    BY <1>2, <1>4, <2>1, <2>2
<1>5. CASE ~(job.paused /\ ahead = <<>>) /\ ~(job = Idle /\ ahead = <<>>)
  <2>1. ahead' = Append(ahead, Key("space")) /\ job' = job
    BY <1>1, <1>2, <1>5 DEF Type
  <2> QED
    BY <1>2, <1>5, <2>1
<1> QED
  BY <1>3, <1>4, <1>5

\* Another page is asked for, or there have been too many.
LEMMA AdvanceStep ==
    ASSUME Inv, Advance
    PROVE  Inv'
<1> DEFINE base == DropPagerPrompt(ask.seen)
<1>1. /\ pc = "advance" /\ TypeOK /\ TerminalInv /\ ReadingInv /\ OutputInv /\ NextPage
      /\ ask.of \in Query /\ ask \in Asks /\ text \in Tokens /\ ask.seen \in Tokens
      /\ late = <<>> /\ stage = "exec" /\ ask.then # "none" /\ ahead \in Seq(KeySet)
  BY DEF Advance, Inv, TypeOK, Asks, ReadingInv, AtExec, Reading
<1>2. CASE UNCHANGED <<terminal, late, count>> /\ CaptureFails(ask.seen)
  BY <1>1, <1>2, ReadsMoves, CaptureFailsStep
<1>3. CASE SendsInVain(Key("space")) /\ CaptureFails(ask.seen)
  BY <1>1, <1>3, SendsKey, CaptureFailsStep
<1>4. CASE Sends(Key("space")) /\ GoOn("progress", ask)
  <2>1. Moves /\ late' = <<>> /\ pc' = "progress" /\ ask' = ask
    BY <1>1, <1>4, SendsKey DEF GoOn
  <2>2. TypeOK' /\ TerminalInv' /\ stage' = "exec"
    BY <1>1, <2>1, MovesTypes, MovesStage DEF Places, AtExec
  <2>3. Mine' = Mine /\ Whole' = Whole /\ DropPagerPrompt(ask.seen)' = base
    BY <2>1 DEF Mine, Whole
  <2>4. /\ typed' = typed
        /\ \/ /\ job.paused /\ ahead = <<>> /\ ahead' = <<>> /\ text' = WithoutMark(text)
              /\ job' = [job EXCEPT !.page = 0, !.paused = FALSE]
           \/ /\ ~(job.paused /\ ahead = <<>>) /\ job' = job
              /\ ahead' \in {ahead, Append(ahead, Key("space"))}
    BY <1>1, <1>4, SpaceTyped
  <2>5. ReadingInv'
    <3>1. ask.quiet => \A i \in 1..Len(ahead') : ahead'[i].what = "space"
      <4>1. CASE ahead' \in {ahead, <<>>}
        <5>1. 1..Len(<<>>) = {}
          OBVIOUS
        <5> QED
          BY <1>1, <4>1, <5>1 DEF ReadingInv, Reading
      <4>2. CASE ahead' = Append(ahead, Key("space"))
        <5>1. \A i \in 1..Len(ahead') :
                 \/ i \in 1..Len(ahead) /\ ahead'[i] = ahead[i]
                 \/ ahead'[i] = Key("space")
          BY <1>1, <4>2
        <5> QED
          BY <1>1, <5>1 DEF ReadingInv, Reading, Key
      <4> QED
        BY <2>4, <4>1, <4>2
    <3>2. ask.quiet => job' = Idle \/ job'.of = ask.of
      <4>1. job.paused => job # Idle
        BY DEF Idle
      <4>2. job.paused => job'.of = job.of \/ job' = job
        BY <1>1, <2>4, <4>1 DEF TypeOK, Jobs
      <4> QED
        BY <1>1, <2>4, <4>1, <4>2 DEF ReadingInv, Reading
    <3> QED
      BY <1>1, <2>1, <2>2, <2>4, <3>1, <3>2 DEF ReadingInv
  <2>6. OutputInv'
    <3>1. AllMine(ask.output)
      BY <1>1 DEF OutputInv, Answering
    <3> QED
      BY <2>1, <2>3, <3>1 DEF OutputInv, AllMine
  <2>7. /\ HasActivePager(ask.seen) /\ (base # <<>> => base[Len(base)].what # "more")
        /\ ask.complete
        /\ \E r \in 0..Len(text) :
              /\ Since(base, text, r) /\ AllMine(After(text, r))
              /\ Whole => \E n \in 0..Rows[ask.of] : \E l \in 1..Len(base) : Answered(base, r, n, l)
    BY <1>1 DEF NextPage
  <2>8. base \in Tokens
    BY <1>1, DropFacts
  <2>a. base' = base
    BY <2>3
  <2> HIDE DEF base
  <2>9. \E q \in 0..Len(text') :
           /\ Since(base, text', q) /\ AllIn(After(text', q), Mine)
           /\ Whole => \E n \in 0..Rows[ask.of] : \E l \in 1..Len(base) : Answered(base, q, n, l)'
    <3>1. CASE ~Whole
      <4>1. Follows(base, text, Mine)
        BY <2>7 DEF Follows, AllMine
      <4>2. Follows(base, text', Mine)
        BY <1>1, <2>1, <2>7, <2>8, <4>1, SpokenMine, KeyFollows DEF Moves
      <4> QED
        BY <3>1, <4>2 DEF Follows
    <3>2. CASE Whole
      <4>1. PICK r \in 0..Len(text), n \in 0..Rows[ask.of], l \in 1..Len(base) :
               Since(base, text, r) /\ AllIn(After(text, r), Mine) /\ Answered(base, r, n, l)
        BY <2>7, <3>2 DEF AllMine
      <4>2. /\ PageEnds(base, l, n) /\ InOrder(ask.output, 0, n) /\ Continued(After(text, r), n)
            /\ ahead = <<>> /\ job.paused /\ Printed = n
        BY <1>1, <4>1 DEF Answered
      <4>3. /\ text' = WithoutMark(text) /\ ahead' = <<>>
            /\ job' = [job EXCEPT !.page = 0, !.paused = FALSE]
        BY <2>4, <4>2
      <4>4. job # Idle /\ job' # Idle /\ Printed' = Printed /\ job \in Jobs
        <5>1. job # Idle /\ job \in Jobs
          BY <1>1, <4>2 DEF Idle, TypeOK
        <5>2. job.of \in Query /\ job'.of = job.of /\ job'.next = job.next
          BY <4>3, <5>1 DEF Jobs
        <5>3. job' # Idle
          BY <5>2, ConstantTypes DEF Idle
        <5> QED
          BY <5>1, <5>2, <5>3 DEF Printed
      <4> DEFINE w == After(text, r)
                 v == After(WithoutMark(text), r)
      <4>5. /\ WithoutMark(text) \in Tokens /\ Since(base, WithoutMark(text), r) /\ w \in Tokens
            /\ v \in Tokens
            /\ \/ v = w
               \/ /\ Len(w) > 0 /\ Len(v) = Len(w) - 1 /\ w[Len(w)].what = "more"
                  /\ \A i \in 1..Len(w) - 1 : v[i] = w[i]
        BY <1>1, <2>7, <2>8, <4>1, ErasedFacts
      <4>6. \A i \in 1..Len(v) : i \in 1..Len(w) /\ v[i] = w[i]
        <5> HIDE DEF w, v
        <5> QED
          BY <4>5 DEF Tokens
      <4>7. AllIn(w, Mine) /\ Continued(w, n) /\ v = After(WithoutMark(text), r)
        BY <4>1, <4>2
      <4> HIDE DEF w, v
      <4>8. AllIn(v, Mine)
        BY <4>6, <4>7 DEF AllIn
      <4>9. \A i \in 1..Len(v) : v[i].what \in {"log", "more"}
        BY <1>1, <4>4, <4>6, <4>7 DEF Continued, IsRow
      <4>10. n \in Nat /\ InOrder(v, n, n)
        <5>1. n \in Nat
          BY <1>1, ConstantTypes
        <5> QED
          BY <4>5, <4>9, <5>1, NoneInOrder DEF IsRow
      <4>11. Answered(base, r, n, l)'
        <5>1. v = After(text', r) /\ \A i \in 1..Len(After(text', r)) : After(text', r)[i].what \in {"log", "more"}
          BY <4>3, <4>7, <4>9
        <5>2. Continued(After(text, r), n)'
          BY <5>1 DEF Continued, IsRow
        <5>3. Printed' = n /\ Printed' >= n
          BY <4>2, <4>4, <4>10
        <5> QED
          BY <2>1, <2>a, <4>2, <4>3, <4>10, <5>1, <5>2, <5>3 DEF Answered, PageEnds
      <4>12. Since(base, text', r) /\ AllIn(After(text', r), Mine) /\ r \in 0..Len(text')
        BY <4>3, <4>5, <4>7, <4>8 DEF Since
      <4> QED
        BY <4>11, <4>12
    <3> QED
      BY <3>1, <3>2
  <2>10. NextPage'
    <3>1. NextPage' <=>
            /\ HasActivePager(ask.seen)' /\ (base # <<>> => base[Len(base)].what # "more")
            /\ ask'.complete
            /\ \E r \in 0..Len(text') :
                  /\ Since(base, text', r) /\ AllMine(After(text, r))'
                  /\ Whole' => \E n \in 0..Rows[ask'.of] : \E l \in 1..Len(base) : Answered(base, r, n, l)'
      BY <2>3 DEF NextPage, base
    <3> QED
      BY <2>1, <2>3, <2>7, <2>9, <3>1 DEF AllMine
  <2> QED
    BY <2>1, <2>2, <2>5, <2>6, <2>10 DEF Inv
<1> QED
  BY <1>2, <1>3, <1>4 DEF Advance


\* The text in common with the page before is more than syslog lines, so it
\* holds the last row of that page, which nothing written since can be.
LEMMA AnchorStands ==
    ASSUME NEW base \in Tokens, NEW t \in Tokens, NEW r, Since(base, t, r), NEW n \in Nat,
           NEW l \in 1..Len(base), PageEnds(base, l, n), HasRowInAnchor(base),
           \A i \in 1..Len(After(t, r)) : IsRow(After(t, r)[i]) => After(t, r)[i].n > n,
           NEW k \in 1..Len(t), r <= k, k <= Len(base), k = Len(base) \/ k >= MinAnchor,
           \A i \in 1..k : Alike(t[i], base[Len(base) - k + i])
    PROVE  k = r /\ r > Len(base) - l
<1> DEFINE w == After(t, r)
<1>1. /\ Len(base) \in Nat /\ Len(t) \in Nat /\ r \in Nat /\ k \in Nat /\ l \in Nat /\ r <= Len(t)
      /\ l >= 1 /\ l <= Len(base) /\ k <= Len(t) /\ MinAnchor \in Nat /\ k >= 1
  BY ConstantTypes DEF Tokens, Since
<1>b. Len(base) - l < MinAnchor
  <2>0. DOMAIN base = 1..Len(base)
    BY ONLY base \in Tokens DEF Tokens
  <2>1. PICK m \in 1..Len(base) : IsRow(base[m]) /\ Len(base) - m < MinAnchor
    BY ONLY <2>0, HasRowInAnchor(base) DEF HasRowInAnchor
  <2>2. m > l => m \in l+1..Len(base)
    BY <1>1
  <2>3. ~(m > l)
    BY <2>1, <2>2 DEF PageEnds, IsRow, IsLog
  <2> QED
    BY ONLY <1>1, <2>1, <2>3
<1>2. k > Len(base) - l
  BY ONLY <1>1, <1>b, k = Len(base) \/ k >= MinAnchor
<1> DEFINE i == k - (Len(base) - l)
<1>3. i \in 1..k /\ i \in 1..Len(t) /\ i \in Nat /\ Len(base) - k + i = l
  BY <1>1, <1>2
<1>4. IsRow(t[i]) /\ t[i].n = n
  <2>1. Alike(t[i], base[Len(base) - k + i])
    BY <1>3
  <2>2. Alike(t[i], base[l]) /\ IsRow(base[l]) /\ base[l].n = n
    BY <1>3, <2>1 DEF PageEnds
  <2> QED
    BY <2>2 DEF Alike, IsRow
<1>a. i = k - (Len(base) - l)
  OBVIOUS
<1> HIDE DEF i
<1>5. i <= r
  <2> SUFFICES ASSUME i > r
               PROVE  FALSE
    BY <1>1, <1>3
  <2>1. t \in Seq(TokenSet) /\ r \in 0..Len(t)
    BY <1>1 DEF Tokens
  <2>2. Len(w) = Len(t) - r /\ \A j \in 1..Len(t) - r : w[j] = t[r + j]
    BY ONLY <2>1, AfterFacts
  <2>3. i - r \in 1..Len(t) - r /\ r + (i - r) = i
    BY <1>1, <1>3
  <2>4. i - r \in 1..Len(w) /\ w[i - r] = t[i]
    BY <2>2, <2>3
  <2>5. IsRow(w[i - r]) /\ w[i - r].n = n
    BY <1>4, <2>4
  <2>6. w[i - r].n > n
    BY <2>4, <2>5
  <2> QED
    BY <2>5, <2>6
<1>6. Len(base) - r + i <= l /\ r <= Len(base)
  <2>1. r <= Len(base) /\ t[i] = base[Len(base) - r + i]
    BY <1>1, <1>3, <1>5 DEF Since
  <2>2. Len(base) - r + i > l => Len(base) - r + i \in l+1..Len(base)
    BY <1>1, <1>3, <1>5, <2>1
  <2>3. ~(Len(base) - r + i > l)
    BY <1>4, <2>1, <2>2 DEF PageEnds, IsRow, IsLog
  <2> QED
    BY <1>1, <1>3, <2>1, <2>3
<1>7. k <= r /\ r > Len(base) - l
  BY ONLY <1>1, <1>3, <1>6
<1>8. r <= k
  OBVIOUS
<1> QED
  BY ONLY <1>1, <1>7, <1>8

\* What ends a text ends its last part, when that part is not all syslog lines.
LEMMA AfterEnds ==
    ASSUME NEW t \in Tokens, NEW k \in 0..Len(t), LastSaid(t) > k
    PROVE  /\ LastSaid(t) - k \in 1..Len(After(t, k)) /\ LastSaid(After(t, k)) = LastSaid(t) - k
           /\ \A what : EndsIn(t, what) => /\ EndsIn(After(t, k), what)
                                           /\ After(t, k)[LastSaid(t) - k].what = what
<1> DEFINE w == After(t, k)
<1>1. PICK m : m = LastSaid(t)
  OBVIOUS
<1>2. m \in 0..Len(t) /\ (m > 0 => ~IsLog(t[m])) /\ \A i \in m+1..Len(t) : IsLog(t[i])
  BY <1>1, LastSaidFacts
<1>3. t \in Seq(TokenSet) /\ Len(t) \in Nat /\ k \in Nat /\ m \in Nat /\ m > k
  BY <1>1, <1>2 DEF Tokens
<1>4. w \in Tokens /\ Len(w) = Len(t) - k /\ \A i \in 1..Len(t) - k : w[i] = t[k + i]
  <2>1. w \in Seq(TokenSet) /\ Len(w) = Len(t) - k /\ \A i \in 1..Len(t) - k : w[i] = t[k + i]
    BY ONLY <1>3, k \in 0..Len(t), AfterFacts
  <2> QED
    BY <2>1 DEF Tokens
<1> HIDE DEF w
<1>5. m - k \in 1..Len(w) /\ w[m - k] = t[m]
  <2>1. m - k \in 1..Len(t) - k /\ k + (m - k) = m
    BY <1>2, <1>3
  <2> QED
    BY <1>4, <2>1
<1>6. \A i \in (m - k)+1..Len(w) : IsLog(w[i])
  <2>1. \A i \in (m - k)+1..Len(w) : i \in 1..Len(t) - k /\ k + i \in m+1..Len(t)
    BY <1>3, <1>4
  <2> QED
    BY <1>2, <1>4, <2>1
<1>7. LastSaid(w) = m - k /\ m - k > 0
  BY <1>2, <1>3, <1>4, <1>5, <1>6, LastSaidIs
<1> QED
  BY <1>1, <1>5, <1>7 DEF w, EndsIn

\* A page with content: what it says stands before what ends it.
LEMMA ContentSaid ==
    ASSUME NEW t \in Tokens, NEW k \in 0..Len(t), HasCommandContent(DropPagerPrompt(After(t, k)))
    PROVE  /\ LastSaid(t) > k
           /\ \E i \in 1..Len(After(t, k)) : /\ After(t, k)[i].what \notin {"log", "more"}
                                             /\ i <= LastSaid(t) - k
<1> DEFINE w == After(t, k)
           f == DropPagerPrompt(w)
<1>1. /\ t \in Seq(TokenSet) /\ Len(t) \in Nat /\ k \in Nat
  BY DEF Tokens
<1>2. w \in Tokens /\ Len(w) = Len(t) - k /\ \A i \in 1..Len(t) - k : w[i] = t[k + i]
  <2>1. w \in Seq(TokenSet) /\ Len(w) = Len(t) - k /\ \A i \in 1..Len(t) - k : w[i] = t[k + i]
    BY ONLY <1>1, k \in 0..Len(t), AfterFacts
  <2> QED
    BY <2>1 DEF Tokens
<1>3. \E i \in 1..Len(f) : f[i].what \notin {"log", "more"}
  <2>1. f \in Tokens
    BY <1>2, DropFacts
  <2>2. \E i \in DOMAIN f : f[i].what \notin {"log", "more"}
    BY DEF HasCommandContent
  <2> HIDE DEF f
  <2> QED
    BY <2>1, <2>2 DEF Tokens
<1> HIDE DEF w
<1>4. PICK i \in 1..Len(w) : w[i].what \notin {"log", "more"}
  <2>1. CASE f = w
    BY <1>3, <2>1
  <2>2. CASE f # w
    <3>1. PICK m \in 1..Len(w) : Len(f) = m - 1 /\ \A i \in 1..m - 1 : f[i] = w[i]
      BY <1>2, <2>2, DropFacts
    <3> HIDE DEF f
    <3>2. \A i \in 1..m - 1 : i \in 1..Len(w)
      BY <1>2, <3>1 DEF Tokens
    <3> QED
      BY <1>3, <3>1, <3>2
  <2> QED
    BY <2>1, <2>2
<1>5. PICK m : m = LastSaid(t)
  OBVIOUS
<1>6. i \in 1..Len(t) - k /\ k + i \in 1..Len(t) /\ w[i] = t[k + i] /\ i \in Nat
  BY <1>1, <1>2
<1>7. k + i <= m /\ m \in Nat
  <2>1. m \in 0..Len(t) /\ \A j \in 1..Len(t) : ~IsLog(t[j]) => j <= m
    BY <1>5, LastSaidFacts
  <2>2. ~IsLog(t[k + i])
    BY <1>4, <1>6 DEF IsLog
  <2> QED
    BY <1>1, <1>6, <2>1, <2>2
<1>8. m > k /\ i <= m - k
  BY <1>1, <1>6, <1>7
<1> QED
  BY <1>4, <1>5, <1>8 DEF w


\* The next page of an answer that was whole so far: all that was written since
\* the page before, its rows the next ones; and the terminal is done or waits.
LEMMA NextWindow ==
    ASSUME TypeOK, TerminalInv, ReadingInv, pc = "progress", ask.quiet, ask.of \in Query,
           NEW base \in Tokens, HasRowInAnchor(base), NEW r \in 0..Len(text), Since(base, text, r),
           NEW n \in 0..Rows[ask.of], NEW l \in 1..Len(base), Answered(base, r, n, l),
           NEW k \in 1..Len(text), r <= k, k <= Len(base), k = Len(base) \/ k >= MinAnchor,
           \A i \in 1..k : Alike(text[i], base[Len(base) - k + i]),
           HasCommandContent(DropPagerPrompt(After(text, k))),
           HasActivePager(text) \/ TerminalIsIdle(text)
    PROVE  /\ k = r /\ InOrder(After(text, k), n, Printed) /\ Printed >= n /\ n \in Nat
           /\ TerminalIsIdle(text) => job = Idle
           /\ HasActivePager(text) => /\ job # Idle /\ job.paused /\ job.of = ask.of /\ n < Printed
                                      /\ OnePage(After(text, k))
<1> DEFINE w == After(text, r)
<1>1. /\ text \in Tokens /\ Len(text) \in Nat /\ r \in Nat /\ n \in Nat /\ Printed \in Nat
      /\ w \in Tokens
  BY AfterFacts, PrintedType, ConstantTypes DEF TypeOK, Tokens
<1>2. /\ PageEnds(base, l, n) /\ Continued(w, n) /\ Printed >= n
      /\ r > Len(base) - l => InOrder(w, n, Printed)
  BY DEF Answered
<1>3. \A i \in 1..Len(w) : IsRow(w[i]) => w[i].n > n
  BY <1>2 DEF Continued
<1>4. k = r /\ r > Len(base) - l
  BY <1>1, <1>2, <1>3, AnchorStands
<1>5. InOrder(w, n, Printed) /\ w = After(text, k)
  BY <1>2, <1>4
<1>6. /\ LastSaid(text) > k
      /\ \E i \in 1..Len(After(text, k)) : /\ After(text, k)[i].what \notin {"log", "more"}
                                           /\ i <= LastSaid(text) - k
  BY <1>1, ContentSaid
<1>7. /\ LastSaid(text) - k \in 1..Len(After(text, k))
      /\ \A what : EndsIn(text, what) => After(text, k)[LastSaid(text) - k].what = what
  BY <1>1, <1>6, AfterEnds
<1>a. w = After(text, r)
  OBVIOUS
<1> HIDE DEF w
<1>8. PICK m \in 1..Len(w), i \in 1..Len(w) :
         /\ m = LastSaid(text) - k /\ w[i].what \notin {"log", "more"} /\ i <= m
         /\ HasActivePager(text) => w[m].what = "more"
         /\ TerminalIsIdle(text) => w[m].what = "prompt"
  BY <1>5, <1>6, <1>7 DEF HasActivePager, TerminalIsIdle
<1>9. TerminalIsIdle(text) => job = Idle
  BY <1>2, <1>8 DEF Continued
<1>10. ASSUME HasActivePager(text)
       PROVE  /\ job # Idle /\ job.paused /\ job.of = ask.of /\ n < Printed /\ OnePage(w)
  <2>1. w[m].what = "more" /\ ~IsLog(w[m])
    BY <1>8, <1>10 DEF IsLog
  <2>2. i < m /\ m \in i+1..Len(w)
    <3>1. i # m
      BY <1>8, <2>1
    <3> QED
      BY <1>1, <1>8, <3>1 DEF Tokens
  <2>3. w[i].what # "prompt"
    BY <1>2, <2>1, <2>2 DEF Continued
  <2>4. IsRow(w[i])
    BY <1>2, <1>8, <2>3 DEF Continued, IsRow
  <2>5. job.paused
    BY <1>2, <2>1, <2>2, <2>4 DEF Continued
  <2>6. job # Idle /\ job.of = ask.of
    BY <2>5 DEF Idle, ReadingInv, Reading
  <2>7. n < Printed
    <3>1. DOMAIN w = 1..Len(w)
      BY <1>1 DEF Tokens
    <3>2. w[i].n \in (n + 1)..Printed
      BY <1>5, <2>4, <3>1 DEF InOrder
    <3> QED
      BY <1>1, <3>2
  <2>8. OnePage(w)
    <3>1. ASSUME NEW h \in 1..Len(w)
          PROVE  /\ w[h].what \in {"echo", "row", "more", "log"}
                 /\ w[h].what = "echo" => h = 1
                 /\ IsRow(w[h]) => \A j \in h+1..Len(w) :
                       w[j].what = "more" => \A g \in j+1..Len(w) : IsLog(w[g])
      BY <1>2, <2>6 DEF Continued
    <3> QED
      BY <3>1 DEF OnePage
  <2> QED
    BY <2>5, <2>6, <2>7, <2>8
<1> QED
  BY <1>1, <1>2, <1>4, <1>5, <1>9, <1>10

\* A page was awaited: it is taken to the rest, or the capture of pages ends.
LEMMA ProgressStep ==
    ASSUME Inv, Progress
    PROVE  Inv'
<1> DEFINE base     == DropPagerPrompt(ask.seen)
           captured == DropPagerPrompt(Page.output)
<1>1. /\ pc = "progress" /\ TypeOK /\ TerminalInv /\ ReadingInv /\ OutputInv /\ NextPage
      /\ ask.of \in Query /\ ask \in Asks /\ text \in Tokens /\ ask.seen \in Tokens
      /\ ask.output \in Tokens /\ ask.pages \in Nat
      /\ late = <<>> /\ stage = "exec" /\ ask.then # "none"
  BY DEF Progress, Inv, TypeOK, Asks, ReadingInv, AtExec, Reading
<1>2. CASE Reads /\ CaptureFails(text)
  BY <1>1, <1>2, ReadsMoves, CaptureFailsStep
<1>3. CASE WaitsInVain(Progressed) /\ CaptureFails(IF Page.fresh THEN text ELSE ask.seen)
  <2>1. (IF Page.fresh THEN text ELSE ask.seen) \in Tokens /\ Progressed \in BOOLEAN
    BY <1>1 DEF Progressed
  <2> QED
    BY <1>1, <1>3, <2>1, ReadsMoves, CaptureFailsStep
<1>4. CASE /\ Progressed /\ Reads /\ ~Same(captured, ask.last)
           /\ GoOn(IF HasActivePager(text) THEN "advance" ELSE "conclude",
                   [ask EXCEPT !.output = @ \o captured, !.last = captured, !.seen = text,
                               !.pages = @ + 1, !.anchored = (@ /\ HasRowInAnchor(base))])
  <2>1. /\ HasActivePager(ask.seen) /\ (base # <<>> => base[Len(base)].what # "more")
        /\ ask.complete
        /\ \E r \in 0..Len(text) :
              /\ Since(base, text, r) /\ AllMine(After(text, r))
              /\ Whole => \E n \in 0..Rows[ask.of] : \E l \in 1..Len(base) : Answered(base, r, n, l)
    BY <1>1 DEF NextPage
  <2>2. base \in Tokens
    BY <1>1, DropFacts
  <2>3. PICK r \in 0..Len(text) :
           /\ Since(base, text, r) /\ AllIn(After(text, r), Mine)
           /\ Whole => \E n \in 0..Rows[ask.of] : \E l \in 1..Len(base) : Answered(base, r, n, l)
    BY <2>1 DEF AllMine
  <2>4. Page = PagedWindow(base, text) /\ PagedWindow(base, text) # NoWindow
    <3>1. Page # NoWindow
      BY <1>4 DEF Progressed, NoWindow
    <3> QED
      BY <2>1, <3>1 DEF Page, FreshCommandWindow
  <2> HIDE DEF base
  <2>5. PICK k \in 1..Len(text) :
           /\ r <= k /\ k <= Len(base) /\ Page = [fresh |-> TRUE, output |-> After(text, k)]
           /\ k = Len(base) \/ k >= MinAnchor
           /\ \A i \in 1..k : Alike(text[i], base[Len(base) - k + i])
    BY <1>1, <2>2, <2>3, <2>4, PagedWindowFacts
  <2>6. captured = DropPagerPrompt(After(text, k)) /\ HasCommandContent(captured)
        /\ (HasActivePager(text) \/ TerminalIsIdle(text))
    BY <1>4, <2>5 DEF Progressed
  <2> HIDE DEF captured
  <2>7. k \in 0..Len(text) /\ k \in r..Len(text) /\ Len(text) \in Nat /\ r \in Nat
    BY <1>1, <2>5 DEF Tokens
  <2>8. After(text, k) \in Tokens /\ AllIn(After(text, k), Mine)
    BY <1>1, <2>3, <2>7, LaterMine, AfterFacts DEF Tokens
  <2>9. captured \in Tokens /\ AllIn(captured, Mine)
    BY <2>6, <2>8, DropIn
  <2>10. ask.output \o captured \in Tokens /\ AllIn(ask.output \o captured, Mine)
    <3>1. AllIn(ask.output, Mine)
      BY <1>1 DEF OutputInv, Answering, AllMine
    <3>2. /\ ask.output \o captured \in Seq(TokenSet)
          /\ Len(ask.output \o captured) = Len(ask.output) + Len(captured)
          /\ Len(ask.output) \in Nat /\ Len(captured) \in Nat
          /\ \A i \in 1..Len(ask.output) + Len(captured) :
                (ask.output \o captured)[i] =
                   IF i <= Len(ask.output) THEN ask.output[i] ELSE captured[i - Len(ask.output)]
      BY <1>1, <2>9, Joined DEF Tokens
    <3>3. \A i \in 1..Len(ask.output) + Len(captured) :
             i > Len(ask.output) => i - Len(ask.output) \in 1..Len(captured)
      BY <3>2
    <3>4. \A i \in 1..Len(ask.output) + Len(captured) :
             i <= Len(ask.output) => i \in 1..Len(ask.output)
      BY <3>2
    <3>5. \A i \in 1..Len(ask.output) + Len(captured) : (ask.output \o captured)[i] \in Mine
      <4> TAKE i \in 1..Len(ask.output) + Len(captured)
      <4>1. CASE i <= Len(ask.output)
        BY <2>9, <3>1, <3>2, <3>4, <4>1 DEF AllIn
      <4>2. CASE i > Len(ask.output)
        <5>1. ~(i <= Len(ask.output))
          BY <3>2, <4>2
        <5> QED
          BY <2>9, <3>2, <3>3, <4>2, <5>1 DEF AllIn
      <4> QED
        BY <3>2, <4>1, <4>2
    <3> QED
      BY <3>2, <3>5 DEF AllIn, Tokens
  <2>11. /\ Moves /\ UNCHANGED terminal /\ late' = late
         /\ pc' = IF HasActivePager(text) THEN "advance" ELSE "conclude"
         /\ ask' \in Asks /\ ask'.of = ask.of /\ ask'.quiet = ask.quiet /\ ask'.mine = ask.mine
         /\ ask'.converged = ask.converged /\ ask'.class = ask.class /\ ask'.seen = text
         /\ ask'.then = ask.then /\ ask'.complete = ask.complete
         /\ ask'.output = ask.output \o captured
         /\ ask'.anchored = (ask.anchored /\ HasRowInAnchor(base))
    <3>1. Moves /\ UNCHANGED terminal /\ late' = late
      BY <1>1, <1>4, ReadsMoves
    <3>2. /\ pc' = IF HasActivePager(text) THEN "advance" ELSE "conclude"
          /\ ask' = [ask EXCEPT !.output = ask.output \o captured, !.last = captured, !.seen = text,
                                !.pages = ask.pages + 1,
                                !.anchored = (ask.anchored /\ HasRowInAnchor(base))]
      BY <1>4 DEF GoOn
    <3> DEFINE longer == ask.output \o captured
               more   == ask.pages + 1
               holds  == ask.anchored /\ HasRowInAnchor(base)
    <3>3. ask' = [ask EXCEPT !.output = longer, !.last = captured, !.seen = text, !.pages = more,
                             !.anchored = holds]
      BY <3>2
    <3>4. longer \in Tokens /\ more \in Nat /\ holds \in BOOLEAN
      BY <1>1, <2>10
    <3>5. longer = ask.output \o captured /\ holds = (ask.anchored /\ HasRowInAnchor(base))
      OBVIOUS
    <3> HIDE DEF longer, more, holds
    <3>6. /\ ask' \in Asks /\ ask'.of = ask.of /\ ask'.quiet = ask.quiet /\ ask'.mine = ask.mine
          /\ ask'.converged = ask.converged /\ ask'.class = ask.class /\ ask'.seen = text
          /\ ask'.then = ask.then /\ ask'.complete = ask.complete /\ ask'.output = longer
          /\ ask'.anchored = holds
      BY ONLY <1>1, <2>9, <3>3, <3>4 DEF Asks
    <3> QED
      BY ONLY <3>1, <3>2, <3>5, <3>6
  <2>12. Mine' = Mine /\ (Whole' => Whole /\ HasRowInAnchor(base)) /\ Printed' = Printed
         /\ text' = text /\ job' = job /\ ahead' = ahead /\ typed' = typed /\ stage' = stage
    BY <2>11 DEF Mine, Whole, Printed, terminal
  <2>13. TypeOK' /\ TerminalInv'
    BY <1>1, <2>11, MovesTypes DEF Places, AtExec
  <2>14. ReadingInv'
    BY <1>1, <2>11, <2>12 DEF ReadingInv, Reading
  <2>15. ASSUME Whole, HasRowInAnchor(base)
         PROVE  /\ InOrder(ask.output \o captured, 0, Printed) /\ Printed \in Nat
                /\ TerminalIsIdle(text) => job = Idle
                /\ HasActivePager(text) =>
                      /\ ahead = <<>> /\ job # Idle /\ job.paused /\ job.of = ask.of
                      /\ OnePage(After(text, k))
                      /\ \E lo \in Nat : lo < Printed /\ InOrder(After(text, k), lo, Printed)
    <3>1. PICK n \in 0..Rows[ask.of], l \in 1..Len(base) : Answered(base, r, n, l)
      BY <2>3, <2>15
    <3>2. /\ InOrder(After(text, k), n, Printed) /\ Printed >= n /\ n \in Nat
          /\ TerminalIsIdle(text) => job = Idle
          /\ HasActivePager(text) => /\ job # Idle /\ job.paused /\ job.of = ask.of /\ n < Printed
                                     /\ OnePage(After(text, k))
      <4>1. HasCommandContent(DropPagerPrompt(After(text, k))) /\ ask.quiet /\ HasRowInAnchor(base)
        BY <2>6, <2>15 DEF Whole
      <4>2. Since(base, text, r)
        BY <2>3
      <4> QED
        BY <1>1, <2>2, <2>5, <2>6, <3>1, <4>1, <4>2, NextWindow
    <3>3. InOrder(ask.output, 0, n) /\ ahead = <<>>
      BY <3>1 DEF Answered
    <3>4. Printed \in Nat
      BY <1>1, PrintedType
    <3>5. InOrder(captured, n, Printed)
      BY <2>6, <2>8, <3>2, <3>4, DropInOrder
    <3>6. InOrder(ask.output \o captured, 0, Printed)
      BY <1>1, <2>9, <3>2, <3>3, <3>4, <3>5, JoinInOrder
    <3> QED
      BY <3>2, <3>3, <3>4, <3>6
  <2>16. OutputInv'
    <3>1. ASSUME pc' = "conclude", Whole'
          PROVE  InOrder(ask'.output, 0, Rows[ask'.of])
      <4>1. ~HasActivePager(text) /\ Whole /\ HasRowInAnchor(base)
        BY <2>11, <2>12, <3>1
      <4>2. job = Idle /\ InOrder(ask.output \o captured, 0, Printed)
        BY <2>6, <2>15, <4>1
      <4> QED
        BY <2>11, <4>2 DEF Printed
    <3>2. AllMine(ask.output)'
      BY <2>10, <2>11, <2>12 DEF AllMine
    <3> QED
      BY <2>11, <3>1, <3>2 DEF OutputInv
  <2>17. pc' = "advance" => NextPage'
    <3> SUFFICES ASSUME pc' = "advance"
                 PROVE  NextPage'
      OBVIOUS
    <3>1. HasActivePager(text)
      BY <2>11
    <3>2. HasActivePager(After(text, k))
      <4>1. LastSaid(text) > k
        BY <1>1, <2>6, <2>7, ContentSaid
      <4> QED
        BY <1>1, <2>7, <3>1, <4>1, AfterEnds DEF HasActivePager
    <3>3. Whole' => /\ ahead = <<>> /\ job # Idle /\ job.paused /\ job.of = ask.of
                    /\ Printed \in 1..Rows[ask.of] /\ InOrder(ask'.output, 0, Printed)
                    /\ OnePage(After(text, k))
                    /\ \E lo \in Nat : lo < Printed /\ InOrder(After(text, k), lo, Printed)
      <4> SUFFICES ASSUME Whole'
                   PROVE  /\ ahead = <<>> /\ job # Idle /\ job.paused /\ job.of = ask.of
                          /\ Printed \in 1..Rows[ask.of] /\ InOrder(ask'.output, 0, Printed)
                          /\ OnePage(After(text, k))
                          /\ \E lo \in Nat : lo < Printed /\ InOrder(After(text, k), lo, Printed)
        OBVIOUS
      <4>1. Whole /\ HasRowInAnchor(base)
        BY <2>12
      <4>2. Printed \in 1..Rows[ask.of]
        BY <1>1, <2>15, <3>1, <4>1, PagePrinted
      <4> QED
        BY <2>11, <2>15, <3>1, <4>1, <4>2
    <3>4. ask'.complete
      BY <2>1, <2>11
    <3> QED
      BY <1>1, <2>7, <2>8, <2>11, <2>12, <3>2, <3>3, <3>4, PageRead
  <2> QED
    BY <2>11, <2>13, <2>14, <2>16, <2>17 DEF Inv
<1> QED
  BY <1>2, <1>3, <1>4 DEF Progress


-----------------------------------------------------------------------------
(* Every step keeps the invariant.                                         *)

\* A key for another page, read from what was typed ahead, starts no command.
LEMMA TakeAheadQuiet ==
    ASSUME TypeOK, TakeAhead, \A i \in 1..Len(ahead) : ahead[i].what = "space",
           job = Idle \/ job.of = ask.of
    PROVE  /\ \A i \in 1..Len(ahead') : ahead'[i].what = "space"
           /\ job' = Idle \/ job'.of = ask.of
<1>1. ahead \in Seq(KeySet) /\ ahead # <<>>
  BY DEF TypeOK, TakeAhead
<1>2. Head(ahead) = ahead[1] /\ 1 \in 1..Len(ahead) /\ Tail(ahead) \in Seq(KeySet)
      /\ \A i \in 1..Len(Tail(ahead)) : i + 1 \in 1..Len(ahead) /\ Tail(ahead)[i] = ahead[i + 1]
  BY <1>1
<1>3. Head(ahead).what = "space" /\ \A i \in 1..Len(Tail(ahead)) : Tail(ahead)[i].what = "space"
  BY <1>2
<1>4. CASE job.paused /\ AtPager(Head(ahead), Tail(ahead))
  <2>1. /\ job' = [job EXCEPT !.page = 0, !.paused = FALSE]
        /\ ahead' = <<>> \o Tail(ahead)
    BY <1>3, <1>4 DEF AtPager
  <2>2. job # Idle
    BY <1>4 DEF Idle
  <2>3. job'.of = job.of
    BY <2>1, <2>2 DEF TypeOK, Jobs
  <2>4. <<>> \o Tail(ahead) = Tail(ahead)
    BY <1>2
  <2> QED
    BY <1>3, <2>1, <2>2, <2>3, <2>4
<1>5. CASE job = Idle /\ AtPrompt(Head(ahead)) /\ ahead' = Tail(ahead)
  <2>1. job' = job
    BY <1>3, <1>5 DEF AtPrompt
  <2> QED
    BY <1>3, <1>5, <2>1
<1> QED
  BY <1>4, <1>5 DEF TakeAhead

\* The terminal moves by itself.
LEMMA TerminalStep ==
    ASSUME Inv, Terminal
    PROVE  Inv'
<1>1. /\ TypeOK /\ TerminalInv /\ ReadingInv /\ OutputInv
      /\ pc \in {"converge", "attribute"} => FirstPage
      /\ pc \in {"advance", "progress"} => NextPage
      /\ typed \in Nat /\ ask.mine \in Nat
  BY DEF Inv, TypeOK, Asks
<1>2. TypeOK' /\ TerminalInv' /\ pc' = pc /\ ask' = ask
  BY <1>1, TerminalKeepsTerminal
<1>3. OutputInv'
  BY <1>1, <1>2 DEF OutputInv, Answering, AllMine, Mine, Whole
<1>4. /\ pc' \in {"converge", "attribute"} => FirstPage'
      /\ pc' \in {"advance", "progress"} => NextPage'
  BY <1>1, <1>2, TerminalKeepsFirst, TerminalKeepsNext
<1>5. ReadingInv'
  <2>1. CASE EvaluateLate \/ TakeAhead
    <3>1. Moves
      BY <1>1, <2>1, LateMoves
    <3>2. pc' \in AtExec => stage' = "exec"
      BY <1>1, <1>2, <3>1 DEF Moves, KeyStep, ReadingInv
    <3>3. ask'.mine <= typed'
      BY <1>1, <1>2, <3>1 DEF Moves, ReadingInv
    <3>4. pc' \in Reading => late' = <<>> /\ TakeAhead
      BY <1>1, <1>2, <2>1 DEF ReadingInv, EvaluateLate, TakeAhead
    <3>5. pc' \in Reading /\ ask'.quiet => /\ \A i \in 1..Len(ahead') : ahead'[i].what = "space"
                                           /\ job' = Idle \/ job'.of = ask'.of
      BY <1>1, <1>2, <3>4, TakeAheadQuiet DEF ReadingInv
    <3> QED
      BY <3>2, <3>3, <3>4, <3>5 DEF ReadingInv
  <2>2. CASE PrintRow \/ PrintMore \/ PrintPrompt \/ PrintLog
    <3>1. /\ stage' = stage /\ late' = late /\ typed' = typed /\ ahead' = ahead
          /\ job' = Idle \/ job' = job \/ (job # Idle /\ job'.of = job.of)
      BY <1>1, <2>2 DEF PrintRow, PrintMore, PrintPrompt, PrintLog, TypeOK, Jobs
    <3> QED
      BY <1>1, <1>2, <3>1 DEF ReadingInv
  <2>3. CASE EndBoot
    <3>1. stage # "exec" /\ UNCHANGED <<job, ahead, late, typed>>
      BY <2>3 DEF EndBoot
    <3> QED
      BY <1>1, <1>2, <3>1 DEF ReadingInv, AtExec, Reading
  <2> QED
    BY <2>1, <2>2, <2>3 DEF Terminal
<1> QED
  BY <1>2, <1>3, <1>4, <1>5 DEF Inv

\* The executor takes a step.
LEMMA ExecutorStep ==
    ASSUME Inv, Executor
    PROVE  Inv'
<1>1. CASE \E q \in Query : Begin(q)
  BY <1>1, BeginStep
<1>2. CASE Prepare \/ PrepareAgain \/ Greet \/ Cancel
  BY <1>2, PrepareStep, PrepareAgainStep, GreetStep, CancelStep
<1>3. CASE ReadMode \/ Enable
  BY <1>3, ModeStep
<1>4. CASE Dispatch \/ Converge \/ Attribute \/ Advance \/ Progress
  BY <1>4, DispatchStep, ConvergeStep, AttributeStep, AdvanceStep, ProgressStep
<1>5. CASE Conclude \/ Restore \/ Finish
  BY <1>5, EndStep
<1> QED
  BY <1>1, <1>2, <1>3, <1>4, <1>5 DEF Executor

\* A terminal that has been asked nothing.
LEMMA InitInv ==
    ASSUME Init
    PROVE  Inv
<1>1. stage \in {"booting", "dialog", "return", "exec"}
  BY IosAssumption DEF Init
<1>2. /\ text = Greeting(stage) /\ job = Idle /\ ahead = <<>> /\ late = <<>> /\ typed = 0
      /\ mode = "user" /\ pc = "idle" /\ ask = NoAsk
      /\ count = [turns |-> 0, lost |-> 0, overruns |-> 0, garbled |-> 0, logs |-> 0]
  BY DEF Init
<1>3. /\ text \in Tokens /\ LogRuns(text, 0) /\ LoneMarks(text)
      /\ text # <<>> => text[Len(text)].what # "more"
  BY <1>1, <1>2, GreetingFacts
<1>4. TypeOK
  <2>1. NoAsk \in Asks
    <3>1. NoWindow \in Windows /\ <<>> \in Tokens
      BY DEF NoWindow, Windows, Tokens
    <3> QED
      BY <3>1 DEF NoAsk, Asks, Classes
  <2>2. count \in Counts
    BY <1>2, ConstantTypes DEF Counts
  <2>3. <<>> \in Seq(KeySet)
    OBVIOUS
  <2>4. pc \in Places /\ job \in Jobs
    BY <1>2 DEF Places, Jobs
  <2> QED
    BY <1>1, <1>2, <1>3, <2>1, <2>2, <2>3, <2>4 DEF TypeOK
<1>5. TerminalInv
  <2>1. JobInv
    BY <1>2 DEF JobInv
  <2>2. MoreInv
    BY <1>3 DEF MoreInv
  <2>3. LogInv
    BY <1>2, <1>3 DEF LogInv
  <2> QED
    BY <2>1, <2>2, <2>3 DEF TerminalInv
<1>6. ReadingInv
  <2>1. ask.mine = 0
    BY <1>2 DEF NoAsk
  <2> QED
    BY <1>2, <2>1 DEF ReadingInv, AtExec, Reading
<1>7. OutputInv
  BY <1>2 DEF OutputInv, Answering
<1> QED
  BY <1>2, <1>4, <1>5, <1>6, <1>7 DEF Inv

\* The invariant is inductive.
LEMMA InvStep ==
    ASSUME Inv, [Next]_vars
    PROVE  Inv'
<1>1. CASE Executor
  BY <1>1, ExecutorStep
<1>2. CASE Terminal
  BY <1>2, TerminalStep
<1>3. CASE UNCHANGED vars
  <2>1. /\ stage' = stage /\ mode' = mode /\ text' = text /\ job' = job /\ ahead' = ahead
        /\ late' = late /\ typed' = typed /\ pc' = pc /\ ask' = ask /\ count' = count
    BY <1>3 DEF vars
  <2>2. TypeOK' /\ TerminalInv' /\ ReadingInv'
    BY <2>1 DEF Inv, TypeOK, TerminalInv, JobInv, MoreInv, LogInv, ReadingInv
  <2>3. Mine' = Mine /\ Printed' = Printed /\ Whole' = Whole /\ Answering' = Answering
    BY <2>1 DEF Mine, Printed, Whole, Answering
  <2>4. OutputInv'
    BY <2>1, <2>3 DEF Inv, OutputInv, AllMine
  <2>5. pc \in {"converge", "attribute"} => FirstPage'
    BY <2>1, <2>3 DEF Inv, FirstPage, AllMine, Written
  <2>6. pc \in {"advance", "progress"} => NextPage'
    BY <2>1, <2>3 DEF Inv, NextPage, AllMine, Answered, Continued
  <2> QED
    BY <2>1, <2>2, <2>4, <2>5, <2>6 DEF Inv
<1> QED
  BY <1>1, <1>2, <1>3 DEF Next


-----------------------------------------------------------------------------
(* What a query returns.                                                   *)

\* A result of an executed query is what was read for it, and there is no
\* other way to get one (_execute_once).
LEMMA ResultStep ==
    ASSUME [Next]_vars
    PROVE  \/ result' = result \/ result' = NoResult \/ ~result'.executed
           \/ pc = "conclude" /\ ask.converged /\ result' = Returned(TRUE, ask.output, ask.complete)
<1>1. Fails => ~result'.executed
  BY DEF Fails, Ends, Returned
<1>2. \A where, a : GoOn(where, a) => result' = result
  BY DEF GoOn
<1>3. CASE \E q \in Query : Begin(q)
  BY <1>2, <1>3 DEF Begin
<1>4. CASE Prepare \/ PrepareAgain
  <2>1. Ready => result' = result \/ ~result'.executed
    BY <1>1, <1>2 DEF Ready, FailsHere
  <2> QED
    BY <1>1, <1>2, <1>4, <2>1 DEF Prepare, PrepareAgain, FailsHere
<1>5. CASE Greet
  <2>1. \A what, wait : Answer(what, wait) => result' = result \/ ~result'.executed
    BY <1>1, <1>2 DEF Answer, FailsHere
  <2>2. \A holds, where : Await(holds, where) => result' = result \/ ~result'.executed
    BY <1>1, <1>2 DEF Await, FailsHere
  <2> QED
    BY <1>5, <2>1, <2>2 DEF Greet
<1>6. CASE Cancel
  BY <1>1, <1>2, <1>6 DEF Cancel
<1>7. CASE ReadMode \/ Enable \/ Dispatch
  BY <1>1, <1>2, <1>7 DEF ReadMode, Enable, Dispatch, FailsHere
<1>8. CASE Converge \/ Attribute
  BY <1>2, <1>8 DEF Converge, Attribute, Attributed
<1>9. CASE Advance \/ Progress
  BY <1>2, <1>9 DEF Advance, Progress, CaptureFails
<1>10. CASE Conclude
  BY <1>10 DEF Conclude, Ends, Returned
<1>11. CASE Restore \/ Finish
  BY <1>2, <1>11 DEF Restore, Finish
<1>12. CASE Terminal
  BY <1>12 DEF Terminal, EvaluateLate, TakeAhead, PrintRow, PrintMore, PrintPrompt, PrintLog, EndBoot
<1>13. CASE UNCHANGED vars
  BY <1>13 DEF vars
<1> QED
  BY <1>3, <1>4, <1>5, <1>6, <1>7, <1>8, <1>9, <1>10, <1>11, <1>12, <1>13 DEF Next, Executor

\* What is returned at last is of the query.
LEMMA OwnStep ==
    ASSUME Inv, OwnOutput, [Next]_vars
    PROVE  OwnOutput'
<1>1. CASE result' = result
  BY <1>1 DEF OwnOutput
<1>2. CASE result' = NoResult \/ ~result'.executed
  BY <1>2 DEF OwnOutput, NoResult
<1>3. CASE pc = "conclude" /\ result' = Returned(TRUE, ask.output, ask.complete)
  <2>1. AllMine(ask.output) /\ ask.output \in Tokens
    BY <1>3 DEF Inv, OutputInv, Answering, TypeOK, Asks
  <2>2. /\ result'.output = ask.output /\ result'.mine = ask.mine /\ result'.quiet = ask.quiet
        /\ result'.of = ask.of
    BY <1>3 DEF Returned
  <2>3. DOMAIN ask.output = 1..Len(ask.output)
    BY <2>1 DEF Tokens
  <2>4. \A i \in DOMAIN ask.output : IsRow(ask.output[i]) =>
           /\ ask.output[i].at >= ask.mine
           /\ ask.quiet => ask.output[i].of = ask.of
    BY <2>1, <2>3 DEF AllMine, AllIn, Mine
  <2> QED
    BY <2>2, <2>4 DEF OwnOutput
<1> QED
  BY <1>1, <1>2, <1>3, ResultStep

\* What is returned as complete is the whole answer.
LEMMA WholeStep ==
    ASSUME Inv, CompleteIsWhole, [Next]_vars
    PROVE  CompleteIsWhole'
<1>1. CASE result' = result
  BY <1>1 DEF CompleteIsWhole
<1>2. CASE result' = NoResult \/ ~result'.executed
  BY <1>2 DEF CompleteIsWhole, NoResult
<1>3. CASE pc = "conclude" /\ ask.converged /\ result' = Returned(TRUE, ask.output, ask.complete)
  <2>1. /\ result'.output = ask.output /\ result'.class = ask.class /\ result'.quiet = ask.quiet
        /\ result'.of = ask.of /\ result'.complete = ask.complete
        /\ result'.anchored = ask.anchored
    BY <1>3 DEF Returned
  <2>2. ask.class = "dispatched" /\ ask.complete /\ ask.quiet /\ ask.anchored =>
           Rejected(ask.output) \/ InOrder(ask.output, 0, Rows[ask.of])
    BY <1>3 DEF Inv, OutputInv, Whole
  <2> QED
    BY <2>1, <2>2 DEF CompleteIsWhole
<1> QED
  BY <1>1, <1>2, <1>3, ResultStep

-----------------------------------------------------------------------------
(* Theorems.                                                               *)

\* The invariant: what stands in the terminal since a query was typed is known
\* token by token to be the query's, while the executor reads it page by page
\* (_execute_once, _capture_registered_pages).
THEOREM InvHolds == Spec => []Inv
<1>1. Init => Inv
  BY InitInv
<1>2. Inv /\ [Next]_vars => Inv'
  BY InvStep
<1> QED
  BY <1>1, <1>2, PTL DEF Spec

\* The terminal, the scripts under way and what the executor has read are of
\* their types, and a query is under way wherever the executor is not idle.
THEOREM TypesHold == Spec => []TypeOK
<1>1. Inv => TypeOK
  BY DEF Inv
<1> QED
  BY <1>1, InvHolds, PTL

\* Syslog lines in a row are no more than were written, the mark of a pager is
\* last only while the pager waits, and a page is no longer than what was
\* printed: whatever is typed, and whenever it is evaluated (Type, AtPager).
THEOREM TerminalHolds == Spec => []TerminalInv
<1>1. Inv => TerminalInv
  BY DEF Inv
<1> QED
  BY <1>1, InvHolds, PTL

\* What an executed query returns was printed since it was dispatched, and is
\* its own when the terminal was at rest (fresh_command_window, _execute_once):
\* for any tables, pages, retained text, lost exchanges and early waits.
THEOREM OwnOutputHolds == Spec => []OwnOutput
<1>1. Init => OwnOutput
  BY DEF Init, OwnOutput, NoResult
<1>2. Inv /\ OwnOutput /\ [Next]_vars => OwnOutput'
  BY OwnStep
<1> QED
  BY <1>1, <1>2, InvHolds, PTL DEF Spec

\* What is returned as complete is every row of the answer, once and in order,
\* or was rejected, when its echo was seen, the terminal was at rest when it was
\* typed, and no page that was followed ended in an anchor of syslog lines only
\* (_PAGER_ROLL_MIN_ANCHOR, _capture_registered_pages): for any number of
\* syslog lines, tables, pages, retained text, lost exchanges and early waits.
THEOREM CompleteIsWholeHolds == Spec => []CompleteIsWhole
<1>1. Init => CompleteIsWhole
  BY DEF Init, CompleteIsWhole, NoResult
<1>2. Inv /\ CompleteIsWhole /\ [Next]_vars => CompleteIsWhole'
  BY WholeStep
<1> QED
  BY <1>1, <1>2, InvHolds, PTL DEF Spec
=============================================================================
