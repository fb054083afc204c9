---------------------- MODULE PhysicalDeploymentProofs ----------------------
(***************************************************************************)
(* Proofs about PhysicalDeployment, for any plan and any workspace.        *)
(***************************************************************************)
EXTENDS PhysicalDeployment, FiniteSetTheorems, WellFoundedInduction, TLAPS

\* Before anything is sent, while the plan is carried out, and cleaning up.
Early    == {"preflight", "workspace", "capability"}
Sending  == {"device", "create", "prepare", "module", "plug", "observe_module",
             "observe_device", "link", "cable", "observe_link", "manifest"}
Cleaning == {"removal", "remove", "first_inventory", "second_inventory", "over"}

TypeOK ==
    /\ exclusive \in BOOLEAN
    /\ net \in Workspace /\ base \in Workspace
    /\ late \in Seq(Command)
    /\ attempted \subseteq Device /\ new \subseteq attempted
    /\ before \in [Modular -> Slot]
    /\ pc \in Early \cup Sending \cup {"finished"} \cup Cleaning
    /\ items \in [Target -> Item]
    /\ entries \in Seq([disposition : {"none", "mutated", "failed", "unknown"}, inverse : BOOLEAN])
    /\ dirty \in J!Dirty
    /\ outcome \in {"none", "partial", "failed", "verified"}
    /\ restored \in {"none", "once", "no", "yes"}
    /\ pc \in {"device", "create", "prepare", "observe_device", "removal", "remove"} => i \in Device
    /\ pc \in {"module", "plug", "observe_module"} => i \in Modular
    /\ pc \in {"link", "cable", "observe_link"} => i \in Link

\* What can be queued: nothing while the deployment goes on, one command of the
\* deployment when it has ended, and the removals of the cleanup behind it.
QueueInv ==
    /\ pc \in Early \cup Sending => late = <<>>
    /\ \A k \in 2..Len(late) : late[k][1] = "remove"
    /\ pc \in Cleaning => exclusive
    /\ pc \notin Cleaning => \A k \in 1..Len(late) : late[k][1] # "remove"

\* The devices a deployment has tried to create are the ones it has touched.
OwnPlace ==
    /\ pc \in Early => attempted = {}
    /\ pc \in {"device", "create"} => \A d \in attempted : d < i
    /\ pc = "prepare" => \A d \in attempted : d <= i
    /\ pc = "plug" => i \in new

\* Until the cleanup, what is not theirs is as it was, and what is theirs is told.
OwnWorld ==
    pc \notin Cleaning =>
        /\ \A d \in Device \ attempted :
              net.copies[d] = base.copies[d] /\ net.slot[d] = base.slot[d]
        /\ \A k \in 1..Len(late) : late[k][1] \in {"add", "plug"} => late[k][2] \in attempted
        /\ \A d \in attempted : d \in Owned \/ (pc = "prepare" /\ d = i)

OwnInv == OwnPlace /\ OwnWorld

\* A workspace that should have been empty is left as it was.
ForeignInv ==
    /\ pc \in Early => net = base /\ Owned = {}
    /\ exclusive /\ ~Empty(base) =>
          /\ pc \in {"preflight", "workspace", "finished", "first_inventory",
                     "second_inventory", "over"}
          /\ net = base /\ late = <<>> /\ attempted = {} /\ Owned = {}

\* In one that was, no name is taken twice.
SingleInv ==
    /\ \A d \in Device : base.copies[d] <= 1
    /\ exclusive =>
          /\ \A d \in Device : net.copies[d] <= 1
          /\ \A d \in Device : late # <<>> /\ late[1] = <<"add", d>> => net.copies[d] = 0

\* What a phase of observations has seen is still there.
SeenModules ==
    /\ pc = "observe_module" =>
          \A d \in Modular : d < i =>
              items[<<"module", d>>].status = "failed" \/ net.slot[d] = "expected"
    /\ pc \in {"observe_device", "link", "cable", "observe_link", "manifest"} =>
          \A d \in Modular : net.slot[d] = "expected"

SeenDevices ==
    /\ pc = "observe_device" =>
          \A d \in Device : d < i => items[<<"device", d>>].status = "failed" \/ Exact(net, d)
    /\ pc \in {"link", "cable", "observe_link", "manifest"} => \A d \in Device : Exact(net, d)

SeenLinks ==
    /\ pc = "observe_link" =>
          \A l \in Link : l < i => items[<<"link", l>>].status = "failed" \/ l \in net.cabled
    /\ pc = "manifest" => net.cabled = Link

SeenInv ==
    /\ pc \in Early \cup Sending => outcome = "none"
    /\ SeenModules /\ SeenDevices /\ SeenLinks
    /\ VerifiedIsPresent

\* A restoration is only claimed at the end, of a workspace nothing can change.
RestoredInv ==
    restored = "yes" => pc = "over" /\ net = base /\ late = <<>>

\* The inductive invariant.
Inv == TypeOK /\ QueueInv /\ OwnInv /\ ForeignInv /\ SingleInv /\ SeenInv /\ RestoredInv

-----------------------------------------------------------------------------
(* Numbers, and commands run one after another.                            *)

\* A set of numbers that is not empty has a least one.
LEMMA LeastOfNumbers ==
    ASSUME NEW S \in SUBSET Nat, S # {}
    PROVE  \E m \in S : \A k \in S : m <= k
<1> DEFINE R == {ss \in Nat \X Nat : ss[1] < ss[2]}
<1>1. IsWellFoundedOn(R, Nat)
  BY NatLessThanWellFounded, Zenon DEF OpToRel
<1>2. PICK m \in S : \A k \in S : ~(<<k, m>> \in R)
  <2> HIDE DEF R
  <2> QED
    BY <1>1, WFMin
<1>3. ASSUME NEW k \in S
      PROVE  ~(k < m)
  <2>1. k < m => <<k, m>> \in R
    OBVIOUS
  <2> HIDE DEF R
  <2> QED
    BY <2>1, <1>2
<1>4. \A k \in S : k \in Nat /\ m \in Nat
  OBVIOUS
<1> HIDE DEF R
<1> QED
  BY <1>3, <1>4
\* A set that has 0, and with each number below n the next one, has them all.
LEMMA SetInduction ==
    ASSUME NEW n \in Nat, NEW T, 0 \in T, \A k \in 0..n-1 : k \in T => k + 1 \in T
    PROVE  \A k \in 0..n : k \in T
<1> SUFFICES ASSUME (0..n) \ T # {}
             PROVE  FALSE
  OBVIOUS
<1>1. (0..n) \ T \in SUBSET Nat
  OBVIOUS
<1>2. PICK m \in (0..n) \ T : \A k \in (0..n) \ T : m <= k
  BY ONLY <1>1, (0..n) \ T # {}, LeastOfNumbers
<1>3. m # 0 /\ m - 1 \in 0..n-1 /\ m - 1 \in T
  BY <1>2
<1> QED
  BY <1>2, <1>3

\* What holds after the first of the commands that are run, and what the others
\* keep, holds after all of them.
LEMMA RanAllStays ==
    ASSUME NEW cs \in Seq(Command), cs # <<>>, NEW w, NEW G,
           Ran(cs[1], w) \subseteq G,
           \A k \in 2..Len(cs) : \A v \in G : Ran(cs[k], v) \subseteq G
    PROVE  RanAll(cs, w) \subseteq G
<1> DEFINE N == Len(cs)
           After(k, S) == IF k = 0 THEN {w} ELSE UNION {Ran(cs[k], v) : v \in S}
           UpTo(n, f) == f = [k \in 0..n |-> After(k, f[k - 1])]
           ran == CHOOSE f : UpTo(N, f)
           T == {n \in 0..N : \E f : UpTo(n, f)}
           In == {n \in 0..N : n = 0 \/ ran[n] \subseteq G}
<1>1. N \in Nat /\ N # 0
  OBVIOUS
<1>2. RanAll(cs, w) = ran[N]
  BY DEF RanAll
\* The stages of the run exist.
<1>3. UpTo(N, ran)
  <2>1. 0 \in T
    <3> DEFINE f == [k \in 0..0 |-> {w}]
    <3>1. UpTo(0, f)
      OBVIOUS
    <3> HIDE DEF UpTo, f
    <3> QED
      BY <3>1, <1>1
  <2>2. ASSUME NEW n \in 0..N-1, n \in T
        PROVE  n + 1 \in T
    <3> HIDE DEF UpTo
    <3>1. PICK f : UpTo(n, f)
      BY <2>2
    <3> HIDE DEF After
    <3> DEFINE g == [k \in 0..n+1 |-> After(k, f[k - 1])]
    <3>2. \A k \in 0..n : g[k] = f[k]
      BY <3>1, <2>2, <1>1 DEF UpTo
    <3>3. \A k \in 0..n+1 : After(k, f[k - 1]) = After(k, g[k - 1])
      <4>1. \A k \in 0..n+1 : k = 0 \/ k - 1 \in 0..n
        BY <2>2
      <4>2. \A k \in 0..n+1 : k = 0 \/ g[k - 1] = f[k - 1]
        BY <3>2, <4>1
      <4>3. \A S, R : After(0, S) = After(0, R)
        BY DEF After
      <4> HIDE DEF g
      <4> QED
        BY <4>2, <4>3, Zenon
    <3>4. g = [k \in 0..n+1 |-> After(k, g[k - 1])]
      <4>1. g = [k \in 0..n+1 |-> After(k, f[k - 1])]
        OBVIOUS
      <4> HIDE DEF g
      <4> QED
        BY <3>3, <4>1, Zenon
    <3>5. UpTo(n + 1, g)
      BY <3>4 DEF UpTo
    <3> HIDE DEF g
    <3>6. n + 1 \in 0..N
      BY <2>2, <1>1
    <3> QED
      BY <3>5, <3>6
  <2> HIDE DEF T
  <2>3. \A k \in 0..N : k \in T
    BY <1>1, <2>1, <2>2, SetInduction
  <2>4. N \in T
    BY <1>1, <2>3
  <2> HIDE DEF UpTo
  <2> QED
    BY <2>4, Zenon DEF T
<1> HIDE DEF ran, After
<1>4. ran = [k \in 0..N |-> After(k, ran[k - 1])]
  BY <1>3
<1>5. \A k \in 0..N : k \in In
  <2>1. 0 \in In
    BY <1>1
  <2>2. ASSUME NEW n \in 0..N-1, n \in In
        PROVE  n + 1 \in In
    <3>1. n + 1 \in 0..N /\ n + 1 # 0 /\ (n + 1) - 1 = n
      BY <1>1
    <3>2. ran[n + 1] = After(n + 1, ran[n])
      BY <1>4, <3>1
    <3>3. After(n + 1, ran[n]) = UNION {Ran(cs[n + 1], v) : v \in ran[n]}
      BY <3>1 DEF After
    <3>4. CASE n = 0
      <4>1. ran[0] = {w}
        BY <1>1, <1>4 DEF After
      <4>2. n + 1 = 1
        BY <3>4
      <4>3. UNION {Ran(cs[1], v) : v \in ran[0]} = Ran(cs[1], w)
        BY <4>1
      <4> QED
        BY <3>1, <3>2, <3>3, <3>4, <4>2, <4>3
    <3>5. CASE n # 0
      BY <2>2, <3>1, <3>2, <3>3, <3>5
    <3> QED
      BY <3>4, <3>5
  <2> HIDE DEF In
  <2> QED
    BY <1>1, <2>1, <2>2, SetInduction
<1> QED
  BY <1>1, <1>2, <1>5

\* First is the least of them.
LEMMA FirstIsLeast ==
    ASSUME NEW S \in SUBSET Nat, S # {}
    PROVE  First(S) \in S /\ \A k \in S : First(S) <= k
  BY LeastOfNumbers DEF First

\* A set of devices that is not empty has a highest one.
LEMMA HighestIsThere ==
    ASSUME NEW S \in SUBSET Device, S # {}
    PROVE  Highest(S) \in S
<1> DEFINE D == {n \in Nat : NDevices - n \in S}
<1>1. PICK d : d \in S /\ d \in 1..NDevices
  BY DEF Device
<1>2. NDevices - d \in D
  BY <1>1, DeploymentAssumption
<1>3. D \in SUBSET Nat /\ D # {}
  BY <1>2
<1>4. PICK m \in D : \A k \in D : m <= k
  <2> HIDE DEF D
  <2> QED
    BY <1>3, LeastOfNumbers
<1>5. NDevices - m \in S
  BY <1>4
<1>6. ASSUME NEW k \in S
      PROVE  NDevices - m >= k
  <2>1. k \in 1..NDevices /\ NDevices - k \in D
    BY DeploymentAssumption DEF Device
  <2>2. m \in Nat /\ m <= NDevices - k
    BY <1>4, <2>1
  <2> QED
    BY <2>1, <2>2, DeploymentAssumption
<1>7. \E x \in S : \A y \in S : x >= y
  BY <1>5, <1>6
<1> QED
  BY <1>7 DEF Highest

-----------------------------------------------------------------------------
(* What commands do to a workspace.                                        *)

\* A command is a verb and what it is about.
LEMMA CommandParts ==
    ASSUME NEW c \in Command
    PROVE  /\ c = <<c[1], c[2]>>
           /\ \/ c[1] \in {"add", "remove"} /\ c[2] \in Device
              \/ c[1] = "plug" /\ c[2] \in Modular
              \/ c[1] = "cable" /\ c[2] \in Link
<1>1. CASE c \in {"add", "remove"} \X Device
  BY <1>1
<1>2. CASE c \in {"plug"} \X Modular
  BY <1>2
<1>3. CASE c \in {"cable"} \X Link
  BY <1>3
<1> QED
  BY <1>1, <1>2, <1>3 DEF Command

\* A command of the deployment changes the device it is about, and only an add
\* puts a device where there was none.
LEMMA RanEffect ==
    ASSUME NEW c \in Command, NEW w \in Workspace, NEW v \in Ran(c, w)
    PROVE  /\ v \in Workspace
           /\ v.alien = w.alien
           /\ \A d \in Device : c[1] = "cable" \/ c[2] # d =>
                 v.copies[d] = w.copies[d] /\ v.slot[d] = w.slot[d]
           /\ \A d \in Device : v.copies[d] <= w.copies[d] + 1
           /\ \A d \in Device : c # <<"add", d>> => v.copies[d] <= w.copies[d]
           /\ \A d \in Device : c[1] = "plug" => v.copies[d] = w.copies[d]
           /\ c[1] \in {"add", "plug"} => v.cabled = w.cabled
<1>1. CASE c[1] = "add" /\ c[2] \in Device
  <2>1. v \in Added(w, c[2])
    BY <1>1 DEF Ran
  <2>2. PICK u : /\ \/ u = w
                    \/ \E s \in Slot :
                          u = [w EXCEPT !.copies[c[2]] = @ + 1,
                                        !.slot[c[2]] = IF Present(w, c[2]) THEN @ ELSE s]
                 /\ v = u \/ v = [u EXCEPT !.stray = @ + 1]
    BY <2>1 DEF Added, Slot
  <2>3. /\ u \in Workspace /\ u.alien = w.alien /\ u.cabled = w.cabled
        /\ \A d \in Device : d # c[2] => u.copies[d] = w.copies[d] /\ u.slot[d] = w.slot[d]
        /\ u.copies[c[2]] \in {w.copies[c[2]], w.copies[c[2]] + 1}
    <3>1. CASE u = w
      BY <3>1 DEF Workspace
    <3>2. CASE u # w
      <4>1. PICK s \in Slot : u = [w EXCEPT !.copies[c[2]] = @ + 1,
                                            !.slot[c[2]] = IF Present(w, c[2]) THEN @ ELSE s]
        BY <2>2, <3>2
      <4> DEFINE copies == [w.copies EXCEPT ![c[2]] = @ + 1]
                 slot   == [w.slot EXCEPT ![c[2]] = IF Present(w, c[2]) THEN @ ELSE s]
      <4>2. u = [w EXCEPT !.copies = copies, !.slot = slot, !.cabled = w.cabled,
                          !.taken = w.taken, !.stray = w.stray]
        BY <4>1 DEF Workspace
      <4>3. /\ w.copies \in [Device -> Nat] /\ w.slot \in [Device -> Slot]
            /\ w.cabled \in SUBSET Link /\ w.taken \in SUBSET Link /\ w.stray \in Nat
        BY DEF Workspace
      <4>4. copies \in [Device -> Nat] /\ slot \in [Device -> Slot]
        <5>1. copies \in [Device -> Nat]
          <6> DEFINE n == w.copies[c[2]] + 1
          <6>1. w.copies[c[2]] \in Nat
            BY <1>1, <4>3
          <6>2. n \in Nat
            BY <6>1
          <6>3. copies = [w.copies EXCEPT ![c[2]] = n]
            BY <4>3
          <6> HIDE DEF copies, n
          <6> QED
            BY <4>3, <6>2, <6>3
        <5>2. (IF Present(w, c[2]) THEN w.slot[c[2]] ELSE s) \in Slot
          BY <1>1, <4>1, <4>3
        <5>3. slot = [w.slot EXCEPT ![c[2]] = IF Present(w, c[2]) THEN w.slot[c[2]] ELSE s]
          BY <4>3
        <5> HIDE DEF slot
        <5>4. slot \in [Device -> Slot]
          BY <4>3, <5>2, <5>3
        <5> QED
          BY <5>1, <5>4
      <4>5. /\ \A d \in Device : d # c[2] => copies[d] = w.copies[d] /\ slot[d] = w.slot[d]
            /\ copies[c[2]] = w.copies[c[2]] + 1
        BY <1>1, <4>3
      <4> HIDE DEF copies, slot
      <4>6. /\ u \in Workspace /\ u.alien = w.alien /\ u.cabled = w.cabled
            /\ u.copies = copies /\ u.slot = slot
        BY <4>2, <4>3, <4>4 DEF Workspace
      <4> QED
        BY <4>5, <4>6
    <3> QED
      BY <3>1, <3>2
  <2>4. /\ v \in Workspace /\ v.alien = u.alien /\ v.copies = u.copies /\ v.slot = u.slot
        /\ v.cabled = u.cabled
    <3>1. CASE v = u
      BY <2>3, <3>1
    <3>2. CASE v = [u EXCEPT !.stray = @ + 1]
      <4> DEFINE n == u.stray + 1
      <4>1. u.stray \in Nat
        BY <2>3 DEF Workspace
      <4>2. n \in Nat
        BY <4>1
      <4>3. v = [u EXCEPT !.stray = n]
        BY <3>2
      <4> HIDE DEF n
      <4> QED
        BY <2>3, <4>2, <4>3 DEF Workspace
    <3> QED
      BY <2>2, <3>1, <3>2
  <2>5. \A d \in Device : w.copies[d] \in Nat
    BY DEF Workspace
  <2>6. c = <<"add", c[2]>>
    BY <1>1, CommandParts
  <2>7. \A d \in Device : v.copies[d] = w.copies[d] \/ (d = c[2] /\ v.copies[d] = w.copies[d] + 1)
    BY ONLY <1>1, <2>3, <2>4
  <2>8. \A d \in Device : c # <<"add", d>> => d # c[2]
    BY <2>6
  <2>9. /\ \A d \in Device : v.copies[d] <= w.copies[d] + 1
        /\ \A d \in Device : c # <<"add", d>> => v.copies[d] <= w.copies[d]
    <3> SUFFICES ASSUME NEW d \in Device
                 PROVE  /\ v.copies[d] <= w.copies[d] + 1
                        /\ c # <<"add", d>> => v.copies[d] <= w.copies[d]
      OBVIOUS
    <3> DEFINE m == w.copies[d]
               n == v.copies[d]
    <3>1. m \in Nat /\ (n = m \/ n = m + 1) /\ (c # <<"add", d>> => n = m)
      BY ONLY <2>5, <2>7, <2>8
    <3> HIDE DEF m, n
    <3>2. n <= m + 1 /\ (c # <<"add", d>> => n <= m)
      BY ONLY <3>1
    <3> QED
      BY ONLY <3>2 DEF m, n
  <2>10. c[1] = "add" /\ \A d \in Device : c[2] # d => v.copies[d] = w.copies[d] /\ v.slot[d] = w.slot[d]
    BY ONLY <1>1, <2>3, <2>4
  <2> QED
    BY ONLY <2>3, <2>4, <2>9, <2>10
<1>2. CASE c[1] = "plug" /\ c[2] \in Modular
  <2>1. v \in Plugged(w, c[2])
    BY <1>2 DEF Ran
  <2>2. v = w \/ \E s \in Slot : v = [w EXCEPT !.slot[c[2]] = s]
    BY <2>1 DEF Plugged
  <2>3. CASE v = w
    BY <1>2, <2>3 DEF Workspace
  <2>4. CASE v # w
    <3>1. PICK s \in Slot : v = [w EXCEPT !.slot[c[2]] = s]
      BY <2>2, <2>4
    <3>2. /\ v \in Workspace /\ v.alien = w.alien /\ v.copies = w.copies /\ v.cabled = w.cabled
          /\ v.slot = [w.slot EXCEPT ![c[2]] = s]
      BY <3>1 DEF Workspace
    <3> QED
      BY <1>2, <3>2 DEF Workspace
  <2> QED
    BY <2>3, <2>4
<1>3. CASE c[1] = "cable" /\ c[2] \in Link
  <2>1. v \in Cabled(w, c[2])
    BY <1>3 DEF Ran
  <2>2. v = w \/ v = [w EXCEPT !.cabled = @ \cup {c[2]}]
    BY <2>1 DEF Cabled
  <2> QED
    BY <1>3, <2>2 DEF Workspace
<1>4. CASE c[1] = "remove" /\ c[2] \in Device
  <2>1. v \in Removed(w, c[2])
    BY <1>4 DEF Ran
  <2>2. CASE v = w
    BY <1>4, <2>2 DEF Workspace
  <2>3. CASE v # w
    <3>1. /\ w.copies[c[2]] > 0
          /\ v = [w EXCEPT !.copies[c[2]] = @ - 1,
                           !.slot[c[2]] = IF w.copies[c[2]] = 1 THEN "empty" ELSE @,
                           !.cabled = {l \in @ : c[2] \notin Ends[l]},
                           !.taken = {l \in @ : c[2] \notin Ends[l]}]
      BY <2>1, <2>3 DEF Removed, Exact, Present
    <3> DEFINE copies == [w.copies EXCEPT ![c[2]] = @ - 1]
               slot   == [w.slot EXCEPT ![c[2]] = IF w.copies[c[2]] = 1 THEN "empty" ELSE @]
               cabled == {l \in w.cabled : c[2] \notin Ends[l]}
               taken  == {l \in w.taken : c[2] \notin Ends[l]}
    <3>2. v = [w EXCEPT !.copies = copies, !.slot = slot, !.cabled = cabled,
                        !.taken = taken, !.stray = w.stray]
      BY <3>1 DEF Workspace
    <3>3. /\ w.copies \in [Device -> Nat] /\ w.slot \in [Device -> Slot]
          /\ w.cabled \in SUBSET Link /\ w.taken \in SUBSET Link /\ w.stray \in Nat
      BY DEF Workspace
    <3>4. copies \in [Device -> Nat] /\ slot \in [Device -> Slot]
      BY <1>4, <3>1, <3>3 DEF Slot
    <3>5. cabled \in SUBSET Link /\ taken \in SUBSET Link
      BY <3>3
    <3>6. /\ \A d \in Device : d # c[2] => copies[d] = w.copies[d] /\ slot[d] = w.slot[d]
          /\ copies[c[2]] = w.copies[c[2]] - 1
      BY <1>4, <3>3
    <3> HIDE DEF copies, slot, cabled, taken
    <3>7. v \in Workspace /\ v.alien = w.alien /\ v.copies = copies /\ v.slot = slot
      BY <3>2, <3>3, <3>4, <3>5 DEF Workspace
    <3> QED
      BY <1>4, <3>3, <3>6, <3>7
  <2> QED
    BY <2>2, <2>3
<1> QED
  BY <1>1, <1>2, <1>3, <1>4, CommandParts

-----------------------------------------------------------------------------
(* What an exchange does to the world.                                     *)

\* The device, the module or the link a planned command is about.
Planned ==
    CASE pc = "create" -> <<"add", i>> [] pc = "plug" -> <<"plug", i>> [] OTHER -> <<"cable", i>>

\* The steps of the deployment that only read.
Reading ==
    \/ Preflight \/ RequireEmptyWorkspace \/ ModuleCapabilities
    \/ EnsureDevice \/ PrepareDevice \/ EnsureModule \/ ObserveModule \/ ObserveDevice
    \/ EnsureLink \/ ObserveLink \/ BuildManifest \/ BeginCleanup

\* Those that send a command.
Acting == CreateDevice \/ PlugModule \/ CableLink

\* Those of the cleanup that look.
Looking == RemovalReadback \/ FirstInventory \/ SecondInventory

\* While the deployment goes on nothing is queued, so that a read finds the
\* workspace as it is.
LEMMA ReadingLeaves ==
    ASSUME TypeOK, QueueInv, Reading
    PROVE  UNCHANGED <<exclusive, base, net, late>>
<1>1. CASE Preflight
  BY <1>1 DEF Preflight, world
<1>2. CASE RequireEmptyWorkspace
  BY <1>2 DEF RequireEmptyWorkspace, Read, QueueInv, Early
<1>3. CASE ModuleCapabilities
  BY <1>3 DEF ModuleCapabilities, world
<1>4. CASE EnsureDevice
  BY <1>4 DEF EnsureDevice, ReadDevice, Read, QueueInv, Sending
<1>5. CASE PrepareDevice
  BY <1>5 DEF PrepareDevice, world
<1>6. CASE EnsureModule
  BY <1>6 DEF EnsureModule, ReadSlot, Read, QueueInv, Sending
<1>7. CASE ObserveModule
  BY <1>7 DEF ObserveModule, ReadSlot, Read, QueueInv, Sending
<1>8. CASE ObserveDevice
  BY <1>8 DEF ObserveDevice, ReadDevice, Read, QueueInv, Sending
<1>9. CASE EnsureLink
  BY <1>9 DEF EnsureLink, ReadLink, Read, QueueInv, Sending
<1>10. CASE ObserveLink
  BY <1>10 DEF ObserveLink, ReadLink, Read, QueueInv, Sending
<1>11. CASE BuildManifest
  BY <1>11 DEF BuildManifest, world
<1>12. CASE BeginCleanup
  BY <1>12 DEF BeginCleanup, world
<1> QED
  BY <1>1, <1>2, <1>3, <1>4, <1>5, <1>6, <1>7, <1>8, <1>9, <1>10, <1>11, <1>12 DEF Reading

\* A command either has run, or is queued and the deployment ends.
LEMMA ActingSends ==
    ASSUME TypeOK, QueueInv, Acting
    PROVE  /\ UNCHANGED <<exclusive, base>>
           /\ late = <<>> /\ Planned \in Command
           /\ \/ late' = <<>> /\ net' \in Ran(Planned, net)
              \/ pc' = "finished" /\ net' = net /\ late' = <<Planned>>
<1>1. late = <<>>
  BY DEF Acting, CreateDevice, PlugModule, CableLink, QueueInv, Sending
<1>2. ASSUME NEW c, NEW reply, Mutate(c, reply)
      PROVE  /\ UNCHANGED <<exclusive, base>>
             /\ \/ late' = <<>> /\ net' \in Ran(c, net)
                \/ reply = "unknown" /\ net' = net /\ late' = <<c>>
  BY <1>1, <1>2 DEF Mutate, Acknowledged
<1>3. ASSUME NEW t, NEW disposition, Refused(t, disposition)
      PROVE  pc' = "finished"
  BY <1>3 DEF Refused, Stop
<1>4. CASE CreateDevice
  <2>1. Planned = <<"add", i>> /\ Planned \in Command
    BY <1>4 DEF CreateDevice, Planned, Command, TypeOK
  <2>2. PICK reply \in MutationReply :
           /\ Mutate(<<"add", i>>, reply)
           /\ reply = "unknown" => pc' = "finished"
    BY <1>3, <1>4 DEF CreateDevice
  <2> QED
    BY <1>1, <1>2, <2>1, <2>2
<1>5. CASE PlugModule
  <2>1. Planned = <<"plug", i>> /\ Planned \in Command
    BY <1>5 DEF PlugModule, Planned, Command, TypeOK
  <2>2. PICK reply \in MutationReply :
           /\ Mutate(<<"plug", i>>, reply)
           /\ reply = "unknown" => pc' = "finished"
    BY <1>3, <1>5 DEF PlugModule
  <2> QED
    BY <1>1, <1>2, <2>1, <2>2
<1>6. CASE CableLink
  <2>1. Planned = <<"cable", i>> /\ Planned \in Command
    BY <1>6 DEF CableLink, Planned, Command, TypeOK
  <2>2. PICK reply \in MutationReply :
           /\ Mutate(<<"cable", i>>, reply)
           /\ reply = "unknown" => pc' = "finished"
    BY <1>3, <1>6 DEF CableLink
  <2> QED
    BY <1>1, <1>2, <2>1, <2>2
<1> QED
  BY <1>4, <1>5, <1>6 DEF Acting

\* A look of the cleanup may have the queue run before it.
LEMMA LookingRuns ==
    ASSUME Looking
    PROVE  /\ UNCHANGED <<exclusive, base>>
           /\ \/ UNCHANGED <<net, late>>
              \/ late # <<>> /\ late' = <<>> /\ net' \in RanAll(late, net)
<1>1. ASSUME NEW truth, NEW crossed, NEW reply, Read(truth, crossed, reply)
      PROVE  /\ UNCHANGED <<exclusive, base>>
             /\ \/ UNCHANGED <<net, late>>
                \/ late # <<>> /\ late' = <<>> /\ net' \in RanAll(late, net)
  BY <1>1 DEF Read
<1>2. CASE RemovalReadback
  BY <1>1, <1>2 DEF RemovalReadback, ReadDevice, world
<1>3. CASE FirstInventory
  BY <1>1, <1>3 DEF FirstInventory, Inventory
<1>4. CASE SecondInventory
  BY <1>1, <1>4 DEF SecondInventory, Inventory
<1> QED
  BY <1>2, <1>3, <1>4 DEF Looking

\* A removal that is sent has run, or not, or is queued behind the others.
LEMMA RemovingSends ==
    ASSUME TypeOK, RemoveDevice
    PROVE  /\ UNCHANGED <<exclusive, base>>
           /\ <<"remove", i>> \in Command
           /\ \/ late' = late /\ net' \in Ran(<<"remove", i>>, net)
              \/ net' = net /\ late' = Append(late, <<"remove", i>>)
<1>1. <<"remove", i>> \in Command
  BY DEF RemoveDevice, TypeOK, Command
<1>2. PICK reply \in MutationReply : Mutate(<<"remove", i>>, reply)
  BY DEF RemoveDevice
<1> QED
  BY <1>1, <1>2 DEF Mutate, Acknowledged

\* The steps are these.
LEMMA Steps ==
    Next <=> Reading \/ Acting \/ Looking \/ RemoveDevice \/ RunLate
  BY DEF Next, Reading, Acting, Looking

-----------------------------------------------------------------------------
(* Types.                                                                  *)

\* The world, whatever step is taken.
LEMMA WorldType ==
    ASSUME TypeOK, QueueInv, Next
    PROVE  /\ UNCHANGED <<exclusive, base>>
           /\ net' \in Workspace /\ late' \in Seq(Command)
<1>1. /\ net \in Workspace /\ late \in Seq(Command)
      /\ \A c \in Command : \A w \in Workspace : Ran(c, w) \subseteq Workspace
  BY RanEffect DEF TypeOK
<1>2. \A k \in 1..Len(late) : late[k] \in Command
  BY <1>1
<1>3. CASE Reading
  BY <1>1, <1>3, ReadingLeaves
<1>4. CASE Acting
  <2>1. <<Planned>> \in Seq(Command) /\ <<>> \in Seq(Command)
    BY <1>4, ActingSends
  <2>2. net' \in Workspace
    BY <1>1, <1>4, ActingSends
  <2> QED
    BY <1>4, <2>1, <2>2, ActingSends
<1>5. CASE Looking
  <2>1. CASE UNCHANGED <<net, late>>
    BY <1>1, <1>5, <2>1, LookingRuns
  <2>2. CASE late # <<>> /\ late' = <<>> /\ net' \in RanAll(late, net)
    <3>1. late[1] \in Command /\ \A k \in 2..Len(late) : late[k] \in Command
      BY <1>1, <1>2, <2>2
    <3>2. RanAll(late, net) \subseteq Workspace
      <4>1. Ran(late[1], net) \subseteq Workspace
        BY <1>1, <3>1
      <4>2. \A k \in 2..Len(late) : \A v \in Workspace : Ran(late[k], v) \subseteq Workspace
        BY <1>1, <3>1
      <4> QED
        BY <1>1, <2>2, <4>1, <4>2, RanAllStays
    <3>3. late' \in Seq(Command)
      BY <2>2
    <3> QED
      BY <1>5, <2>2, <3>2, <3>3, LookingRuns
  <2> QED
    BY <1>5, <2>1, <2>2, LookingRuns
<1>6. CASE RemoveDevice
  <2>1. Append(late, <<"remove", i>>) \in Seq(Command)
    BY <1>1, <1>6, RemovingSends
  <2>2. Ran(<<"remove", i>>, net) \subseteq Workspace
    BY <1>1, <1>6, RemovingSends
  <2> QED
    BY <1>1, <1>6, <2>1, <2>2, RemovingSends
<1>7. CASE RunLate
  <2>1. late # <<>> /\ Head(late) \in Command /\ Tail(late) \in Seq(Command)
    BY <1>1, <1>7 DEF RunLate
  <2>2. net' \in Workspace
    BY <1>1, <1>7, <2>1 DEF RunLate
  <2> QED
    BY <1>7, <2>1, <2>2 DEF RunLate
<1> QED
  BY <1>3, <1>4, <1>5, <1>6, <1>7, Steps

\* What is recorded has its type, however it is recorded.
RecordOK ==
    /\ items \in [Target -> Item]
    /\ entries \in Seq([disposition : {"none", "mutated", "failed", "unknown"}, inverse : BOOLEAN])
    /\ dirty \in J!Dirty
    /\ outcome \in {"none", "partial", "failed", "verified"}

\* What settling an item does to the items.
LEMMA SettleType ==
    ASSUME RecordOK, NEW t, NEW status \in {"none", "failed", "satisfied", "applied", "observed"},
           NEW applied \in BOOLEAN, Settle(t, status, applied)
    PROVE  /\ items' \in [Target -> Item]
           /\ \A x \in Target : items'[x] = IF x = t THEN [status |-> status, applied |-> applied]
                                            ELSE items[x]
  BY DEF RecordOK, Settle, Item

\* What an entry does to the journal.
LEMMA JournalType ==
    ASSUME RecordOK, NEW disposition \in {"none", "mutated", "failed", "unknown"},
           NEW inverse \in BOOLEAN, Journal(disposition, inverse)
    PROVE  /\ entries' \in Seq([disposition : {"none", "mutated", "failed", "unknown"},
                                inverse : BOOLEAN])
           /\ dirty' \in J!Dirty
<1> DEFINE Row == [disposition : {"none", "mutated", "failed", "unknown"}, inverse : BOOLEAN]
           row == [disposition |-> disposition, inverse |-> inverse]
<1>1. row \in Row /\ entries \in Seq(Row) /\ entries' = Append(entries, row)
  BY DEF RecordOK, Journal
<1>2. entries' \in Seq(Row)
  <2> HIDE DEF Row, row
  <2> QED
    BY <1>1
<1>3. dirty' \in J!Dirty
  BY DEF Journal, J!Derive, J!Dirty
<1> QED
  BY <1>2, <1>3

\* A deployment that stops has finished without success.
LEMMA StopType ==
    ASSUME Stop
    PROVE  pc' = "finished" /\ i' = 0 /\ outcome' \in {"partial", "failed"}
  BY DEF Stop

\* A refused item ends the deployment.
LEMMA RefusedType ==
    ASSUME RecordOK, NEW t, NEW disposition \in {"failed", "unknown"}, Refused(t, disposition)
    PROVE  RecordOK' /\ pc' = "finished" /\ i' = 0 /\ outcome' \in {"partial", "failed"}
<1>1. /\ Settle(t, "failed", FALSE) /\ Journal(disposition, FALSE)
      /\ pc' = "finished" /\ i' = 0 /\ outcome' \in {"partial", "failed"}
  BY DEF Refused, Stop
<1>2. items' \in [Target -> Item]
  BY <1>1, SettleType
<1> QED
  BY <1>1, <1>2, JournalType DEF RecordOK

\* An item that is there lets it go on.
LEMMA AppliedType ==
    ASSUME RecordOK, NEW t, NEW inverse \in BOOLEAN,
           Satisfied(t) \/ Applied(t, inverse)
    PROVE  RecordOK' /\ UNCHANGED outcome
<1>1. items' \in [Target -> Item]
  BY SettleType DEF Satisfied, Applied
<1>2. PICK disposition \in {"none", "mutated"}, given \in BOOLEAN : Journal(disposition, given)
  BY DEF Satisfied, Applied
<1> QED
  BY <1>1, <1>2, JournalType DEF Satisfied, Applied, RecordOK

\* An observation keeps the types of the record.
LEMMA ObservedType ==
    ASSUME RecordOK, NEW kind, NEW S, NEW ok \in BOOLEAN, NEW next, <<kind, i>> \in Target,
           Observed(kind, S, ok, next)
    PROVE  RecordOK'
<1> DEFINE t == <<kind, i>>
<1>1. items[t].applied \in BOOLEAN
  BY DEF RecordOK, Item
<1>2. items' \in [Target -> Item]
  BY <1>1, SettleType DEF Observed
<1>3. UNCHANGED <<entries, dirty>> \/ Journal("failed", FALSE)
  BY DEF Observed
<1>4. outcome' \in {"none", "partial", "failed", "verified"}
  BY DEF Observed, Stop, RecordOK
<1> QED
  BY <1>2, <1>3, <1>4, JournalType DEF RecordOK

\* Where the deployment is.
ControlOK ==
    /\ pc \in Early \cup Sending \cup {"finished"} \cup Cleaning
    /\ pc \in {"device", "create", "prepare", "observe_device", "removal", "remove"} => i \in Device
    /\ pc \in {"module", "plug", "observe_module"} => i \in Modular
    /\ pc \in {"link", "cable", "observe_link"} => i \in Link

\* Devices and links are numbers, so that some are first.
LEMMA Numbers ==
    /\ Device \in SUBSET Nat /\ Modular \in SUBSET Nat /\ Modular \subseteq Device
    /\ Link \in SUBSET Nat
  BY DeploymentAssumption DEF Device, Link

\* A phase starts with the least of what it is about.
LEMMA GotoGoes ==
    ASSUME NEW phase, NEW S \in SUBSET Nat, Goto(phase, S)
    PROVE  /\ pc' = phase
           /\ S # {} => i' \in S /\ \A k \in S : i' <= k
           /\ S = {} => i' = 0
<1>1. pc' = phase /\ i' = First(S)
  BY DEF Goto
<1>2. S # {} => First(S) \in S /\ \A k \in S : First(S) <= k
  BY FirstIsLeast
<1>3. S = {} => First(S) = 0
  BY DEF First
<1> QED
  BY <1>1, <1>2, <1>3

\* It goes on with the next one.
LEMMA LaterGoes ==
    ASSUME NEW S \in SUBSET Nat, i \in S
    PROVE  /\ Later(S) \in SUBSET Nat
           /\ Later(S) # {} => /\ First(Later(S)) \in S /\ First(Later(S)) > i
                               /\ \A k \in S : k < First(Later(S)) => k <= i
           /\ Later(S) = {} => \A k \in S : k <= i
<1>1. Later(S) \in SUBSET Nat /\ \A k \in S : k \in Later(S) <=> k > i
  BY DEF Later
<1>2. Later(S) # {} => First(Later(S)) \in Later(S)
                       /\ \A k \in Later(S) : First(Later(S)) <= k
  BY <1>1, FirstIsLeast
<1>3. ASSUME Later(S) # {}
      PROVE  /\ First(Later(S)) \in S /\ First(Later(S)) > i
             /\ \A k \in S : k < First(Later(S)) => k <= i
  <2> DEFINE f == First(Later(S))
  <2>1. f \in S /\ f > i /\ \A k \in Later(S) : f <= k
    BY <1>2, <1>3 DEF Later
  <2>2. ASSUME NEW k \in S, k < f
        PROVE  k <= i
    <3> HIDE DEF f
    <3>1. k \in Nat /\ i \in Nat /\ f \in Nat
      BY <2>1
    <3>2. ~(k > i)
      BY <1>1, <2>1, <2>2, <3>1
    <3> QED
      BY <3>1, <3>2
  <2> QED
    BY <2>1, <2>2
<1>4. ASSUME Later(S) = {}
      PROVE  \A k \in S : k <= i
  BY <1>1, <1>4
<1> QED
  BY <1>1, <1>3, <1>4

\* After the last device come the modules, or the observation of devices.
LEMMA AfterDevicesGoes ==
    ASSUME AfterDevices, i \in Device
    PROVE  \/ /\ pc' = "module" /\ i' \in Modular
              /\ \A k \in Modular : i' <= k
           \/ /\ pc' = "observe_device" /\ i' \in Device /\ Modular = {}
              /\ \A k \in Device : i' <= k
<1>1. CASE Modular = {}
  <2>1. Goto("observe_device", Device) /\ Device # {}
    BY <1>1 DEF AfterDevices
  <2> QED
    BY <1>1, <2>1, Numbers, GotoGoes
<1>2. CASE Modular # {}
  <2>1. Goto("module", Modular)
    BY <1>2 DEF AfterDevices
  <2> QED
    BY <1>2, <2>1, Numbers, GotoGoes
<1> QED
  BY <1>1, <1>2

\* After the last observation of a device come the links, or the manifest.
LEMMA AfterObservingGoes ==
    ASSUME AfterObserving
    PROVE  \/ /\ pc' = "link" /\ i' \in Link
              /\ \A k \in Link : i' <= k
           \/ pc' = "manifest" /\ Link = {}
<1>1. CASE Link = {}
  <2>1. Goto("manifest", {})
    BY <1>1 DEF AfterObserving
  <2> QED
    BY <1>1, <2>1 DEF Goto
<1>2. CASE Link # {}
  <2>1. Goto("link", Link)
    BY <1>2 DEF AfterObserving
  <2> QED
    BY <1>2, <2>1, Numbers, GotoGoes
<1> QED
  BY <1>1, <1>2

\* The cleanup goes down, and then takes stock.
LEMMA DescendGoes ==
    ASSUME NEW S \in SUBSET Device, Descend(S)
    PROVE  \/ pc' = "first_inventory" /\ S = {}
           \/ pc' = "removal" /\ i' \in S
  BY HighestIsThere DEF Descend

-----------------------------------------------------------------------------
(* Where each step leads, and what it records.                             *)

\* The end of a deployment that fails.
Failed == pc' = "finished" /\ i' = 0 /\ outcome' \in {"partial", "failed"}

\* On to the next of a phase, or past its last.
Onward(here, S) ==
    pc' = here /\ i' \in S /\ i' > i /\ \A k \in S : k < i' => k <= i
Past(S) == \A k \in S : k <= i

\* To the first of a phase.
Begun(phase, S) == pc' = phase /\ i' \in S /\ \A k \in S : i' <= k

\* From the devices to the modules, or to what is observed.
DevicesDone ==
    Past(Device) /\ (Begun("module", Modular) \/ (Begun("observe_device", Device) /\ Modular = {}))

Types == RecordOK /\ ControlOK

\* The part of the types the lemmas below rest on.
LEMMA TypesFromTypeOK ==
    ASSUME TypeOK
    PROVE  Types
  BY DEF TypeOK, Types, RecordOK, ControlOK

\* Devices, modules and links are targets.
LEMMA TargetsOfKinds ==
    /\ \A d \in Device : <<"device", d>> \in Target
    /\ \A d \in Modular : <<"module", d>> \in Target
    /\ \A l \in Link : <<"link", l>> \in Target
  BY DEF Target

\* Where each action leads, and what it leaves alone: the preflight first.
LEMMA PreflightLeads ==
    ASSUME Types, Preflight
    PROVE  /\ pc = "preflight"
           /\ UNCHANGED <<attempted, new, before, restored, items, entries, dirty>>
           /\ \/ pc' \in {"workspace", "capability"} /\ UNCHANGED outcome
                 /\ (pc' = "capability" => ~exclusive)
              \/ Failed
  BY DEF Preflight, runtime, record, Goto, Stop, Failed

\* The inventory goes on only from a workspace that is empty.
LEMMA RequireEmptyWorkspaceLeads ==
    ASSUME Types, QueueInv, RequireEmptyWorkspace
    PROVE  /\ pc = "workspace"
           /\ UNCHANGED <<attempted, new, before, restored, items, entries, dirty>>
           /\ \/ pc' = "capability" /\ UNCHANGED outcome /\ Empty(net)
              \/ Failed
<1>1. late = <<>>
  BY DEF RequireEmptyWorkspace, QueueInv, Early
<1>2. PICK reply \in {"silent", "empty", "occupied"} :
        /\ Read({IF Empty(net) THEN "empty" ELSE "occupied"}, "silent", reply)
        /\ IF reply = "empty"
           THEN Goto("capability", {}) /\ UNCHANGED record
           ELSE UNCHANGED <<items, entries, dirty>> /\ Stop
  BY DEF RequireEmptyWorkspace
<1>3. reply = "empty" => Empty(net)
  BY <1>1, <1>2 DEF Read
<1>4. pc = "workspace" /\ UNCHANGED <<attempted, new, before, restored>>
  BY DEF RequireEmptyWorkspace, runtime
<1> QED
  BY <1>2, <1>3, <1>4 DEF record, Goto, Stop, Failed

\* The capabilities lead to the first device.
LEMMA ModuleCapabilitiesLeads ==
    ASSUME Types, ModuleCapabilities
    PROVE  /\ pc = "capability"
           /\ UNCHANGED <<attempted, new, before, restored, items, entries, dirty>>
           /\ \/ UNCHANGED outcome /\ Begun("device", Device)
              \/ UNCHANGED outcome /\ pc' = "manifest" /\ Device = {}
              \/ Failed
<1>1. /\ pc = "capability"
      /\ UNCHANGED <<attempted, new, before, restored, items, entries, dirty>>
      /\ \/ UNCHANGED outcome /\ Device = {} /\ Goto("manifest", {})
         \/ UNCHANGED outcome /\ Device # {} /\ Goto("device", Device)
         \/ Stop
  BY DEF ModuleCapabilities, runtime, record
<1>2. ASSUME Device # {}, Goto("device", Device)
      PROVE  Begun("device", Device)
  BY <1>2, Numbers, GotoGoes DEF Begun
<1> QED
  BY <1>1, <1>2 DEF Goto, Stop, Failed

\* A device is there, is refused, or has to be created.
LEMMA EnsureDeviceLeads ==
    ASSUME Types, EnsureDevice
    PROVE  /\ pc = "device" /\ i \in Device
           /\ UNCHANGED <<attempted, new, before, restored>>
           /\ RecordOK'
           /\ \/ /\ items' = [items EXCEPT ![<<"device", i>>] = [status |-> "satisfied", applied |-> FALSE]]
                 /\ UNCHANGED outcome /\ (Onward("device", Device) \/ DevicesDone)
              \/ /\ items' = [items EXCEPT ![<<"device", i>>] = [status |-> "failed", applied |-> FALSE]]
                 /\ Failed
              \/ pc' = "create" /\ UNCHANGED <<i, items, outcome>>
<1>1. pc = "device" /\ i \in Device /\ UNCHANGED <<attempted, new, before, restored>>
  BY DEF EnsureDevice, runtime, Types, ControlOK
<1>2. \/ Satisfied(<<"device", i>>) /\ Advance("device", Device, AfterDevices)
      \/ Refused(<<"device", i>>, "failed")
      \/ pc' = "create" /\ UNCHANGED <<i, record>>
  BY DEF EnsureDevice
<1>3. CASE Satisfied(<<"device", i>>) /\ Advance("device", Device, AfterDevices)
  <2>1. RecordOK' /\ UNCHANGED outcome
    BY <1>3, AppliedType DEF Types
  <2>2. Onward("device", Device) \/ (AfterDevices /\ Past(Device))
    BY <1>1, <1>3, Numbers, LaterGoes DEF Advance, Goto, Onward, Past
  <2>3. Onward("device", Device) \/ DevicesDone
    BY <1>1, <2>2, AfterDevicesGoes DEF DevicesDone, Begun
  <2> QED
    BY <1>1, <1>3, <2>1, <2>3 DEF Satisfied, Settle
<1>4. CASE Refused(<<"device", i>>, "failed")
  <2>1. RecordOK' /\ Failed
    BY <1>4, RefusedType DEF Types, Failed
  <2> QED
    BY <1>1, <1>4, <2>1 DEF Refused, Settle
<1>5. CASE pc' = "create" /\ UNCHANGED <<i, record>>
  BY <1>1, <1>5 DEF record, Types, RecordOK
<1> QED
  BY <1>2, <1>3, <1>4, <1>5

\* A creation is an attempt, whatever comes back.
LEMMA CreateDeviceLeads ==
    ASSUME Types, CreateDevice
    PROVE  /\ pc = "create" /\ i \in Device
           /\ UNCHANGED <<before, restored>> /\ attempted' = attempted \cup {i}
           /\ RecordOK'
           /\ \/ /\ pc' = "prepare" /\ new' = new \cup {i} /\ UNCHANGED <<i, items, outcome>>
              \/ /\ items' = [items EXCEPT ![<<"device", i>>] = [status |-> "failed", applied |-> FALSE]]
                 /\ UNCHANGED new /\ Failed
<1>1. /\ pc = "create" /\ i \in Device
      /\ UNCHANGED <<before, restored>> /\ attempted' = attempted \cup {i}
  BY DEF CreateDevice, Types, ControlOK
<1>2. \/ new' = new \cup {i} /\ pc' = "prepare" /\ UNCHANGED <<i, record>>
      \/ \E disposition \in {"failed", "unknown"} :
            Refused(<<"device", i>>, disposition) /\ UNCHANGED new
  BY DEF CreateDevice
<1>3. CASE new' = new \cup {i} /\ pc' = "prepare" /\ UNCHANGED <<i, record>>
  BY <1>1, <1>3 DEF record, Types, RecordOK
<1>4. ASSUME NEW disposition \in {"failed", "unknown"}, Refused(<<"device", i>>, disposition)
      PROVE  /\ RecordOK' /\ Failed
             /\ items' = [items EXCEPT ![<<"device", i>>] = [status |-> "failed", applied |-> FALSE]]
  <2>1. RecordOK' /\ Failed
    BY <1>4, RefusedType DEF Types, Failed
  <2> QED
    BY <1>4, <2>1 DEF Refused, Settle
<1> QED
  BY <1>1, <1>2, <1>3, <1>4

\* A created device is prepared, or has failed although it is there.
LEMMA PrepareDeviceLeads ==
    ASSUME Types, PrepareDevice
    PROVE  /\ pc = "prepare" /\ i \in Device
           /\ UNCHANGED <<attempted, new, before, restored>>
           /\ RecordOK'
           /\ \/ /\ items' = [items EXCEPT ![<<"device", i>>] = [status |-> "applied", applied |-> TRUE]]
                 /\ UNCHANGED outcome /\ (Onward("device", Device) \/ DevicesDone)
              \/ /\ items' = [items EXCEPT ![<<"device", i>>] = [status |-> "failed", applied |-> TRUE]]
                 /\ Failed
<1>1. pc = "prepare" /\ i \in Device /\ UNCHANGED <<attempted, new, before, restored>>
  BY DEF PrepareDevice, runtime, Types, ControlOK
<1>2. \/ Applied(<<"device", i>>, TRUE) /\ Advance("device", Device, AfterDevices)
      \/ Settle(<<"device", i>>, "failed", TRUE) /\ Journal("failed", TRUE) /\ Stop
  BY DEF PrepareDevice
<1>3. CASE Applied(<<"device", i>>, TRUE) /\ Advance("device", Device, AfterDevices)
  <2>1. RecordOK' /\ UNCHANGED outcome
    BY <1>3, AppliedType DEF Types
  <2>2. Onward("device", Device) \/ (AfterDevices /\ Past(Device))
    BY <1>1, <1>3, Numbers, LaterGoes DEF Advance, Goto, Onward, Past
  <2>3. Onward("device", Device) \/ DevicesDone
    BY <1>1, <2>2, AfterDevicesGoes DEF DevicesDone, Begun
  <2> QED
    BY <1>1, <1>3, <2>1, <2>3 DEF Applied, Settle
<1>4. CASE Settle(<<"device", i>>, "failed", TRUE) /\ Journal("failed", TRUE) /\ Stop
  <2>1. items' \in [Target -> Item]
    BY <1>4, SettleType DEF Types
  <2>2. RecordOK' /\ Failed
    BY <1>4, <2>1, JournalType, StopType DEF Types, RecordOK, Failed
  <2> QED
    BY <1>1, <1>4, <2>2 DEF Settle
<1> QED
  BY <1>2, <1>3, <1>4

\* A module is there, is refused, or is plugged into a device that is new.
LEMMA EnsureModuleLeads ==
    ASSUME Types, EnsureModule
    PROVE  /\ pc = "module" /\ i \in Modular
           /\ UNCHANGED <<attempted, new, restored>>
           /\ \/ UNCHANGED before
              \/ \E reply \in Slot : before' = [before EXCEPT ![i] = reply]
           /\ RecordOK'
           /\ \/ /\ items' = [items EXCEPT ![<<"module", i>>] = [status |-> "satisfied", applied |-> FALSE]]
                 /\ UNCHANGED outcome
                 /\ Onward("module", Modular) \/ (Past(Modular) /\ Begun("observe_module", Modular))
              \/ /\ items' = [items EXCEPT ![<<"module", i>>] = [status |-> "failed", applied |-> FALSE]]
                 /\ Failed
              \/ pc' = "plug" /\ i \in new /\ UNCHANGED <<i, items, outcome>>
<1>1. pc = "module" /\ i \in Modular /\ UNCHANGED <<attempted, new, restored>>
  BY DEF EnsureModule, Types, ControlOK
<1>2. PICK reply \in Slot \cup {"silent"} :
        /\ before' = IF reply = "silent" THEN before ELSE [before EXCEPT ![i] = reply]
        /\ \/ /\ Satisfied(<<"module", i>>)
              /\ Advance("module", Modular, Goto("observe_module", Modular))
           \/ Refused(<<"module", i>>, "failed")
           \/ i \in new /\ pc' = "plug" /\ UNCHANGED <<i, record>>
  BY DEF EnsureModule
<1>3. UNCHANGED before \/ \E r \in Slot : before' = [before EXCEPT ![i] = r]
  BY <1>2
<1>4. CASE Satisfied(<<"module", i>>) /\ Advance("module", Modular, Goto("observe_module", Modular))
  <2>1. RecordOK' /\ UNCHANGED outcome
    BY <1>4, AppliedType DEF Types
  <2>2. Onward("module", Modular) \/ (Goto("observe_module", Modular) /\ Past(Modular))
    BY <1>1, <1>4, Numbers, LaterGoes DEF Advance, Goto, Onward, Past
  <2>3. Onward("module", Modular) \/ (Past(Modular) /\ Begun("observe_module", Modular))
    BY <1>1, <2>2, Numbers, GotoGoes DEF Begun
  <2> QED
    BY <1>1, <1>3, <1>4, <2>1, <2>3 DEF Satisfied, Settle
<1>5. CASE Refused(<<"module", i>>, "failed")
  <2>1. RecordOK' /\ Failed
    BY <1>5, RefusedType DEF Types, Failed
  <2> QED
    BY <1>1, <1>3, <1>5, <2>1 DEF Refused, Settle
<1>6. CASE i \in new /\ pc' = "plug" /\ UNCHANGED <<i, record>>
  BY <1>1, <1>3, <1>6 DEF record, Types, RecordOK
<1> QED
  BY <1>2, <1>4, <1>5, <1>6

\* Plugging a module and connecting a cable end alike.
LEMMA ActedLeads ==
    ASSUME Types, NEW kind, NEW phase, NEW observe, NEW S \in SUBSET Nat, i \in S,
           NEW reply \in MutationReply,
           IF reply = "acknowledged"
           THEN Applied(<<kind, i>>, FALSE) /\ Advance(phase, S, Goto(observe, S))
           ELSE Refused(<<kind, i>>, IF reply = "unknown" THEN "unknown" ELSE "failed")
    PROVE  /\ RecordOK'
           /\ \/ /\ items' = [items EXCEPT ![<<kind, i>>] = [status |-> "applied", applied |-> TRUE]]
                 /\ UNCHANGED outcome
                 /\ Onward(phase, S) \/ (Past(S) /\ Begun(observe, S))
              \/ /\ items' = [items EXCEPT ![<<kind, i>>] = [status |-> "failed", applied |-> FALSE]]
                 /\ Failed
<1>1. CASE reply = "acknowledged"
  <2>1. Applied(<<kind, i>>, FALSE) /\ Advance(phase, S, Goto(observe, S))
    BY <1>1
  <2>2. RecordOK' /\ UNCHANGED outcome
    BY <2>1, AppliedType DEF Types
  <2>3. Onward(phase, S) \/ (Goto(observe, S) /\ Past(S))
    BY <2>1, LaterGoes DEF Advance, Goto, Onward, Past
  <2>4. Onward(phase, S) \/ (Past(S) /\ Begun(observe, S))
    BY <2>3, GotoGoes DEF Begun
  <2> QED
    BY <2>1, <2>2, <2>4 DEF Applied, Settle
<1>2. CASE reply # "acknowledged"
  <2>1. PICK disposition \in {"failed", "unknown"} : Refused(<<kind, i>>, disposition)
    BY <1>2
  <2>2. RecordOK' /\ Failed
    BY <2>1, RefusedType DEF Types, Failed
  <2> QED
    BY <2>1, <2>2 DEF Refused, Settle
<1> QED
  BY <1>1, <1>2

\* A module was plugged, or the deployment ends.
LEMMA PlugModuleLeads ==
    ASSUME Types, PlugModule
    PROVE  /\ pc = "plug" /\ i \in Modular
           /\ UNCHANGED <<attempted, new, before, restored>>
           /\ RecordOK'
           /\ \/ /\ items' = [items EXCEPT ![<<"module", i>>] = [status |-> "applied", applied |-> TRUE]]
                 /\ UNCHANGED outcome
                 /\ Onward("module", Modular) \/ (Past(Modular) /\ Begun("observe_module", Modular))
              \/ /\ items' = [items EXCEPT ![<<"module", i>>] = [status |-> "failed", applied |-> FALSE]]
                 /\ Failed
<1>1. pc = "plug" /\ i \in Modular /\ UNCHANGED <<attempted, new, before, restored>>
  BY DEF PlugModule, runtime, Types, ControlOK
<1>2. PICK reply \in MutationReply :
        IF reply = "acknowledged"
        THEN Applied(<<"module", i>>, FALSE) /\ Advance("module", Modular, Goto("observe_module", Modular))
        ELSE Refused(<<"module", i>>, IF reply = "unknown" THEN "unknown" ELSE "failed")
  BY DEF PlugModule
<1> QED
  BY <1>1, <1>2, Numbers, ActedLeads

\* A cable was put, or the deployment ends.
LEMMA CableLinkLeads ==
    ASSUME Types, CableLink
    PROVE  /\ pc = "cable" /\ i \in Link
           /\ UNCHANGED <<attempted, new, before, restored>>
           /\ RecordOK'
           /\ \/ /\ items' = [items EXCEPT ![<<"link", i>>] = [status |-> "applied", applied |-> TRUE]]
                 /\ UNCHANGED outcome
                 /\ Onward("link", Link) \/ (Past(Link) /\ Begun("observe_link", Link))
              \/ /\ items' = [items EXCEPT ![<<"link", i>>] = [status |-> "failed", applied |-> FALSE]]
                 /\ Failed
<1>1. pc = "cable" /\ i \in Link /\ UNCHANGED <<attempted, new, before, restored>>
  BY DEF CableLink, runtime, Types, ControlOK
<1>2. PICK reply \in MutationReply :
        IF reply = "acknowledged"
        THEN Applied(<<"link", i>>, FALSE) /\ Advance("link", Link, Goto("observe_link", Link))
        ELSE Refused(<<"link", i>>, IF reply = "unknown" THEN "unknown" ELSE "failed")
  BY DEF CableLink
<1> QED
  BY <1>1, <1>2, Numbers, ActedLeads

\* A link is there, is refused, or has to be cabled.
LEMMA EnsureLinkLeads ==
    ASSUME Types, EnsureLink
    PROVE  /\ pc = "link" /\ i \in Link
           /\ UNCHANGED <<attempted, new, before, restored>>
           /\ RecordOK'
           /\ \/ /\ items' = [items EXCEPT ![<<"link", i>>] = [status |-> "satisfied", applied |-> FALSE]]
                 /\ UNCHANGED outcome
                 /\ Onward("link", Link) \/ (Past(Link) /\ Begun("observe_link", Link))
              \/ /\ items' = [items EXCEPT ![<<"link", i>>] = [status |-> "failed", applied |-> FALSE]]
                 /\ Failed
              \/ pc' = "cable" /\ UNCHANGED <<i, items, outcome>>
<1>1. pc = "link" /\ i \in Link /\ UNCHANGED <<attempted, new, before, restored>>
  BY DEF EnsureLink, runtime, Types, ControlOK
<1>2. \/ Satisfied(<<"link", i>>) /\ Advance("link", Link, Goto("observe_link", Link))
      \/ Refused(<<"link", i>>, "failed")
      \/ pc' = "cable" /\ UNCHANGED <<i, record>>
  BY DEF EnsureLink
<1>3. CASE Satisfied(<<"link", i>>) /\ Advance("link", Link, Goto("observe_link", Link))
  <2>1. RecordOK' /\ UNCHANGED outcome
    BY <1>3, AppliedType DEF Types
  <2>2. Onward("link", Link) \/ (Goto("observe_link", Link) /\ Past(Link))
    BY <1>1, <1>3, Numbers, LaterGoes DEF Advance, Goto, Onward, Past
  <2>3. Onward("link", Link) \/ (Past(Link) /\ Begun("observe_link", Link))
    BY <1>1, <2>2, Numbers, GotoGoes DEF Begun
  <2> QED
    BY <1>1, <1>3, <2>1, <2>3 DEF Satisfied, Settle
<1>4. CASE Refused(<<"link", i>>, "failed")
  <2>1. RecordOK' /\ Failed
    BY <1>4, RefusedType DEF Types, Failed
  <2> QED
    BY <1>1, <1>4, <2>1 DEF Refused, Settle
<1>5. CASE pc' = "cable" /\ UNCHANGED <<i, record>>
  BY <1>1, <1>5 DEF record, Types, RecordOK
<1> QED
  BY <1>2, <1>3, <1>4, <1>5

\* What has been seen of one of a phase, and where that leads.
Seen(kind, ok) ==
    items' = [items EXCEPT ![<<kind, i>>] = [status |-> IF ok THEN "observed" ELSE "failed",
                                             applied |-> items[<<kind, i>>].applied]]
NoneFailed(kind, S) == \A x \in S : items'[<<kind, x>>].status # "failed"

\* An observation leads to the next, or past them all when none has failed.
LEMMA ObservedLeads ==
    ASSUME Types, NEW kind, NEW S \in SUBSET Nat, i \in S, NEW ok \in BOOLEAN,
           NEW next \in BOOLEAN, <<kind, i>> \in Target, Observed(kind, S, ok, next)
    PROVE  /\ RecordOK' /\ Seen(kind, ok)
           /\ \/ Onward(pc, S) /\ UNCHANGED outcome
              \/ next /\ Past(S) /\ NoneFailed(kind, S) /\ UNCHANGED outcome
              \/ Failed
<1>1. RecordOK'
  BY ObservedType DEF Types
<1>2. Seen(kind, ok)
  BY DEF Observed, Settle, Seen
<1>3. CASE Later(S) # {}
  <2>1. pc' = pc /\ i' = First(Later(S)) /\ UNCHANGED outcome
    BY <1>3 DEF Observed
  <2> QED
    BY <1>1, <1>2, <1>3, <2>1, LaterGoes DEF Onward
<1>4. CASE Later(S) = {}
  <2>1. Past(S)
    BY <1>4, LaterGoes DEF Past
  <2>2. Stop \/ (next /\ NoneFailed(kind, S) /\ UNCHANGED outcome)
    BY <1>4 DEF Observed, NoneFailed
  <2> QED
    BY <1>1, <1>2, <2>1, <2>2 DEF Stop, Failed
<1> QED
  BY <1>3, <1>4

\* A module that is seen is in its slot.
LEMMA ObserveModuleLeads ==
    ASSUME Types, QueueInv, ObserveModule
    PROVE  /\ pc = "observe_module" /\ i \in Modular
           /\ UNCHANGED <<attempted, new, before, restored>>
           /\ RecordOK'
           /\ \E ok \in BOOLEAN : Seen("module", ok) /\ (ok => net.slot[i] = "expected")
           /\ \/ Onward("observe_module", Modular) /\ UNCHANGED outcome
              \/ /\ Begun("observe_device", Device) /\ Past(Modular)
                 /\ NoneFailed("module", Modular) /\ UNCHANGED outcome
              \/ Failed
<1>1. pc = "observe_module" /\ i \in Modular /\ UNCHANGED <<attempted, new, before, restored>>
  BY DEF ObserveModule, runtime, Types, ControlOK
<1>2. late = <<>>
  BY <1>1 DEF QueueInv, Sending
<1>3. PICK reply \in Slot \cup {"silent"} :
        /\ ReadSlot(i, reply)
        /\ Observed("module", Modular, ModuleEffect(reply), Goto("observe_device", Device))
  BY DEF ObserveModule
<1> DEFINE ok == ModuleEffect(reply)
           next == Goto("observe_device", Device)
<1>4. ok \in BOOLEAN /\ next \in BOOLEAN
  BY DEF ModuleEffect, Goto
<1>5. ok => net.slot[i] = "expected"
  BY <1>2, <1>3 DEF ModuleEffect, ReadSlot, Read
<1>6. next => Begun("observe_device", Device)
  <2>1. Device # {}
    BY <1>1, Numbers
  <2> QED
    BY <2>1, Numbers, GotoGoes DEF Begun
<1>7. Observed("module", Modular, ok, next)
  BY <1>3
<1> HIDE DEF ok, next
<1>8. /\ RecordOK' /\ Seen("module", ok)
      /\ \/ Onward(pc, Modular) /\ UNCHANGED outcome
         \/ next /\ Past(Modular) /\ NoneFailed("module", Modular) /\ UNCHANGED outcome
         \/ Failed
  BY <1>1, <1>4, <1>7, Numbers, TargetsOfKinds, ObservedLeads
<1> QED
  BY <1>1, <1>4, <1>5, <1>6, <1>8

\* A device that is seen is the one of the plan.
LEMMA ObserveDeviceLeads ==
    ASSUME Types, QueueInv, ObserveDevice
    PROVE  /\ pc = "observe_device" /\ i \in Device
           /\ UNCHANGED <<attempted, new, before, restored>>
           /\ RecordOK'
           /\ \E ok \in BOOLEAN : Seen("device", ok) /\ (ok => Exact(net, i))
           /\ \/ Onward("observe_device", Device) /\ UNCHANGED outcome
              \/ /\ Begun("link", Link) \/ (pc' = "manifest" /\ Link = {})
                 /\ Past(Device) /\ NoneFailed("device", Device) /\ UNCHANGED outcome
              \/ Failed
<1>1. pc = "observe_device" /\ i \in Device /\ UNCHANGED <<attempted, new, before, restored>>
  BY DEF ObserveDevice, runtime, Types, ControlOK
<1>2. late = <<>>
  BY <1>1 DEF QueueInv, Sending
<1>3. PICK reply \in DeviceReply, ports \in BOOLEAN :
        /\ ReadDevice(i, reply)
        /\ Observed("device", Device, reply = "exact" /\ ports, AfterObserving)
  BY DEF ObserveDevice
<1> DEFINE ok == reply = "exact" /\ ports
           next == AfterObserving
<1>4. ok \in BOOLEAN /\ next \in BOOLEAN
  BY DEF AfterObserving, Goto
<1>5. ok => Exact(net, i)
  BY <1>2, <1>3 DEF ReadDevice, Read, Exact
<1>6. next => Begun("link", Link) \/ (pc' = "manifest" /\ Link = {})
  BY AfterObservingGoes DEF Begun
<1>7. Observed("device", Device, ok, next)
  BY <1>3
<1> HIDE DEF ok, next
<1>8. /\ RecordOK' /\ Seen("device", ok)
      /\ \/ Onward(pc, Device) /\ UNCHANGED outcome
         \/ next /\ Past(Device) /\ NoneFailed("device", Device) /\ UNCHANGED outcome
         \/ Failed
  BY <1>1, <1>4, <1>7, Numbers, TargetsOfKinds, ObservedLeads
<1> QED
  BY <1>1, <1>4, <1>5, <1>6, <1>8

\* A link that is seen is cabled.
LEMMA ObserveLinkLeads ==
    ASSUME Types, QueueInv, ObserveLink
    PROVE  /\ pc = "observe_link" /\ i \in Link
           /\ UNCHANGED <<attempted, new, before, restored>>
           /\ RecordOK'
           /\ \E ok \in BOOLEAN : Seen("link", ok) /\ (ok => i \in net.cabled)
           /\ \/ Onward("observe_link", Link) /\ UNCHANGED outcome
              \/ /\ pc' = "manifest"
                 /\ Past(Link) /\ NoneFailed("link", Link) /\ UNCHANGED outcome
              \/ Failed
<1>1. pc = "observe_link" /\ i \in Link /\ UNCHANGED <<attempted, new, before, restored>>
  BY DEF ObserveLink, runtime, Types, ControlOK
<1>2. late = <<>>
  BY <1>1 DEF QueueInv, Sending
<1>3. PICK reply \in LinkReply :
        /\ ReadLink(i, reply)
        /\ Observed("link", Link, reply = "exact", Goto("manifest", {}))
  BY DEF ObserveLink
<1> DEFINE ok == reply = "exact"
           next == Goto("manifest", {})
<1>4. ok \in BOOLEAN /\ next \in BOOLEAN
  BY DEF Goto
<1>5. ok => i \in net.cabled
  BY <1>2, <1>3 DEF ReadLink, Read
<1>6. next => pc' = "manifest"
  BY DEF Goto
<1>7. Observed("link", Link, ok, next)
  BY <1>3
<1> HIDE DEF ok, next
<1>8. /\ RecordOK' /\ Seen("link", ok)
      /\ \/ Onward(pc, Link) /\ UNCHANGED outcome
         \/ next /\ Past(Link) /\ NoneFailed("link", Link) /\ UNCHANGED outcome
         \/ Failed
  BY <1>1, <1>4, <1>7, Numbers, TargetsOfKinds, ObservedLeads
<1> QED
  BY <1>1, <1>4, <1>5, <1>6, <1>8

\* VERIFIED comes from the manifest only.
LEMMA BuildManifestLeads ==
    ASSUME Types, BuildManifest
    PROVE  /\ pc = "manifest"
           /\ UNCHANGED <<attempted, new, before, restored, items>>
           /\ RecordOK'
           /\ \/ pc' = "finished" /\ outcome' = "verified"
              \/ Failed
<1>1. pc = "manifest" /\ UNCHANGED <<attempted, new, before, restored, items>>
  BY DEF BuildManifest, runtime
<1>2. \/ pc' = "finished" /\ outcome' = "verified" /\ UNCHANGED <<entries, dirty>>
      \/ Journal("failed", FALSE) /\ Failed
  BY DEF BuildManifest, Stop, Failed
<1>3. RecordOK'
  BY <1>1, <1>2, JournalType DEF Types, RecordOK, Failed
<1> QED
  BY <1>1, <1>2, <1>3

\* The cleanup records nothing of the deployment.
LEMMA BeginCleanupLeads ==
    ASSUME BeginCleanup
    PROVE  /\ pc = "finished" /\ exclusive
           /\ UNCHANGED <<attempted, new, before, restored, items, entries, dirty, outcome>>
           /\ \/ pc' = "first_inventory" /\ Owned = {}
              \/ pc' = "removal" /\ i' \in Owned
<1>1. Owned \in SUBSET Device
  BY DEF Owned
<1> QED
  BY <1>1, DescendGoes DEF BeginCleanup, runtime, record

\* The cleanup looks at a device before it removes it.
LEMMA RemovalReadbackLeads ==
    ASSUME RemovalReadback
    PROVE  /\ pc = "removal"
           /\ UNCHANGED <<before, restored, items, entries, dirty, outcome>>
           /\ UNCHANGED <<attempted, new>> \/ Forget
           /\ \/ pc' = "first_inventory"
              \/ pc' = "removal" /\ i' \in Owned
              \/ pc' = "remove" /\ UNCHANGED i
<1>1. Below \in SUBSET Device /\ Below \subseteq Owned
  BY DEF Below, Owned
<1>2. /\ pc = "removal"
      /\ UNCHANGED <<before, restored, items, entries, dirty, outcome>>
      /\ UNCHANGED <<attempted, new>> \/ Forget
      /\ Descend(Below) \/ (pc' = "remove" /\ UNCHANGED i)
  BY DEF RemovalReadback, record
<1> QED
  BY <1>1, <1>2, DescendGoes

\* It removes one device, and goes on to the next or to the inventory.
LEMMA RemoveDeviceLeads ==
    ASSUME RemoveDevice
    PROVE  /\ pc = "remove"
           /\ UNCHANGED <<before, restored, items, entries, dirty, outcome>>
           /\ UNCHANGED <<attempted, new>> \/ Forget
           /\ \/ pc' = "first_inventory"
              \/ pc' = "removal" /\ i' \in Owned
<1>1. Below \in SUBSET Device /\ Below \subseteq Owned
  BY DEF Below, Owned
<1>2. /\ pc = "remove"
      /\ UNCHANGED <<before, restored, items, entries, dirty, outcome>>
      /\ UNCHANGED <<attempted, new>> \/ Forget
      /\ Descend(Below)
  BY DEF RemoveDevice, record
<1> QED
  BY <1>1, <1>2, DescendGoes

\* A restoration takes two inventories.
LEMMA InventoriesLead ==
    ASSUME FirstInventory \/ SecondInventory
    PROVE  /\ \/ pc = "first_inventory" /\ pc' = "second_inventory" /\ restored' \in {"once", "no"}
              \/ pc = "second_inventory" /\ pc' = "over" /\ restored' \in {"yes", "no"}
           /\ UNCHANGED <<i, attempted, new, before, items, entries, dirty, outcome>>
  BY DEF FirstInventory, SecondInventory, runtime, record

\* A command that runs late changes nothing the deployment knows.
LEMMA RunLateLeads ==
    ASSUME RunLate
    PROVE  UNCHANGED <<attempted, new, before, items, entries, dirty, outcome, pc, i, restored>>
  BY DEF RunLate, runtime, record, control

-----------------------------------------------------------------------------
(* Each part of the invariant is kept by every step.                          *)

\* Where a step leads is somewhere, and its device, module or link is one.
LEMMA ControlStep ==
    ASSUME Types, QueueInv, Next
    PROVE  Types'
<1> USE DEF Onward, Begun, Failed, DevicesDone
<1>1. CASE Preflight
  <2>1. RecordOK'
    BY <1>1, PreflightLeads DEF Types, RecordOK
  <2>2. ControlOK'
    BY <1>1, PreflightLeads DEF Types, ControlOK, Early, Sending, Cleaning, Owned
  <2> QED
    BY <2>1, <2>2 DEF Types
<1>2. CASE RequireEmptyWorkspace
  <2>1. RecordOK'
    BY <1>2, RequireEmptyWorkspaceLeads DEF Types, RecordOK
  <2>2. ControlOK'
    BY <1>2, RequireEmptyWorkspaceLeads DEF Types, ControlOK, Early, Sending, Cleaning, Owned
  <2> QED
    BY <2>1, <2>2 DEF Types
<1>3. CASE ModuleCapabilities
  <2>1. RecordOK'
    BY <1>3, ModuleCapabilitiesLeads DEF Types, RecordOK
  <2>2. ControlOK'
    BY <1>3, ModuleCapabilitiesLeads DEF Types, ControlOK, Early, Sending, Cleaning, Owned
  <2> QED
    BY <2>1, <2>2 DEF Types
<1>4. CASE EnsureDevice
  <2>1. RecordOK'
    BY <1>4, EnsureDeviceLeads
  <2>2. ControlOK'
    BY <1>4, EnsureDeviceLeads DEF Types, ControlOK, Early, Sending, Cleaning, Owned
  <2> QED
    BY <2>1, <2>2 DEF Types
<1>5. CASE CreateDevice
  <2>1. RecordOK'
    BY <1>5, CreateDeviceLeads
  <2>2. ControlOK'
    BY <1>5, CreateDeviceLeads DEF Types, ControlOK, Early, Sending, Cleaning, Owned
  <2> QED
    BY <2>1, <2>2 DEF Types
<1>6. CASE PrepareDevice
  <2>1. RecordOK'
    BY <1>6, PrepareDeviceLeads
  <2>2. ControlOK'
    BY <1>6, PrepareDeviceLeads DEF Types, ControlOK, Early, Sending, Cleaning, Owned
  <2> QED
    BY <2>1, <2>2 DEF Types
<1>7. CASE EnsureModule
  <2>1. RecordOK'
    BY <1>7, EnsureModuleLeads
  <2>2. ControlOK'
    BY <1>7, EnsureModuleLeads DEF Types, ControlOK, Early, Sending, Cleaning, Owned
  <2> QED
    BY <2>1, <2>2 DEF Types
<1>8. CASE PlugModule
  <2>1. RecordOK'
    BY <1>8, PlugModuleLeads
  <2>2. ControlOK'
    BY <1>8, PlugModuleLeads DEF Types, ControlOK, Early, Sending, Cleaning, Owned
  <2> QED
    BY <2>1, <2>2 DEF Types
<1>9. CASE ObserveModule
  <2>1. RecordOK'
    BY <1>9, ObserveModuleLeads
  <2>2. ControlOK'
    BY <1>9, ObserveModuleLeads DEF Types, ControlOK, Early, Sending, Cleaning, Owned
  <2> QED
    BY <2>1, <2>2 DEF Types
<1>10. CASE ObserveDevice
  <2>1. RecordOK'
    BY <1>10, ObserveDeviceLeads
  <2>2. ControlOK'
    BY <1>10, ObserveDeviceLeads DEF Types, ControlOK, Early, Sending, Cleaning, Owned
  <2> QED
    BY <2>1, <2>2 DEF Types
<1>11. CASE EnsureLink
  <2>1. RecordOK'
    BY <1>11, EnsureLinkLeads
  <2>2. ControlOK'
    BY <1>11, EnsureLinkLeads DEF Types, ControlOK, Early, Sending, Cleaning, Owned
  <2> QED
    BY <2>1, <2>2 DEF Types
<1>12. CASE CableLink
  <2>1. RecordOK'
    BY <1>12, CableLinkLeads
  <2>2. ControlOK'
    BY <1>12, CableLinkLeads DEF Types, ControlOK, Early, Sending, Cleaning, Owned
  <2> QED
    BY <2>1, <2>2 DEF Types
<1>13. CASE ObserveLink
  <2>1. RecordOK'
    BY <1>13, ObserveLinkLeads
  <2>2. ControlOK'
    BY <1>13, ObserveLinkLeads DEF Types, ControlOK, Early, Sending, Cleaning, Owned
  <2> QED
    BY <2>1, <2>2 DEF Types
<1>14. CASE BuildManifest
  <2>1. RecordOK'
    BY <1>14, BuildManifestLeads
  <2>2. ControlOK'
    BY <1>14, BuildManifestLeads DEF Types, ControlOK, Early, Sending, Cleaning, Owned
  <2> QED
    BY <2>1, <2>2 DEF Types
<1>15. CASE BeginCleanup
  <2>1. RecordOK'
    BY <1>15, BeginCleanupLeads DEF Types, RecordOK
  <2>2. ControlOK'
    BY <1>15, BeginCleanupLeads DEF Types, ControlOK, Early, Sending, Cleaning, Owned
  <2> QED
    BY <2>1, <2>2 DEF Types
<1>16. CASE RemovalReadback
  <2>1. RecordOK'
    BY <1>16, RemovalReadbackLeads DEF Types, RecordOK
  <2>2. ControlOK'
    BY <1>16, RemovalReadbackLeads DEF Types, ControlOK, Early, Sending, Cleaning, Owned
  <2> QED
    BY <2>1, <2>2 DEF Types
<1>17. CASE RemoveDevice
  <2>1. RecordOK'
    BY <1>17, RemoveDeviceLeads DEF Types, RecordOK
  <2>2. ControlOK'
    BY <1>17, RemoveDeviceLeads DEF Types, ControlOK, Early, Sending, Cleaning, Owned
  <2> QED
    BY <2>1, <2>2 DEF Types
<1>18. CASE FirstInventory \/ SecondInventory
  BY <1>18, InventoriesLead DEF Types, RecordOK, ControlOK, Early, Sending, Cleaning
<1>19. CASE RunLate
  BY <1>19, RunLateLeads DEF Types, RecordOK, ControlOK
<1> QED
  BY <1>1, <1>2, <1>3, <1>4, <1>5, <1>6, <1>7, <1>8, <1>9, <1>10, <1>11, <1>12, <1>13, <1>14, <1>15, <1>16, <1>17, <1>18, <1>19 DEF Next

\* The types of everything.
LEMMA TypeStep ==
    ASSUME TypeOK, QueueInv, Next
    PROVE  TypeOK'
<1>1. Types'
  BY ControlStep, TypesFromTypeOK
<1>2. exclusive' \in BOOLEAN /\ base' \in Workspace /\ net' \in Workspace /\ late' \in Seq(Command)
  BY WorldType DEF TypeOK
<1>3. Types
  BY TypesFromTypeOK
<1>4. attempted' \subseteq Device /\ new' \subseteq attempted'
  <2>1. CASE Reading \/ RunLate \/ FirstInventory \/ SecondInventory
    <3>1. UNCHANGED <<attempted, new>>
      BY <1>3, <2>1, PreflightLeads, RequireEmptyWorkspaceLeads, ModuleCapabilitiesLeads,
         EnsureDeviceLeads, PrepareDeviceLeads, EnsureModuleLeads, ObserveModuleLeads,
         ObserveDeviceLeads, EnsureLinkLeads, ObserveLinkLeads, BuildManifestLeads,
         BeginCleanupLeads, InventoriesLead, RunLateLeads DEF Reading
    <3> QED
      BY <3>1 DEF TypeOK
  <2>2. CASE CreateDevice
    BY <1>3, <2>2, CreateDeviceLeads DEF TypeOK
  <2>3. CASE PlugModule
    BY <1>3, <2>3, PlugModuleLeads DEF TypeOK
  <2>4. CASE CableLink
    BY <1>3, <2>4, CableLinkLeads DEF TypeOK
  <2>5. CASE RemovalReadback \/ RemoveDevice
    BY <2>5, RemovalReadbackLeads, RemoveDeviceLeads DEF TypeOK, Forget
  <2> QED
    BY <2>1, <2>2, <2>3, <2>4, <2>5, Steps DEF Acting, Looking
<1>5. before' \in [Modular -> Slot]
  <2>1. CASE EnsureModule
    BY <1>3, <2>1, EnsureModuleLeads DEF TypeOK
  <2>2. CASE ~EnsureModule
    <3>1. UNCHANGED before
      BY <1>3, <2>2, PreflightLeads, RequireEmptyWorkspaceLeads, ModuleCapabilitiesLeads,
         EnsureDeviceLeads, PrepareDeviceLeads, ObserveModuleLeads, CreateDeviceLeads,
         ObserveDeviceLeads, EnsureLinkLeads, ObserveLinkLeads, BuildManifestLeads,
         PlugModuleLeads, CableLinkLeads, RemovalReadbackLeads, RemoveDeviceLeads,
         BeginCleanupLeads, InventoriesLead, RunLateLeads DEF Next
    <3> QED
      BY <3>1 DEF TypeOK
  <2> QED
    BY <2>1, <2>2
<1>6. restored' \in {"none", "once", "no", "yes"}
  <2>1. CASE FirstInventory \/ SecondInventory
    BY <2>1, InventoriesLead
  <2>2. CASE ~(FirstInventory \/ SecondInventory)
    <3>1. UNCHANGED restored
      BY <1>3, <2>2, PreflightLeads, RequireEmptyWorkspaceLeads, ModuleCapabilitiesLeads,
         EnsureDeviceLeads, PrepareDeviceLeads, EnsureModuleLeads, ObserveModuleLeads,
         CreateDeviceLeads, ObserveDeviceLeads, EnsureLinkLeads, ObserveLinkLeads,
         BuildManifestLeads, PlugModuleLeads, CableLinkLeads, RemovalReadbackLeads,
         RemoveDeviceLeads, BeginCleanupLeads, RunLateLeads DEF Next
    <3> QED
      BY <3>1 DEF TypeOK
  <2> QED
    BY <2>1, <2>2
<1> QED
  BY <1>1, <1>2, <1>4, <1>5, <1>6 DEF TypeOK, Types, RecordOK, ControlOK

\* From the deployment to its end, and from there to the cleanup.
LEMMA Courses ==
    ASSUME TypeOK, QueueInv
    PROVE  /\ Reading => \/ /\ pc \in Early \cup Sending /\ ~BeginCleanup
                            /\ pc' \in Early \cup Sending \cup {"finished"}
                         \/ BeginCleanup /\ pc = "finished" /\ pc' \in Cleaning
           /\ Acting => pc \in Sending /\ pc' \in Sending \cup {"finished"}
           /\ Looking \/ RemoveDevice => pc \in Cleaning /\ pc' \in Cleaning
<1>1. Types
  BY TypesFromTypeOK
<1>2. Reading /\ pc # "finished" => pc' \in Early \cup Sending \cup {"finished"}
  BY <1>1, PreflightLeads, RequireEmptyWorkspaceLeads, ModuleCapabilitiesLeads,
     EnsureDeviceLeads, PrepareDeviceLeads, EnsureModuleLeads, ObserveModuleLeads,
     ObserveDeviceLeads, EnsureLinkLeads, ObserveLinkLeads, BuildManifestLeads,
     BeginCleanupLeads
     DEF Reading, Early, Sending, Onward, Begun, Failed, DevicesDone
<1>3. Reading => \/ pc \in Early \cup Sending /\ ~BeginCleanup
                 \/ BeginCleanup /\ pc = "finished" /\ pc' \in Cleaning
  BY <1>1, PreflightLeads, RequireEmptyWorkspaceLeads, ModuleCapabilitiesLeads,
     EnsureDeviceLeads, PrepareDeviceLeads, EnsureModuleLeads, ObserveModuleLeads,
     ObserveDeviceLeads, EnsureLinkLeads, ObserveLinkLeads, BuildManifestLeads,
     BeginCleanupLeads
     DEF Reading, Early, Sending, Cleaning
<1>4. Acting => pc \in Sending /\ pc' \in Sending \cup {"finished"}
  BY <1>1, CreateDeviceLeads, PlugModuleLeads, CableLinkLeads
     DEF Acting, Sending, Onward, Begun, Failed
<1>5. Looking \/ RemoveDevice => pc \in Cleaning /\ pc' \in Cleaning
  BY RemovalReadbackLeads, RemoveDeviceLeads, InventoriesLead DEF Looking, Cleaning
<1>6. "finished" \notin Early \cup Sending
  BY DEF Early, Sending
<1> QED
  BY <1>2, <1>3, <1>4, <1>5, <1>6

\* The phases are apart.
LEMMA Phases ==
    /\ (Early \cup Sending \cup {"finished"}) \cap Cleaning = {}
    /\ Early \cap Sending = {} /\ "finished" \notin Early \cup Sending
  BY DEF Early, Sending, Cleaning

\* Nothing is queued while a step waits, and one command at most when it has
\* ended.
LEMMA QueueStep ==
    ASSUME TypeOK, QueueInv, Next
    PROVE  QueueInv'
<1>1. late \in Seq(Command)
  BY DEF TypeOK
<1>2. CASE Reading
  <2>1. UNCHANGED <<exclusive, late>>
    BY <1>2, ReadingLeaves
  <2>2. BeginCleanup => exclusive
    BY BeginCleanupLeads
  <2> QED
    BY <1>2, <2>1, <2>2, Courses, Phases DEF QueueInv
<1>3. CASE Acting
  <2>1. pc' \notin Cleaning /\ Planned[1] # "remove"
    BY <1>3, Courses, Phases DEF Planned
  <2>2. CASE late' = <<>>
    BY <2>1, <2>2 DEF QueueInv
  <2>3. CASE pc' = "finished" /\ late' = <<Planned>>
    BY <2>1, <2>3, Phases DEF QueueInv
  <2> QED
    BY <1>3, <2>2, <2>3, ActingSends
<1>4. CASE Looking
  <2>1. pc \in Cleaning /\ pc' \in Cleaning /\ UNCHANGED exclusive /\ (late' = late \/ late' = <<>>)
    BY <1>4, Courses, LookingRuns
  <2> QED
    BY <2>1, Phases DEF QueueInv
<1>5. CASE RemoveDevice
  <2>1. pc \in Cleaning /\ pc' \in Cleaning /\ UNCHANGED exclusive
    BY <1>5, Courses, RemovingSends
  <2>2. CASE late' = late
    BY <2>1, <2>2, Phases DEF QueueInv
  <2>3. CASE late' = Append(late, <<"remove", i>>)
    <3>1. <<"remove", i>> \in Command
      BY <1>5, RemovingSends
    <3>2. /\ Len(late') = Len(late) + 1
          /\ \A k \in 1..Len(late) : late'[k] = late[k]
          /\ late'[Len(late) + 1] = <<"remove", i>>
      BY <1>1, <2>3, <3>1
    <3>3. ASSUME NEW k \in 2..Len(late')
          PROVE  late'[k][1] = "remove"
      <4>1. k \in 2..Len(late) \/ k = Len(late) + 1
        BY <1>1, <3>2
      <4>2. k \in 2..Len(late) => late'[k] = late[k]
        BY <1>1, <3>2
      <4> QED
        BY <3>2, <4>1, <4>2 DEF QueueInv
    <3> QED
      BY <2>1, <3>3, Phases DEF QueueInv
  <2> QED
    BY <1>5, <2>2, <2>3, RemovingSends
<1>6. CASE RunLate
  <2>1. /\ late # <<>> /\ late' = Tail(late) /\ UNCHANGED <<pc, exclusive>>
    BY <1>6, RunLateLeads DEF RunLate
  <2>2. /\ Len(late') = Len(late) - 1
        /\ \A k \in 1..Len(late') : late'[k] = late[k + 1] /\ k + 1 \in 2..Len(late)
    BY <1>1, <2>1
  <2>3. \A k \in 1..Len(late') : late'[k][1] = "remove"
    BY <2>2 DEF QueueInv
  <2>4. pc \notin Early \cup Sending
    BY <2>1 DEF QueueInv
  <2>5. \A k \in 2..Len(late') : k \in 1..Len(late')
    OBVIOUS
  <2>6. pc \notin Cleaning => \A k \in 1..Len(late') : late'[k][1] # "remove"
    <3>1. \A k \in 1..Len(late') : k + 1 \in 1..Len(late)
      BY <1>1, <2>2
    <3> QED
      BY <2>2, <3>1 DEF QueueInv
  <2> QED
    BY <2>1, <2>3, <2>4, <2>5, <2>6 DEF QueueInv
<1> QED
  BY <1>2, <1>3, <1>4, <1>5, <1>6, Steps

\* An item that is settled stays so.
LEMMA OwnedGrows ==
    ASSUME Types, NEW t, NEW status \in {"failed", "satisfied", "applied", "observed"},
           NEW applied, items' = [items EXCEPT ![t] = [status |-> status, applied |-> applied]]
    PROVE  /\ Owned \subseteq Owned'
           /\ \A d \in Device : t = <<"device", d>> => d \in Owned'
<1>1. \A x \in Target : x # t => items'[x] = items[x]
  BY DEF Types, RecordOK
<1>2. t \in Target => items'[t].status = status
  BY DEF Types, RecordOK
<1> QED
  BY <1>1, <1>2, TargetsOfKinds DEF Owned

\* What is owned stays owned, and a creation is owned at once.
LEMMA OwnedStep ==
    ASSUME TypeOK, QueueInv, Next
    PROVE  /\ Owned \subseteq Owned'
           /\ pc \in Early => Owned' = Owned
           /\ PrepareDevice => i \in Owned'
           /\ CreateDevice /\ pc' = "finished" => i \in Owned'
<1>1. Types
  BY TypesFromTypeOK
<1>2. UNCHANGED items => Owned' = Owned
  BY DEF Owned
<1>3. CASE pc \in Early
  <2>1. Preflight \/ RequireEmptyWorkspace \/ ModuleCapabilities \/ RunLate
    BY <1>1, <1>3, Courses, Steps, Phases, EnsureDeviceLeads, PrepareDeviceLeads,
       EnsureModuleLeads, ObserveModuleLeads, ObserveDeviceLeads, EnsureLinkLeads,
       ObserveLinkLeads, BuildManifestLeads, BeginCleanupLeads DEF Reading, Early
  <2>2. UNCHANGED items /\ pc \notin {"prepare", "create"}
    BY <1>1, <1>3, <2>1, PreflightLeads, RequireEmptyWorkspaceLeads, ModuleCapabilitiesLeads,
       RunLateLeads DEF Early
  <2> QED
    BY <1>1, <1>2, <2>2, PrepareDeviceLeads, CreateDeviceLeads
<1>4. CASE pc \notin Early
  <2> SUFFICES /\ Owned \subseteq Owned'
               /\ PrepareDevice => i \in Owned'
               /\ CreateDevice /\ pc' = "finished" => i \in Owned'
    BY <1>4
  <2>1. (PrepareDevice => pc = "prepare") /\ (CreateDevice => pc = "create")
    BY DEF PrepareDevice, CreateDevice
  <2>2. CASE EnsureDevice
    <3>1. pc = "device" /\ RecordOK'
      BY <1>1, <2>2, EnsureDeviceLeads
    <3>2. \/ UNCHANGED items
          \/ \E status \in {"satisfied", "failed"}, applied \in BOOLEAN :
                items' = [items EXCEPT ![<<"device", i>>] = [status |-> status, applied |-> applied]]
      BY <1>1, <2>2, EnsureDeviceLeads
    <3>3. Owned \subseteq Owned'
      BY <1>1, <1>2, <3>2, OwnedGrows
    <3> QED
      BY <2>1, <3>1, <3>3
  <2>3. CASE EnsureModule
    <3>1. pc = "module" /\ RecordOK'
      BY <1>1, <2>3, EnsureModuleLeads
    <3>2. \/ UNCHANGED items
          \/ \E status \in {"satisfied", "failed"}, applied \in BOOLEAN :
                items' = [items EXCEPT ![<<"module", i>>] = [status |-> status, applied |-> applied]]
      BY <1>1, <2>3, EnsureModuleLeads
    <3>3. Owned \subseteq Owned'
      BY <1>1, <1>2, <3>2, OwnedGrows
    <3> QED
      BY <2>1, <3>1, <3>3
  <2>4. CASE EnsureLink
    <3>1. pc = "link" /\ RecordOK'
      BY <1>1, <2>4, EnsureLinkLeads
    <3>2. \/ UNCHANGED items
          \/ \E status \in {"satisfied", "failed"}, applied \in BOOLEAN :
                items' = [items EXCEPT ![<<"link", i>>] = [status |-> status, applied |-> applied]]
      BY <1>1, <2>4, EnsureLinkLeads
    <3>3. Owned \subseteq Owned'
      BY <1>1, <1>2, <3>2, OwnedGrows
    <3> QED
      BY <2>1, <3>1, <3>3
  <2>5. CASE PlugModule
    <3>1. pc = "plug" /\ RecordOK'
      BY <1>1, <2>5, PlugModuleLeads
    <3>2. \/ UNCHANGED items
          \/ \E status \in {"applied", "failed"}, applied \in BOOLEAN :
                items' = [items EXCEPT ![<<"module", i>>] = [status |-> status, applied |-> applied]]
      BY <1>1, <2>5, PlugModuleLeads
    <3>3. Owned \subseteq Owned'
      BY <1>1, <1>2, <3>2, OwnedGrows
    <3> QED
      BY <2>1, <3>1, <3>3
  <2>6. CASE CableLink
    <3>1. pc = "cable" /\ RecordOK'
      BY <1>1, <2>6, CableLinkLeads
    <3>2. \/ UNCHANGED items
          \/ \E status \in {"applied", "failed"}, applied \in BOOLEAN :
                items' = [items EXCEPT ![<<"link", i>>] = [status |-> status, applied |-> applied]]
      BY <1>1, <2>6, CableLinkLeads
    <3>3. Owned \subseteq Owned'
      BY <1>1, <1>2, <3>2, OwnedGrows
    <3> QED
      BY <2>1, <3>1, <3>3
  <2>7. CASE ObserveModule
    <3>1. pc = "observe_module"
      BY <1>1, <2>7, ObserveModuleLeads
    <3>2. \E status \in {"observed", "failed"} :
             items' = [items EXCEPT ![<<"module", i>>] = [status |-> status,
                                                          applied |-> items[<<"module", i>>].applied]]
      BY <1>1, <2>7, ObserveModuleLeads DEF Seen
    <3>3. Owned \subseteq Owned'
      BY <1>1, <3>2, OwnedGrows
    <3> QED
      BY <2>1, <3>1, <3>3
  <2>8. CASE ObserveDevice
    <3>1. pc = "observe_device"
      BY <1>1, <2>8, ObserveDeviceLeads
    <3>2. \E status \in {"observed", "failed"} :
             items' = [items EXCEPT ![<<"device", i>>] = [status |-> status,
                                                          applied |-> items[<<"device", i>>].applied]]
      BY <1>1, <2>8, ObserveDeviceLeads DEF Seen
    <3>3. Owned \subseteq Owned'
      BY <1>1, <3>2, OwnedGrows
    <3> QED
      BY <2>1, <3>1, <3>3
  <2>9. CASE ObserveLink
    <3>1. pc = "observe_link"
      BY <1>1, <2>9, ObserveLinkLeads
    <3>2. \E status \in {"observed", "failed"} :
             items' = [items EXCEPT ![<<"link", i>>] = [status |-> status,
                                                          applied |-> items[<<"link", i>>].applied]]
      BY <1>1, <2>9, ObserveLinkLeads DEF Seen
    <3>3. Owned \subseteq Owned'
      BY <1>1, <3>2, OwnedGrows
    <3> QED
      BY <2>1, <3>1, <3>3
  <2>10. CASE CreateDevice
    <3>1. i \in Device /\ (UNCHANGED items \/ items' = [items EXCEPT ![<<"device", i>>] = [status |-> "failed", applied |-> FALSE]])
      BY <1>1, <2>10, CreateDeviceLeads
    <3>2. pc' = "finished" => items' = [items EXCEPT ![<<"device", i>>] = [status |-> "failed", applied |-> FALSE]]
      BY <1>1, <2>10, CreateDeviceLeads
    <3>3. Owned \subseteq Owned' /\ (pc' = "finished" => i \in Owned')
      BY <1>1, <1>2, <3>1, <3>2, OwnedGrows
    <3> QED
      BY <2>1, <2>10, <3>3
  <2>11. CASE PrepareDevice
    <3>1. i \in Device /\ \E status \in {"applied", "failed"} :
             items' = [items EXCEPT ![<<"device", i>>] = [status |-> status, applied |-> TRUE]]
      BY <1>1, <2>11, PrepareDeviceLeads
    <3>2. Owned \subseteq Owned' /\ i \in Owned'
      BY <1>1, <3>1, OwnedGrows
    <3> QED
      BY <2>1, <2>11, <3>2
  <2>12. CASE \/ BuildManifest \/ BeginCleanup \/ RunLate \/ Looking \/ RemoveDevice
    <3>1. UNCHANGED items
      BY <1>1, <2>12, BuildManifestLeads, BeginCleanupLeads, RunLateLeads, RemovalReadbackLeads,
         RemoveDeviceLeads, InventoriesLead DEF Looking
    <3>2. \/ RunLate
          \/ pc \in {"manifest", "finished", "removal", "remove", "first_inventory", "second_inventory"}
      BY <2>12 DEF BuildManifest, BeginCleanup, Looking, RemovalReadback, RemoveDevice,
         FirstInventory, SecondInventory
    <3>3. RunLate => ~PrepareDevice /\ ~CreateDevice
      BY <2>1 DEF RunLate, QueueInv, Sending
    <3> QED
      BY <1>2, <2>1, <3>1, <3>2, <3>3
  <2>13. ~Preflight /\ ~RequireEmptyWorkspace /\ ~ModuleCapabilities
    BY <1>4 DEF Preflight, RequireEmptyWorkspace, ModuleCapabilities, Early
  <2> QED
    BY <2>2, <2>3, <2>4, <2>5, <2>6, <2>7, <2>8, <2>9, <2>10, <2>11, <2>12, <2>13, Steps DEF Reading, Acting
<1> QED
  BY <1>3, <1>4

\* The devices before the current one have been tried, and no others.
LEMMA OwnPlaceStep ==
    ASSUME TypeOK, QueueInv, OwnPlace, Next
    PROVE  OwnPlace'
<1> DEFINE Tried == {"device", "create", "prepare", "plug"} \cup Early
<1>1. Types
  BY TypesFromTypeOK
<1>2. attempted \subseteq Device /\ Device \subseteq Nat
  BY Numbers DEF TypeOK
<1>3. CASE Preflight \/ RequireEmptyWorkspace \/ ModuleCapabilities
  <2>1. UNCHANGED <<attempted, new>> /\ attempted = {}
    BY <1>1, <1>3, PreflightLeads, RequireEmptyWorkspaceLeads, ModuleCapabilitiesLeads
       DEF OwnPlace, Early
  <2>2. pc' # "plug"
    BY <1>1, <1>3, PreflightLeads, RequireEmptyWorkspaceLeads, ModuleCapabilitiesLeads
       DEF Begun, Failed
  <2> QED
    BY <2>1, <2>2 DEF OwnPlace
<1>4. CASE EnsureDevice
  <2>1. /\ UNCHANGED <<attempted, new>> /\ pc = "device" /\ i \in Device
        /\ \/ pc' = "create" /\ UNCHANGED i
           \/ pc' = "device" /\ i' \in Device /\ i' > i
           \/ pc' \notin Tried
    BY <1>1, <1>4, EnsureDeviceLeads DEF Onward, DevicesDone, Begun, Failed, Early
  <2>2. \A d \in attempted : d < i
    BY <2>1 DEF OwnPlace
  <2>3. CASE pc' = "create" /\ UNCHANGED i
    BY <2>1, <2>2, <2>3 DEF OwnPlace, Early
  <2>4. CASE pc' = "device" /\ i' \in Device /\ i' > i
    <3>1. \A d \in attempted : d < i'
      BY <1>2, <2>1, <2>2, <2>4
    <3> QED
      BY <2>1, <2>4, <3>1 DEF OwnPlace, Early
  <2> QED
    BY <2>1, <2>3, <2>4 DEF OwnPlace
<1>5. CASE CreateDevice
  <2>1. /\ attempted' = attempted \cup {i} /\ pc = "create" /\ i \in Device
        /\ \/ pc' = "prepare" /\ UNCHANGED i
           \/ pc' \notin Tried
    BY <1>1, <1>5, CreateDeviceLeads DEF Failed, Early
  <2>2. \A d \in attempted : d < i
    BY <2>1 DEF OwnPlace
  <2>3. CASE pc' = "prepare" /\ UNCHANGED i
    <3>1. \A d \in attempted' : d <= i'
      BY <1>2, <2>1, <2>2, <2>3
    <3> QED
      BY <2>3, <3>1 DEF OwnPlace, Early
  <2> QED
    BY <2>1, <2>3 DEF OwnPlace
<1>6. CASE PrepareDevice
  <2>1. /\ UNCHANGED attempted /\ pc = "prepare" /\ i \in Device
        /\ \/ pc' = "device" /\ i' \in Device /\ i' > i
           \/ pc' \notin Tried
    BY <1>1, <1>6, PrepareDeviceLeads DEF Onward, DevicesDone, Begun, Failed, Early
  <2>2. \A d \in attempted : d <= i
    BY <2>1 DEF OwnPlace
  <2>3. CASE pc' = "device" /\ i' \in Device /\ i' > i
    <3>1. \A d \in attempted : d < i'
      BY <1>2, <2>1, <2>2, <2>3
    <3> QED
      BY <2>1, <2>3, <3>1 DEF OwnPlace, Early
  <2> QED
    BY <2>1, <2>3 DEF OwnPlace
<1>7. CASE EnsureModule
  <2>1. pc' \notin Tried \/ (pc' = "plug" /\ i \in new /\ UNCHANGED <<i, new>>)
    BY <1>1, <1>7, EnsureModuleLeads DEF Onward, Begun, Failed, Early
  <2> QED
    BY <2>1 DEF OwnPlace, Early
<1>8. CASE \/ PlugModule \/ ObserveModule \/ ObserveDevice \/ EnsureLink \/ CableLink
           \/ ObserveLink \/ BuildManifest \/ BeginCleanup \/ Looking \/ RemoveDevice
  <2>1. pc' \notin Tried
    BY <1>1, <1>8, PlugModuleLeads, ObserveModuleLeads, ObserveDeviceLeads, EnsureLinkLeads,
       CableLinkLeads, ObserveLinkLeads, BuildManifestLeads, BeginCleanupLeads,
       RemovalReadbackLeads, RemoveDeviceLeads, InventoriesLead
       DEF Looking, Onward, Begun, Failed, Early
  <2> QED
    BY <2>1 DEF OwnPlace
<1>9. CASE RunLate
  BY <1>9, RunLateLeads DEF OwnPlace
<1> QED
  BY <1>3, <1>4, <1>5, <1>6, <1>7, <1>8, <1>9, Steps DEF Reading, Acting

\* Until the cleanup the other devices are left alone.
LEMMA OwnWorldStep ==
    ASSUME TypeOK, QueueInv, OwnInv, Next
    PROVE  OwnWorld'
<1> SUFFICES ASSUME pc' \notin Cleaning
             PROVE  /\ \A d \in Device \ attempted' :
                          net'.copies[d] = base'.copies[d] /\ net'.slot[d] = base'.slot[d]
                    /\ \A k \in 1..Len(late') :
                          late'[k][1] \in {"add", "plug"} => late'[k][2] \in attempted'
                    /\ \A d \in attempted' : d \in Owned' \/ (pc' = "prepare" /\ d = i')
  BY DEF OwnWorld
<1>1. Types
  BY TypesFromTypeOK
<1>2. net \in Workspace /\ late \in Seq(Command) /\ attempted \subseteq Device /\ new \subseteq attempted
  BY DEF TypeOK
<1>3. /\ Owned \subseteq Owned' /\ (PrepareDevice => i \in Owned')
      /\ (CreateDevice /\ pc' = "finished" => i \in Owned')
  BY OwnedStep
<1>4. CASE Reading
  <2>1. pc \in Early \cup Sending /\ pc \notin Cleaning
    BY <1>4, Courses, Phases
  <2>2. UNCHANGED <<exclusive, base, net, late, attempted>>
    BY <1>1, <1>4, ReadingLeaves, PreflightLeads, RequireEmptyWorkspaceLeads,
       ModuleCapabilitiesLeads, EnsureDeviceLeads, PrepareDeviceLeads, EnsureModuleLeads,
       ObserveModuleLeads, ObserveDeviceLeads, EnsureLinkLeads, ObserveLinkLeads,
       BuildManifestLeads, BeginCleanupLeads DEF Reading
  <2>3. pc = "prepare" => PrepareDevice
    BY <1>4 DEF Reading, Preflight, RequireEmptyWorkspace, ModuleCapabilities, EnsureDevice,
       EnsureModule, ObserveModule, ObserveDevice, EnsureLink, ObserveLink, BuildManifest,
       BeginCleanup
  <2> QED
    BY <1>3, <2>1, <2>2, <2>3 DEF OwnInv, OwnWorld
<1>5. CASE Acting
  <2>1. pc \in Sending /\ pc \notin Cleaning
    BY <1>5, Courses, Phases
  <2>2. /\ attempted \subseteq attempted'
        /\ Planned[1] \in {"add", "plug"} => Planned[2] \in attempted'
        /\ \A d \in attempted' : d \in Owned' \/ (pc' = "prepare" /\ d = i')
    <3>1. CASE CreateDevice
      <4>1. /\ attempted' = attempted \cup {i} /\ pc = "create"
            /\ pc' = "finished" \/ (pc' = "prepare" /\ UNCHANGED i)
        BY <1>1, <3>1, CreateDeviceLeads DEF Failed
      <4>2. Planned[2] = i /\ pc # "prepare"
        BY <4>1 DEF Planned
      <4> QED
        BY <1>3, <2>1, <3>1, <4>1, <4>2 DEF OwnInv, OwnWorld
    <3>2. CASE PlugModule
      <4>1. UNCHANGED attempted /\ pc = "plug"
        BY <1>1, <3>2, PlugModuleLeads
      <4>2. Planned[2] = i /\ pc # "prepare" /\ i \in attempted
        BY <1>2, <4>1 DEF Planned, OwnInv, OwnPlace
      <4> QED
        BY <1>3, <2>1, <4>1, <4>2 DEF OwnInv, OwnWorld
    <3>3. CASE CableLink
      <4>1. UNCHANGED attempted /\ pc = "cable"
        BY <1>1, <3>3, CableLinkLeads
      <4>2. Planned[1] = "cable" /\ pc # "prepare"
        BY <4>1 DEF Planned
      <4> QED
        BY <1>3, <2>1, <4>1, <4>2 DEF OwnInv, OwnWorld
    <3> QED
      BY <1>5, <3>1, <3>2, <3>3 DEF Acting
  <2>3. Planned[1] \in {"add", "plug", "cable"}
    BY DEF Planned
  <2>4. base' = base /\ \A d \in Device \ attempted' :
             net.copies[d] = base.copies[d] /\ net.slot[d] = base.slot[d]
    BY <1>5, <2>1, <2>2, ActingSends DEF OwnInv, OwnWorld
  <2>5. CASE late' = <<>> /\ net' \in Ran(Planned, net)
    <3>1. \A d \in Device : Planned[1] = "cable" \/ Planned[2] # d =>
              net'.copies[d] = net.copies[d] /\ net'.slot[d] = net.slot[d]
      BY <1>2, <1>5, <2>5, ActingSends, RanEffect
    <3>2. \A d \in Device \ attempted' :
              net'.copies[d] = net.copies[d] /\ net'.slot[d] = net.slot[d]
      BY <2>2, <2>3, <3>1
    <3> QED
      BY <2>2, <2>4, <2>5, <3>2
  <2>6. CASE net' = net /\ late' = <<Planned>>
    BY <2>2, <2>4, <2>6
  <2> QED
    BY <1>5, <2>5, <2>6, ActingSends
<1>6. CASE RunLate
  <2>1. /\ late # <<>> /\ late' = Tail(late) /\ base' = base
        /\ net' \in Ran(Head(late), net) \cup {net}
        /\ UNCHANGED <<pc, i, attempted>>
    BY <1>6, RunLateLeads DEF RunLate
  <2>2. /\ Head(late) = late[1] /\ late[1] \in Command /\ 1 \in 1..Len(late)
        /\ \A k \in 1..Len(late') : late'[k] = late[k + 1] /\ k + 1 \in 1..Len(late)
    BY <1>2, <2>1
  <2>3. \/ late[1][1] \in {"add", "plug"} /\ late[1][2] \in attempted
        \/ late[1][1] = "cable"
    BY <2>1, <2>2, CommandParts DEF OwnInv, OwnWorld, QueueInv
  <2>4. \A d \in Device \ attempted :
            net'.copies[d] = net.copies[d] /\ net'.slot[d] = net.slot[d]
    <3>1. CASE net' = net
      BY <3>1
    <3>2. CASE net' \in Ran(late[1], net)
      <4>1. \A d \in Device : late[1][1] = "cable" \/ late[1][2] # d =>
                net'.copies[d] = net.copies[d] /\ net'.slot[d] = net.slot[d]
        BY <1>2, <2>2, <3>2, RanEffect
      <4> QED
        BY <2>3, <4>1
    <3> QED
      BY <2>1, <2>2, <3>1, <3>2
  <2> QED
    BY <1>3, <2>1, <2>2, <2>4 DEF OwnInv, OwnWorld
<1>7. CASE Looking \/ RemoveDevice
  BY <1>7, Courses
<1> QED
  BY <1>4, <1>5, <1>6, <1>7, Steps

\* A workspace in use is left as it is.
LEMMA ForeignStep ==
    ASSUME TypeOK, QueueInv, ForeignInv, Next
    PROVE  ForeignInv'
<1>1. Types
  BY TypesFromTypeOK
<1>2. UNCHANGED <<exclusive, base>> /\ (pc \in Early => Owned' = Owned)
  BY WorldType, OwnedStep
<1>3. ASSUME pc' \in Early
      PROVE  net' = base' /\ Owned' = {}
  <2>1. pc \in Early /\ (Reading \/ RunLate)
    BY <1>1, <1>3, Courses, Phases, Steps, RunLateLeads, EnsureDeviceLeads, PrepareDeviceLeads,
       EnsureModuleLeads, ObserveModuleLeads, ObserveDeviceLeads, EnsureLinkLeads,
       ObserveLinkLeads, BuildManifestLeads, BeginCleanupLeads, PreflightLeads,
       RequireEmptyWorkspaceLeads, ModuleCapabilitiesLeads, CreateDeviceLeads, PlugModuleLeads,
       CableLinkLeads
       DEF Reading, Acting, Onward, Begun, DevicesDone, Failed, Early
  <2>2. ~RunLate
    BY <2>1 DEF QueueInv, RunLate
  <2>3. net' = net
    BY <2>1, <2>2, ReadingLeaves
  <2> QED
    BY <1>2, <2>1, <2>3 DEF ForeignInv
<1>4. ASSUME exclusive', ~Empty(base)
      PROVE  /\ pc' \in {"preflight", "workspace", "finished", "first_inventory",
                         "second_inventory", "over"}
             /\ net' = base' /\ late' = <<>> /\ attempted' = {} /\ Owned' = {}
  <2>1. /\ exclusive
        /\ pc \in {"preflight", "workspace", "finished", "first_inventory",
                   "second_inventory", "over"}
        /\ net = base /\ late = <<>> /\ attempted = {} /\ Owned = {}
    BY <1>2, <1>4 DEF ForeignInv
  <2>2. UNCHANGED items => Owned' = {}
    BY <2>1 DEF Owned
  <2>3. CASE Preflight
    BY <1>1, <1>2, <2>1, <2>2, <2>3, PreflightLeads, ReadingLeaves DEF Reading, Failed
  <2>4. CASE RequireEmptyWorkspace
    BY <1>1, <1>2, <1>4, <2>1, <2>2, <2>4, RequireEmptyWorkspaceLeads, ReadingLeaves
       DEF Reading, Failed
  <2>5. CASE BeginCleanup
    BY <1>2, <2>1, <2>2, <2>5, BeginCleanupLeads, ReadingLeaves DEF Reading
  <2>6. CASE FirstInventory \/ SecondInventory
    BY <1>2, <2>1, <2>2, <2>6, InventoriesLead, LookingRuns DEF Looking
  <2>7. ~RunLate
    BY <2>1 DEF RunLate
  <2>8. \/ Preflight \/ RequireEmptyWorkspace \/ BeginCleanup
        \/ FirstInventory \/ SecondInventory
    BY <2>1, <2>7 DEF Next, ModuleCapabilities, EnsureDevice, CreateDevice, PrepareDevice,
       EnsureModule, PlugModule, ObserveModule, ObserveDevice, EnsureLink, CableLink,
       ObserveLink, BuildManifest, RemovalReadback, RemoveDevice
  <2> QED
    BY <2>3, <2>4, <2>5, <2>6, <2>8
<1>5. Empty(base)' = Empty(base)
  BY <1>2 DEF Empty
<1> QED
  BY <1>3, <1>4, <1>5 DEF ForeignInv

\* A name that is taken is not taken again.
LEMMA SingleStep ==
    ASSUME TypeOK, QueueInv, OwnInv, ForeignInv, SingleInv, Next
    PROVE  SingleInv'
<1>1. /\ UNCHANGED <<exclusive, base>>
      /\ net \in Workspace /\ net' \in Workspace /\ late \in Seq(Command)
      /\ \A k \in 1..Len(late) : late[k] \in Command
  BY WorldType DEF TypeOK
<1>2. \A d \in Device : net.copies[d] \in Nat /\ net'.copies[d] \in Nat
  BY <1>1 DEF Workspace
<1> SUFFICES ASSUME exclusive
             PROVE  /\ \A d \in Device : net'.copies[d] <= 1
                    /\ \A d \in Device :
                          late' # <<>> /\ late'[1] = <<"add", d>> => net'.copies[d] = 0
  BY <1>1 DEF SingleInv
<1>3. /\ \A d \in Device : net.copies[d] <= 1
      /\ \A d \in Device : late # <<>> /\ late[1] = <<"add", d>> => net.copies[d] = 0
  BY DEF SingleInv
\* A command runs at the head of the queue, or behind the removals in it.
<1>4. ASSUME NEW c \in Command, NEW w \in Workspace, NEW v \in Ran(c, w),
             \A d \in Device : w.copies[d] <= 1 /\ (c = <<"add", d>> => w.copies[d] = 0)
      PROVE  \A d \in Device : v.copies[d] <= 1
  <2>1. /\ \A d \in Device : v.copies[d] <= w.copies[d] + 1
        /\ \A d \in Device : c # <<"add", d>> => v.copies[d] <= w.copies[d]
        /\ v \in Workspace
    BY RanEffect
  <2>2. \A d \in Device : w.copies[d] \in Nat /\ v.copies[d] \in Nat
    BY <2>1 DEF Workspace
  <2> SUFFICES ASSUME NEW d \in Device
               PROVE  v.copies[d] <= 1
    OBVIOUS
  <2>3. /\ w.copies[d] \in Nat /\ v.copies[d] \in Nat
        /\ w.copies[d] <= 1 /\ v.copies[d] <= w.copies[d] + 1
        /\ w.copies[d] = 0 \/ v.copies[d] <= w.copies[d]
    BY <1>4, <2>1, <2>2
  <2> QED
    BY ONLY <2>3
<1>5. \A c \in Command : c[1] = "remove" => \A d \in Device : c # <<"add", d>>
  OBVIOUS
<1>6. late # <<>> => /\ late[1] \in Command /\ Head(late) = late[1]
                     /\ \A d \in Device : late[1] = <<"add", d>> => net.copies[d] = 0
  BY <1>1, <1>3
<1>7. CASE Reading
  BY <1>3, <1>7, ReadingLeaves
<1>8. CASE Acting
  <2>1. /\ late = <<>> /\ Planned \in Command
        /\ \/ late' = <<>> /\ net' \in Ran(Planned, net)
           \/ net' = net /\ late' = <<Planned>>
    BY <1>8, ActingSends
  \* The device is not there yet: nothing was, and this is the first attempt.
  <2>2. \A d \in Device : Planned = <<"add", d>> => net.copies[d] = 0
    <3>1. ASSUME NEW d \in Device, Planned = <<"add", d>>
          PROVE  net.copies[d] = 0
      <4>1. pc = "create" /\ d = i
        BY <1>8, <3>1 DEF Planned, Acting, CreateDevice, PlugModule, CableLink
      <4>2. d \notin attempted
        <5>1. i \in Nat /\ attempted \subseteq Nat /\ \A x \in attempted : x < i
          BY <4>1, Numbers DEF OwnInv, OwnPlace, TypeOK
        <5>2. ~(i < i)
          BY <5>1
        <5> QED
          BY <4>1, <5>1, <5>2
      <4>3. Empty(base)
        BY <4>1 DEF ForeignInv
      <4>4. net.copies[d] = base.copies[d]
        BY <4>1, <4>2 DEF OwnInv, OwnWorld, Cleaning
      <4> QED
        BY <4>3, <4>4 DEF Empty
    <3> QED
      BY <3>1
  <2>3. CASE late' = <<>> /\ net' \in Ran(Planned, net)
    <3>1. \A d \in Device : net'.copies[d] <= 1
      BY <1>1, <1>3, <1>4, <2>1, <2>2, <2>3
    <3> QED
      BY <2>3, <3>1
  <2>4. CASE net' = net /\ late' = <<Planned>>
    BY <1>3, <2>2, <2>4
  <2> QED
    BY <2>1, <2>3, <2>4
<1>9. CASE Looking
  <2>1. CASE UNCHANGED <<net, late>>
    BY <1>3, <2>1
  <2>2. CASE late # <<>> /\ late' = <<>> /\ net' \in RanAll(late, net)
    <3> DEFINE G == {w \in Workspace : \A d \in Device : w.copies[d] <= 1}
    <3>1. Ran(late[1], net) \subseteq G
      <4> SUFFICES ASSUME NEW v \in Ran(late[1], net)
                   PROVE  v \in G
        OBVIOUS
      <4>1. v \in Workspace
        BY <1>1, <1>6, <2>2, RanEffect
      <4>2. \A d \in Device : v.copies[d] <= 1
        BY <1>1, <1>3, <1>4, <1>6, <2>2
      <4> QED
        BY <4>1, <4>2
    <3>2. ASSUME NEW k \in 2..Len(late), NEW w \in G, NEW v \in Ran(late[k], w)
          PROVE  v \in G
      <4>1. late[k] \in Command /\ late[k][1] = "remove"
        BY <1>1, <3>2 DEF QueueInv
      <4>2. \A d \in Device : late[k] # <<"add", d>>
        BY <1>5, <4>1
      <4>3. v \in Workspace
        BY <4>1, RanEffect
      <4>4. \A d \in Device : v.copies[d] <= 1
        BY <1>4, <4>1, <4>2
      <4> QED
        BY <4>3, <4>4
    <3> HIDE DEF G
    <3>3. RanAll(late, net) \subseteq G
      <4>1. \A k \in 2..Len(late) : \A w \in G : Ran(late[k], w) \subseteq G
        BY <3>2
      <4> QED
        BY <1>1, <2>2, <3>1, <4>1, RanAllStays
    <3>4. \A d \in Device : net'.copies[d] <= 1
      BY <2>2, <3>3 DEF G
    <3> QED
      BY <2>2, <3>4
  <2> QED
    BY <1>9, <2>1, <2>2, LookingRuns
<1>10. CASE RemoveDevice
  <2>1. CASE late' = late /\ net' \in Ran(<<"remove", i>>, net)
    <3>1. <<"remove", i>> \in Command /\ \A d \in Device : <<"remove", i>> # <<"add", d>>
      BY <1>10, RemovingSends
    <3>2. \A d \in Device : net'.copies[d] <= net.copies[d]
      BY <1>1, <2>1, <3>1, RanEffect
    <3>3. ASSUME NEW d \in Device
          PROVE  net'.copies[d] <= 1 /\ (net.copies[d] = 0 => net'.copies[d] = 0)
      <4>1. net.copies[d] \in Nat /\ net'.copies[d] \in Nat /\ net'.copies[d] <= net.copies[d]
            /\ net.copies[d] <= 1
        BY <1>2, <1>3, <3>2
      <4> QED
        BY ONLY <4>1
    <3> QED
      BY <1>3, <2>1, <3>3
  <2>2. CASE net' = net /\ late' = Append(late, <<"remove", i>>)
    <3>1. late # <<>> => late'[1] = late[1]
      BY <1>1, <2>2
    <3>2. late = <<>> => late'[1] = <<"remove", i>>
      BY <2>2
    <3>3. \A d \in Device : <<"remove", i>> # <<"add", d>>
      OBVIOUS
    <3> QED
      BY <1>3, <2>2, <3>1, <3>2, <3>3
  <2> QED
    BY <1>10, <2>1, <2>2, RemovingSends
<1>11. CASE RunLate
  <2>1. /\ late # <<>> /\ late' = Tail(late)
        /\ net' \in Ran(Head(late), net) \cup {net}
    BY <1>11 DEF RunLate
  <2>2. \A d \in Device : net'.copies[d] <= 1
    <3>1. CASE net' = net
      BY <1>3, <3>1
    <3>2. CASE net' \in Ran(late[1], net)
      BY <1>1, <1>3, <1>4, <1>6, <2>1, <3>2
    <3> QED
      BY <1>6, <2>1, <3>1, <3>2
  <2>3. late' # <<>> => /\ 2 \in 2..Len(late) /\ 2 \in 1..Len(late)
                        /\ late'[1] = late[2]
    BY <1>1, <2>1
  <2>4. late' # <<>> => \A d \in Device : late'[1] # <<"add", d>>
    BY <1>1, <1>5, <2>3 DEF QueueInv
  <2> QED
    BY <2>2, <2>4
<1> QED
  BY <1>7, <1>8, <1>9, <1>10, <1>11, Steps

\* A restoration is claimed once, at the end, and nothing can come after it.
LEMMA RestoredStep ==
    ASSUME TypeOK, QueueInv, RestoredInv, Next
    PROVE  RestoredInv'
<1>1. Types
  BY TypesFromTypeOK
<1>2. CASE SecondInventory
  <2>1. PICK reply \in {"silent", "baseline", "different"} :
           Inventory(reply) /\ (restored' = "yes" => reply = "baseline")
    BY <1>2 DEF SecondInventory, Matches
  <2>2. reply = "baseline" => net = base /\ late = <<>> /\ UNCHANGED <<net, base, late>>
    BY <2>1 DEF Inventory, Read
  <2>3. pc' = "over"
    BY <1>2 DEF SecondInventory
  <2> QED
    BY <2>1, <2>2, <2>3 DEF RestoredInv
<1>3. CASE FirstInventory
  BY <1>3, InventoriesLead DEF RestoredInv, FirstInventory
<1>4. CASE ~FirstInventory /\ ~SecondInventory
  <2>1. UNCHANGED restored
    BY <1>1, <1>4, PreflightLeads, RequireEmptyWorkspaceLeads, ModuleCapabilitiesLeads,
       EnsureDeviceLeads, PrepareDeviceLeads, EnsureModuleLeads, ObserveModuleLeads,
       CreateDeviceLeads, ObserveDeviceLeads, EnsureLinkLeads, ObserveLinkLeads,
       BuildManifestLeads, PlugModuleLeads, CableLinkLeads, RemovalReadbackLeads,
       RemoveDeviceLeads, BeginCleanupLeads, RunLateLeads DEF Next
  <2>2. restored = "yes" => ~Next
    <3>1. restored = "yes" => pc = "over" /\ late = <<>>
      BY DEF RestoredInv
    <3> QED
      BY <3>1 DEF Next, Preflight, RequireEmptyWorkspace, ModuleCapabilities, EnsureDevice,
         CreateDevice, PrepareDevice, EnsureModule, PlugModule, ObserveModule, ObserveDevice,
         EnsureLink, CableLink, ObserveLink, BuildManifest, BeginCleanup, RemovalReadback,
         RemoveDevice, FirstInventory, SecondInventory, RunLate
  <2> QED
    BY <2>1, <2>2 DEF RestoredInv
<1> QED
  BY <1>2, <1>3, <1>4

\* Nothing comes before the first.
LEMMA BegunIsFirst ==
    ASSUME NEW phase, NEW S \in SUBSET Nat, Begun(phase, S)
    PROVE  pc' = phase /\ i' \in Nat /\ \A k \in S : ~(k < i')
<1>1. pc' = phase /\ i' \in S /\ \A k \in S : i' <= k
  BY DEF Begun
<1>2. ASSUME NEW k \in S
      PROVE  ~(k < i')
  <2>1. i' \in Nat /\ k \in Nat /\ i' <= k
    BY <1>1
  <2> QED
    BY ONLY <2>1
<1> QED
  BY <1>1, <1>2

\* Going on to the next passes one.
LEMMA OnwardPassesOne ==
    ASSUME NEW phase, NEW S \in SUBSET Nat, i \in S, Onward(phase, S)
    PROVE  pc' = phase /\ \A k \in S : k < i' => k < i \/ k = i
<1>1. pc' = phase /\ \A k \in S : k < i' => k <= i
  BY DEF Onward
<1>2. ASSUME NEW k \in S, k < i'
      PROVE  k < i \/ k = i
  <2>1. k \in Nat /\ i \in Nat /\ k <= i
    BY <1>1, <1>2
  <2> QED
    BY ONLY <2>1
<1> QED
  BY <1>1, <1>2

\* Past the last, all are passed.
LEMMA PastAll ==
    ASSUME NEW S \in SUBSET Nat, i \in S, Past(S)
    PROVE  \A k \in S : k < i \/ k = i
<1> SUFFICES ASSUME NEW k \in S
             PROVE  k < i \/ k = i
  OBVIOUS
<1>1. k \in Nat /\ i \in Nat /\ k <= i
  BY DEF Past
<1> QED
  BY ONLY <1>1

\* A command of the deployment between its observations changes no slot, and no
\* device.
LEMMA CableLeaves ==
    ASSUME TypeOK, QueueInv, CableLink
    PROVE  \A d \in Device : net'.slot[d] = net.slot[d] /\ (Exact(net, d) => Exact(net', d))
<1>1. net \in Workspace /\ pc = "cable" /\ Planned[1] = "cable"
  BY DEF TypeOK, CableLink, Planned
<1>2. CASE net' \in Ran(Planned, net)
  <2>1. /\ net'.alien = net.alien
        /\ \A d \in Device : net'.copies[d] = net.copies[d] /\ net'.slot[d] = net.slot[d]
    BY <1>1, <1>2, ActingSends, RanEffect DEF Acting
  <2> QED
    BY <2>1 DEF Exact, Present
<1>3. CASE net' = net
  BY <1>3
<1> QED
  BY <1>2, <1>3, ActingSends DEF Acting

\* Without devices there is nothing to plug or to cable.
LEMMA NoDevicesNoLinks ==
    Device = {} => Link = {} /\ Modular = {}
<1>1. ASSUME Device = {}, NEW l \in Link
      PROVE  FALSE
  <2>1. Ends[l] \in SUBSET Device /\ Cardinality(Ends[l]) = 2
    BY <1>1, DeploymentAssumption DEF Link
  <2>2. Ends[l] = {}
    BY <1>1, <2>1
  <2> QED
    BY <2>1, <2>2, FS_EmptySet
<1> QED
  BY <1>1, Numbers

\* What each step does to the place where modules are observed.
LEMMA SeenModulesStep ==
    ASSUME TypeOK, QueueInv, SeenModules, Next
    PROVE  SeenModules'
<1> DEFINE After == {"observe_device", "link", "cable", "observe_link", "manifest"}
<1>1. Types
  BY TypesFromTypeOK
<1>2. CASE ObserveModule
  <2>1. PICK ok \in BOOLEAN : Seen("module", ok) /\ (ok => net.slot[i] = "expected")
    BY <1>1, <1>2, ObserveModuleLeads
  <2>2. /\ pc = "observe_module" /\ i \in Modular /\ net' = net
        /\ \A d \in Modular : d < i =>
               items[<<"module", d>>].status = "failed" \/ net.slot[d] = "expected"
    BY <1>1, <1>2, ObserveModuleLeads, ReadingLeaves DEF Reading, SeenModules
  <2>3. \A d \in Modular : d < i \/ d = i =>
            items'[<<"module", d>>].status = "failed" \/ net.slot[d] = "expected"
    <3>1. items'[<<"module", i>>].status = "failed" \/ ok
      BY <1>1, <2>1, <2>2, TargetsOfKinds DEF Seen, Types, RecordOK
    <3>2. \A d \in Modular : d # i => items'[<<"module", d>>] = items[<<"module", d>>]
      BY <1>1, <2>1, <2>2, TargetsOfKinds DEF Seen, Types, RecordOK
    <3> QED
      BY <2>1, <2>2, <3>1, <3>2
  <2>4. CASE Onward("observe_module", Modular)
    BY <2>2, <2>3, <2>4, Numbers, OnwardPassesOne DEF SeenModules
  <2>5. CASE Begun("observe_device", Device) /\ Past(Modular) /\ NoneFailed("module", Modular)
    <3>1. \A d \in Modular : net.slot[d] = "expected"
      BY <2>2, <2>3, <2>5, Numbers, PastAll DEF NoneFailed
    <3> QED
      BY <2>2, <2>5, <3>1 DEF SeenModules, Begun
  <2>6. CASE Failed
    BY <2>6 DEF SeenModules, Failed
  <2> QED
    BY <1>1, <1>2, <2>4, <2>5, <2>6, ObserveModuleLeads
<1>3. CASE EnsureDevice \/ PrepareDevice \/ ModuleCapabilities
  <2>1. pc' # "observe_module" /\ (pc' \in After => Modular = {})
    BY <1>1, <1>3, EnsureDeviceLeads, PrepareDeviceLeads, ModuleCapabilitiesLeads,
       NoDevicesNoLinks DEF Onward, DevicesDone, Begun, Failed
  <2> QED
    BY <2>1 DEF SeenModules
<1>4. CASE Preflight \/ RequireEmptyWorkspace \/ CreateDevice \/ BeginCleanup
  <2>1. pc' \notin After \cup {"observe_module"}
    BY <1>1, <1>4, PreflightLeads, RequireEmptyWorkspaceLeads, CreateDeviceLeads,
       BeginCleanupLeads DEF Failed
  <2> QED
    BY <2>1 DEF SeenModules
<1>5. CASE EnsureModule \/ PlugModule
  <2>1. pc' \notin After \cup {"observe_module"} \/ Begun("observe_module", Modular)
    BY <1>1, <1>5, EnsureModuleLeads, PlugModuleLeads DEF Onward, Failed
  <2>2. CASE Begun("observe_module", Modular)
    <3>1. pc' = "observe_module" /\ \A d \in Modular : ~(d < i')
      BY <2>2, Numbers, BegunIsFirst
    <3> QED
      BY <3>1 DEF SeenModules
  <2> QED
    BY <2>1, <2>2 DEF SeenModules
<1>6. CASE ObserveDevice \/ EnsureLink \/ ObserveLink \/ BuildManifest
  <2>1. net' = net /\ pc \in After /\ pc' # "observe_module"
    BY <1>1, <1>6, ReadingLeaves, ObserveDeviceLeads, EnsureLinkLeads, ObserveLinkLeads,
       BuildManifestLeads DEF Reading, Onward, Begun, Failed
  <2> QED
    BY <2>1 DEF SeenModules
<1>7. CASE CableLink
  <2>1. pc \in After /\ pc' # "observe_module"
    BY <1>1, <1>7, CableLinkLeads DEF Onward, Begun, Failed
  <2>2. \A d \in Modular : net'.slot[d] = net.slot[d]
    BY <1>7, CableLeaves, Numbers
  <2> QED
    BY <2>1, <2>2 DEF SeenModules
<1>8. CASE Looking \/ RemoveDevice
  <2>1. pc' \in Cleaning
    BY <1>8, Courses
  <2> QED
    BY <2>1 DEF SeenModules, Cleaning
<1>9. CASE RunLate
  <2>1. pc' = pc /\ pc \notin Sending
    BY <1>9, RunLateLeads DEF QueueInv, RunLate
  <2> QED
    BY <2>1 DEF SeenModules, Sending
<1> QED
  BY <1>2, <1>3, <1>4, <1>5, <1>6, <1>7, <1>8, <1>9, Steps DEF Reading, Acting

\* Devices and modules that were observed stay as they were seen.
LEMMA SeenDevicesStep ==
    ASSUME TypeOK, QueueInv, SeenDevices, Next
    PROVE  SeenDevices'
<1> DEFINE After == {"link", "cable", "observe_link", "manifest"}
<1>1. Types
  BY TypesFromTypeOK
<1>2. CASE ObserveDevice
  <2>1. PICK ok \in BOOLEAN : Seen("device", ok) /\ (ok => Exact(net, i))
    BY <1>1, <1>2, ObserveDeviceLeads
  <2>2. /\ pc = "observe_device" /\ i \in Device /\ net' = net
        /\ \A d \in Device : d < i => items[<<"device", d>>].status = "failed" \/ Exact(net, d)
    BY <1>1, <1>2, ObserveDeviceLeads, ReadingLeaves DEF Reading, SeenDevices
  <2>3. \A d \in Device : d < i \/ d = i =>
            items'[<<"device", d>>].status = "failed" \/ Exact(net, d)
    <3>1. items'[<<"device", i>>].status = "failed" \/ ok
      BY <1>1, <2>1, <2>2, TargetsOfKinds DEF Seen, Types, RecordOK
    <3>2. \A d \in Device : d # i => items'[<<"device", d>>] = items[<<"device", d>>]
      BY <1>1, <2>1, <2>2, TargetsOfKinds DEF Seen, Types, RecordOK
    <3> QED
      BY <2>1, <2>2, <3>1, <3>2
  <2>4. CASE Onward("observe_device", Device)
    BY <2>2, <2>3, <2>4, Numbers, OnwardPassesOne DEF SeenDevices
  <2>5. CASE (Begun("link", Link) \/ pc' = "manifest") /\ Past(Device) /\ NoneFailed("device", Device)
    <3>1. \A d \in Device : Exact(net, d)
      BY <2>2, <2>3, <2>5, Numbers, PastAll DEF NoneFailed
    <3> QED
      BY <2>2, <2>5, <3>1 DEF SeenDevices, Begun
  <2>6. CASE Failed
    BY <2>6 DEF SeenDevices, Failed
  <2> QED
    BY <1>1, <1>2, <2>4, <2>5, <2>6, ObserveDeviceLeads
<1>3. CASE EnsureDevice \/ PrepareDevice \/ ModuleCapabilities \/ ObserveModule
  <2>1. \/ pc' \notin After \cup {"observe_device"}
        \/ Begun("observe_device", Device)
        \/ pc' = "manifest" /\ Device = {}
    BY <1>1, <1>3, EnsureDeviceLeads, PrepareDeviceLeads, ModuleCapabilitiesLeads,
       ObserveModuleLeads DEF Onward, DevicesDone, Begun, Failed
  <2>2. CASE Begun("observe_device", Device)
    <3>1. pc' = "observe_device" /\ \A d \in Device : ~(d < i')
      BY <2>2, Numbers, BegunIsFirst
    <3> QED
      BY <3>1 DEF SeenDevices
  <2> QED
    BY <2>1, <2>2 DEF SeenDevices
<1>4. CASE \/ Preflight \/ RequireEmptyWorkspace \/ CreateDevice \/ BeginCleanup
           \/ EnsureModule \/ PlugModule
  <2>1. pc' \notin After \cup {"observe_device"}
    BY <1>1, <1>4, PreflightLeads, RequireEmptyWorkspaceLeads, CreateDeviceLeads,
       BeginCleanupLeads, EnsureModuleLeads, PlugModuleLeads DEF Onward, Begun, Failed
  <2> QED
    BY <2>1 DEF SeenDevices
<1>5. CASE EnsureLink \/ ObserveLink \/ BuildManifest
  <2>1. net' = net /\ pc \in After /\ pc' # "observe_device"
    BY <1>1, <1>5, ReadingLeaves, EnsureLinkLeads, ObserveLinkLeads,
       BuildManifestLeads DEF Reading, Onward, Begun, Failed
  <2> QED
    BY <2>1 DEF SeenDevices
<1>6. CASE CableLink
  <2>1. pc \in After /\ pc' # "observe_device"
    BY <1>1, <1>6, CableLinkLeads DEF Onward, Begun, Failed
  <2>2. \A d \in Device : Exact(net, d) => Exact(net', d)
    BY <1>6, CableLeaves
  <2> QED
    BY <2>1, <2>2 DEF SeenDevices, Exact, Present
<1>7. CASE Looking \/ RemoveDevice
  <2>1. pc' \in Cleaning
    BY <1>7, Courses
  <2> QED
    BY <2>1 DEF SeenDevices, Cleaning
<1>8. CASE RunLate
  <2>1. pc' = pc /\ pc \notin Sending
    BY <1>8, RunLateLeads DEF QueueInv, RunLate
  <2> QED
    BY <2>1 DEF SeenDevices, Sending
<1> QED
  BY <1>2, <1>3, <1>4, <1>5, <1>6, <1>7, <1>8, Steps DEF Reading, Acting

\* Links that were observed stay as they were seen.
LEMMA SeenLinksStep ==
    ASSUME TypeOK, QueueInv, SeenLinks, Next
    PROVE  SeenLinks'
<1>1. Types
  BY TypesFromTypeOK
<1>2. CASE ObserveLink
  <2>1. PICK ok \in BOOLEAN : Seen("link", ok) /\ (ok => i \in net.cabled)
    BY <1>1, <1>2, ObserveLinkLeads
  <2>2. /\ pc = "observe_link" /\ i \in Link /\ net' = net
        /\ \A l \in Link : l < i => items[<<"link", l>>].status = "failed" \/ l \in net.cabled
    BY <1>1, <1>2, ObserveLinkLeads, ReadingLeaves DEF Reading, SeenLinks
  <2>3. \A l \in Link : l < i \/ l = i =>
            items'[<<"link", l>>].status = "failed" \/ l \in net.cabled
    <3>1. items'[<<"link", i>>].status = "failed" \/ ok
      BY <1>1, <2>1, <2>2, TargetsOfKinds DEF Seen, Types, RecordOK
    <3>2. \A l \in Link : l # i => items'[<<"link", l>>] = items[<<"link", l>>]
      BY <1>1, <2>1, <2>2, TargetsOfKinds DEF Seen, Types, RecordOK
    <3> QED
      BY <2>1, <2>2, <3>1, <3>2
  <2>4. CASE Onward("observe_link", Link)
    BY <2>2, <2>3, <2>4, Numbers, OnwardPassesOne DEF SeenLinks
  <2>5. CASE pc' = "manifest" /\ Past(Link) /\ NoneFailed("link", Link)
    <3>1. \A l \in Link : l \in net.cabled
      BY <2>2, <2>3, <2>5, Numbers, PastAll DEF NoneFailed
    <3>2. net.cabled = Link
      BY <3>1 DEF TypeOK, Workspace
    <3> QED
      BY <2>2, <2>5, <3>2 DEF SeenLinks
  <2>6. CASE Failed
    BY <2>6 DEF SeenLinks, Failed
  <2> QED
    BY <1>1, <1>2, <2>4, <2>5, <2>6, ObserveLinkLeads
<1>3. CASE EnsureLink \/ CableLink
  <2>1. pc' \notin {"observe_link", "manifest"} \/ Begun("observe_link", Link)
    BY <1>1, <1>3, EnsureLinkLeads, CableLinkLeads DEF Onward, Failed
  <2>2. CASE Begun("observe_link", Link)
    <3>1. pc' = "observe_link" /\ \A l \in Link : ~(l < i')
      BY <2>2, Numbers, BegunIsFirst
    <3> QED
      BY <3>1 DEF SeenLinks
  <2> QED
    BY <2>1, <2>2 DEF SeenLinks
<1>4. CASE ObserveDevice \/ ModuleCapabilities
  <2>1. pc' # "observe_link" /\ (pc' = "manifest" => Link = {})
    BY <1>1, <1>4, ObserveDeviceLeads, ModuleCapabilitiesLeads, NoDevicesNoLinks
       DEF Onward, Begun, Failed
  <2>2. net'.cabled \subseteq Link
    BY WorldType DEF Workspace
  <2> QED
    BY <2>1, <2>2 DEF SeenLinks
<1>5. CASE \/ Preflight \/ RequireEmptyWorkspace \/ EnsureDevice \/ CreateDevice \/ PrepareDevice
           \/ EnsureModule \/ PlugModule \/ ObserveModule \/ BeginCleanup \/ BuildManifest
  <2>1. pc' \notin {"observe_link", "manifest"}
    BY <1>1, <1>5, PreflightLeads, RequireEmptyWorkspaceLeads, EnsureDeviceLeads,
       CreateDeviceLeads, PrepareDeviceLeads, EnsureModuleLeads, PlugModuleLeads,
       ObserveModuleLeads, BeginCleanupLeads, BuildManifestLeads
       DEF Onward, DevicesDone, Begun, Failed
  <2> QED
    BY <2>1 DEF SeenLinks
<1>6. CASE Looking \/ RemoveDevice
  <2>1. pc' \in Cleaning
    BY <1>6, Courses
  <2> QED
    BY <2>1 DEF SeenLinks, Cleaning
<1>7. CASE RunLate
  <2>1. pc' = pc /\ pc \notin Sending
    BY <1>7, RunLateLeads DEF QueueInv, RunLate
  <2> QED
    BY <2>1 DEF SeenLinks, Sending
<1> QED
  BY <1>2, <1>3, <1>4, <1>5, <1>6, <1>7, Steps DEF Reading, Acting

\* Only a deployment whose observations are all in is verified.
LEMMA VerifiedStep ==
    ASSUME TypeOK, QueueInv, SeenInv, Next
    PROVE  VerifiedIsPresent' /\ (pc' \in Early \cup Sending => outcome' = "none")
<1>1. Types
  BY TypesFromTypeOK
<1>2. CASE BuildManifest
  <2>1. /\ pc = "manifest" /\ net' = net /\ late' = late /\ late = <<>>
        /\ pc' = "finished" \/ Failed
    BY <1>1, <1>2, BuildManifestLeads, ReadingLeaves DEF Reading, QueueInv, Sending
  <2>2. /\ \A d \in Modular : net.slot[d] = "expected"
        /\ \A d \in Device : Exact(net, d)
        /\ net.cabled = Link
    BY <2>1 DEF SeenInv, SeenModules, SeenDevices, SeenLinks
  <2>3. VerifiedIsPresent'
    BY <2>1, <2>2 DEF VerifiedIsPresent, Exact, Present
  <2> QED
    BY <2>1, <2>3, Phases DEF Failed
<1>3. CASE Reading /\ ~BuildManifest /\ ~BeginCleanup
  <2>1. pc \in Early \cup Sending /\ outcome = "none"
    BY <1>3, Courses DEF SeenInv
  <2>2. UNCHANGED outcome \/ Failed
    BY <1>1, <1>3, PreflightLeads, RequireEmptyWorkspaceLeads, ModuleCapabilitiesLeads,
       EnsureDeviceLeads, PrepareDeviceLeads, EnsureModuleLeads, ObserveModuleLeads,
       ObserveDeviceLeads, EnsureLinkLeads, ObserveLinkLeads DEF Reading
  <2> QED
    BY <2>1, <2>2, Phases DEF Failed, VerifiedIsPresent
<1>4. CASE Acting
  <2>1. pc \in Early \cup Sending /\ outcome = "none"
    BY <1>4, Courses DEF SeenInv
  <2>2. UNCHANGED outcome \/ Failed
    BY <1>1, <1>4, CreateDeviceLeads, PlugModuleLeads, CableLinkLeads DEF Acting
  <2> QED
    BY <2>1, <2>2, Phases DEF Failed, VerifiedIsPresent
<1>5. CASE Looking \/ RemoveDevice \/ BeginCleanup
  <2>1. pc' \in Cleaning
    BY <1>5, Courses, BeginCleanupLeads DEF Cleaning
  <2> QED
    BY <2>1, Phases DEF VerifiedIsPresent
<1>6. CASE RunLate
  <2>1. late # <<>> /\ UNCHANGED <<pc, outcome>>
    BY <1>6, RunLateLeads DEF RunLate
  <2> QED
    BY <2>1 DEF SeenInv, VerifiedIsPresent
<1> QED
  BY <1>2, <1>3, <1>4, <1>5, <1>6, Steps

-----------------------------------------------------------------------------
(* The invariant, and what follows from it.                                *)

\* A deployment begins in its invariant.
LEMMA InvInit ==
    ASSUME Init
    PROVE  Inv
<1>1. net \in Workspace /\ base = net /\ \A d \in Device : net.copies[d] <= 1
  BY DEF Init, Workspace
<1>2. /\ pc = "preflight" /\ late = <<>> /\ attempted = {} /\ new = {} /\ i = 0
      /\ outcome = "none" /\ restored = "none" /\ exclusive \in BOOLEAN
      /\ entries = <<>> /\ dirty = "clean"
      /\ items = [t \in Target |-> [status |-> "none", applied |-> FALSE]]
      /\ before = [d \in Modular |-> "empty"]
  BY DEF Init
<1>3. Owned = {}
  BY <1>2, TargetsOfKinds DEF Owned
<1>4. TypeOK
  BY <1>1, <1>2 DEF TypeOK, Early, Slot, Item, J!Dirty
<1>5. QueueInv /\ OwnInv /\ ForeignInv /\ RestoredInv
  BY <1>1, <1>2, <1>3 DEF QueueInv, OwnInv, OwnPlace, OwnWorld, ForeignInv, RestoredInv, Cleaning
<1>6. SingleInv /\ SeenInv
  BY <1>1, <1>2 DEF SingleInv, SeenInv, SeenModules, SeenDevices, SeenLinks, VerifiedIsPresent
<1> QED
  BY <1>4, <1>5, <1>6 DEF Inv

\* The invariant is inductive.
LEMMA InvStep ==
    ASSUME Inv, [Next]_vars
    PROVE  Inv'
<1>1. CASE Next
  <2>1. TypeOK' /\ QueueInv' /\ OwnInv' /\ ForeignInv' /\ SingleInv' /\ RestoredInv'
    BY <1>1, TypeStep, QueueStep, OwnPlaceStep, OwnWorldStep, ForeignStep, SingleStep,
       RestoredStep DEF Inv, OwnInv
  <2>2. SeenInv'
    BY <1>1, SeenModulesStep, SeenDevicesStep, SeenLinksStep, VerifiedStep DEF Inv, SeenInv
  <2> QED
    BY <2>1, <2>2 DEF Inv
<1>2. CASE UNCHANGED vars
  BY <1>2 DEF Inv, vars, world, runtime, record, control, TypeOK, QueueInv, OwnInv, OwnPlace,
     OwnWorld, ForeignInv, SingleInv, RestoredInv, SeenInv, SeenModules, SeenDevices,
     SeenLinks, VerifiedIsPresent, Owned, Exact, Present, Empty
<1> QED
  BY <1>1, <1>2

\* The inductive invariant of a deployment and its cleanup.
THEOREM InvHolds ==
    Spec => []Inv
  BY InvInit, InvStep, PTL DEF Spec

\* VERIFIED is a fact about the workspace (deploy, each phase observed before
\* the next).
THEOREM VerifiedDeploymentsAreThere ==
    Spec => []VerifiedIsPresent
<1>1. Inv => VerifiedIsPresent
  BY DEF Inv, SeenInv
<1> QED
  BY <1>1, InvHolds, PTL

\* A restoration that is claimed has happened (restore).
THEOREM RestorationsAreReal ==
    Spec => []RestoredIsBaseline
<1>1. Inv => RestoredIsBaseline
  BY DEF Inv, RestoredInv, RestoredIsBaseline
<1> QED
  BY <1>1, InvHolds, PTL

\* What others have in the workspace is left alone (disposable_workspace_error,
\* ensure_module).
THEOREM ForeignStateIsKept ==
    Spec => []ForeignStateSurvives
<1>1. ASSUME Inv
      PROVE  ForeignStateSurvives
  <2>1. exclusive /\ ~Empty(base) => net = base /\ late = <<>>
    BY <1>1 DEF Inv, ForeignInv
  <2>2. ASSUME NEW d \in Modular, Present(base, d), d \notin attempted
        PROVE  net.slot[d] = base.slot[d]
    <3>1. d \in Device /\ base \in Workspace
      BY <1>1, Numbers DEF Inv, TypeOK
    <3>2. CASE pc \in Cleaning
      <4>1. exclusive /\ ~Empty(base)
        BY <1>1, <2>2, <3>1, <3>2 DEF Inv, QueueInv, Empty, Present
      <4> QED
        BY <2>1, <4>1
    <3>3. CASE pc \notin Cleaning
      BY <1>1, <2>2, <3>1, <3>3 DEF Inv, OwnInv, OwnWorld
    <3> QED
      BY <3>2, <3>3
  <2> QED
    BY <2>1, <2>2 DEF ForeignStateSurvives
<1> QED
  BY <1>1, InvHolds, PTL

\* No device is created twice (ensure_device, whose creation is not replayed).
THEOREM NamesAreTakenOnce ==
    Spec => []NoDuplicateDevice
<1>1. ASSUME Inv
      PROVE  NoDuplicateDevice
  <2> SUFFICES ASSUME exclusive, NEW d \in Device
               PROVE  net.copies[d]
                      + Cardinality({k \in DOMAIN late : late[k] = <<"add", d>>}) <= 1
    BY DEF NoDuplicateDevice
  <2> DEFINE K == {k \in DOMAIN late : late[k] = <<"add", d>>}
  <2>1. /\ late \in Seq(Command) /\ net.copies[d] \in Nat /\ net.copies[d] <= 1
        /\ late # <<>> /\ late[1] = <<"add", d>> => net.copies[d] = 0
    BY <1>1 DEF Inv, TypeOK, Workspace, SingleInv
  <2>2. \A k \in 2..Len(late) : k \notin K
    BY <1>1 DEF Inv, QueueInv
  <2>3. K \subseteq {1}
    BY <2>1, <2>2
  <2>4. \/ Cardinality(K) = 0
        \/ Cardinality(K) = 1 /\ net.copies[d] = 0
    <3>1. CASE K = {}
      <4>1. Cardinality(K) = 0
        BY <3>1, FS_EmptySet
      <4> HIDE DEF K
      <4> QED
        BY <4>1
    <3>2. CASE K = {1}
      <4>1. Cardinality(K) = 1
        BY <3>2, FS_Singleton
      <4>2. net.copies[d] = 0
        BY <2>1, <3>2
      <4> HIDE DEF K
      <4> QED
        BY <4>1, <4>2
    <3> QED
      BY <2>3, <3>1, <3>2
  <2>5. net.copies[d] + Cardinality(K) <= 1
    <3> HIDE DEF K
    <3> QED
      BY <2>1, <2>4
  <2> QED
    BY <2>5
<1> QED
  BY <1>1, InvHolds, PTL

\* The cleanup can find whatever the deployment has made
\* (_owned_device_attempts, attempted_device_ids).
THEOREM CreationsAreOwned ==
    Spec => []CreatedIsOwned
<1>1. ASSUME Inv
      PROVE  CreatedIsOwned
  <2> SUFFICES ASSUME pc = "finished", NEW d \in Device,
                      \/ net.copies[d] > base.copies[d]
                      \/ <<"add", d>> \in {late[k] : k \in DOMAIN late}
               PROVE  d \in attempted /\ d \in Owned
    BY DEF CreatedIsOwned
  <2>1. pc \notin Cleaning /\ late \in Seq(Command) /\ net \in Workspace /\ base \in Workspace
    BY <1>1 DEF Inv, TypeOK, Cleaning
  <2>2. d \in attempted
    <3>1. CASE net.copies[d] > base.copies[d]
      <4>1. net.copies[d] \in Nat /\ base.copies[d] \in Nat
        BY <2>1 DEF Workspace
      <4>2. net.copies[d] # base.copies[d]
        BY <3>1, <4>1
      <4> QED
        BY <1>1, <2>1, <4>2 DEF Inv, OwnInv, OwnWorld
    <3>2. CASE <<"add", d>> \in {late[k] : k \in DOMAIN late}
      <4>1. PICK k \in 1..Len(late) : late[k] = <<"add", d>>
        BY <2>1, <3>2
      <4> QED
        BY <1>1, <2>1, <4>1 DEF Inv, OwnInv, OwnWorld
    <3> QED
      BY <3>1, <3>2
  <2> QED
    BY <1>1, <2>1, <2>2 DEF Inv, OwnInv, OwnWorld
<1> QED
  BY <1>1, InvHolds, PTL

=============================================================================
