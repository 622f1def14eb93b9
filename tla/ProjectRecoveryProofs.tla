------------------------ MODULE ProjectRecoveryProofs ------------------------
(* Theorems about the recovery of a project, for any number of requests,    *)
(* sessions, revisions, crashes and outside edits.                          *)
EXTENDS ProjectRecovery, FiniteSetTheorems, TLAPS

(* Behind, for any store of revisions.                                      *)
IsStore(f) ==
  /\ DOMAIN f \subseteq Nat
  /\ \A r \in DOMAIN f : f[r].parent \in {None} \cup {q \in DOMAIN f : q < r}
ClosedIn(f, cut, S) == \A s \in S \ cut : f[s].parent # None => f[s].parent \in S
Walk(f, cut, r) ==
  {q \in DOMAIN f : \A S \in SUBSET (DOMAIN f \ {q}) : r \in S => ~ClosedIn(f, cut, S)}

-----------------------------------------------------------------------------
(* The steps of a commit, those of them that the lock is held in, and those *)
(* that there is a new revision in.                                         *)
Holding == {"apply", "verify", "point", "materialize", "record"}
Publishing == {"verify", "point", "materialize", "record"}
CommitSteps == {"lock"} \cup Holding
Orphaned == PointerRepairs \cup {"reject-orphan"}

Kinds == {"none", "begin"} \cup Commits \cup Orphaned \cup MetaWriters
Steps == {"none", "read", "remove", "scan", "audit", "write", "move", "store", "list", "mark"}
           \cup CommitSteps
Names == Sessions \cup Nat \cup {None}
Metas == [clean : BOOLEAN, entries : SUBSET Nat]
TaskType == [kind : Kinds, step : Steps, base : Nat \cup {None}, of : Names,
             new : Nat \cup {None}, seen : Nat \cup {None} \cup Metas]

StoreTyped ==
  /\ Cardinality(DOMAIN rev) \in Nat /\ DOMAIN rev = 1..Cardinality(DOMAIN rev)
  /\ rev[Root].parent = None /\ rev[Root].by = None
  /\ \A r \in DOMAIN rev :
       /\ rev[r].source \in Nat /\ rev[r].by \in Names
       /\ r # Root => rev[r].parent \in DOMAIN rev /\ rev[r].parent < r
  /\ pointer \in DOMAIN rev /\ gone \subseteq DOMAIN rev
FilesTyped ==
  /\ opened \in BOOLEAN /\ working \in Nat
  /\ session \in [Sessions -> {None, Ended} \cup [base : Nat, text : Nat]]
  /\ \A s \in Sessions : session[s] \notin {None, Ended} => session[s].base \in DOMAIN rev
  /\ receipt \in [Sessions -> {None, "failed", "committed"}]
  /\ tally \in [requests : Nat, crashes : Nat, outside : Nat]
  /\ tally.requests <= MaxRequests
AutosavesTyped ==
  /\ meta \in Metas /\ meta.entries \subseteq 1..tally.requests
  /\ saved \in [DOMAIN saved -> Nat] /\ DOMAIN saved \subseteq 1..tally.requests
  /\ listing \subseteq 1..tally.requests
  /\ contended \in BOOLEAN
BooksTyped == accepted \subseteq DOMAIN rev /\ waived \subseteq DOMAIN rev /\ missed \subseteq gone

(* What a task is at, what it is about, and what it has made.               *)
StepFits(t) ==
  /\ t.step \in CommitSteps => t.kind \in Commits
  /\ t.step = "remove" => t.kind = "session"
  /\ t.step = "scan" => t.kind \in Orphaned \cup {"restore", "adopt-source"}
  /\ t.step \in {"audit", "write"} => t.kind \in PointerRepairs
  /\ t.step = "move" => t.kind = "reject-orphan"
  /\ t.step \in {"store", "list"} => t.kind = "autosave"
  /\ t.step = "mark" => t.kind \in {"open", "close"}
  /\ t.kind = "begin" => t.step = "read"
TargetFits(t) ==
  /\ t.kind \in {"begin", "session"} => t.of \in Sessions
  /\ t.kind \in {"restore", "autosave"} => t.of \in 1..tally.requests
  /\ t.kind \in {"edit", "adopt-source"} => t.of = None
  /\ t.kind \in Orphaned => t.of \in DOMAIN rev
WorkFits(t) ==
  /\ t.kind \in {"begin", "session", "autosave"} => t.base \in DOMAIN rev
  /\ t.kind = "session" => t.seen \in Nat
  /\ t.kind = "adopt-source" /\ t.step \in CommitSteps => t.seen \in Nat
  /\ t.kind \in MetaWriters => t.seen \in Metas /\ t.seen.entries \subseteq 1..tally.requests
  /\ t.step \in Publishing =>
       t.new \in DOMAIN rev \ {Root} /\ rev[t.new].by = t.of
TasksTyped ==
  /\ task \in [Tasks -> TaskType]
  /\ \A u \in Tasks : StepFits(task[u]) /\ TargetFits(task[u]) /\ WorkFits(task[u])

(* The lock is held by the task that is between taking it and releasing it. *)
LockInv ==
  /\ holder \in Tasks \cup {"dead", None}
  /\ \A u \in Tasks : holder = u <=> task[u].step \in Holding

TypeOK ==
  StoreTyped /\ FilesTyped /\ AutosavesTyped /\ BooksTyped /\ TasksTyped /\ LockInv

-----------------------------------------------------------------------------
(* Revisions made by one session or by the restoration of one autosave have *)
(* one parent: what the session or the autosave is based on, as long as     *)
(* there is another attempt to come.                                        *)
SiblingInv ==
  \A r, q \in DOMAIN rev :
    rev[r].by = rev[q].by /\ rev[r].by # None => rev[r].parent = rev[q].parent
SessionInv ==
  /\ \A r \in DOMAIN rev :
       rev[r].by \in Sessions =>
         /\ session[rev[r].by] # None
         /\ session[rev[r].by] # Ended => session[rev[r].by].base = rev[r].parent
  /\ \A u \in Tasks :
       /\ task[u].kind = "begin" => session[task[u].of] = None
       /\ task[u].kind = "session" =>
            /\ session[task[u].of] # None
            /\ session[task[u].of] # Ended => session[task[u].of].base = task[u].base
            /\ \A r \in DOMAIN rev : rev[r].by = task[u].of => rev[r].parent = task[u].base
  /\ \A u, v \in Tasks :
       /\ task[u].kind = "session" /\ task[v].kind = "session" /\ task[u].of = task[v].of
            => task[u].base = task[v].base
       /\ task[u].kind = "begin" /\ u # v => task[v].of # task[u].of
RestoreInv ==
  /\ \A r \in DOMAIN rev :
       rev[r].by \in Nat =>
         /\ rev[r].by <= tally.requests
         /\ rev[r].by \in DOMAIN saved => saved[rev[r].by] = rev[r].parent
  /\ \A u \in Tasks :
       task[u].step = "store" =>
         /\ task[u].of \notin DOMAIN saved
         /\ \A r \in DOMAIN rev : rev[r].by # task[u].of
  /\ \A u, v \in Tasks :
       task[u].kind = "autosave" /\ task[v].kind = "autosave" /\ task[u].of = task[v].of
         => u = v
OriginInv == SiblingInv /\ SessionInv /\ RestoreInv

-----------------------------------------------------------------------------
(* Without a crash, a session has a revision before it has a receipt only   *)
(* while the task that will write the receipt is at work.                   *)
ReceiptInv ==
  tally.crashes = 0 =>
    /\ \A r \in DOMAIN rev :
         /\ rev[r].by \in Sessions /\ receipt[rev[r].by] = None =>
              \E u \in Tasks : task[u].step \in Publishing /\ task[u].kind = "session"
                                 /\ task[u].new = r
         /\ rev[r].by \in Sessions /\ receipt[rev[r].by] = "failed" => r \in gone
    /\ \A s \in Sessions :
         receipt[s] = "committed" => \E r \in accepted : rev[r].by = s
    /\ \A u \in Tasks :
         task[u].kind = "session" /\ task[u].step \in Publishing => receipt[task[u].of] = None

-----------------------------------------------------------------------------
(* As long as no two writers of the metadata have overlapped, the one there *)
(* is has seen what the metadata still say.                                 *)
Newest(L) == {n \in L : Cardinality({k \in L : k >= n}) <= Retention}
WriterInv ==
  contended \/
    /\ \A u, v \in Tasks :
         task[u].kind \in MetaWriters /\ task[v].kind \in MetaWriters => u = v
    /\ \A u \in Tasks :
         /\ task[u].kind \in MetaWriters => task[u].seen = meta
         /\ task[u].kind = "autosave" => \A k \in listing : k < task[u].of
         /\ task[u].step = "list" => task[u].of \in DOMAIN saved
    /\ meta.entries \subseteq DOMAIN saved
    /\ meta.entries = Newest(listing)
    /\ opened /\ missed = {} => ~meta.clean

-----------------------------------------------------------------------------
(* What stands behind a revision that authority is at, or is about to be    *)
(* moved to, is there or on record; and so is what has been accepted.       *)
Whole(r) == Walk(rev, gone, r) \cap gone \subseteq missed
Covers(r) == accepted \subseteq Walk(rev, {}, r) \cup waived
TaskStands(t) ==
  /\ t.step = "verify" => Whole(rev[t.new].parent) /\ Covers(rev[t.new].parent)
  /\ t.step = "point" => Whole(t.new) /\ Covers(t.new)
  /\ t.step \in {"materialize", "record"} => t.new \in Walk(rev, {}, pointer) \cup waived
  /\ t.step = "write" =>
       /\ t.of \in gone => t.of \in missed
       /\ t.kind = "adopt-orphan" => rev[t.of].parent = t.base
StandsInv ==
  /\ Whole(pointer) /\ Covers(pointer)
  /\ \A u \in Tasks : TaskStands(task[u])

IInv == TypeOK /\ OriginInv /\ ReceiptInv /\ WriterInv /\ StandsInv
-----------------------------------------------------------------------------
(* A revision is on its own walk.                                           *)
LEMMA WalkHolds ==
  ASSUME NEW f, NEW cut, NEW r \in DOMAIN f
  PROVE  r \in Walk(f, cut, r)
BY DEF Walk

(* A walk goes on from a revision that is not cut to its parent.            *)
LEMMA WalkGoesOn ==
  ASSUME NEW f, NEW cut, IsStore(f), NEW r, NEW s \in Walk(f, cut, r),
         s \notin cut, f[s].parent # None
  PROVE  f[s].parent \in Walk(f, cut, r)
<1>1. s \in DOMAIN f /\ f[s].parent \in DOMAIN f
  BY DEF IsStore, Walk
<1>2. ASSUME NEW S \in SUBSET (DOMAIN f \ {f[s].parent}), r \in S, ClosedIn(f, cut, S)
      PROVE  FALSE
  <2>1. s \notin S
    BY <1>1, <1>2 DEF ClosedIn
  <2> QED
    BY <1>2, <2>1 DEF Walk
<1> QED
  BY <1>1, <1>2 DEF Walk

(* It meets nothing else: a closed set with the revision in it holds it all. *)
LEMMA WalkLeast ==
  ASSUME NEW f, NEW cut, NEW r, NEW S \in SUBSET DOMAIN f, r \in S, ClosedIn(f, cut, S)
  PROVE  Walk(f, cut, r) \subseteq S
BY DEF Walk

(* A walk is closed as a set.                                               *)
LEMMA WalkIsClosed ==
  ASSUME NEW f, NEW cut, IsStore(f), NEW r
  PROVE  Walk(f, cut, r) \in SUBSET DOMAIN f /\ ClosedIn(f, cut, Walk(f, cut, r))
<1>1. Walk(f, cut, r) \in SUBSET DOMAIN f
  BY DEF Walk
<1> QED
  BY <1>1, WalkGoesOn DEF ClosedIn

(* What is cut further is met earlier.                                      *)
LEMMA WalkCut ==
  ASSUME NEW f, NEW cut, NEW more, IsStore(f), NEW r \in DOMAIN f, cut \subseteq more
  PROVE  Walk(f, more, r) \subseteq Walk(f, cut, r)
<1>1. ClosedIn(f, cut, Walk(f, cut, r)) /\ Walk(f, cut, r) \in SUBSET DOMAIN f
  BY WalkIsClosed
<1>2. r \in Walk(f, cut, r)
  BY WalkHolds
<1>3. ClosedIn(f, more, Walk(f, cut, r))
  BY <1>1 DEF ClosedIn
<1> QED
  BY <1>1, <1>2, <1>3, WalkLeast

(* A walk that meets nothing that is cut is the whole line.                 *)
LEMMA WalkWhole ==
  ASSUME NEW f, NEW cut, IsStore(f), NEW r \in DOMAIN f, Walk(f, cut, r) \cap cut = {}
  PROVE  Walk(f, cut, r) = Walk(f, {}, r)
<1>1. ClosedIn(f, cut, Walk(f, cut, r)) /\ Walk(f, cut, r) \in SUBSET DOMAIN f
  BY WalkIsClosed
<1>2. r \in Walk(f, cut, r)
  BY WalkHolds
<1>3. ClosedIn(f, {}, Walk(f, cut, r))
  BY <1>1 DEF ClosedIn
<1>4. Walk(f, {}, r) \subseteq Walk(f, cut, r)
  BY <1>1, <1>2, <1>3, WalkLeast
<1>5. Walk(f, cut, r) \subseteq Walk(f, {}, r)
  BY WalkCut
<1> QED
  BY <1>4, <1>5

(* From a child, a walk meets the child and what it meets from the parent.  *)
LEMMA WalkStep ==
  ASSUME NEW f, NEW cut, IsStore(f), NEW r \in DOMAIN f, f[r].parent # None
  PROVE  /\ Walk(f, cut, r) \subseteq {r} \cup Walk(f, cut, f[r].parent)
         /\ r \notin cut => Walk(f, cut, f[r].parent) \subseteq Walk(f, cut, r)
<1>1. f[r].parent \in DOMAIN f
  BY DEF IsStore
<1>2. PICK q \in DOMAIN f : q = f[r].parent
  BY <1>1
<1>3. ClosedIn(f, cut, Walk(f, cut, q)) /\ Walk(f, cut, q) \in SUBSET DOMAIN f /\ q \in Walk(f, cut, q)
  BY WalkIsClosed, WalkHolds
<1>4. Walk(f, cut, r) \subseteq {r} \cup Walk(f, cut, q)
  <2> DEFINE S == {r} \cup Walk(f, cut, q)
  <2>1. S \in SUBSET DOMAIN f /\ r \in S
    BY <1>3
  <2>2. ClosedIn(f, cut, S)
    BY <1>2, <1>3 DEF ClosedIn
  <2> HIDE DEF S
  <2>3. Walk(f, cut, r) \subseteq S
    BY <2>1, <2>2, WalkLeast
  <2> QED
    BY <2>3 DEF S
<1>5. ASSUME r \notin cut
      PROVE  Walk(f, cut, q) \subseteq Walk(f, cut, r)
  <2>1. r \in Walk(f, cut, r)
    BY WalkHolds
  <2>2. q \in Walk(f, cut, r)
    BY <1>2, <1>5, <2>1, WalkGoesOn
  <2>3. ClosedIn(f, cut, Walk(f, cut, r)) /\ Walk(f, cut, r) \in SUBSET DOMAIN f
    BY WalkIsClosed
  <2> QED
    BY <2>2, <2>3, WalkLeast
<1> QED
  BY <1>2, <1>4, <1>5

(* A walk leads back in time.                                               *)
LEMMA WalkBelow ==
  ASSUME NEW f, NEW cut, IsStore(f), NEW r \in DOMAIN f, NEW s \in Walk(f, cut, r)
  PROVE  s \in DOMAIN f /\ s \in Nat /\ s <= r
<1> DEFINE S == {t \in DOMAIN f : t <= r}
<1>1. ClosedIn(f, cut, S)
  <2> SUFFICES ASSUME NEW t \in S, f[t].parent # None PROVE f[t].parent \in S
    BY DEF ClosedIn
  <2>1. f[t].parent \in DOMAIN f /\ f[t].parent < t /\ t <= r
    BY DEF IsStore
  <2>2. f[t].parent \in Nat /\ t \in Nat /\ r \in Nat
    BY <2>1 DEF IsStore
  <2> QED
    BY <2>1, <2>2
<1>2. r \in S /\ S \in SUBSET DOMAIN f
  BY DEF IsStore
<1> HIDE DEF S
<1>3. s \in S
  BY <1>1, <1>2, WalkLeast
<1> QED
  BY <1>3 DEF S, IsStore

(* Of two revisions on a line one is on the line of the other.              *)
LEMMA LineChain ==
  ASSUME NEW f, IsStore(f), NEW r \in DOMAIN f,
         NEW s \in Walk(f, {}, r), NEW t \in Walk(f, {}, r)
  PROVE  s \in Walk(f, {}, t) \/ t \in Walk(f, {}, s)
<1> DEFINE Comparable(x) == x \in Walk(f, {}, t) \/ t \in Walk(f, {}, x)
           S == {x \in DOMAIN f : Comparable(x)}
<1>1. ClosedIn(f, {}, S)
  <2> SUFFICES ASSUME NEW x \in S, f[x].parent # None PROVE f[x].parent \in S
    BY DEF ClosedIn
  <2>1. x \in DOMAIN f /\ Comparable(x) /\ t \in DOMAIN f
    BY DEF Walk
  <2>2. f[x].parent \in DOMAIN f
    BY <2>1 DEF IsStore
  <2>3. CASE x \in Walk(f, {}, t)
    <3>1. f[x].parent \in Walk(f, {}, t)
      BY <2>1, <2>3, WalkGoesOn
    <3> QED
      BY <2>2, <3>1
  <2>4. CASE t \in Walk(f, {}, x)
    <3>1. t = x \/ t \in Walk(f, {}, f[x].parent)
      BY <2>1, <2>4, WalkStep
    <3>2. CASE t = x
      <4>1. x \in Walk(f, {}, t)
        BY <2>1, <3>2, WalkHolds
      <4> QED
        BY <2>3, <4>1
    <3> QED
      BY <2>2, <3>1, <3>2
  <2> QED
    BY <2>1, <2>3, <2>4
<1>2. r \in S /\ S \in SUBSET DOMAIN f
  OBVIOUS
<1> HIDE DEF S
<1>3. s \in S
  BY <1>1, <1>2, WalkLeast
<1> QED
  BY <1>3 DEF S

(* On a line no revision has a sibling.                                     *)
LEMMA LineUnforked ==
  ASSUME NEW f, IsStore(f), NEW r \in DOMAIN f,
         NEW s \in Walk(f, {}, r), NEW t \in Walk(f, {}, r),
         f[s].parent = f[t].parent, f[s].parent # None
  PROVE  s = t
<1>1. s \in DOMAIN f /\ t \in DOMAIN f
  BY WalkBelow
<1>2. ASSUME NEW x \in DOMAIN f, NEW y \in DOMAIN f, f[x].parent = f[y].parent,
             f[x].parent # None, x \in Walk(f, {}, y)
      PROVE  x = y
  <2>1. PICK p \in DOMAIN f : p = f[x].parent
    BY <1>2 DEF IsStore
  <2>2. p \in Nat /\ x \in Nat /\ p < x
    BY <1>2, <2>1 DEF IsStore
  <2>3. x = y \/ x \in Walk(f, {}, p)
    BY <1>2, <2>1, WalkStep
  <2>4. x \in Walk(f, {}, p) => x <= p
    BY WalkBelow
  <2> QED
    BY <2>2, <2>3, <2>4
<1>3. s \in Walk(f, {}, t) \/ t \in Walk(f, {}, s)
  BY LineChain
<1> QED
  BY <1>1, <1>2, <1>3

(* A revision that is published is on no walk but those from it.            *)
LEMMA WalkKept ==
  ASSUME NEW f, NEW cut, IsStore(f), NEW g, IsStore(g), DOMAIN f \subseteq DOMAIN g,
         \A r \in DOMAIN f : g[r].parent = f[r].parent,
         NEW r \in DOMAIN f
  PROVE  Walk(g, cut, r) = Walk(f, cut, r)
<1>1. Walk(g, cut, r) \subseteq Walk(f, cut, r)
  <2>1. Walk(f, cut, r) \in SUBSET DOMAIN f /\ ClosedIn(f, cut, Walk(f, cut, r)) /\ r \in Walk(f, cut, r)
    BY WalkIsClosed, WalkHolds
  <2>2. ClosedIn(g, cut, Walk(f, cut, r)) /\ Walk(f, cut, r) \in SUBSET DOMAIN g
    BY <2>1 DEF ClosedIn
  <2> QED
    BY <2>1, <2>2, WalkLeast
<1>2. Walk(f, cut, r) \subseteq Walk(g, cut, r)
  <2> DEFINE S == Walk(g, cut, r)
  <2>1. S \in SUBSET DOMAIN g /\ ClosedIn(g, cut, S) /\ r \in S
    BY WalkIsClosed, WalkHolds
  <2>2. S \in SUBSET DOMAIN f
    BY <1>1 DEF Walk
  <2> HIDE DEF S
  <2>3. ClosedIn(f, cut, S)
    BY <2>1, <2>2 DEF ClosedIn
  <2> QED
    BY <2>1, <2>2, <2>3, WalkLeast DEF S
<1> QED
  BY <1>1, <1>2

(* The model's walks are those of the store it has.                         *)
LEMMA BehindIsWalk ==
  /\ \A r : Chain(r) = Walk(rev, gone, r)
  /\ \A r : Line(r) = Walk(rev, {}, r)
BY DEF Chain, Line, Behind, Walk, Closed, ClosedIn

(* The model's revisions are a store.                                       *)
LEMMA StoreIsStore ==
  ASSUME StoreTyped
  PROVE  IsStore(rev) /\ Root \in DOMAIN rev /\ rev[Root].parent = None
<1>1. DOMAIN rev \subseteq Nat
  BY DEF StoreTyped
<1>2. Root \in DOMAIN rev
  <2>1. pointer \in 1..Cardinality(DOMAIN rev)
    BY DEF StoreTyped
  <2>2. Cardinality(DOMAIN rev) \in Nat /\ DOMAIN rev = 1..Cardinality(DOMAIN rev)
    BY DEF StoreTyped
  <2> QED
    BY <2>1, <2>2 DEF Root
<1> QED
  BY <1>1, <1>2 DEF StoreTyped, IsStore

-----------------------------------------------------------------------------
(* What a step does to the tasks leaves those that it is not about as fit   *)
(* as they were: revisions are only added, and requests are only counted.   *)
Fits(t) == t \in TaskType /\ StepFits(t) /\ TargetFits(t) /\ WorkFits(t)
Grows ==
  /\ DOMAIN rev \subseteq DOMAIN rev' /\ \A r \in DOMAIN rev : rev'[r] = rev[r]
  /\ tally.requests \in Nat /\ tally'.requests \in Nat /\ tally.requests <= tally'.requests

(* A task stays as fit as it was.                                           *)
LEMMA FitsKept ==
  ASSUME Grows, NEW t, Fits(t)
  PROVE  Fits(t)'
<1>1. StepFits(t)'
  BY DEF Fits, StepFits
<1>2. 1..tally.requests \subseteq 1..tally'.requests
  BY DEF Grows
<1>3. TargetFits(t)'
  BY <1>2 DEF Fits, TargetFits, Grows
<1>4. WorkFits(t)'
  BY <1>2 DEF Fits, WorkFits, Grows
<1> QED
  BY <1>1, <1>3, <1>4 DEF Fits

(* One task moves on, and the others stay.                                  *)
LEMMA TaskMoves ==
  ASSUME TasksTyped, Grows, NEW u \in Tasks, NEW t, Fits(t)',
         task' = [task EXCEPT ![u] = t]
  PROVE  TasksTyped'
<1>1. task' \in [Tasks -> TaskType]
  BY DEF TasksTyped, Fits
<1>2. ASSUME NEW v \in Tasks, v # u PROVE Fits(task[v])'
  <2>1. PICK w : w = task[v]
    OBVIOUS
  <2>2. Fits(w) /\ task'[v] = w
    BY <1>2, <2>1 DEF TasksTyped, Fits
  <2>3. Fits(w)'
    BY <2>2, FitsKept
  <2> QED
    BY <2>2, <2>3 DEF Fits, StepFits, TargetFits, WorkFits
<1>3. Fits(task[u])'
  <2>1. task'[u] = t
    BY DEF TasksTyped
  <2> QED
    BY <2>1 DEF Fits, StepFits, TargetFits, WorkFits
<1> QED
  BY <1>1, <1>2, <1>3 DEF TasksTyped, Fits

(* A task that has ended is fit.                                            *)
LEMMA IdleFits == Fits(Idle)
BY RecoveryAssumption
   DEF Fits, Idle, TaskType, Kinds, Steps, Names, StepFits, TargetFits, WorkFits,
       CommitSteps, Holding, Publishing, Commits, Orphaned, PointerRepairs, MetaWriters

(* A request is counted, once its task is idle.                             *)
LEMMA Counted ==
  ASSUME TypeOK, NEW u \in Tasks, NEW t, Start(u, t)
  PROVE  /\ tally'.requests = tally.requests + 1
         /\ tally'.crashes = tally.crashes
         /\ tally' \in [requests : Nat, crashes : Nat, outside : Nat]
         /\ tally'.requests <= MaxRequests
         /\ tally.requests \in Nat
BY RecoveryAssumption DEF TypeOK, FilesTyped, Start

(* A revision that a commit publishes is a new child of the current one.    *)
Published(u, new, text) ==
  /\ new \in Nat /\ new \notin DOMAIN rev /\ new # Root /\ text \in Nat
  /\ DOMAIN rev' = DOMAIN rev \cup {new}
  /\ \A r \in DOMAIN rev : r < new /\ rev'[r] = rev[r]
  /\ rev'[new] = [parent |-> pointer, source |-> text, by |-> task[u].of]
  /\ Cardinality(DOMAIN rev') = new /\ DOMAIN rev' = 1..new
  /\ task' = [task EXCEPT ![u].step = "verify", ![u].new = new]
  /\ UNCHANGED <<session, receipt, holder>>
Publishes(u) ==
  /\ Based(u) /\ Unchanged(u)
  /\ task[u].kind = "session" => receipt[task[u].of] = None
  /\ \E new, text : Published(u, new, text)

(* A commit is applied, and its revision published, or it is refused.       *)
LEMMA Applied ==
  ASSUME TypeOK, NEW u \in Tasks, Apply(u)
  PROVE  Publishes(u) \/ (Refuse(u) /\ rev' = rev)
<1>1. CASE Refuse(u) /\ rev' = rev
  BY <1>1
<1>2. CASE ~(Refuse(u) /\ rev' = rev)
  <2> DEFINE new == Cardinality(DOMAIN rev) + 1
             text == CASE task[u].kind = "session" -> new
                       [] task[u].kind = "adopt-source" -> task[u].seen
                       [] OTHER -> rev[pointer].source
  <2>1. /\ Based(u) /\ Unchanged(u)
        /\ task[u].kind = "session" => receipt[task[u].of] = None
        /\ rev' = [r \in DOMAIN rev \cup {new} |->
                     IF r \in DOMAIN rev THEN rev[r]
                     ELSE [parent |-> pointer, source |-> text, by |-> task[u].of]]
        /\ task' = [task EXCEPT ![u].step = "verify", ![u].new = new]
        /\ UNCHANGED <<session, receipt, holder>>
    BY <1>2 DEF Apply
  <2>2. Cardinality(DOMAIN rev) \in Nat /\ DOMAIN rev = 1..Cardinality(DOMAIN rev)
    BY DEF TypeOK, StoreTyped
  <2>3. Root \in DOMAIN rev
    BY StoreIsStore DEF TypeOK
  <2>4. new \in Nat /\ new \notin DOMAIN rev /\ new # Root /\ DOMAIN rev \cup {new} = 1..new
        /\ \A r \in DOMAIN rev : r < new
    BY <2>2, <2>3
  <2>5. text \in Nat
    <3>1. rev[pointer].source \in Nat
      BY DEF TypeOK, StoreTyped
    <3>2. task[u].kind = "adopt-source" => task[u].seen \in Nat
      BY DEF TypeOK, TasksTyped, WorkFits, Apply, At, CommitSteps, Holding
    <3> QED
      BY <2>4, <3>1, <3>2
  <2> HIDE DEF new, text
  <2>6. DOMAIN rev' = DOMAIN rev \cup {new} /\ DOMAIN rev' = 1..new
    BY <2>1, <2>4
  <2>7. Cardinality(1..new) = new
    BY <2>4, FS_Interval
  <2>8. Published(u, new, text)
    BY <2>1, <2>4, <2>5, <2>6, <2>7 DEF Published
  <2> QED
    BY <2>1, <2>8 DEF Publishes
<1> QED
  BY <1>1, <1>2

(* Revisions and requests only grow in number.                              *)
LEMMA StoreKept == TypeOK /\ [Next]_vars => StoreTyped' /\ Grows
<1> SUFFICES ASSUME TypeOK, [Next]_vars PROVE StoreTyped' /\ Grows
  OBVIOUS
<1>1. tally.requests \in Nat /\ tally'.requests \in Nat /\ tally.requests <= tally'.requests
  <2>1. ASSUME NEW u \in Tasks, NEW t, Start(u, t)
        PROVE  tally'.requests \in Nat /\ tally.requests <= tally'.requests
    BY <2>1, Counted
  <2>2. tally.requests \in Nat
    BY DEF TypeOK, FilesTyped
  <2>3. tally'.requests = tally.requests \/ \E u \in Tasks : \E t : Start(u, t)
    <3>1. ASSUME NEW u \in Tasks,
                 \/ Edit(u) \/ Autosave(u) \/ \E kind \in {"open", "close"} : Mark(u, kind)
                 \/ \E s \in Sessions : BeginSession(u, s) \/ CommitSession(u, s)
                 \/ \E kind, target : Repair(u, kind, target)
          PROVE  \E t : Start(u, t)
      BY <3>1 DEF Edit, Autosave, Mark, BeginSession, CommitSession, Repair
    <3>2. ASSUME NEW u \in Tasks,
                 \/ SessionBegins(u) \/ Lock(u) \/ LockRefused(u) \/ Apply(u) \/ Verify(u)
                 \/ Point(u) \/ Materialize(u) \/ Record(u) \/ SessionEnds(u) \/ Scan(u)
                 \/ Audit(u) \/ WritePointer(u) \/ Reject(u) \/ AutosaveStored(u)
                 \/ AutosaveListed(u) \/ Marked(u)
          PROVE  UNCHANGED tally
      BY <3>2 DEF SessionBegins, Lock, LockRefused, Apply, Verify, Point, Materialize, Record,
         SessionEnds, Scan, Audit, WritePointer, Reject, AutosaveStored, AutosaveListed, Marked
    <3>3. ASSUME (\E s \in Sessions : AbortSession(s)) \/ ClearLock \/ OutsideEdit \/ Crash
          PROVE  tally'.requests = tally.requests
      BY <3>3 DEF AbortSession, ClearLock, OutsideEdit, Crash, TypeOK, FilesTyped
    <3>4. CASE UNCHANGED vars
      BY <3>4 DEF vars
    <3> QED
      BY <3>1, <3>2, <3>3, <3>4 DEF Next
  <2> QED
    BY <2>1, <2>2, <2>3
<1>2. ASSUME NEW u \in Tasks,
             \/ Edit(u) \/ SessionBegins(u) \/ Autosave(u) \/ AutosaveStored(u)
             \/ AutosaveListed(u) \/ Marked(u)
             \/ \E s \in Sessions : BeginSession(u, s) \/ CommitSession(u, s)
             \/ \E kind, target : Repair(u, kind, target)
             \/ \E kind \in {"open", "close"} : Mark(u, kind)
      PROVE  UNCHANGED <<pointer, rev, gone>>
  BY <1>2 DEF Edit, SessionBegins, BeginSession, CommitSession, Repair, Autosave, AutosaveStored,
     AutosaveListed, Mark, Marked, folder
<1>3. ASSUME NEW u \in Tasks,
             \/ Lock(u) \/ LockRefused(u) \/ Verify(u) \/ Materialize(u) \/ Record(u)
             \/ SessionEnds(u) \/ Scan(u) \/ Audit(u)
      PROVE  UNCHANGED <<pointer, rev, gone>>
  BY <1>3 DEF Lock, LockRefused, Verify, Materialize, Record, SessionEnds, Scan, Audit, folder
<1>4. ASSUME \/ \E s \in Sessions : AbortSession(s)
             \/ ClearLock \/ OutsideEdit \/ Crash \/ UNCHANGED vars
      PROVE  UNCHANGED <<pointer, rev, gone>>
  BY <1>4 DEF AbortSession, ClearLock, OutsideEdit, Crash, vars, folder
<1>5. CASE \E u \in Tasks : Apply(u) /\ Publishes(u)
  <2>1. PICK u \in Tasks : Apply(u) /\ Publishes(u)
    BY <1>5
  <2>2. PICK new, text : Published(u, new, text)
    BY <2>1 DEF Publishes
  <2>3. task[u].of \in Names /\ pointer' = pointer /\ gone' = gone
    BY <2>1 DEF TypeOK, TasksTyped, TaskType, Apply
  <2>4. pointer \in DOMAIN rev /\ pointer < new /\ Root \in DOMAIN rev
    BY <2>2, StoreIsStore DEF TypeOK, StoreTyped, Published
  <2>5. StoreTyped'
    <3>1. Cardinality(DOMAIN rev') \in Nat /\ DOMAIN rev' = 1..Cardinality(DOMAIN rev')
      BY <2>2 DEF Published
    <3>2. rev'[Root].parent = None /\ rev'[Root].by = None
      BY <2>2, <2>4 DEF TypeOK, StoreTyped, Published
    <3>3. ASSUME NEW r \in DOMAIN rev'
          PROVE  /\ rev'[r].source \in Nat /\ rev'[r].by \in Names
                 /\ r # Root => rev'[r].parent \in DOMAIN rev' /\ rev'[r].parent < r
      <4>1. CASE r = new
        BY <2>2, <2>3, <2>4, <4>1 DEF Published
      <4>2. CASE r \in DOMAIN rev
        <5>1. rev'[r] = rev[r] /\ DOMAIN rev \subseteq DOMAIN rev'
          BY <2>2, <4>2 DEF Published
        <5> QED
          BY <4>2, <5>1 DEF TypeOK, StoreTyped
      <4> QED
        BY <2>2, <3>3, <4>1, <4>2 DEF Published
    <3>4. pointer' \in DOMAIN rev' /\ gone' \subseteq DOMAIN rev'
      BY <2>2, <2>3 DEF TypeOK, StoreTyped, Published
    <3> QED
      BY <3>1, <3>2, <3>3, <3>4 DEF StoreTyped
  <2> QED
    BY <1>1, <2>2, <2>5 DEF Grows, Published
<1>6. CASE rev' = rev
  <2>1. CASE UNCHANGED <<pointer, gone>>
    BY <1>1, <1>6, <2>1 DEF TypeOK, StoreTyped, Grows
  <2>2. CASE ~UNCHANGED <<pointer, gone>>
    <3>1. PICK u \in Tasks : Point(u) \/ WritePointer(u) \/ Reject(u)
      <4>1. ASSUME NEW u \in Tasks, Apply(u)
            PROVE  UNCHANGED <<pointer, gone>>
        BY <4>1 DEF Apply
      <4> QED
        BY <1>2, <1>3, <1>4, <2>2, <4>1 DEF Next
    <3>2. task[u].step = "point" => task[u].new \in DOMAIN rev
      BY DEF TypeOK, TasksTyped, WorkFits, Publishing
    <3>3. task[u].step = "write" => task[u].of \in DOMAIN rev
      BY DEF TypeOK, TasksTyped, StepFits, TargetFits, Orphaned
    <3>4. pointer' \in DOMAIN rev /\ gone' \subseteq DOMAIN rev
      BY <3>1, <3>2, <3>3 DEF Point, WritePointer, Reject, At, TypeOK, StoreTyped
    <3> QED
      BY <1>1, <1>6, <3>4 DEF TypeOK, StoreTyped, Grows
  <2> QED
    BY <2>1, <2>2
<1>7. ASSUME rev' # rev
      PROVE  \E u \in Tasks : Apply(u) /\ Publishes(u)
  <2>1. PICK u \in Tasks : Apply(u)
    <3>1. ASSUME NEW u \in Tasks, Point(u) \/ WritePointer(u) \/ Reject(u)
          PROVE  rev' = rev
      BY <3>1 DEF Point, WritePointer, Reject
    <3> QED
      BY <1>7, <1>2, <1>3, <1>4, <3>1 DEF Next
  <2> QED
    BY <1>7, <2>1, Applied
<1> QED
  BY <1>5, <1>6, <1>7

-----------------------------------------------------------------------------
(* A task that ends leaves the others fit.                                  *)
LEMMA TaskEnds ==
  ASSUME TasksTyped, Grows, NEW u \in Tasks, Ends(u)
  PROVE  TasksTyped'
<1>1. PICK t : t = Idle
  OBVIOUS
<1>2. Fits(t)
  BY <1>1, IdleFits
<1>3. Fits(t)' /\ task' = [task EXCEPT ![u] = t]
  BY <1>1, <1>2, FitsKept DEF Ends
<1> QED
  BY <1>3, TaskMoves

(* A task that goes on to another step of the same work stays fit.          *)
LEMMA TaskGoesOn ==
  ASSUME TasksTyped, Grows, NEW u \in Tasks, NEW s \in Steps, Goto(u, s),
         task[u].kind # "begin", s \notin {"scan", "move", "store", "mark"},
         s \in CommitSteps => task[u].step \in CommitSteps,
         s \in Publishing => task[u].step \in Publishing,
         s = "remove" => task[u].kind = "session",
         s \in {"audit", "write"} => task[u].kind \in PointerRepairs,
         s = "list" => task[u].kind = "autosave"
  PROVE  TasksTyped'
<1>1. PICK t : t = [task[u] EXCEPT !.step = s]
  OBVIOUS
<1>2. task[u] \in TaskType /\ Fits(task[u])
  BY DEF TasksTyped, Fits
<1>3. /\ t \in TaskType /\ t.step = s
      /\ t.kind = task[u].kind /\ t.base = task[u].base /\ t.of = task[u].of
      /\ t.new = task[u].new /\ t.seen = task[u].seen
  BY <1>1, <1>2 DEF TaskType
<1>4. StepFits(t) /\ TargetFits(t)
  BY <1>2, <1>3 DEF Fits, StepFits, TargetFits
<1>5. WorkFits(t)
  BY <1>2, <1>3 DEF Fits, WorkFits
<1>6. Fits(t)'
  BY <1>3, <1>4, <1>5, FitsKept DEF Fits
<1>7. task' = [task EXCEPT ![u] = t]
  BY <1>1 DEF Goto
<1> QED
  BY <1>6, <1>7, TaskMoves

(* A task that starts on what is there is fit.                              *)
LEMMA TaskStarts ==
  ASSUME TypeOK, Grows, NEW u \in Tasks, NEW t, Start(u, t), rev' = rev,
         t \in TaskType, StepFits(t), TargetFits(t)', WorkFits(t)'
  PROVE  TasksTyped'
<1>1. task' = [task EXCEPT ![u] = t]
  BY DEF Start
<1>2. Fits(t)'
  BY DEF Fits, StepFits
<1> QED
  BY <1>1, <1>2, TaskMoves DEF TypeOK

(* The kinds and the steps.                                                 *)
LEMMA Vocabulary ==
  /\ Commits = {"edit", "session", "adopt-source", "restore"}
  /\ Orphaned = {"adopt-orphan", "recover-pointer", "reject-orphan"}
  /\ Kinds = {"none", "begin", "edit", "session", "adopt-source", "restore", "adopt-orphan",
              "recover-pointer", "reject-orphan", "open", "close", "autosave"}
  /\ CommitSteps = {"lock", "apply", "verify", "point", "materialize", "record"}
  /\ Steps = {"none", "read", "remove", "scan", "audit", "write", "move", "store", "list",
              "mark", "lock", "apply", "verify", "point", "materialize", "record"}
BY DEF Commits, Orphaned, Kinds, PointerRepairs, MetaWriters, CommitSteps, Holding, Steps

(* The tasks stay fit.                                                      *)
LEMMA TasksKept == TypeOK /\ [Next]_vars => TasksTyped'
<1> SUFFICES ASSUME TypeOK, [Next]_vars PROVE TasksTyped'
  OBVIOUS
<1> USE Vocabulary
<1>1. Grows /\ StoreTyped' /\ TasksTyped
  BY StoreKept DEF TypeOK
<1>2. /\ None \in Names /\ None \notin Nat
      /\ Idle = [kind |-> "none", step |-> "none", base |-> None, of |-> None,
                 new |-> None, seen |-> None]
  BY RecoveryAssumption DEF Names, Idle
<1>3. pointer \in DOMAIN rev /\ pointer \in Nat
  BY StoreIsStore DEF TypeOK, StoreTyped, IsStore
<1>4. \A v \in Tasks : task[v] \in TaskType /\ StepFits(task[v]) /\ TargetFits(task[v]) /\ WorkFits(task[v])
  BY DEF TypeOK, TasksTyped
<1>5. ASSUME NEW u \in Tasks, Edit(u) PROVE TasksTyped'
  <2>1. PICK t : t = [Idle EXCEPT !.kind = "edit", !.step = "lock", !.base = pointer]
    OBVIOUS
  <2>2. t = [kind |-> "edit", step |-> "lock", base |-> pointer, of |-> None,
             new |-> None, seen |-> None]
    BY <1>2, <2>1
  <2>3. t \in TaskType /\ StepFits(t)
    BY <1>2, <1>3, <2>2 DEF TaskType, StepFits
  <2>4. TargetFits(t)' /\ WorkFits(t)'
    BY <1>2, <1>3, <2>2 DEF TargetFits, WorkFits, MetaWriters, Publishing
  <2>5. Start(u, t) /\ rev' = rev
    BY <1>5, <2>1 DEF Edit, folder
  <2> QED
    BY <1>1, <2>3, <2>4, <2>5, TaskStarts
<1>6. ASSUME NEW u \in Tasks, NEW s \in Sessions, BeginSession(u, s) PROVE TasksTyped'
  <2>1. PICK t : t = [Idle EXCEPT !.kind = "begin", !.step = "read", !.base = pointer, !.of = s]
    OBVIOUS
  <2>2. t = [kind |-> "begin", step |-> "read", base |-> pointer, of |-> s,
             new |-> None, seen |-> None]
    BY <1>2, <2>1
  <2>3. t \in TaskType /\ StepFits(t)
    BY <1>2, <1>3, <2>2 DEF TaskType, StepFits, Names
  <2>4. rev' = rev
    BY <1>6 DEF BeginSession, folder
  <2>5. TargetFits(t)' /\ WorkFits(t)'
    BY <1>2, <1>3, <2>2, <2>4 DEF TargetFits, WorkFits, MetaWriters, Publishing
  <2>6. Start(u, t)
    BY <1>6, <2>1 DEF BeginSession
  <2> QED
    BY <1>1, <2>3, <2>4, <2>5, <2>6, TaskStarts
<1>7. ASSUME NEW u \in Tasks, NEW s \in Sessions, CommitSession(u, s) PROVE TasksTyped'
  <2>1. PICK t : t = [Idle EXCEPT !.kind = "session", !.step = "lock",
                        !.base = session[s].base, !.of = s, !.seen = session[s].text]
    OBVIOUS
  <2>2. t = [kind |-> "session", step |-> "lock", base |-> session[s].base, of |-> s,
             new |-> None, seen |-> session[s].text]
    BY <1>2, <2>1
  <2>3. session[s].base \in DOMAIN rev /\ session[s].base \in Nat /\ session[s].text \in Nat
    BY <1>7 DEF CommitSession, TypeOK, FilesTyped
  <2>4. t \in TaskType /\ StepFits(t)
    BY <1>2, <2>2, <2>3 DEF TaskType, StepFits, Names
  <2>5. rev' = rev
    BY <1>7 DEF CommitSession, folder
  <2>6. TargetFits(t)' /\ WorkFits(t)'
    BY <1>2, <2>2, <2>3, <2>5 DEF TargetFits, WorkFits, MetaWriters, Publishing
  <2>7. Start(u, t)
    BY <1>7, <2>1 DEF CommitSession
  <2> QED
    BY <1>1, <2>4, <2>5, <2>6, <2>7, TaskStarts
<1>8. ASSUME NEW u \in Tasks, NEW kind, NEW x, Repair(u, kind, x),
             \/ kind \in Orphaned /\ x \in DOMAIN rev
             \/ kind = "restore" /\ x \in 1..tally.requests
             \/ kind = "adopt-source" /\ x = None
      PROVE  TasksTyped'
  <2>1. PICK t : t = [Idle EXCEPT !.kind = kind, !.step = "scan", !.base = pointer, !.of = x]
    OBVIOUS
  <2>2. t = [kind |-> kind, step |-> "scan", base |-> pointer, of |-> x,
             new |-> None, seen |-> None]
    BY <1>2, <2>1
  <2>3. x \in Names /\ kind \in Kinds
    <3>1. DOMAIN rev \subseteq Nat /\ 1..tally.requests \subseteq Nat
      BY StoreIsStore DEF TypeOK, IsStore
    <3> QED
      BY <1>2, <1>8, <3>1 DEF Names
  <2>4. t \in TaskType /\ StepFits(t)
    BY <1>2, <1>3, <1>8, <2>2, <2>3 DEF TaskType, StepFits
  <2>5. rev' = rev /\ Start(u, t)
    BY <1>8, <2>1 DEF Repair, folder
  <2>6. 1..tally.requests \subseteq 1..tally'.requests
    BY <1>1 DEF Grows
  <2>7. TargetFits(t)' /\ WorkFits(t)'
    BY <1>2, <1>8, <2>2, <2>5, <2>6 DEF TargetFits, WorkFits, MetaWriters, Publishing
  <2> QED
    BY <1>1, <2>4, <2>5, <2>7, TaskStarts
<1>9. ASSUME NEW u \in Tasks, Autosave(u) PROVE TasksTyped'
  <2>1. PICK t : t = [Idle EXCEPT !.kind = "autosave", !.step = "store", !.base = pointer,
                        !.of = tally.requests + 1, !.seen = meta]
    OBVIOUS
  <2>2. t = [kind |-> "autosave", step |-> "store", base |-> pointer, of |-> tally.requests + 1,
             new |-> None, seen |-> meta]
    BY <1>2, <2>1
  <2>3. Start(u, t) /\ rev' = rev
    BY <1>9, <2>1 DEF Autosave, folder
  <2>4. tally'.requests = tally.requests + 1 /\ tally.requests \in Nat
    BY <2>3, Counted
  <2>5. meta \in Metas /\ meta.entries \subseteq 1..tally.requests
    BY DEF TypeOK, AutosavesTyped
  <2>6. t \in TaskType /\ StepFits(t)
    BY <1>2, <1>3, <2>2, <2>4, <2>5 DEF TaskType, StepFits, Names
  <2>7. tally.requests + 1 \in 1..tally'.requests /\ 1..tally.requests \subseteq 1..tally'.requests
    BY <2>4
  <2>8. TargetFits(t)' /\ WorkFits(t)'
    BY <1>2, <1>3, <2>2, <2>3, <2>5, <2>7 DEF TargetFits, WorkFits, MetaWriters, Publishing
  <2> QED
    BY <1>1, <2>3, <2>6, <2>8, TaskStarts
<1>10. ASSUME NEW u \in Tasks, NEW kind \in {"open", "close"}, Mark(u, kind) PROVE TasksTyped'
  <2>1. PICK t : t = [Idle EXCEPT !.kind = kind, !.step = "mark", !.seen = meta]
    OBVIOUS
  <2>2. t = [kind |-> kind, step |-> "mark", base |-> None, of |-> None,
             new |-> None, seen |-> meta]
    BY <1>2, <2>1
  <2>3. Start(u, t) /\ rev' = rev
    BY <1>10, <2>1 DEF Mark, folder
  <2>4. tally'.requests = tally.requests + 1 /\ tally.requests \in Nat
    BY <2>3, Counted
  <2>5. meta \in Metas /\ meta.entries \subseteq 1..tally.requests
    BY DEF TypeOK, AutosavesTyped
  <2>6. t \in TaskType /\ StepFits(t)
    BY <1>2, <2>2, <2>5 DEF TaskType, StepFits
  <2>7. 1..tally.requests \subseteq 1..tally'.requests
    BY <2>4
  <2>8. TargetFits(t)' /\ WorkFits(t)'
    BY <1>2, <2>2, <2>5, <2>7 DEF TargetFits, WorkFits, MetaWriters, Publishing
  <2> QED
    BY <1>1, <2>3, <2>6, <2>8, TaskStarts
<1>11. ASSUME NEW u \in Tasks, Ends(u) PROVE TasksTyped'
  BY <1>1, <1>11, TaskEnds
<1>12. ASSUME NEW u \in Tasks, Lock(u) PROVE TasksTyped'
  <2>1. Goto(u, "apply") /\ task[u].step = "lock" /\ task[u].kind # "begin"
    BY <1>4, <1>12 DEF Lock, At, StepFits
  <2> QED
    BY <1>1, <2>1, TaskGoesOn DEF Publishing
<1>13. ASSUME NEW u \in Tasks, Apply(u) PROVE TasksTyped'
  <2>1. CASE Refuse(u)
    BY <1>11, <2>1 DEF Refuse
  <2>2. CASE Publishes(u)
    <3>1. PICK new, text : Published(u, new, text)
      BY <2>2 DEF Publishes
    <3>2. PICK t : t = [task[u] EXCEPT !.step = "verify", !.new = new]
      OBVIOUS
    <3>3. /\ t \in TaskType /\ t.step = "verify" /\ t.new = new
          /\ t.kind = task[u].kind /\ t.base = task[u].base /\ t.of = task[u].of
          /\ t.seen = task[u].seen
      <4>1. task[u] \in TaskType /\ new \in Nat /\ "verify" \in Steps
        BY <1>4, <3>1 DEF Published
      <4> QED
        BY <3>2, <4>1 DEF TaskType
    <3>4. task' = [task EXCEPT ![u] = t]
      BY <3>1, <3>2 DEF Published
    <3>5. task[u].step = "apply" /\ tally' = tally
      BY <1>13 DEF Apply, At
    <3>6. StepFits(t) /\ TargetFits(t)'
      BY <1>1, <1>4, <3>3, <3>5 DEF StepFits, TargetFits, Grows
    <3>7. t.new \in DOMAIN rev' \ {Root} /\ rev'[t.new].by = t.of
      BY <3>1, <3>3 DEF Published
    <3>8. WorkFits(t)'
      BY <1>1, <1>4, <3>3, <3>5, <3>7 DEF WorkFits, Grows
    <3> QED
      BY <1>1, <3>3, <3>4, <3>6, <3>8, TaskMoves DEF Fits, StepFits
  <2> QED
    BY <1>13, <2>1, <2>2, Applied
<1>14. ASSUME NEW u \in Tasks, Verify(u) PROVE TasksTyped'
  <2>1. CASE Goto(u, "point")
    BY <1>1, <1>4, <1>14, <2>1, TaskGoesOn DEF Verify, At, StepFits, Publishing
  <2> QED
    BY <1>11, <1>14, <2>1 DEF Verify
<1>15. ASSUME NEW u \in Tasks, Point(u) PROVE TasksTyped'
  <2>1. PICK s \in {"materialize", "record"} : Goto(u, s)
    BY <1>15 DEF Point
  <2>2. task[u].step = "point"
    BY <1>15 DEF Point, At
  <2> QED
    BY <1>1, <1>4, <2>1, <2>2, TaskGoesOn DEF StepFits, Publishing
<1>16. ASSUME NEW u \in Tasks, Materialize(u) PROVE TasksTyped'
  BY <1>1, <1>4, <1>16, TaskGoesOn DEF Materialize, At, StepFits, Publishing
<1>17. ASSUME NEW u \in Tasks, Record(u) PROVE TasksTyped'
  <2>1. CASE task[u].kind = "session"
    BY <1>1, <1>4, <1>17, <2>1, TaskGoesOn DEF Record, At, StepFits, Publishing
  <2> QED
    BY <1>11, <1>17, <2>1 DEF Record
<1>18. ASSUME NEW u \in Tasks, Scan(u) PROVE TasksTyped'
  <2>1. CASE Ends(u)
    BY <1>11, <2>1
  <2>2. CASE ~Ends(u)
    <3>1. PICK s : s = CASE task[u].kind \in PointerRepairs -> "audit"
                         [] task[u].kind = "reject-orphan" -> "move"
                         [] OTHER -> "lock"
      OBVIOUS
    <3>2. PICK seen : seen = IF task[u].kind = "adopt-source" THEN working ELSE None
      OBVIOUS
    <3>3. PICK t : t = [task[u] EXCEPT !.step = s, !.seen = seen]
      OBVIOUS
    <3>4. task' = [task EXCEPT ![u] = t]
      BY <1>18, <2>2, <3>1, <3>2, <3>3 DEF Scan
    <3>5. task[u].step = "scan" /\ tally' = tally /\ rev' = rev
      BY <1>18 DEF Scan, At, folder
    <3>6. /\ s \in {"audit", "move", "lock"}
          /\ s = "audit" <=> task[u].kind \in PointerRepairs
          /\ s = "move" <=> task[u].kind = "reject-orphan"
          /\ s = "lock" <=> task[u].kind \in {"restore", "adopt-source"}
      BY <1>4, <3>1, <3>5 DEF StepFits, PointerRepairs
    <3>7. seen \in Nat \cup {None} /\ (task[u].kind = "adopt-source" => seen \in Nat)
      BY <3>2 DEF TypeOK, FilesTyped
    <3>8. /\ t \in TaskType /\ t.step = s /\ t.new = task[u].new
          /\ t.kind = task[u].kind /\ t.base = task[u].base /\ t.of = task[u].of
          /\ t.seen = seen
      <4>1. task[u] \in TaskType /\ s \in Steps
        BY <1>4, <3>6
      <4> QED
        BY <3>3, <3>7, <4>1 DEF TaskType
    <3>9. StepFits(t) /\ TargetFits(t)
      BY <1>4, <3>5, <3>6, <3>8 DEF StepFits, TargetFits
    <3>10. WorkFits(t)
      BY <1>4, <3>5, <3>6, <3>7, <3>8 DEF WorkFits, StepFits, Publishing, MetaWriters
    <3>11. Fits(t)'
      BY <1>1, <3>8, <3>9, <3>10, FitsKept DEF Fits
    <3> QED
      BY <1>1, <3>4, <3>11, TaskMoves
  <2> QED
    BY <2>1, <2>2
<1>19. ASSUME NEW u \in Tasks, Audit(u) PROVE TasksTyped'
  <2>1. CASE Goto(u, "write")
    BY <1>1, <1>4, <1>19, <2>1, TaskGoesOn DEF Audit, At, StepFits, Publishing
  <2> QED
    BY <1>11, <1>19, <2>1 DEF Audit
<1>20. ASSUME NEW u \in Tasks, AutosaveStored(u) PROVE TasksTyped'
  BY <1>1, <1>4, <1>20, TaskGoesOn DEF AutosaveStored, At, StepFits, Publishing
<1>21. CASE UNCHANGED task
  <2>1. ASSUME NEW v \in Tasks PROVE task'[v] \in TaskType /\ Fits(task[v])'
    <3>1. PICK t : t = task[v]
      OBVIOUS
    <3>2. Fits(t) /\ task'[v] = t
      BY <1>4, <1>21, <3>1 DEF Fits
    <3>3. Fits(t)'
      BY <1>1, <3>2, FitsKept
    <3> QED
      BY <3>2, <3>3 DEF Fits, StepFits, TargetFits, WorkFits
  <2> QED
    BY <1>1, <1>21, <2>1 DEF TasksTyped, Fits
<1>22. CASE Crash
  <2>1. PICK t : t = Idle
    OBVIOUS
  <2>2. Fits(t)' /\ t \in TaskType /\ task' = [v \in Tasks |-> t]
    BY <1>1, <1>22, <2>1, IdleFits, FitsKept DEF Crash, Fits
  <2>3. \A v \in Tasks : task'[v] = t
    BY <2>2
  <2> QED
    BY <2>2, <2>3 DEF TasksTyped, Fits, StepFits, TargetFits, WorkFits
<1>23. ASSUME NEW u \in Tasks,
              \/ SessionBegins(u) \/ LockRefused(u) \/ SessionEnds(u) \/ WritePointer(u)
              \/ Reject(u) \/ AutosaveListed(u) \/ Marked(u)
       PROVE  Ends(u)
  BY <1>23 DEF SessionBegins, LockRefused, SessionEnds, WritePointer, Reject, AutosaveListed, Marked
<1>24. ASSUME NEW u \in Tasks, NEW kind, NEW x, Repair(u, kind, x),
              \/ kind \in PointerRepairs \cup {"reject-orphan"} /\ x \in Orphans
              \/ kind = "restore" /\ x \in meta.entries
              \/ kind = "adopt-source" /\ x = None
       PROVE  TasksTyped'
  <2>1. Orphans \subseteq DOMAIN rev /\ meta.entries \subseteq 1..tally.requests
    BY DEF Orphans, TypeOK, AutosavesTyped
  <2> QED
    BY <1>8, <1>24, <2>1 DEF Orphaned
<1>25. ASSUME (\E s \in Sessions : AbortSession(s)) \/ ClearLock \/ OutsideEdit \/ UNCHANGED vars
       PROVE  UNCHANGED task
  BY <1>25 DEF AbortSession, ClearLock, OutsideEdit, vars
<1> QED
  BY <1>5, <1>6, <1>7, <1>9, <1>10, <1>11, <1>12, <1>13, <1>14, <1>15, <1>16, <1>17, <1>18,
     <1>19, <1>20, <1>21, <1>22, <1>23, <1>24, <1>25 DEF Next

(* What a refusal does to sessions and receipts.                            *)
LEMMA Refused ==
  ASSUME TypeOK, NEW u \in Tasks, Refuse(u)
  PROVE  /\ Ends(u) /\ Unlock(u)
         /\ receipt' = receipt \/ receipt' = [receipt EXCEPT ![task[u].of] = "failed"]
         /\ session' = session \/ session' = [session EXCEPT ![task[u].of] = Ended]
BY DEF Refuse

(* Files keep their types.                                                  *)
LEMMA FilesKept == TypeOK /\ [Next]_vars => FilesTyped'
<1> SUFFICES ASSUME TypeOK, [Next]_vars PROVE FilesTyped'
  OBVIOUS
<1> DEFINE Session(s) == s \in [Sessions -> {None, Ended} \cup [base : Nat, text : Nat]]
           Based2(s) == \A x \in Sessions : s[x] \notin {None, Ended} => s[x].base \in DOMAIN rev'
           Receipt(r) == r \in [Sessions -> {None, "failed", "committed"}]
           Rest == opened' \in BOOLEAN /\ working' \in Nat
                   /\ tally' \in [requests : Nat, crashes : Nat, outside : Nat]
                   /\ tally'.requests <= MaxRequests
<1>1. Grows
  BY StoreKept
<1>2. Session(session) /\ Based2(session) /\ Receipt(receipt)
  BY <1>1 DEF TypeOK, FilesTyped, Grows
<1>3. \A v \in Tasks : StepFits(task[v]) /\ TargetFits(task[v]) /\ WorkFits(task[v])
  BY DEF TypeOK, TasksTyped
<1>4. opened \in BOOLEAN /\ working \in Nat /\ tally.requests <= MaxRequests
      /\ tally \in [requests : Nat, crashes : Nat, outside : Nat]
  BY DEF TypeOK, FilesTyped
<1>5. ASSUME NEW x \in Sessions, session' = [session EXCEPT ![x] = Ended]
      PROVE  Session(session') /\ Based2(session')
  BY <1>2, <1>5
<1>6. ASSUME NEW x \in Sessions, NEW y \in {"failed", "committed"},
             receipt' = [receipt EXCEPT ![x] = y]
      PROVE  Receipt(receipt')
  BY <1>2, <1>6
<1>7. ASSUME UNCHANGED <<opened, working>>,
             UNCHANGED tally \/ \E u \in Tasks : \E t : Start(u, t)
      PROVE  Rest
  BY <1>4, <1>7, Counted
<1> HIDE DEF Session, Based2, Receipt, Rest
<1>8. ASSUME NEW u \in Tasks,
             \/ Edit(u) \/ Autosave(u) \/ \E kind \in {"open", "close"} : Mark(u, kind)
             \/ \E s \in Sessions : BeginSession(u, s) \/ CommitSession(u, s)
             \/ \E kind, x : Repair(u, kind, x)
      PROVE  UNCHANGED <<session, receipt>> /\ Rest
  <2>1. UNCHANGED <<session, receipt, opened, working>> /\ \E t : Start(u, t)
    BY <1>8 DEF Edit, Autosave, Mark, BeginSession, CommitSession, Repair, folder
  <2> QED
    BY <1>7, <2>1
<1>9. ASSUME NEW u \in Tasks,
             \/ Lock(u) \/ LockRefused(u) \/ Point(u) \/ Scan(u) \/ Audit(u) \/ WritePointer(u)
             \/ Reject(u) \/ AutosaveStored(u) \/ AutosaveListed(u)
      PROVE  UNCHANGED <<session, receipt>> /\ Rest
  <2>1. UNCHANGED <<session, receipt, opened, working, tally>>
    BY <1>9 DEF Lock, LockRefused, Point, Scan, Audit, WritePointer, Reject, AutosaveStored,
       AutosaveListed, folder
  <2> QED
    BY <1>7, <2>1
<1>10. ASSUME NEW u \in Tasks, SessionBegins(u)
       PROVE  Session(session') /\ Based2(session') /\ UNCHANGED receipt /\ Rest
  <2>1. PICK x \in Sessions : x = task[u].of
    BY <1>3, <1>10 DEF SessionBegins, TargetFits
  <2>2. task[u].base \in DOMAIN rev /\ task[u].base \in Nat
    BY <1>3, <1>10, StoreIsStore DEF SessionBegins, WorkFits, TypeOK, IsStore
  <2>3. PICK y : y = [base |-> task[u].base, text |-> working]
    OBVIOUS
  <2>4. y \in [base : Nat, text : Nat] /\ y.base \in DOMAIN rev'
    BY <1>1, <1>4, <2>2, <2>3 DEF Grows
  <2>5. session' = [session EXCEPT ![x] = y] /\ UNCHANGED <<receipt, opened, working, tally>>
    BY <1>10, <2>1, <2>3 DEF SessionBegins, folder
  <2>6. Session(session') /\ Based2(session')
    BY <1>2, <2>4, <2>5 DEF Session, Based2
  <2> QED
    BY <1>7, <2>5, <2>6
<1>11. ASSUME NEW u \in Tasks, Apply(u)
       PROVE  Session(session') /\ Based2(session') /\ Receipt(receipt') /\ Rest
  <2>1. Rest
    BY <1>7, <1>11 DEF Apply
  <2>2. CASE Refuse(u)
    <3>1. receipt' = receipt \/ task[u].of \in Sessions
      BY <1>3, <2>2 DEF Refuse, TargetFits
    <3>2. session' = session \/ task[u].of \in Sessions
      BY <1>3, <2>2 DEF Refuse, TargetFits
    <3> QED
      BY <1>2, <1>5, <1>6, <2>1, <2>2, <3>1, <3>2, Refused
  <2>3. CASE Publishes(u)
    BY <1>2, <2>1, <2>3 DEF Publishes, Published
  <2> QED
    BY <1>11, <2>2, <2>3, Applied
<1>12. ASSUME NEW u \in Tasks, Verify(u) \/ Record(u)
       PROVE  UNCHANGED session /\ Receipt(receipt') /\ Rest
  <2>1. UNCHANGED <<session, opened, working, tally>>
    BY <1>12 DEF Verify, Record
  <2>2. \/ receipt' = receipt
        \/ task[u].kind = "session" /\ \E y \in {"failed", "committed"} :
             receipt' = [receipt EXCEPT ![task[u].of] = y]
    BY <1>12 DEF Verify, Record
  <2> QED
    BY <1>2, <1>3, <1>6, <1>7, <2>1, <2>2 DEF TargetFits
<1>13. ASSUME NEW u \in Tasks, Materialize(u)
       PROVE  UNCHANGED <<session, receipt>> /\ Rest
  <2>1. working' = rev[task[u].new].source /\ UNCHANGED <<session, receipt, opened, tally>>
    BY <1>13 DEF Materialize
  <2>2. task[u].new \in DOMAIN rev
    BY <1>3, <1>13 DEF Materialize, At, WorkFits, Publishing
  <2>3. working' \in Nat
    BY <2>1, <2>2 DEF TypeOK, StoreTyped
  <2> QED
    BY <1>4, <2>1, <2>3 DEF Rest
<1>14. ASSUME NEW u \in Tasks, SessionEnds(u)
       PROVE  Session(session') /\ Based2(session') /\ UNCHANGED receipt /\ Rest
  <2>1. task[u].of \in Sessions
    BY <1>3, <1>14 DEF SessionEnds, At, StepFits, TargetFits
  <2>2. session' = [session EXCEPT ![task[u].of] = Ended]
        /\ UNCHANGED <<receipt, opened, working, tally>>
    BY <1>14 DEF SessionEnds, folder
  <2> QED
    BY <1>5, <1>7, <2>1, <2>2
<1>15. ASSUME NEW s \in Sessions, AbortSession(s)
       PROVE  Session(session') /\ Based2(session') /\ UNCHANGED receipt /\ Rest
  BY <1>5, <1>7, <1>15 DEF AbortSession, folder
<1>16. ASSUME NEW u \in Tasks, Marked(u)
       PROVE  UNCHANGED <<session, receipt>> /\ Rest
  BY <1>4, <1>16 DEF Marked, Rest, folder
<1>17. CASE ClearLock \/ UNCHANGED vars
  <2>1. UNCHANGED <<session, receipt, opened, working, tally>>
    BY <1>17 DEF ClearLock, vars, folder
  <2> QED
    BY <1>2, <1>7, <2>1 DEF FilesTyped, Session, Based2, Receipt, Rest
<1>18. CASE OutsideEdit \/ Crash
  <2>1. UNCHANGED <<session, receipt>> /\ opened' \in BOOLEAN /\ working' \in Nat
    <3>1. CASE OutsideEdit
      BY <1>4, <3>1 DEF OutsideEdit, Outside
    <3>2. CASE Crash
      BY <1>4, <3>2 DEF Crash
    <3> QED
      BY <1>18, <3>1, <3>2
  <2>2. tally' \in [requests : Nat, crashes : Nat, outside : Nat] /\ tally'.requests <= MaxRequests
    BY <1>4, <1>18 DEF OutsideEdit, Crash
  <2> QED
    BY <1>2, <2>1, <2>2 DEF FilesTyped, Session, Based2, Receipt
<1>19. ASSUME Session(session') /\ Based2(session') /\ Receipt(receipt') /\ Rest
       PROVE  FilesTyped'
  BY <1>19 DEF FilesTyped, Session, Based2, Receipt, Rest
<1>20. ASSUME NEW u \in Tasks,
              \/ Edit(u) \/ SessionBegins(u)
              \/ \E s \in Sessions : BeginSession(u, s) \/ CommitSession(u, s)
              \/ Lock(u) \/ LockRefused(u) \/ Apply(u) \/ Verify(u) \/ Point(u)
              \/ Materialize(u) \/ Record(u) \/ SessionEnds(u)
              \/ \E kind, x : Repair(u, kind, x)
              \/ Scan(u) \/ Audit(u) \/ WritePointer(u) \/ Reject(u)
              \/ Autosave(u) \/ AutosaveStored(u) \/ AutosaveListed(u)
              \/ \E kind \in {"open", "close"} : Mark(u, kind)
              \/ Marked(u)
       PROVE  FilesTyped'
  BY <1>2, <1>8, <1>9, <1>10, <1>11, <1>12, <1>13, <1>14, <1>16, <1>19, <1>20
<1> QED
  BY <1>2, <1>15, <1>17, <1>18, <1>19, <1>20 DEF Next

(* Autosaves are named after requests that have been made.                  *)
LEMMA AutosavesKept == TypeOK /\ [Next]_vars => AutosavesTyped'
<1> SUFFICES ASSUME TypeOK, [Next]_vars PROVE AutosavesTyped'
  OBVIOUS
<1>1. Grows
  BY StoreKept
<1>2. 1..tally.requests \subseteq 1..tally'.requests
  BY <1>1 DEF Grows
<1>3. \A v \in Tasks : StepFits(task[v]) /\ TargetFits(task[v]) /\ WorkFits(task[v])
  BY DEF TypeOK, TasksTyped
<1>4. CASE UNCHANGED <<meta, saved, listing>> /\ contended' \in BOOLEAN
  BY <1>2, <1>4 DEF TypeOK, AutosavesTyped
<1>5. ASSUME NEW u \in Tasks, Autosave(u) \/ \E kind \in {"open", "close"} : Mark(u, kind)
      PROVE  AutosavesTyped'
  <2>1. UNCHANGED <<meta, saved, listing>> /\ Contends(u)
    BY <1>5 DEF Autosave, Mark
  <2>2. contended' \in BOOLEAN
    BY <2>1, Zenon DEF Contends, TypeOK, AutosavesTyped
  <2> QED
    BY <1>4, <2>1, <2>2
<1>6. ASSUME NEW u \in Tasks, AutosaveStored(u) PROVE AutosavesTyped'
  <2>1. PICK n : n = task[u].of
    OBVIOUS
  <2>2. n \in 1..tally.requests /\ task[u].base \in Nat
    BY <1>3, <1>6, <2>1, StoreIsStore
       DEF AutosaveStored, At, StepFits, TargetFits, WorkFits, TypeOK, IsStore
  <2>3. /\ saved' = [k \in DOMAIN saved \cup {n} |-> IF k \in DOMAIN saved THEN saved[k] ELSE task[u].base]
        /\ UNCHANGED <<meta, listing, contended>>
    BY <1>6, <2>1 DEF AutosaveStored
  <2>4. DOMAIN saved' = DOMAIN saved \cup {n}
    BY <2>3
  <2>5. saved' \in [DOMAIN saved' -> Nat]
    BY <2>2, <2>3, <2>4 DEF TypeOK, AutosavesTyped
  <2> QED
    BY <1>2, <2>2, <2>3, <2>4, <2>5 DEF TypeOK, AutosavesTyped
<1>7. ASSUME NEW u \in Tasks, AutosaveListed(u) PROVE AutosavesTyped'
  <2>1. PICK n : n = task[u].of
    OBVIOUS
  <2>2. PICK entries : entries = task[u].seen.entries \cup {n}
    OBVIOUS
  <2>3. n \in 1..tally.requests /\ entries \subseteq 1..tally.requests
    BY <1>3, <1>7, <2>1, <2>2
       DEF AutosaveListed, At, StepFits, TargetFits, WorkFits, MetaWriters
  <2>4. /\ meta' = [clean |-> FALSE, entries |-> Kept(entries)]
        /\ saved' = [k \in DOMAIN saved \ (entries \ Kept(entries)) |-> saved[k]]
        /\ listing' = listing \cup {n} /\ UNCHANGED <<contended, tally>>
    BY <1>7, <2>1, <2>2 DEF AutosaveListed
  <2>5. Kept(entries) \subseteq entries
    BY DEF Kept
  <2>6. meta' \in Metas /\ meta'.entries \subseteq 1..tally.requests
    <3>1. PICK kept : kept = Kept(entries)
      OBVIOUS
    <3>2. kept \subseteq 1..tally.requests /\ kept \in SUBSET Nat
      <4>1. kept \subseteq 1..tally.requests
        BY <2>3, <2>5, <3>1
      <4>2. tally.requests \in Nat
        BY <1>1 DEF Grows
      <4> QED
        BY <4>1, <4>2
    <3>3. meta' = [clean |-> FALSE, entries |-> kept]
      BY <2>4, <3>1
    <3> QED
      BY <3>2, <3>3 DEF Metas
  <2>7. DOMAIN saved' \subseteq DOMAIN saved /\ saved' \in [DOMAIN saved' -> Nat]
    BY <2>4 DEF TypeOK, AutosavesTyped
  <2> QED
    BY <1>2, <2>3, <2>4, <2>6, <2>7 DEF TypeOK, AutosavesTyped
<1>8. ASSUME NEW u \in Tasks, Marked(u) PROVE AutosavesTyped'
  <2>1. task[u].seen \in Metas /\ task[u].seen.entries \subseteq 1..tally.requests
    BY <1>3, <1>8 DEF Marked, At, StepFits, WorkFits, MetaWriters
  <2>2. /\ meta' = [task[u].seen EXCEPT !.clean = task[u].kind = "close"]
        /\ UNCHANGED <<saved, listing, contended>>
    BY <1>8 DEF Marked
  <2>3. PICK b \in BOOLEAN : b = (task[u].kind = "close")
    OBVIOUS
  <2>4. PICK m : m = task[u].seen
    OBVIOUS
  <2>5. meta' = [m EXCEPT !.clean = b]
    BY <2>2, <2>3, <2>4
  <2>6. meta' \in Metas /\ meta'.entries = m.entries
    BY <2>1, <2>4, <2>5 DEF Metas
  <2> QED
    BY <1>2, <2>1, <2>2, <2>4, <2>6 DEF TypeOK, AutosavesTyped
<1>9. ASSUME NEW u \in Tasks,
             \/ Edit(u) \/ SessionBegins(u)
             \/ \E s \in Sessions : BeginSession(u, s) \/ CommitSession(u, s)
             \/ Lock(u) \/ LockRefused(u) \/ Apply(u) \/ Verify(u) \/ Point(u)
             \/ Materialize(u) \/ Record(u) \/ SessionEnds(u)
             \/ \E kind, x : Repair(u, kind, x)
             \/ Scan(u) \/ Audit(u) \/ WritePointer(u) \/ Reject(u)
      PROVE  UNCHANGED autosaves
  BY <1>9 DEF Edit, SessionBegins, BeginSession, CommitSession, Lock, LockRefused, Apply,
     Verify, Point, Materialize, Record, SessionEnds, Repair, Scan, Audit, WritePointer, Reject
<1>10. ASSUME (\E s \in Sessions : AbortSession(s)) \/ ClearLock \/ OutsideEdit \/ Crash
              \/ UNCHANGED vars
       PROVE  UNCHANGED autosaves
  BY <1>10 DEF AbortSession, ClearLock, OutsideEdit, Crash, vars
<1>11. ASSUME UNCHANGED autosaves PROVE AutosavesTyped'
  BY <1>4, <1>11 DEF autosaves, TypeOK, AutosavesTyped
<1> QED
  BY <1>5, <1>6, <1>7, <1>8, <1>9, <1>10, <1>11 DEF Next

(* What is on record are revisions.                                         *)
LEMMA BooksKept == TypeOK /\ [Next]_vars => BooksTyped'
<1> SUFFICES ASSUME TypeOK, [Next]_vars PROVE BooksTyped'
  OBVIOUS
<1>1. Grows /\ StoreTyped' /\ IsStore(rev)
  BY StoreKept, StoreIsStore DEF TypeOK
<1>2. BooksTyped /\ StoreTyped
  BY DEF TypeOK
<1>3. \A v \in Tasks : StepFits(task[v]) /\ TargetFits(task[v]) /\ WorkFits(task[v])
  BY DEF TypeOK, TasksTyped
<1>4. \A r : Chain(r) \subseteq DOMAIN rev /\ Line(r) \subseteq DOMAIN rev
  BY DEF Chain, Line, Behind
<1>5. CASE UNCHANGED books /\ gone \subseteq gone'
  BY <1>1, <1>2, <1>5 DEF books, BooksTyped, Grows
<1>6. ASSUME NEW u \in Tasks, Record(u) PROVE BooksTyped'
  BY <1>1, <1>2, <1>3, <1>6 DEF Record, At, WorkFits, Publishing, BooksTyped, Grows
<1>7. ASSUME NEW u \in Tasks, WritePointer(u) PROVE BooksTyped'
  <2>1. PICK r \in DOMAIN rev : r = task[u].of
    BY <1>3, <1>7 DEF WritePointer, At, StepFits, TargetFits, Orphaned
  <2>2. /\ accepted' \subseteq accepted \cup {r}
        /\ waived' \subseteq waived \cup Line(pointer) \cup {r}
        /\ missed' \subseteq missed \cup (Chain(r) \cap gone)
        /\ rev' = rev /\ gone' = gone
    BY <1>7, <2>1 DEF WritePointer
  <2> QED
    BY <1>2, <1>4, <2>1, <2>2 DEF BooksTyped
<1>8. ASSUME NEW u \in Tasks, Reject(u) PROVE BooksTyped'
  <2>1. /\ missed' = missed \cup ({task[u].of} \cap (Chain(pointer) \cup UNION {Needed(v) : v \in Tasks}))
        /\ gone' = gone \cup ({task[u].of} \cap DOMAIN rev)
        /\ UNCHANGED <<rev, accepted, waived>>
    BY <1>8 DEF Reject
  <2>2. task[u].of \in DOMAIN rev
    BY <1>3, <1>8 DEF Reject, At, StepFits, TargetFits, Orphaned
  <2> QED
    BY <1>2, <2>1, <2>2 DEF BooksTyped
<1>9. ASSUME NEW u \in Tasks,
             \/ Edit(u) \/ SessionBegins(u)
             \/ \E s \in Sessions : BeginSession(u, s) \/ CommitSession(u, s)
             \/ Lock(u) \/ LockRefused(u) \/ Apply(u) \/ Verify(u) \/ Point(u)
             \/ Materialize(u) \/ SessionEnds(u)
             \/ \E kind, x : Repair(u, kind, x)
             \/ Scan(u) \/ Audit(u)
             \/ Autosave(u) \/ AutosaveStored(u) \/ AutosaveListed(u)
             \/ \E kind \in {"open", "close"} : Mark(u, kind)
             \/ Marked(u)
      PROVE  UNCHANGED <<books, gone>>
  BY <1>9 DEF Edit, SessionBegins, BeginSession, CommitSession, Lock, LockRefused, Apply,
     Verify, Point, Materialize, SessionEnds, Repair, Scan, Audit, Autosave, AutosaveStored,
     AutosaveListed, Mark, Marked, folder
<1>10. ASSUME (\E s \in Sessions : AbortSession(s)) \/ ClearLock \/ OutsideEdit \/ Crash
              \/ UNCHANGED vars
       PROVE  UNCHANGED <<books, gone>>
  BY <1>10 DEF AbortSession, ClearLock, OutsideEdit, Crash, vars, folder
<1> QED
  BY <1>5, <1>6, <1>7, <1>8, <1>9, <1>10 DEF Next

(* The lock is taken once, and released by the task that has taken it.      *)
LEMMA LockKept == TypeOK /\ [Next]_vars => LockInv'
<1> SUFFICES ASSUME TypeOK, [Next]_vars PROVE LockInv'
  OBVIOUS
<1>1. LockInv /\ task \in [Tasks -> TaskType]
  BY DEF TypeOK, TasksTyped
<1>2. None \notin Tasks /\ "dead" \notin Tasks
  BY RecoveryAssumption
<1>3. ASSUME NEW u \in Tasks, holder' = holder, NEW t, task' = [task EXCEPT ![u] = t],
             t.step \in Holding <=> task[u].step \in Holding
      PROVE  LockInv'
  BY <1>1, <1>3 DEF LockInv
<1>4. ASSUME NEW u \in Tasks, Unlock(u), NEW t, task' = [task EXCEPT ![u] = t],
             t.step \notin Holding, task[u].step \in Holding
      PROVE  LockInv'
  BY <1>1, <1>2, <1>4 DEF LockInv, Unlock
<1>5. ASSUME NEW u \in Tasks, holder' = holder, NEW s, Goto(u, s),
             s \in Holding <=> task[u].step \in Holding
      PROVE  LockInv'
  <2>1. PICK t : t = [task[u] EXCEPT !.step = s]
    OBVIOUS
  <2>2. t.step = s /\ task' = [task EXCEPT ![u] = t]
    BY <1>1, <1>5, <2>1 DEF Goto, TaskType
  <2> QED
    BY <1>3, <1>5, <2>2
<1>6. ASSUME NEW u \in Tasks, holder' = holder, Ends(u), task[u].step \notin Holding
      PROVE  LockInv'
  <2>1. PICK t : t = Idle
    OBVIOUS
  <2>2. t.step \notin Holding /\ task' = [task EXCEPT ![u] = t]
    BY <1>6, <2>1 DEF Ends, Idle, Holding
  <2> QED
    BY <1>3, <1>6, <2>2
<1>7. ASSUME NEW u \in Tasks, Unlock(u), Ends(u), task[u].step \in Holding
      PROVE  LockInv'
  <2>1. PICK t : t = Idle
    OBVIOUS
  <2>2. t.step \notin Holding /\ task' = [task EXCEPT ![u] = t]
    BY <1>7, <2>1 DEF Ends, Idle, Holding
  <2> QED
    BY <1>4, <1>7, <2>2
<1>8. ASSUME NEW u \in Tasks, holder' = holder, task[u] = Idle,
             NEW t, Start(u, t), t.step \notin Holding
      PROVE  LockInv'
  <2>1. task[u].step \notin Holding /\ task' = [task EXCEPT ![u] = t]
    BY <1>8 DEF Start, Idle, Holding
  <2> QED
    BY <1>3, <1>8, <2>1
<1>9. ASSUME NEW u \in Tasks,
             \/ Edit(u) \/ Autosave(u) \/ \E kind \in {"open", "close"} : Mark(u, kind)
             \/ \E s \in Sessions : BeginSession(u, s) \/ CommitSession(u, s)
             \/ \E kind, x : Repair(u, kind, x)
      PROVE  LockInv'
  <2>1. holder' = holder /\ task[u] = Idle
    BY <1>9 DEF Edit, Autosave, Mark, BeginSession, CommitSession, Repair, CanStart, folder
  <2>2. PICK t : Start(u, t) /\ t.step \in {"lock", "read", "scan", "store", "mark"}
    <3> DEFINE Starts(t) == Start(u, t) /\ t.step \in {"lock", "read", "scan", "store", "mark"}
    <3>1. ASSUME Edit(u) PROVE \E t : Starts(t)
      <4>1. Starts([Idle EXCEPT !.kind = "edit", !.step = "lock", !.base = pointer])
        BY <3>1 DEF Edit, Idle
      <4> QED
        BY <4>1
    <3>2. ASSUME Autosave(u) PROVE \E t : Starts(t)
      <4>1. Starts([Idle EXCEPT !.kind = "autosave", !.step = "store", !.base = pointer,
                                !.of = tally.requests + 1, !.seen = meta])
        BY <3>2 DEF Autosave, Idle
      <4> QED
        BY <4>1
    <3>3. ASSUME NEW kind, Mark(u, kind) PROVE \E t : Starts(t)
      <4>1. Starts([Idle EXCEPT !.kind = kind, !.step = "mark", !.seen = meta])
        BY <3>3 DEF Mark, Idle
      <4> QED
        BY <4>1
    <3>4. ASSUME NEW s, BeginSession(u, s) PROVE \E t : Starts(t)
      <4>1. Starts([Idle EXCEPT !.kind = "begin", !.step = "read", !.base = pointer, !.of = s])
        BY <3>4 DEF BeginSession, Idle
      <4> QED
        BY <4>1
    <3>5. ASSUME NEW s, CommitSession(u, s) PROVE \E t : Starts(t)
      <4>1. Starts([Idle EXCEPT !.kind = "session", !.step = "lock",
                                !.base = session[s].base, !.of = s, !.seen = session[s].text])
        BY <3>5 DEF CommitSession, Idle
      <4> QED
        BY <4>1
    <3>6. ASSUME NEW kind, NEW x, Repair(u, kind, x) PROVE \E t : Starts(t)
      <4>1. Starts([Idle EXCEPT !.kind = kind, !.step = "scan", !.base = pointer, !.of = x])
        BY <3>6 DEF Repair, Idle
      <4> QED
        BY <4>1
    <3> HIDE DEF Starts
    <3>7. \E t : Starts(t)
      BY <1>9, <3>1, <3>2, <3>3, <3>4, <3>5, <3>6
    <3> QED
      BY <3>7 DEF Starts
  <2> QED
    BY <1>8, <2>1, <2>2 DEF Holding
<1>10. ASSUME NEW u \in Tasks, Lock(u) PROVE LockInv'
  <2>1. PICK t : t = [task[u] EXCEPT !.step = "apply"]
    OBVIOUS
  <2>2. t.step = "apply" /\ task' = [task EXCEPT ![u] = t] /\ holder' = u /\ holder \notin Tasks
    BY <1>1, <1>2, <1>10, <2>1 DEF Lock, Goto, TaskType
  <2> QED
    BY <1>1, <2>2 DEF LockInv, Holding
<1>11. ASSUME NEW u \in Tasks, Apply(u) PROVE LockInv'
  <2>1. task[u].step \in Holding
    BY <1>11 DEF Apply, At, Holding
  <2>2. CASE Refuse(u)
    BY <1>7, <2>1, <2>2 DEF Refuse
  <2>3. CASE Publishes(u)
    <3>1. PICK new, text : Published(u, new, text)
      BY <2>3 DEF Publishes
    <3>2. PICK t : t = [task[u] EXCEPT !.step = "verify", !.new = new]
      OBVIOUS
    <3>3. t.step = "verify" /\ task' = [task EXCEPT ![u] = t] /\ holder' = holder
      BY <1>1, <3>1, <3>2 DEF Published, TaskType
    <3> QED
      BY <1>3, <2>1, <3>3 DEF Holding
  <2> QED
    BY <1>11, <2>2, <2>3, Applied
<1>12. ASSUME NEW u \in Tasks, Verify(u) PROVE LockInv'
  <2>1. task[u].step \in Holding
    BY <1>12 DEF Verify, At, Holding
  <2>2. (Goto(u, "point") /\ holder' = holder) \/ (Unlock(u) /\ Ends(u))
    BY <1>12 DEF Verify
  <2> QED
    BY <1>5, <1>7, <2>1, <2>2 DEF Holding
<1>13. ASSUME NEW u \in Tasks, Point(u) \/ Materialize(u) PROVE LockInv'
  <2>1. task[u].step \in Holding /\ holder' = holder
    BY <1>13 DEF Point, Materialize, At, Holding
  <2>2. PICK s \in {"materialize", "record"} : Goto(u, s)
    BY <1>13 DEF Point, Materialize
  <2> QED
    BY <1>5, <2>1, <2>2 DEF Holding
<1>14. ASSUME NEW u \in Tasks, Record(u) PROVE LockInv'
  <2>1. task[u].step \in Holding /\ Unlock(u)
    BY <1>14 DEF Record, At, Holding
  <2>2. CASE Ends(u)
    BY <1>7, <2>1, <2>2
  <2>3. CASE Goto(u, "remove")
    <3>1. PICK t : t = [task[u] EXCEPT !.step = "remove"]
      OBVIOUS
    <3>2. t.step = "remove" /\ task' = [task EXCEPT ![u] = t]
      BY <1>1, <2>3, <3>1 DEF Goto, TaskType
    <3> QED
      BY <1>4, <2>1, <3>2 DEF Holding
  <2> QED
    BY <1>14, <2>2, <2>3 DEF Record
<1>15. ASSUME NEW u \in Tasks,
              \/ SessionBegins(u) \/ LockRefused(u) \/ SessionEnds(u) \/ WritePointer(u)
              \/ Reject(u) \/ AutosaveListed(u) \/ Marked(u)
       PROVE  LockInv'
  <2>1. Ends(u) /\ holder' = holder
    BY <1>15 DEF SessionBegins, LockRefused, SessionEnds, WritePointer, Reject, AutosaveListed,
       Marked, folder
  <2>2. task[u].step \in {"read", "lock", "remove", "write", "move", "list", "mark"}
    BY <1>15 DEF SessionBegins, LockRefused, SessionEnds, WritePointer, Reject, AutosaveListed,
       Marked, At, TypeOK, TasksTyped, StepFits
  <2> QED
    BY <1>6, <2>1, <2>2 DEF Holding
<1>16. ASSUME NEW u \in Tasks, Scan(u) PROVE LockInv'
  <2>1. task[u].step = "scan" /\ holder' = holder
    BY <1>16 DEF Scan, At, folder
  <2>2. CASE Ends(u)
    BY <1>6, <2>1, <2>2 DEF Holding
  <2>3. CASE ~Ends(u)
    <3>1. PICK s : s = CASE task[u].kind \in PointerRepairs -> "audit"
                         [] task[u].kind = "reject-orphan" -> "move"
                         [] OTHER -> "lock"
      OBVIOUS
    <3>2. PICK t : t = [task[u] EXCEPT !.step = s,
                          !.seen = IF task[u].kind = "adopt-source" THEN working ELSE None]
      OBVIOUS
    <3>3. task' = [task EXCEPT ![u] = t]
      BY <1>16, <2>3, <3>1, <3>2 DEF Scan
    <3>4. s \in {"audit", "move", "lock"}
      BY <3>1
    <3>5. t.step = s
      BY <1>1, <3>2 DEF TaskType
    <3> QED
      BY <1>3, <2>1, <3>3, <3>4, <3>5 DEF Holding
  <2> QED
    BY <2>2, <2>3
<1>17. ASSUME NEW u \in Tasks, Audit(u) \/ AutosaveStored(u) PROVE LockInv'
  <2>1. task[u].step \in {"audit", "store"} /\ holder' = holder
    BY <1>17 DEF Audit, AutosaveStored, At, folder
  <2>2. Ends(u) \/ \E s \in {"write", "list"} : Goto(u, s)
    BY <1>17 DEF Audit, AutosaveStored
  <2> QED
    BY <1>5, <1>6, <2>1, <2>2 DEF Holding
<1>18. CASE Crash
  <2>1. /\ \A v \in Tasks : task'[v].step = "none"
        /\ holder' = IF holder \in Tasks THEN "dead" ELSE holder
    BY <1>18 DEF Crash, Idle
  <2> QED
    BY <1>1, <1>2, <2>1 DEF LockInv, Holding
<1>19. CASE ClearLock
  <2>1. task' = task /\ holder' = None /\ holder = "dead"
    BY <1>19 DEF ClearLock
  <2> QED
    BY <1>1, <1>2, <2>1 DEF LockInv
<1>20. CASE (\E s \in Sessions : AbortSession(s)) \/ OutsideEdit \/ UNCHANGED vars
  <2>1. UNCHANGED <<task, holder>>
    BY <1>20 DEF AbortSession, OutsideEdit, vars, folder
  <2> QED
    BY <1>1, <2>1 DEF LockInv
<1> QED
  BY <1>9, <1>10, <1>11, <1>12, <1>13, <1>14, <1>15, <1>16, <1>17, <1>18, <1>19, <1>20 DEF Next

(* The types are kept.                                                      *)
LEMMA TypeKept == TypeOK /\ [Next]_vars => TypeOK'
BY StoreKept, FilesKept, AutosavesKept, BooksKept, TasksKept, LockKept DEF TypeOK

-----------------------------------------------------------------------------
(* Most steps end a task or take it on with the work that it began with.    *)
Continues(v) ==
  /\ task'[v].kind = task[v].kind /\ task'[v].of = task[v].of /\ task'[v].base = task[v].base
  /\ task'[v].seen = task[v].seen \/ task[v].step = "scan"
  /\ task'[v].new = task[v].new \/ task[v].step = "apply"
  /\ task'[v].step = "store" => task[v].step = "store"
GoesOn(v) == task'[v] = Idle \/ Continues(v)
Repairs(u) ==
  \/ \E kind \in Orphaned, r \in Orphans : Repair(u, kind, r)
  \/ \E n \in meta.entries : Repair(u, "restore", n)
  \/ Repair(u, "adopt-source", None)
Starts(u) ==
  \/ Edit(u) \/ Repairs(u) \/ Autosave(u)
  \/ \E s \in Sessions : BeginSession(u, s) \/ CommitSession(u, s)
  \/ \E kind \in {"open", "close"} : Mark(u, kind)
WorksOn(u) ==
  \/ SessionBegins(u) \/ Lock(u) \/ LockRefused(u) \/ Apply(u) \/ Verify(u) \/ Point(u)
  \/ Materialize(u) \/ Record(u) \/ SessionEnds(u) \/ Scan(u) \/ Audit(u) \/ WritePointer(u)
  \/ Reject(u) \/ AutosaveStored(u) \/ AutosaveListed(u) \/ Marked(u)
Around == (\E s \in Sessions : AbortSession(s)) \/ ClearLock \/ OutsideEdit \/ Crash

(* A step starts a task, works on one, or is about none.                    *)
LEMMA StepCases == Next => (\E u \in Tasks : Starts(u) \/ WorksOn(u)) \/ Around
BY DEF Next, Starts, Repairs, Orphaned, WorksOn, Around

(* A task that stays as it is goes on.                                      *)
LEMMA OthersGoOn ==
  ASSUME TypeOK, NEW u \in Tasks, NEW t, task' = [task EXCEPT ![u] = t],
         NEW v \in Tasks, v # u
  PROVE  task'[v] = task[v] /\ Continues(v)
<1>1. task'[v] = task[v]
  BY DEF TypeOK, TasksTyped
<1> QED
  BY <1>1 DEF Continues

(* A task that goes to another step is the same task.                       *)
LEMMA GoneTo ==
  ASSUME TypeOK, NEW u \in Tasks, NEW s, Goto(u, s)
  PROVE  /\ task'[u].step = s /\ task'[u].kind = task[u].kind /\ task'[u].base = task[u].base
         /\ task'[u].of = task[u].of /\ task'[u].new = task[u].new /\ task'[u].seen = task[u].seen
<1>1. PICK t : t = [task[u] EXCEPT !.step = s]
  OBVIOUS
<1>2. task'[u] = t
  BY <1>1 DEF Goto, TypeOK, TasksTyped
<1>3. task[u] \in TaskType
  BY DEF TypeOK, TasksTyped
<1> QED
  BY <1>1, <1>2, <1>3 DEF TaskType

(* What a task starts as.                                                   *)
LEMMA Started ==
  ASSUME TypeOK, NEW u \in Tasks, Starts(u)
  PROVE  /\ task[u] = Idle /\ UNCHANGED <<rev, session, saved, receipt, meta, listing>>
         /\ \E t : Start(u, t)
         /\ \A v \in Tasks \ {u} : task'[v] = task[v] /\ Continues(v)
         /\ task'[u].step \in {"read", "lock", "scan", "store", "mark"}
         /\ \/ \E s \in Sessions :
                 \/ BeginSession(u, s) /\ task'[u].kind = "begin"
                 \/ CommitSession(u, s) /\ task'[u].kind = "session"
            \/ Autosave(u)
            \/ \E kind \in {"open", "close"} :
                 Mark(u, kind) /\ task'[u].kind = kind /\ task'[u].of = None
                 /\ task'[u].step = "mark"
            \/ /\ Edit(u) \/ Repairs(u)
               /\ task'[u].kind \in {"edit", "restore", "adopt-source"} \cup Orphaned
               /\ task'[u].of \notin Sessions
               /\ task'[u].step \in {"lock", "scan"}
<1>1. /\ task[u] = Idle /\ UNCHANGED <<rev, session, saved, receipt, meta, listing>>
      /\ \E t : Start(u, t)
  BY DEF Starts, Repairs, Edit, Autosave, Mark, BeginSession, CommitSession, Repair, CanStart,
     folder, autosaves
<1>2. \A v \in Tasks \ {u} : task'[v] = task[v] /\ Continues(v)
  BY <1>1, OthersGoOn DEF Start
<1>3. ASSUME NEW t, Start(u, t) PROVE task'[u] = t
  BY <1>3 DEF Start, TypeOK, TasksTyped
<1>4. ASSUME Edit(u)
      PROVE  task'[u].kind = "edit" /\ task'[u].of = None /\ task'[u].step = "lock"
  <2>1. PICK t : t = [Idle EXCEPT !.kind = "edit", !.step = "lock", !.base = pointer]
    OBVIOUS
  <2>2. t.kind = "edit" /\ t.of = None /\ t.step = "lock"
    BY <2>1 DEF Idle
  <2>3. Start(u, t)
    BY <1>4, <2>1 DEF Edit
  <2> QED
    BY <1>3, <2>2, <2>3
<1>5. ASSUME NEW kind, NEW x, Repair(u, kind, x)
      PROVE  task'[u].kind = kind /\ task'[u].of = x /\ task'[u].step = "scan"
  <2>1. PICK t : t = [Idle EXCEPT !.kind = kind, !.step = "scan", !.base = pointer, !.of = x]
    OBVIOUS
  <2>2. t.kind = kind /\ t.of = x /\ t.step = "scan"
    BY <2>1 DEF Idle
  <2>3. Start(u, t)
    BY <1>5, <2>1 DEF Repair
  <2> QED
    BY <1>3, <2>2, <2>3
<1>6. ASSUME NEW kind, Mark(u, kind)
      PROVE  task'[u].kind = kind /\ task'[u].of = None /\ task'[u].step = "mark"
  <2>1. PICK t : t = [Idle EXCEPT !.kind = kind, !.step = "mark", !.seen = meta]
    OBVIOUS
  <2>2. t.kind = kind /\ t.of = None /\ t.step = "mark"
    BY <2>1 DEF Idle
  <2>3. Start(u, t)
    BY <1>6, <2>1 DEF Mark
  <2> QED
    BY <1>3, <2>2, <2>3
<1>7. ASSUME NEW s, BeginSession(u, s)
      PROVE  task'[u].kind = "begin" /\ task'[u].step = "read"
  <2>1. PICK t : t = [Idle EXCEPT !.kind = "begin", !.step = "read", !.base = pointer, !.of = s]
    OBVIOUS
  <2>2. t.kind = "begin" /\ t.step = "read"
    BY <2>1 DEF Idle
  <2>3. Start(u, t)
    BY <1>7, <2>1 DEF BeginSession
  <2> QED
    BY <1>3, <2>2, <2>3
<1>8. ASSUME NEW s, CommitSession(u, s)
      PROVE  task'[u].kind = "session" /\ task'[u].step = "lock"
  <2>1. PICK t : t = [Idle EXCEPT !.kind = "session", !.step = "lock",
                        !.base = session[s].base, !.of = s, !.seen = session[s].text]
    OBVIOUS
  <2>2. t.kind = "session" /\ t.step = "lock"
    BY <2>1 DEF Idle
  <2>3. Start(u, t)
    BY <1>8, <2>1 DEF CommitSession
  <2> QED
    BY <1>3, <2>2, <2>3
<1>9. ASSUME Autosave(u)
      PROVE  task'[u].step = "store"
  <2>1. PICK t : t = [Idle EXCEPT !.kind = "autosave", !.step = "store", !.base = pointer,
                        !.of = tally.requests + 1, !.seen = meta]
    OBVIOUS
  <2>2. t.step = "store"
    BY <2>1 DEF Idle
  <2>3. Start(u, t)
    BY <1>9, <2>1 DEF Autosave
  <2> QED
    BY <1>3, <2>2, <2>3
<1>10. Orphans \cap Sessions = {} /\ meta.entries \cap Sessions = {} /\ None \notin Sessions
  <2>1. Orphans \subseteq Nat
    BY StoreIsStore DEF TypeOK, IsStore, Orphans
  <2>2. meta.entries \subseteq Nat
    BY DEF TypeOK, AutosavesTyped, Metas
  <2> QED
    BY <2>1, <2>2, RecoveryAssumption
<1>11. CASE Edit(u) \/ Repairs(u)
  BY <1>1, <1>2, <1>4, <1>5, <1>10, <1>11 DEF Repairs
<1>12. CASE \E kind \in {"open", "close"} : Mark(u, kind)
  BY <1>1, <1>2, <1>6, <1>12
<1>13. CASE Autosave(u) \/ \E s \in Sessions : BeginSession(u, s) \/ CommitSession(u, s)
  BY <1>1, <1>2, <1>7, <1>8, <1>9, <1>13
<1> QED
  BY <1>11, <1>12, <1>13 DEF Starts

(* Work on a task leaves the others alone, and what it is about.            *)
LEMMA WorkedOn ==
  ASSUME TypeOK, NEW u \in Tasks, WorksOn(u)
  PROVE  /\ \A v \in Tasks \ {u} : task'[v] = task[v] /\ Continues(v)
         /\ GoesOn(u)
         /\ UNCHANGED tally
<1>1. task[u] \in TaskType /\ task \in [Tasks -> TaskType]
  BY DEF TypeOK, TasksTyped
<1>2. ASSUME Ends(u)
      PROVE  GoesOn(u) /\ \A v \in Tasks \ {u} : task'[v] = task[v] /\ Continues(v)
  <2>1. PICK t : t = Idle
    OBVIOUS
  <2>2. task' = [task EXCEPT ![u] = t]
    BY <1>2, <2>1 DEF Ends
  <2>3. task'[u] = Idle
    BY <1>1, <2>1, <2>2
  <2> QED
    BY <2>2, <2>3, OthersGoOn DEF GoesOn
<1>3. ASSUME NEW s, Goto(u, s), s # "store"
      PROVE  GoesOn(u) /\ \A v \in Tasks \ {u} : task'[v] = task[v] /\ Continues(v)
  <2>1. PICK t : t = [task[u] EXCEPT !.step = s]
    OBVIOUS
  <2>2. task' = [task EXCEPT ![u] = t]
    BY <1>3, <2>1 DEF Goto
  <2>3. /\ t.step = s /\ t.kind = task[u].kind /\ t.base = task[u].base /\ t.of = task[u].of
        /\ t.new = task[u].new /\ t.seen = task[u].seen
    BY <1>1, <2>1 DEF TaskType
  <2>4. task'[u] = t
    BY <1>1, <2>2
  <2>5. Continues(u)
    BY <1>3, <2>3, <2>4 DEF Continues
  <2> QED
    BY <2>2, <2>5, OthersGoOn DEF GoesOn
<1>4. CASE Apply(u)
  <2>1. CASE Publishes(u)
    <3>1. PICK new, text : Published(u, new, text)
      BY <2>1 DEF Publishes
    <3>2. PICK t : t = [task[u] EXCEPT !.step = "verify", !.new = new]
      OBVIOUS
    <3>3. task' = [task EXCEPT ![u] = t]
      BY <3>1, <3>2 DEF Published
    <3>4. /\ t.step = "verify" /\ t.kind = task[u].kind /\ t.base = task[u].base
          /\ t.of = task[u].of /\ t.seen = task[u].seen
      BY <1>1, <3>2 DEF TaskType
    <3>5. task'[u] = t /\ task[u].step = "apply"
      BY <1>1, <1>4, <3>3 DEF Apply, At
    <3>6. Continues(u)
      BY <3>4, <3>5 DEF Continues
    <3> QED
      BY <1>4, <3>3, <3>6, OthersGoOn DEF GoesOn, Apply
  <2> QED
    BY <1>2, <1>4, <2>1, Applied, Refused DEF Apply
<1>5. CASE Scan(u)
  <2>1. CASE Ends(u)
    BY <1>2, <1>5, <2>1 DEF Scan
  <2>2. CASE ~Ends(u)
    <3>1. PICK s : s = CASE task[u].kind \in PointerRepairs -> "audit"
                         [] task[u].kind = "reject-orphan" -> "move"
                         [] OTHER -> "lock"
      OBVIOUS
    <3>2. PICK t : t = [task[u] EXCEPT !.step = s,
                          !.seen = IF task[u].kind = "adopt-source" THEN working ELSE None]
      OBVIOUS
    <3>3. task' = [task EXCEPT ![u] = t]
      BY <1>5, <2>2, <3>1, <3>2 DEF Scan
    <3>4. /\ t.step = s /\ t.kind = task[u].kind /\ t.base = task[u].base
          /\ t.of = task[u].of /\ t.new = task[u].new
      BY <1>1, <3>2 DEF TaskType
    <3>5. task'[u] = t /\ task[u].step = "scan" /\ s # "store"
      BY <1>1, <1>5, <3>1, <3>3 DEF Scan, At
    <3>6. Continues(u)
      BY <3>4, <3>5 DEF Continues
    <3> QED
      BY <1>5, <3>3, <3>6, OthersGoOn DEF GoesOn, Scan
  <2> QED
    BY <2>1, <2>2
<1>6. CASE \/ SessionBegins(u) \/ LockRefused(u) \/ SessionEnds(u) \/ WritePointer(u)
           \/ Reject(u) \/ AutosaveListed(u) \/ Marked(u)
  <2>1. Ends(u) /\ UNCHANGED tally
    BY <1>6 DEF SessionBegins, LockRefused, SessionEnds, WritePointer, Reject, AutosaveListed, Marked
  <2> QED
    BY <1>2, <2>1
<1>7. CASE \/ Lock(u) \/ Verify(u) \/ Point(u) \/ Materialize(u) \/ Record(u) \/ Audit(u)
           \/ AutosaveStored(u)
  <2>1. /\ UNCHANGED tally
        /\ \/ Ends(u)
           \/ \E s \in {"apply", "point", "materialize", "record", "remove", "write", "list"} :
                Goto(u, s)
    BY <1>7 DEF Lock, Verify, Point, Materialize, Record, Audit, AutosaveStored
  <2> QED
    BY <1>2, <1>3, <2>1
<1> QED
  BY <1>4, <1>5, <1>6, <1>7 DEF WorksOn

(* Other steps leave the tasks alone, or end them all.                      *)
LEMMA AroundTasks ==
  ASSUME TypeOK, Around \/ UNCHANGED vars, NEW v \in Tasks
  PROVE  task'[v] = task[v] \/ task'[v] = Idle
<1>1. CASE Crash
  BY <1>1 DEF Crash
<1>2. CASE ~Crash
  BY <1>2 DEF Around, AbortSession, ClearLock, OutsideEdit, vars
<1> QED
  BY <1>1, <1>2

-----------------------------------------------------------------------------
(* A step that publishes nothing, and neither begins a session nor starts   *)
(* a task about one, leaves sessions in order; it may end one.              *)
Tame(v) ==
  GoesOn(v) \/ (task'[v].kind \notin {"begin", "session"} /\ task'[v].of \notin Sessions)

LEMMA SessionsLeft ==
  ASSUME TypeOK, SessionInv, rev' = rev,
         \/ session' = session
         \/ \E x \in Sessions : session[x] # None /\ session' = [session EXCEPT ![x] = Ended],
         \A v \in Tasks : Tame(v)
  PROVE  SessionInv'
<1>1. session \in [Sessions -> {None, Ended} \cup [base : Nat, text : Nat]] /\ Ended # None
  BY RecoveryAssumption DEF TypeOK, FilesTyped
<1>2. \A x \in Sessions : session'[x] = session[x] \/ (session[x] # None /\ session'[x] = Ended)
  <2>1. CASE session' = session
    BY <2>1
  <2>2. ASSUME NEW y \in Sessions, session[y] # None, session' = [session EXCEPT ![y] = Ended],
               NEW x \in Sessions
        PROVE  session'[x] = session[x] \/ (session[x] # None /\ session'[x] = Ended)
    <3>1. CASE x = y
      BY <1>1, <2>2, <3>1
    <3>2. CASE x # y
      BY <1>1, <2>2, <3>2
    <3> QED
      BY <3>1, <3>2
  <2> QED
    BY <2>1, <2>2
<1>3. Idle.kind = "none" /\ Idle.of \notin Sessions
  BY RecoveryAssumption DEF Idle
<1>4. \A v \in Tasks :
        \/ task'[v].kind \notin {"begin", "session"} /\ task'[v].of \notin Sessions
        \/ task'[v].kind = task[v].kind /\ task'[v].of = task[v].of /\ task'[v].base = task[v].base
  BY <1>3 DEF Tame, GoesOn, Continues
<1>5. \A v \in Tasks : task[v].kind \in {"begin", "session"} => task[v].of \in Sessions
  BY DEF TypeOK, TasksTyped, TargetFits
<1>6. ASSUME NEW r \in DOMAIN rev', rev'[r].by \in Sessions
      PROVE  /\ session'[rev'[r].by] # None
             /\ session'[rev'[r].by] # Ended => session'[rev'[r].by].base = rev'[r].parent
  BY <1>1, <1>2, <1>6 DEF SessionInv
<1>7. ASSUME NEW u \in Tasks, task'[u].kind = "begin"
      PROVE  session'[task'[u].of] = None
  BY <1>2, <1>4, <1>5, <1>7 DEF SessionInv
<1>8. ASSUME NEW u \in Tasks, task'[u].kind = "session"
      PROVE  /\ session'[task'[u].of] # None
             /\ session'[task'[u].of] # Ended => session'[task'[u].of].base = task'[u].base
             /\ \A r \in DOMAIN rev' : rev'[r].by = task'[u].of => rev'[r].parent = task'[u].base
  BY <1>1, <1>2, <1>4, <1>5, <1>8 DEF SessionInv
<1>9. ASSUME NEW u \in Tasks, NEW v \in Tasks
      PROVE  /\ task'[u].kind = "session" /\ task'[v].kind = "session" /\ task'[u].of = task'[v].of
                  => task'[u].base = task'[v].base
             /\ task'[u].kind = "begin" /\ u # v => task'[v].of # task'[u].of
  BY <1>4, <1>5 DEF SessionInv
<1> QED
  BY <1>6, <1>7, <1>8, <1>9 DEF SessionInv

(* A step that stores no autosave and publishes nothing leaves them.        *)
LEMMA RestoresLeft ==
  ASSUME TypeOK, RestoreInv, rev' = rev, DOMAIN saved' \subseteq DOMAIN saved,
         \A n \in DOMAIN saved' : saved'[n] = saved[n],
         tally.requests <= tally'.requests, tally'.requests \in Nat,
         \A v \in Tasks :
           GoesOn(v) \/ (task'[v].kind # "autosave" /\ task'[v].step # "store")
  PROVE  RestoreInv'
<1>1. Idle.kind = "none" /\ Idle.step = "none"
  BY DEF Idle
<1>2. \A v \in Tasks :
        \/ task'[v].kind # "autosave" /\ task'[v].step # "store"
        \/ /\ task'[v].kind = task[v].kind /\ task'[v].of = task[v].of
           /\ task'[v].step = "store" => task[v].step = "store"
  BY <1>1 DEF GoesOn, Continues
<1>3. tally.requests \in Nat
  BY DEF TypeOK, FilesTyped
<1>4. ASSUME NEW r \in DOMAIN rev', rev'[r].by \in Nat
      PROVE  /\ rev'[r].by <= tally'.requests
             /\ rev'[r].by \in DOMAIN saved' => saved'[rev'[r].by] = rev'[r].parent
  BY <1>3, <1>4 DEF RestoreInv
<1>5. ASSUME NEW u \in Tasks, task'[u].step = "store"
      PROVE  /\ task'[u].of \notin DOMAIN saved'
             /\ \A r \in DOMAIN rev' : rev'[r].by # task'[u].of
  <2>1. task[u].step = "store" /\ task'[u].of = task[u].of
    BY <1>2, <1>5
  <2> QED
    BY <2>1 DEF RestoreInv
<1>6. ASSUME NEW u \in Tasks, NEW v \in Tasks,
             task'[u].kind = "autosave", task'[v].kind = "autosave", task'[u].of = task'[v].of
      PROVE  u = v
  BY <1>2, <1>6 DEF RestoreInv
<1> QED
  BY <1>4, <1>5, <1>6 DEF RestoreInv

(* A revision that is published has the parent that its siblings have.      *)
LEMMA PublishedOrigin ==
  ASSUME TypeOK, OriginInv, NEW u \in Tasks, Apply(u), Publishes(u)
  PROVE  OriginInv'
<1>1. PICK new, text : Published(u, new, text)
  BY DEF Publishes
<1>2. /\ task[u].step = "apply" /\ task[u].kind \in Commits
      /\ TargetFits(task[u]) /\ WorkFits(task[u])
  BY DEF Apply, At, TypeOK, TasksTyped, StepFits, CommitSteps, Holding
<1>3. /\ DOMAIN rev' = DOMAIN rev \cup {new} /\ new \notin DOMAIN rev
      /\ \A r \in DOMAIN rev : rev'[r] = rev[r]
      /\ rev'[new].parent = pointer /\ rev'[new].by = task[u].of
      /\ UNCHANGED <<session, saved, tally, pointer>>
  BY <1>1 DEF Published, Apply, autosaves
<1>4. /\ task[u].kind = "session" => task[u].of \in Sessions
      /\ task[u].kind = "restore" => task[u].of \in Nat /\ task[u].of <= tally.requests
      /\ task[u].kind \notin {"session", "restore"} => task[u].of = None
  BY <1>2 DEF TargetFits, Commits
<1>5. None \notin Sessions /\ None \notin Nat /\ Sessions \cap Nat = {}
  BY RecoveryAssumption
<1>6. task[u].kind = "session" => task[u].base = pointer
  BY DEF Publishes, Based
<1>7. task[u].kind = "restore" => task[u].of \in DOMAIN saved /\ saved[task[u].of] = pointer
  BY DEF Publishes, Unchanged, Valid
<1>8. \A r \in DOMAIN rev : rev[r].by = task[u].of /\ rev[r].by # None => rev[r].parent = pointer
  <2>1. CASE task[u].kind = "session"
    BY <1>6, <2>1 DEF OriginInv, SessionInv
  <2>2. CASE task[u].kind = "restore"
    BY <1>4, <1>7, <2>2 DEF OriginInv, RestoreInv
  <2> QED
    BY <1>4, <2>1, <2>2
<1>9. SiblingInv'
  BY <1>3, <1>8 DEF OriginInv, SiblingInv
<1>10. \A v \in Tasks : GoesOn(v) /\ task'[v] # Idle =>
         task'[v].kind = task[v].kind /\ task'[v].of = task[v].of /\ task'[v].base = task[v].base
  BY DEF GoesOn, Continues
<1>11. \A v \in Tasks : GoesOn(v)
  BY WorkedOn DEF WorksOn, GoesOn
<1>12. Idle.kind = "none" /\ Idle.step = "none" /\ Idle.of = None
  BY DEF Idle
<1>13. \A v \in Tasks :
         \/ task'[v].kind = "none" /\ task'[v].of = None /\ task'[v].step = "none"
         \/ /\ task'[v].kind = task[v].kind /\ task'[v].of = task[v].of /\ task'[v].base = task[v].base
            /\ task'[v].step = "store" => task[v].step = "store"
  BY <1>11, <1>12 DEF GoesOn, Continues
<1>14. SessionInv'
  <2>1. ASSUME NEW r \in DOMAIN rev', rev'[r].by \in Sessions
        PROVE  /\ session'[rev'[r].by] # None
               /\ session'[rev'[r].by] # Ended => session'[rev'[r].by].base = rev'[r].parent
    <3>1. CASE r = new
      BY <1>3, <1>4, <1>5, <1>6, <2>1, <3>1 DEF OriginInv, SessionInv
    <3>2. CASE r \in DOMAIN rev
      BY <1>3, <2>1, <3>2 DEF OriginInv, SessionInv
    <3> QED
      BY <1>3, <2>1, <3>1, <3>2
  <2>2. ASSUME NEW v \in Tasks, task'[v].kind = "begin"
        PROVE  session'[task'[v].of] = None
    BY <1>3, <1>13, <2>2 DEF OriginInv, SessionInv
  <2>3. ASSUME NEW v \in Tasks, task'[v].kind = "session"
        PROVE  /\ session'[task'[v].of] # None
               /\ session'[task'[v].of] # Ended => session'[task'[v].of].base = task'[v].base
               /\ \A r \in DOMAIN rev' : rev'[r].by = task'[v].of => rev'[r].parent = task'[v].base
    <3>1. task[v].kind = "session" /\ task'[v].of = task[v].of /\ task'[v].base = task[v].base
      BY <1>13, <2>3
    <3>2. task[v].of \in Sessions
      BY <3>1 DEF TypeOK, TasksTyped, TargetFits
    <3>3. task[u].of = task[v].of => pointer = task[v].base
      <4>1. task[u].of = task[v].of => task[u].kind = "session"
        BY <1>4, <1>5, <3>2
      <4> QED
        BY <1>6, <3>1, <4>1 DEF OriginInv, SessionInv
    <3> QED
      BY <1>3, <3>1, <3>3 DEF OriginInv, SessionInv
  <2>4. ASSUME NEW v \in Tasks, NEW w \in Tasks
        PROVE  /\ task'[v].kind = "session" /\ task'[w].kind = "session" /\ task'[v].of = task'[w].of
                    => task'[v].base = task'[w].base
               /\ task'[v].kind = "begin" /\ v # w => task'[w].of # task'[v].of
    <3>1. task[v].kind = "begin" => task[v].of \in Sessions
      BY DEF TypeOK, TasksTyped, TargetFits
    <3> QED
      BY <1>5, <1>13, <3>1 DEF OriginInv, SessionInv
  <2> QED
    BY <2>1, <2>2, <2>3, <2>4 DEF SessionInv
<1>15. RestoreInv'
  <2>1. ASSUME NEW r \in DOMAIN rev', rev'[r].by \in Nat
        PROVE  /\ rev'[r].by <= tally'.requests
               /\ rev'[r].by \in DOMAIN saved' => saved'[rev'[r].by] = rev'[r].parent
    <3>1. CASE r = new
      <4>1. task[u].kind = "restore"
        BY <1>3, <1>4, <1>5, <2>1, <3>1
      <4> QED
        BY <1>3, <1>4, <1>7, <3>1, <4>1
    <3>2. CASE r \in DOMAIN rev
      BY <1>3, <2>1, <3>2 DEF OriginInv, RestoreInv
    <3> QED
      BY <1>3, <2>1, <3>1, <3>2
  <2>2. ASSUME NEW v \in Tasks, task'[v].step = "store"
        PROVE  /\ task'[v].of \notin DOMAIN saved'
               /\ \A r \in DOMAIN rev' : rev'[r].by # task'[v].of
    <3>1. task[v].step = "store" /\ task'[v].of = task[v].of
      BY <1>13, <2>2
    <3>2. task[v].of \in Nat /\ task[v].of \notin DOMAIN saved
          /\ \A r \in DOMAIN rev : rev[r].by # task[v].of
      BY <3>1 DEF OriginInv, RestoreInv, TypeOK, TasksTyped, StepFits, TargetFits
    <3>3. task[u].of # task[v].of
      BY <1>4, <1>5, <1>7, <3>2
    <3> QED
      BY <1>3, <3>1, <3>2, <3>3
  <2>3. ASSUME NEW v \in Tasks, NEW w \in Tasks,
               task'[v].kind = "autosave", task'[w].kind = "autosave", task'[v].of = task'[w].of
        PROVE  v = w
    BY <1>13, <2>3 DEF OriginInv, RestoreInv
  <2> QED
    BY <2>1, <2>2, <2>3 DEF RestoreInv
<1> QED
  BY <1>9, <1>14, <1>15 DEF OriginInv

(* Revisions keep their origins.                                            *)
LEMMA OriginKept == TypeOK /\ OriginInv /\ [Next]_vars => OriginInv'
<1> SUFFICES ASSUME TypeOK, OriginInv, [Next]_vars PROVE OriginInv'
  OBVIOUS
<1>1. /\ SiblingInv /\ SessionInv /\ RestoreInv
      /\ tally.requests \in Nat /\ tally'.requests \in Nat /\ tally.requests <= tally'.requests
  BY StoreKept DEF OriginInv, Grows
<1>2. Ended # None /\ None \notin Sessions /\ None \notin Nat /\ Sessions \cap Nat = {}
  BY RecoveryAssumption
<1>3. session \in [Sessions -> {None, Ended} \cup [base : Nat, text : Nat]]
  BY DEF TypeOK, FilesTyped
<1>4. ASSUME rev' = rev PROVE SiblingInv'
  BY <1>1, <1>4 DEF SiblingInv
<1>5. \A v \in Tasks : StepFits(task[v]) /\ TargetFits(task[v]) /\ WorkFits(task[v])
  BY DEF TypeOK, TasksTyped
<1>6. ASSUME NEW u \in Tasks, NEW s \in Sessions, BeginSession(u, s) PROVE OriginInv'
  <2>1. PICK t : t = [Idle EXCEPT !.kind = "begin", !.step = "read", !.base = pointer, !.of = s]
    OBVIOUS
  <2>2. t.kind = "begin" /\ t.step = "read" /\ t.of = s
    BY <2>1 DEF Idle
  <2>3. task' = [task EXCEPT ![u] = t] /\ UNCHANGED <<rev, session, saved>>
        /\ session[s] = None /\ \A v \in Tasks : task[v].of # s
    BY <1>6, <2>1 DEF BeginSession, Start, folder, autosaves
  <2>4. task'[u] = t /\ \A v \in Tasks \ {u} : task'[v] = task[v]
    BY <2>3 DEF TypeOK, TasksTyped
  <2>5. SessionInv'
    <3>1. ASSUME NEW v \in Tasks, task'[v].kind = "begin"
          PROVE  session'[task'[v].of] = None
      BY <1>1, <2>2, <2>3, <2>4, <3>1 DEF SessionInv
    <3>2. ASSUME NEW v \in Tasks, task'[v].kind = "session"
          PROVE  v # u /\ task[v].kind = "session" /\ task'[v] = task[v]
      BY <2>2, <2>4, <3>2
    <3>3. ASSUME NEW v \in Tasks, NEW w \in Tasks, task'[v].kind = "begin", v # w
          PROVE  task'[w].of # task'[v].of
      <4>1. CASE v = u
        BY <2>2, <2>3, <2>4, <3>3, <4>1
      <4>2. CASE w = u
        BY <2>2, <2>3, <2>4, <3>3, <4>2
      <4>3. CASE v # u /\ w # u
        BY <1>1, <2>4, <3>3, <4>3 DEF SessionInv
      <4> QED
        BY <4>1, <4>2, <4>3
    <3> QED
      BY <1>1, <2>3, <3>1, <3>2, <3>3 DEF SessionInv
  <2>6. RestoreInv'
    BY <1>1, <2>2, <2>3, <2>4, RestoresLeft DEF GoesOn, Continues
  <2> QED
    BY <1>4, <2>3, <2>5, <2>6 DEF OriginInv
<1>7. ASSUME NEW u \in Tasks, NEW s \in Sessions, CommitSession(u, s) PROVE OriginInv'
  <2>1. PICK t : t = [Idle EXCEPT !.kind = "session", !.step = "lock",
                        !.base = session[s].base, !.of = s, !.seen = session[s].text]
    OBVIOUS
  <2>2. t.kind = "session" /\ t.step = "lock" /\ t.of = s /\ t.base = session[s].base
    BY <2>1 DEF Idle
  <2>3. task' = [task EXCEPT ![u] = t] /\ UNCHANGED <<rev, session, saved>>
        /\ session[s] \notin {None, Ended}
    BY <1>7, <2>1 DEF CommitSession, Start, folder, autosaves
  <2>4. task'[u] = t /\ \A v \in Tasks \ {u} : task'[v] = task[v]
    BY <2>3 DEF TypeOK, TasksTyped
  <2>5. SessionInv'
    <3>1. ASSUME NEW v \in Tasks, task'[v].kind = "begin"
          PROVE  v # u /\ task'[v] = task[v] /\ session[task[v].of] = None
      BY <1>1, <2>2, <2>4, <3>1 DEF SessionInv
    <3>2. ASSUME NEW v \in Tasks, task'[v].kind = "session"
          PROVE  /\ session'[task'[v].of] # None
                 /\ session'[task'[v].of] # Ended => session'[task'[v].of].base = task'[v].base
                 /\ \A r \in DOMAIN rev' : rev'[r].by = task'[v].of => rev'[r].parent = task'[v].base
      <4>1. CASE v = u
        BY <1>1, <2>2, <2>3, <2>4, <4>1 DEF SessionInv
      <4>2. CASE v # u
        BY <1>1, <2>3, <2>4, <3>2, <4>2 DEF SessionInv
      <4> QED
        BY <4>1, <4>2
    <3>3. ASSUME NEW v \in Tasks, NEW w \in Tasks, task'[v].kind = "session",
                 task'[w].kind = "session", task'[v].of = task'[w].of
          PROVE  task'[v].base = task'[w].base
      <4>1. ASSUME NEW x \in Tasks, x # u, task'[x].kind = "session", task'[x].of = s
            PROVE  task'[x].base = session[s].base
        BY <1>1, <2>3, <2>4, <4>1 DEF SessionInv
      <4>2. CASE v # u /\ w # u
        BY <1>1, <2>4, <3>3, <4>2 DEF SessionInv
      <4> QED
        BY <2>2, <2>4, <3>3, <4>1, <4>2
    <3>4. ASSUME NEW v \in Tasks, NEW w \in Tasks, task'[v].kind = "begin", v # w
          PROVE  task'[w].of # task'[v].of
      BY <1>1, <2>2, <2>3, <2>4, <3>1, <3>4 DEF SessionInv
    <3>5. \A r \in DOMAIN rev' :
            rev'[r].by \in Sessions =>
              /\ session'[rev'[r].by] # None
              /\ session'[rev'[r].by] # Ended => session'[rev'[r].by].base = rev'[r].parent
      BY <1>1, <2>3 DEF SessionInv
    <3> QED
      BY <2>3, <3>1, <3>2, <3>3, <3>4, <3>5 DEF SessionInv
  <2>6. RestoreInv'
    BY <1>1, <2>2, <2>3, <2>4, RestoresLeft DEF GoesOn, Continues
  <2> QED
    BY <1>4, <2>3, <2>5, <2>6 DEF OriginInv
<1>8. ASSUME NEW u \in Tasks, Autosave(u) PROVE OriginInv'
  <2>1. PICK t : t = [Idle EXCEPT !.kind = "autosave", !.step = "store", !.base = pointer,
                        !.of = tally.requests + 1, !.seen = meta]
    OBVIOUS
  <2>2. t.kind = "autosave" /\ t.step = "store" /\ t.of = tally.requests + 1
    BY <2>1 DEF Idle
  <2>3. task' = [task EXCEPT ![u] = t] /\ Start(u, t) /\ UNCHANGED <<rev, session, saved>>
    BY <1>8, <2>1 DEF Autosave, Start, folder
  <2>4. task'[u] = t /\ \A v \in Tasks \ {u} : task'[v] = task[v]
    BY <2>3 DEF TypeOK, TasksTyped
  <2>5. tally'.requests = tally.requests + 1
    BY <2>3, Counted
  <2>6. SessionInv'
    <3>1. \A v \in Tasks : Tame(v)
      BY <1>1, <1>2, <2>2, <2>4 DEF Tame, GoesOn, Continues
    <3> QED
      BY <1>1, <2>3, <3>1, SessionsLeft
  <2>7. RestoreInv'
    <3>1. \A n \in DOMAIN saved : n \in Nat /\ n <= tally.requests
      BY <1>1 DEF TypeOK, AutosavesTyped
    <3>2. \A v \in Tasks : task[v].kind = "autosave" => task[v].of \in Nat /\ task[v].of <= tally.requests
      BY <1>1, <1>5 DEF TargetFits
    <3>3. tally.requests + 1 \in Nat /\ ~(tally.requests + 1 <= tally.requests)
      BY <1>1
    <3>4. ASSUME NEW r \in DOMAIN rev', rev'[r].by \in Nat
          PROVE  /\ rev'[r].by <= tally'.requests /\ rev'[r].by # tally.requests + 1
                 /\ rev'[r].by \in DOMAIN saved' => saved'[rev'[r].by] = rev'[r].parent
      BY <1>1, <2>3, <2>5, <3>4 DEF RestoreInv
    <3>5. ASSUME NEW v \in Tasks, task'[v].step = "store"
          PROVE  /\ task'[v].of \notin DOMAIN saved'
                 /\ \A r \in DOMAIN rev' : rev'[r].by # task'[v].of
      <4>1. CASE v = u
        BY <2>2, <2>3, <2>4, <3>1, <3>3, <3>4, <4>1
      <4>2. CASE v # u
        BY <1>1, <2>3, <2>4, <3>5, <4>2 DEF RestoreInv
      <4> QED
        BY <4>1, <4>2
    <3>6. ASSUME NEW v \in Tasks, NEW w \in Tasks,
                 task'[v].kind = "autosave", task'[w].kind = "autosave", task'[v].of = task'[w].of
          PROVE  v = w
      <4>1. CASE v # u /\ w # u
        BY <1>1, <2>4, <3>6, <4>1 DEF RestoreInv
      <4> QED
        BY <2>2, <2>4, <3>2, <3>3, <3>6, <4>1
    <3> QED
      BY <3>4, <3>5, <3>6 DEF RestoreInv
  <2> QED
    BY <1>4, <2>3, <2>6, <2>7 DEF OriginInv
<1>9. ASSUME NEW u \in Tasks, Starts(u),
             task'[u].kind \in {"edit", "restore", "adopt-source", "open", "close"} \cup Orphaned,
             task'[u].of \notin Sessions, task'[u].step # "store"
      PROVE  OriginInv'
  <2>1. UNCHANGED <<rev, session, saved>> /\ \A v \in Tasks \ {u} : Continues(v)
    BY <1>9, Started
  <2>2. task'[u].kind \notin {"begin", "session", "autosave"}
    BY <1>9, Vocabulary
  <2>3. SessionInv'
    BY <1>1, <1>9, <2>1, <2>2, SessionsLeft DEF Tame, GoesOn
  <2>4. RestoreInv'
    BY <1>1, <1>9, <2>1, <2>2, RestoresLeft DEF GoesOn
  <2> QED
    BY <1>4, <2>1, <2>3, <2>4 DEF OriginInv
<1>10. ASSUME NEW u \in Tasks, Starts(u) PROVE OriginInv'
  BY <1>2, <1>6, <1>7, <1>8, <1>9, <1>10, Started
<1>11. ASSUME NEW u \in Tasks, WorksOn(u) PROVE \A v \in Tasks : GoesOn(v)
  BY <1>11, WorkedOn DEF GoesOn
<1>12. ASSUME NEW u \in Tasks, SessionBegins(u) PROVE OriginInv'
  <2>1. \A v \in Tasks \ {u} : task'[v] = task[v]
    BY <1>12, WorkedOn DEF WorksOn
  <2>2. PICK s \in Sessions : s = task[u].of
    BY <1>5, <1>12 DEF SessionBegins, TargetFits
  <2>3. PICK y : y = [base |-> task[u].base, text |-> working]
    OBVIOUS
  <2>4. /\ task[u].kind = "begin" /\ session' = [session EXCEPT ![s] = y]
        /\ UNCHANGED <<rev, saved, tally>> /\ task' = [task EXCEPT ![u] = Idle]
    BY <1>12, <2>2, <2>3 DEF SessionBegins, Ends, folder, autosaves
  <2>5. task'[u].kind = "none" /\ task'[u].of = None
    BY <2>4 DEF TypeOK, TasksTyped, Idle
  <2>6. \A x \in Sessions \ {s} : session'[x] = session[x]
    BY <1>3, <2>4
  <2>7. session[s] = None /\ (\A v \in Tasks \ {u} : task[v].of # s)
        /\ \A r \in DOMAIN rev : rev[r].by # s
    BY <1>1, <2>2, <2>4 DEF SessionInv
  <2>8. SessionInv'
    <3>1. ASSUME NEW r \in DOMAIN rev', rev'[r].by \in Sessions
          PROVE  /\ session'[rev'[r].by] # None
                 /\ session'[rev'[r].by] # Ended => session'[rev'[r].by].base = rev'[r].parent
      BY <1>1, <2>4, <2>6, <2>7, <3>1 DEF SessionInv
    <3>2. \A v \in Tasks : task'[v].kind \in {"begin", "session"} =>
            v # u /\ task'[v] = task[v] /\ task[v].of \in Sessions \ {s}
      BY <1>5, <2>1, <2>5, <2>7 DEF TargetFits
    <3>3. ASSUME NEW v \in Tasks, NEW w \in Tasks
          PROVE  /\ task'[v].kind = "session" /\ task'[w].kind = "session" /\ task'[v].of = task'[w].of
                      => task'[v].base = task'[w].base
                 /\ task'[v].kind = "begin" /\ v # w => task'[w].of # task'[v].of
      BY <1>1, <1>2, <2>1, <2>5, <3>2 DEF SessionInv
    <3>4. ASSUME NEW v \in Tasks
          PROVE  /\ task'[v].kind = "begin" => session'[task'[v].of] = None
                 /\ task'[v].kind = "session" =>
                      /\ session'[task'[v].of] # None
                      /\ session'[task'[v].of] # Ended => session'[task'[v].of].base = task'[v].base
                      /\ \A r \in DOMAIN rev' : rev'[r].by = task'[v].of => rev'[r].parent = task'[v].base
      BY <1>1, <2>4, <2>6, <3>2 DEF SessionInv
    <3> QED
      BY <3>1, <3>3, <3>4 DEF SessionInv
  <2>9. RestoreInv'
    BY <1>1, <1>11, <1>12, <2>4, RestoresLeft DEF WorksOn
  <2> QED
    BY <1>4, <2>4, <2>8, <2>9 DEF OriginInv
<1>13. ASSUME NEW u \in Tasks, AutosaveStored(u) PROVE OriginInv'
  <2>1. PICK n : n = task[u].of
    OBVIOUS
  <2>2. /\ task[u].step = "store" /\ UNCHANGED <<rev, session, tally>>
        /\ saved' = [k \in DOMAIN saved \cup {n} |-> IF k \in DOMAIN saved THEN saved[k] ELSE task[u].base]
        /\ Goto(u, "list")
    BY <1>13, <2>1 DEF AutosaveStored, At, folder
  <2>3. DOMAIN saved' = DOMAIN saved \cup {n} /\ \A k \in DOMAIN saved : saved'[k] = saved[k]
    BY <2>2
  <2>4. \A v \in Tasks \ {u} : task'[v] = task[v]
    BY <1>13, WorkedOn DEF WorksOn
  <2>5. task'[u].step = "list" /\ task'[u].kind = task[u].kind /\ task'[u].of = n
        /\ task[u].kind = "autosave"
    BY <1>5, <2>1, <2>2 DEF Goto, TypeOK, TasksTyped, TaskType, StepFits
  <2>6. n \notin DOMAIN saved /\ \A r \in DOMAIN rev : rev[r].by # n
    BY <1>1, <2>1, <2>2 DEF RestoreInv
  <2>7. SessionInv'
    BY <1>1, <1>11, <1>13, <2>2, SessionsLeft DEF Tame, WorksOn
  <2>8. RestoreInv'
    <3>1. ASSUME NEW r \in DOMAIN rev', rev'[r].by \in Nat
          PROVE  /\ rev'[r].by <= tally'.requests
                 /\ rev'[r].by \in DOMAIN saved' => saved'[rev'[r].by] = rev'[r].parent
      BY <1>1, <2>2, <2>3, <2>6, <3>1 DEF RestoreInv
    <3>2. ASSUME NEW v \in Tasks, task'[v].step = "store"
          PROVE  /\ task'[v].of \notin DOMAIN saved'
                 /\ \A r \in DOMAIN rev' : rev'[r].by # task'[v].of
      <4>1. v # u /\ task'[v] = task[v] /\ task[v].kind = "autosave"
        BY <1>5, <2>4, <2>5, <3>2 DEF StepFits
      <4>2. task[v].of # n
        BY <1>1, <2>1, <2>5, <4>1 DEF RestoreInv
      <4> QED
        BY <1>1, <2>2, <2>3, <3>2, <4>1, <4>2 DEF RestoreInv
    <3>3. ASSUME NEW v \in Tasks, NEW w \in Tasks,
                 task'[v].kind = "autosave", task'[w].kind = "autosave", task'[v].of = task'[w].of
          PROVE  v = w
      BY <1>1, <2>1, <2>4, <2>5, <3>3 DEF RestoreInv
    <3> QED
      BY <3>1, <3>2, <3>3 DEF RestoreInv
  <2> QED
    BY <1>4, <2>2, <2>7, <2>8 DEF OriginInv
<1>14. ASSUME NEW u \in Tasks, AutosaveListed(u) PROVE OriginInv'
  <2>1. /\ UNCHANGED <<rev, session, tally>>
        /\ DOMAIN saved' \subseteq DOMAIN saved /\ \A k \in DOMAIN saved' : saved'[k] = saved[k]
    BY <1>14 DEF AutosaveListed, folder
  <2>2. SessionInv'
    BY <1>1, <1>11, <1>14, <2>1, SessionsLeft DEF Tame, WorksOn
  <2>3. RestoreInv'
    BY <1>1, <1>11, <1>14, <2>1, RestoresLeft DEF WorksOn
  <2> QED
    BY <1>4, <2>1, <2>2, <2>3 DEF OriginInv
<1>15. ASSUME rev' = rev, saved' = saved,
              \/ session' = session
              \/ \E x \in Sessions : session[x] # None /\ session' = [session EXCEPT ![x] = Ended],
              \A v \in Tasks : GoesOn(v)
       PROVE  OriginInv'
  <2>1. SessionInv'
    BY <1>1, <1>15, SessionsLeft DEF Tame
  <2>2. RestoreInv'
    BY <1>1, <1>15, RestoresLeft
  <2> QED
    BY <1>4, <1>15, <2>1, <2>2 DEF OriginInv
<1>16. ASSUME NEW u \in Tasks, Refuse(u) \/ SessionEnds(u)
       PROVE  \/ session' = session
              \/ \E x \in Sessions : session[x] # None /\ session' = [session EXCEPT ![x] = Ended]
  <2>1. \/ session' = session
        \/ task[u].kind = "session" /\ session' = [session EXCEPT ![task[u].of] = Ended]
    BY <1>5, <1>16 DEF Refuse, SessionEnds, At, StepFits
  <2> QED
    BY <1>1, <1>5, <2>1 DEF SessionInv, TargetFits
<1>17. ASSUME NEW u \in Tasks, Apply(u) PROVE OriginInv'
  <2>1. CASE Publishes(u)
    BY <1>17, <2>1, PublishedOrigin
  <2>2. CASE Refuse(u) /\ rev' = rev
    BY <1>11, <1>15, <1>16, <1>17, <2>2 DEF WorksOn, Apply, autosaves
  <2> QED
    BY <1>17, <2>1, <2>2, Applied
<1>18. ASSUME NEW u \in Tasks,
              \/ Lock(u) \/ LockRefused(u) \/ Verify(u) \/ Point(u) \/ Materialize(u) \/ Record(u)
              \/ Scan(u) \/ Audit(u) \/ WritePointer(u) \/ Reject(u) \/ Marked(u)
       PROVE  OriginInv'
  <2>1. UNCHANGED <<rev, saved, session>>
    BY <1>18 DEF Lock, LockRefused, Verify, Point, Materialize, Record, Scan, Audit, WritePointer,
       Reject, Marked, folder, autosaves
  <2> QED
    BY <1>11, <1>15, <1>18, <2>1 DEF WorksOn
<1>19. ASSUME NEW u \in Tasks, SessionEnds(u) PROVE OriginInv'
  <2>1. UNCHANGED <<rev, saved>>
    BY <1>19 DEF SessionEnds, folder, autosaves
  <2> QED
    BY <1>11, <1>15, <1>16, <1>19, <2>1 DEF WorksOn
<1>20. CASE Around \/ UNCHANGED vars
  <2>1. \A v \in Tasks : GoesOn(v)
    BY <1>20, AroundTasks DEF GoesOn, Continues
  <2>2. UNCHANGED <<rev, saved>>
    BY <1>20 DEF Around, AbortSession, ClearLock, OutsideEdit, Crash, vars, folder, autosaves
  <2>3. \/ session' = session
        \/ \E x \in Sessions : session[x] # None /\ session' = [session EXCEPT ![x] = Ended]
    BY <1>20 DEF Around, AbortSession, ClearLock, OutsideEdit, Crash, vars
  <2> QED
    BY <1>15, <2>1, <2>2, <2>3
<1>21. ASSUME NEW u \in Tasks, WorksOn(u) PROVE OriginInv'
  BY <1>12, <1>13, <1>14, <1>17, <1>18, <1>19, <1>21 DEF WorksOn
<1> QED
  BY <1>10, <1>20, <1>21, StepCases

-----------------------------------------------------------------------------
(* A receipt is right as long as the same tasks are about to write it, and  *)
(* nothing comes back.                                                      *)
Publisher(v) == task[v].kind = "session" /\ task[v].step \in Publishing

LEMMA ReceiptsLeft ==
  ASSUME ReceiptInv, UNCHANGED <<rev, receipt>>, gone \subseteq gone', accepted \subseteq accepted',
         tally'.crashes = tally.crashes,
         \A v \in Tasks :
           /\ task'[v].kind = "session" /\ task'[v].step \in Publishing <=> Publisher(v)
           /\ Publisher(v) => task'[v].of = task[v].of /\ task'[v].new = task[v].new
  PROVE  ReceiptInv'
<1> SUFFICES ASSUME tally.crashes = 0 PROVE ReceiptInv'
  BY DEF ReceiptInv
<1>1. ASSUME NEW r \in DOMAIN rev', rev'[r].by \in Sessions, receipt'[rev'[r].by] = None
      PROVE  \E u \in Tasks : /\ task'[u].step \in Publishing /\ task'[u].kind = "session"
                              /\ task'[u].new = r
  <2>1. PICK u \in Tasks : Publisher(u) /\ task[u].new = r
    BY <1>1 DEF ReceiptInv, Publisher
  <2> QED
    BY <2>1
<1>2. ASSUME NEW r \in DOMAIN rev', rev'[r].by \in Sessions, receipt'[rev'[r].by] = "failed"
      PROVE  r \in gone'
  BY <1>2 DEF ReceiptInv
<1>3. ASSUME NEW s \in Sessions, receipt'[s] = "committed"
      PROVE  \E r \in accepted' : rev'[r].by = s
  BY <1>3 DEF ReceiptInv
<1>4. ASSUME NEW u \in Tasks, task'[u].kind = "session", task'[u].step \in Publishing
      PROVE  receipt'[task'[u].of] = None
  <2>1. Publisher(u) /\ task'[u].of = task[u].of
    BY <1>4
  <2> QED
    BY <2>1 DEF ReceiptInv, Publisher
<1> QED
  BY <1>1, <1>2, <1>3, <1>4 DEF ReceiptInv

(* The lock is held by one task, so that one task publishes at a time.      *)
LEMMA OneAtWork ==
  ASSUME LockInv, NEW u \in Tasks, task[u].step \in Holding, NEW v \in Tasks, v # u
  PROVE  task[v].step \notin Holding
BY DEF LockInv

(* The step of a task whose lock is as it was.                              *)
LEMMA HoldingLeft ==
  ASSUME LockInv, LockInv', holder' = holder, NEW u \in Tasks
  PROVE  task'[u].step \in Holding <=> task[u].step \in Holding
BY DEF LockInv

(* Receipts stay right when a commit is refused or published.               *)
LEMMA AppliedReceipts ==
  ASSUME TypeOK, ReceiptInv, NEW u \in Tasks, Apply(u)
  PROVE  ReceiptInv'
<1> SUFFICES ASSUME tally.crashes = 0 PROVE ReceiptInv'
  BY DEF ReceiptInv, Apply
<1>1. /\ task[u].step = "apply" /\ task[u].kind \in Commits /\ TargetFits(task[u])
      /\ UNCHANGED <<accepted, gone, tally>>
  BY DEF Apply, At, TypeOK, TasksTyped, StepFits, CommitSteps, Holding, books
<1>2. \A v \in Tasks : task[v].step \notin Publishing
  <2>1. \A v \in Tasks \ {u} : task[v].step \notin Holding
    BY <1>1, OneAtWork DEF TypeOK, Holding
  <2> QED
    BY <1>1, <2>1 DEF Holding, Publishing
<1>3. \A r \in DOMAIN rev : rev[r].by \in Sessions => receipt[rev[r].by] # None
  BY <1>2 DEF ReceiptInv
<1>4. receipt \in [Sessions -> {None, "failed", "committed"}] /\ None \notin {"failed", "committed"}
  BY RecoveryAssumption DEF TypeOK, FilesTyped
<1>5. \A v \in Tasks \ {u} : task'[v] = task[v]
  BY WorkedOn DEF WorksOn
<1>6. CASE Refuse(u) /\ rev' = rev
  <2>1. task'[u] = Idle
    BY <1>6, Refused DEF Ends, TypeOK, TasksTyped
  <2>2. \A v \in Tasks : task'[v].step \notin Publishing
    BY <1>2, <1>5, <2>1 DEF Idle, Publishing
  <2>3. CASE receipt' = receipt
    <3>1. ASSUME NEW r \in DOMAIN rev', rev'[r].by \in Sessions
          PROVE  receipt'[rev'[r].by] # None /\ (receipt'[rev'[r].by] = "failed" => r \in gone')
      BY <1>1, <1>3, <1>6, <2>3, <3>1 DEF ReceiptInv
    <3>2. ASSUME NEW s \in Sessions, receipt'[s] = "committed"
          PROVE  \E r \in accepted' : rev'[r].by = s
      BY <1>1, <1>6, <2>3, <3>2 DEF ReceiptInv
    <3> QED
      BY <2>2, <3>1, <3>2 DEF ReceiptInv
  <2>4. CASE receipt' # receipt
    <3>1. PICK s \in Sessions : /\ s = task[u].of /\ receipt[s] = None
                                /\ receipt' = [receipt EXCEPT ![s] = "failed"]
      BY <1>1, <1>6, <2>4 DEF Refuse, TargetFits
    <3>2. receipt'[s] = "failed" /\ \A x \in Sessions \ {s} : receipt'[x] = receipt[x]
      BY <1>4, <3>1
    <3>3. ASSUME NEW r \in DOMAIN rev', rev'[r].by \in Sessions
          PROVE  receipt'[rev'[r].by] # None /\ (receipt'[rev'[r].by] = "failed" => r \in gone')
      <4>1. rev'[r].by # s
        BY <1>3, <1>6, <3>1, <3>3
      <4>2. receipt'[rev'[r].by] = receipt[rev'[r].by]
        BY <3>2, <3>3, <4>1
      <4> QED
        BY <1>1, <1>3, <1>6, <3>3, <4>2 DEF ReceiptInv
    <3>4. ASSUME NEW x \in Sessions, receipt'[x] = "committed"
          PROVE  \E r \in accepted' : rev'[r].by = x
      BY <1>1, <1>6, <3>2, <3>4 DEF ReceiptInv
    <3> QED
      BY <2>2, <3>3, <3>4 DEF ReceiptInv
  <2> QED
    BY <2>3, <2>4
<1>7. CASE Publishes(u)
  <2>1. PICK new, text : Published(u, new, text)
    BY <1>7 DEF Publishes
  <2>2. /\ DOMAIN rev' = DOMAIN rev \cup {new} /\ new \notin DOMAIN rev
        /\ \A r \in DOMAIN rev : rev'[r] = rev[r]
        /\ rev'[new].by = task[u].of /\ receipt' = receipt
    BY <2>1 DEF Published
  <2>3. task'[u].step = "verify" /\ task'[u].new = new
        /\ task'[u].kind = task[u].kind /\ task'[u].of = task[u].of
    <3>1. PICK t : t = [task[u] EXCEPT !.step = "verify", !.new = new]
      OBVIOUS
    <3>2. task'[u] = t
      BY <2>1, <3>1 DEF Published, TypeOK, TasksTyped
    <3>3. task[u] \in TaskType
      BY DEF TypeOK, TasksTyped
    <3> QED
      BY <3>1, <3>2, <3>3 DEF TaskType
  <2>4. task[u].of \in Sessions => task[u].kind = "session"
    <3>1. None \notin Sessions /\ Sessions \cap Nat = {}
      BY RecoveryAssumption
    <3>2. task[u].kind = "restore" => task[u].of \in Nat
      BY <1>1 DEF TargetFits
    <3> QED
      BY <1>1, <3>1, <3>2 DEF TargetFits, Commits
  <2>5. task[u].kind = "session" => receipt[task[u].of] = None
    BY <1>7 DEF Publishes
  <2>6. ASSUME NEW r \in DOMAIN rev', rev'[r].by \in Sessions
        PROVE  /\ receipt'[rev'[r].by] = None =>
                    \E v \in Tasks : /\ task'[v].step \in Publishing /\ task'[v].kind = "session"
                                     /\ task'[v].new = r
               /\ receipt'[rev'[r].by] = "failed" => r \in gone'
    <3>1. CASE r = new
      BY <1>4, <2>2, <2>3, <2>4, <2>5, <2>6, <3>1 DEF Publishing
    <3>2. CASE r \in DOMAIN rev
      BY <1>1, <1>3, <2>2, <2>6, <3>2 DEF ReceiptInv
    <3> QED
      BY <2>2, <2>6, <3>1, <3>2
  <2>7. ASSUME NEW s \in Sessions, receipt'[s] = "committed"
        PROVE  \E r \in accepted' : rev'[r].by = s
    <3>1. PICK r \in accepted : rev[r].by = s
      BY <2>2, <2>7 DEF ReceiptInv
    <3>2. r \in DOMAIN rev
      BY DEF TypeOK, BooksTyped
    <3> QED
      BY <1>1, <2>2, <3>1, <3>2
  <2>8. ASSUME NEW v \in Tasks, task'[v].kind = "session", task'[v].step \in Publishing
        PROVE  receipt'[task'[v].of] = None
    <3>1. v = u
      BY <1>2, <1>5, <2>8
    <3> QED
      BY <2>2, <2>3, <2>5, <2>8, <3>1
  <2> QED
    BY <2>6, <2>7, <2>8 DEF ReceiptInv
<1> QED
  BY <1>6, <1>7, Applied

(* They stay right when the task that publishes is done.                    *)
LEMMA DoneReceipts ==
  ASSUME TypeOK, ReceiptInv, NEW u \in Tasks, task[u].kind = "session", task[u].step \in Publishing,
         UNCHANGED <<rev, gone>>, tally'.crashes = tally.crashes,
         accepted \subseteq accepted', task'[u].step \notin Publishing,
         \A v \in Tasks \ {u} : task'[v] = task[v],
         \/ task[u].new \in gone /\ receipt' = [receipt EXCEPT ![task[u].of] = "failed"]
         \/ task[u].new \in accepted' /\ receipt' = [receipt EXCEPT ![task[u].of] = "committed"]
  PROVE  ReceiptInv'
<1> SUFFICES ASSUME tally.crashes = 0 PROVE ReceiptInv'
  BY DEF ReceiptInv
<1>1. PICK s \in Sessions : s = task[u].of
  BY DEF TypeOK, TasksTyped, TargetFits
<1>2. \A v \in Tasks \ {u} : task[v].step \notin Publishing
  <2>1. task[u].step \in Holding
    BY DEF Holding, Publishing
  <2>2. \A v \in Tasks \ {u} : task[v].step \notin Holding
    BY <2>1, OneAtWork DEF TypeOK
  <2> QED
    BY <2>2 DEF Holding, Publishing
<1>3. task[u].new \in DOMAIN rev /\ rev[task[u].new].by = s
  BY <1>1 DEF TypeOK, TasksTyped, WorkFits
<1>4. receipt[s] = None
  BY <1>1 DEF ReceiptInv
<1>5. \A r \in DOMAIN rev : rev[r].by \in Sessions /\ receipt[rev[r].by] = None => r = task[u].new
  BY <1>2 DEF ReceiptInv
<1>6. receipt \in [Sessions -> {None, "failed", "committed"}] /\ None \notin {"failed", "committed"}
  BY RecoveryAssumption DEF TypeOK, FilesTyped
<1>7. \A x \in Sessions \ {s} : receipt'[x] = receipt[x]
  BY <1>1, <1>6
<1>8. \/ task[u].new \in gone /\ receipt'[s] = "failed"
      \/ task[u].new \in accepted' /\ receipt'[s] = "committed"
  BY <1>1, <1>6
<1>9. ASSUME NEW r \in DOMAIN rev', rev'[r].by \in Sessions
      PROVE  receipt'[rev'[r].by] # None /\ (receipt'[rev'[r].by] = "failed" => r \in gone')
  <2>1. CASE rev[r].by = s
    <3>1. r = task[u].new
      BY <1>4, <1>5, <1>9, <2>1
    <3> QED
      BY <1>6, <1>8, <1>9, <2>1, <3>1
  <2>2. CASE rev[r].by # s
    <3>1. r # task[u].new /\ receipt'[rev[r].by] = receipt[rev[r].by]
      BY <1>3, <1>7, <1>9, <2>2
    <3> QED
      BY <1>5, <1>9, <3>1 DEF ReceiptInv
  <2> QED
    BY <2>1, <2>2
<1>10. ASSUME NEW x \in Sessions, receipt'[x] = "committed"
       PROVE  \E r \in accepted' : rev'[r].by = x
  <2>1. CASE x = s
    BY <1>3, <1>8, <1>10, <2>1
  <2>2. CASE x # s
    BY <1>7, <1>10, <2>2 DEF ReceiptInv
  <2> QED
    BY <2>1, <2>2
<1>11. \A v \in Tasks : task'[v].step \notin Publishing
  BY <1>2
<1> QED
  BY <1>9, <1>10, <1>11 DEF ReceiptInv

(* Receipts stay right.                                                     *)
LEMMA ReceiptKept == TypeOK /\ TypeOK' /\ ReceiptInv /\ [Next]_vars => ReceiptInv'
<1> SUFFICES ASSUME TypeOK, TypeOK', ReceiptInv, [Next]_vars PROVE ReceiptInv'
  OBVIOUS
<1>1. Publishing \subseteq Holding /\ Idle.step = "none" /\ Idle.kind = "none"
      /\ "none" \notin Holding
  BY DEF Publishing, Holding, Idle
<1>2. task \in [Tasks -> TaskType] /\ \A v \in Tasks : StepFits(task[v]) /\ WorkFits(task[v])
  BY DEF TypeOK, TasksTyped
<1>3. ASSUME NEW u \in Tasks, UNCHANGED <<rev, receipt>>, gone \subseteq gone',
             accepted \subseteq accepted', tally'.crashes = tally.crashes,
             \A v \in Tasks \ {u} : task'[v] = task[v],
             task[u].step \notin Publishing, task'[u].step \notin Publishing
      PROVE  ReceiptInv'
  BY <1>3, ReceiptsLeft DEF Publisher
<1>4. ASSUME NEW u \in Tasks, Starts(u) PROVE ReceiptInv'
  <2>1. /\ task[u] = Idle /\ UNCHANGED <<rev, receipt>>
        /\ tally'.crashes = tally.crashes
        /\ \A v \in Tasks \ {u} : task'[v] = task[v]
    BY <1>4, Started, Counted
  <2>2. UNCHANGED <<holder, gone, accepted>>
    BY <1>4 DEF Starts, Repairs, Edit, Autosave, Mark, BeginSession, CommitSession, Repair,
       folder, books
  <2>3. task'[u].step \notin Holding
    BY <1>1, <2>1, <2>2, HoldingLeft DEF TypeOK
  <2> QED
    BY <1>1, <1>3, <2>1, <2>2, <2>3
<1>5. ASSUME NEW u \in Tasks, WorksOn(u) PROVE ReceiptInv'
  <2>1. UNCHANGED tally /\ \A v \in Tasks \ {u} : task'[v] = task[v]
    BY <1>5, WorkedOn
  <2>2. CASE \/ SessionBegins(u) \/ LockRefused(u) \/ SessionEnds(u) \/ Scan(u) \/ Audit(u)
             \/ WritePointer(u) \/ Reject(u) \/ AutosaveStored(u) \/ AutosaveListed(u) \/ Marked(u)
    <3>1. task[u].step \notin Holding
      BY <1>2, <2>2 DEF SessionBegins, LockRefused, SessionEnds, Scan, Audit, WritePointer,
         Reject, AutosaveStored, AutosaveListed, Marked, At, StepFits, Holding
    <3>2. UNCHANGED <<rev, receipt, holder>> /\ gone \subseteq gone' /\ accepted \subseteq accepted'
      BY <2>2 DEF SessionBegins, LockRefused, SessionEnds, Scan, Audit, WritePointer, Reject,
         AutosaveStored, AutosaveListed, Marked, folder, books
    <3>3. task'[u].step \notin Holding
      BY <3>1, <3>2, HoldingLeft DEF TypeOK
    <3> QED
      BY <1>1, <1>3, <2>1, <3>1, <3>2, <3>3
  <2>3. ASSUME NEW s, Goto(u, s)
        PROVE  /\ task'[u].step = s /\ task'[u].kind = task[u].kind
               /\ task'[u].of = task[u].of /\ task'[u].new = task[u].new
    BY <2>3, GoneTo
  <2>4. Ends(u) => task'[u] = Idle
    BY <1>2 DEF Ends
  <2>5. CASE Lock(u)
    <3>1. task[u].step = "lock" /\ task'[u].step = "apply"
          /\ UNCHANGED <<rev, receipt, gone, accepted>>
      BY <2>3, <2>5 DEF Lock, At, books
    <3> QED
      BY <1>3, <2>1, <3>1 DEF Publishing
  <2>6. CASE Apply(u)
    BY <2>6, AppliedReceipts
  <2>7. ASSUME NEW s \in Publishing, Goto(u, s), task[u].step \in Publishing,
               UNCHANGED <<rev, receipt, gone, accepted>>
        PROVE  ReceiptInv'
    BY <2>1, <2>3, <2>7, ReceiptsLeft DEF Publisher
  <2>8. ASSUME task[u].kind # "session", Ends(u), UNCHANGED <<rev, receipt, gone>>,
               accepted \subseteq accepted'
        PROVE  ReceiptInv'
    BY <1>1, <2>1, <2>4, <2>8, ReceiptsLeft DEF Publisher
  <2>9. CASE Verify(u)
    <3>1. task[u].step \in Publishing /\ UNCHANGED <<rev, gone, accepted>>
      BY <2>9 DEF Verify, At, Publishing, books
    <3>2. CASE Exists(task[u].new)
      <4>1. Goto(u, "point") /\ UNCHANGED receipt
        BY <2>9, <3>2 DEF Verify
      <4> QED
        BY <2>7, <3>1, <4>1 DEF Publishing
    <3>3. CASE ~Exists(task[u].new)
      <4>1. task[u].new \in gone
        BY <1>2, <3>1, <3>3 DEF Exists, WorkFits
      <4>2. Ends(u)
        BY <2>9, <3>3 DEF Verify
      <4>3. CASE task[u].kind = "session"
        <5>1. receipt' = [receipt EXCEPT ![task[u].of] = "failed"]
          BY <2>9, <3>3, <4>3 DEF Verify
        <5> QED
          BY <1>1, <2>1, <2>4, <3>1, <4>1, <4>2, <4>3, <5>1, DoneReceipts
      <4>4. CASE task[u].kind # "session"
        <5>1. receipt' = receipt
          BY <2>9, <3>3, <4>4 DEF Verify
        <5> QED
          BY <2>8, <3>1, <4>2, <4>4, <5>1
      <4> QED
        BY <4>3, <4>4
    <3> QED
      BY <3>2, <3>3
  <2>10. CASE Point(u)
    <3>1. PICK s : s = IF task[u].kind \in {"session", "adopt-source"} THEN "materialize" ELSE "record"
      OBVIOUS
    <3>2. Goto(u, s) /\ s \in Publishing /\ task[u].step \in Publishing
          /\ UNCHANGED <<rev, receipt, gone, accepted>>
      BY <2>10, <3>1 DEF Point, At, Publishing, books
    <3> QED
      BY <2>7, <3>2
  <2>11. CASE Materialize(u)
    <3>1. Goto(u, "record") /\ task[u].step \in Publishing
          /\ UNCHANGED <<rev, receipt, gone, accepted>>
      BY <2>11 DEF Materialize, At, Publishing, books
    <3> QED
      BY <2>7, <3>1 DEF Publishing
  <2>12. CASE Record(u)
    <3>1. /\ task[u].step \in Publishing /\ UNCHANGED <<rev, gone>>
          /\ accepted \subseteq accepted' /\ task[u].new \in accepted'
      BY <2>12 DEF Record, At, Publishing
    <3>2. CASE task[u].kind = "session"
      <4>1. receipt' = [receipt EXCEPT ![task[u].of] = "committed"] /\ Goto(u, "remove")
        BY <2>12, <3>2 DEF Record
      <4>2. task'[u].step \notin Publishing
        BY <2>3, <4>1 DEF Publishing
      <4> QED
        BY <2>1, <3>1, <3>2, <4>1, <4>2, DoneReceipts
    <3>3. CASE task[u].kind # "session"
      <4>1. Ends(u) /\ receipt' = receipt
        BY <2>12, <3>3 DEF Record
      <4> QED
        BY <2>8, <3>1, <3>3, <4>1
    <3> QED
      BY <3>2, <3>3
  <2> QED
    BY <1>5, <2>2, <2>5, <2>6, <2>9, <2>10, <2>11, <2>12 DEF WorksOn
<1>6. CASE Crash
  <2>1. tally'.crashes # 0
    BY <1>6 DEF Crash, TypeOK, FilesTyped
  <2> QED
    BY <2>1 DEF ReceiptInv
<1>7. CASE (Around /\ ~Crash) \/ UNCHANGED vars
  <2>1. UNCHANGED <<rev, receipt, gone, accepted, task>> /\ tally'.crashes = tally.crashes
    <3>1. CASE OutsideEdit
      BY <3>1 DEF OutsideEdit, TypeOK, FilesTyped, books
    <3>2. CASE ~OutsideEdit
      BY <1>7, <3>2 DEF Around, AbortSession, ClearLock, vars, folder, books
    <3> QED
      BY <3>1, <3>2
  <2> QED
    BY <2>1, ReceiptsLeft DEF Publisher
<1> QED
  BY <1>4, <1>5, <1>6, <1>7, StepCases

-----------------------------------------------------------------------------
(* The newest of some are the newest of their newest, and one newer.        *)
LEMMA NewestOfMore ==
  ASSUME NEW L, L \subseteq Nat, IsFiniteSet(L), NEW n \in Nat, \A k \in L : k < n
  PROVE  Kept(Newest(L) \cup {n}) = Newest(L \cup {n})
<1> DEFINE Up(S, x) == {k \in S : k >= x}
           N == L \cup {n}
           M == Newest(L) \cup {n}
<1>1. ASSUME NEW S, NEW T, S \subseteq T, T \subseteq N
      PROVE  /\ Cardinality(S) \in Nat /\ Cardinality(T) \in Nat
             /\ Cardinality(S) <= Cardinality(T)
  <2>1. IsFiniteSet(N)
    BY FS_AddElement
  <2>2. IsFiniteSet(T) /\ IsFiniteSet(S)
    BY <1>1, <2>1, FS_Subset
  <2> QED
    BY <1>1, <2>2, FS_Subset, FS_CardinalityType
<1>2. Retention \in Nat
  BY RecoveryAssumption
<1>3. \A S : \A x : x \in Newest(S) <=> x \in S /\ Cardinality(Up(S, x)) <= Retention
  BY DEF Newest
<1>4. \A S : \A x : x \in Kept(S) <=> x \in S /\ Cardinality(Up(S, x)) <= Retention
  BY DEF Kept
<1>5. Newest(L) \subseteq L
  BY <1>3
<1>6. ASSUME NEW x \in Newest(L), NEW k \in L, k >= x
      PROVE  k \in Newest(L)
  <2>1. x \in L /\ x \in Nat /\ k \in Nat /\ Cardinality(Up(L, x)) <= Retention
    BY <1>3, <1>5, <1>6
  <2>2. Up(L, k) \subseteq Up(L, x) /\ Up(L, x) \subseteq N
    <3>1. ASSUME NEW j \in L, j >= k PROVE j >= x
      <4>1. j \in Nat
        OBVIOUS
      <4> QED
        BY <1>6, <2>1, <3>1, <4>1
    <3> QED
      BY <3>1
  <2> HIDE DEF Up, N
  <2>3. /\ Cardinality(Up(L, k)) \in Nat /\ Cardinality(Up(L, x)) \in Nat
        /\ Cardinality(Up(L, k)) <= Cardinality(Up(L, x))
    BY <1>1, <2>2
  <2>4. Cardinality(Up(L, k)) <= Retention
    BY <1>2, <2>1, <2>3
  <2> QED
    BY <1>3, <1>6, <2>4
<1>7. ASSUME NEW x \in M
      PROVE  Up(M, x) = Up(N, x)
  <2>1. ASSUME NEW k \in N, k >= x PROVE k \in M
    BY <1>5, <1>6, <2>1
  <2> QED
    BY <1>5, <2>1
<1>8. ASSUME NEW x \in Newest(N) PROVE x \in M
  <2>1. x \in N /\ Cardinality(Up(N, x)) <= Retention
    BY <1>3
  <2>2. CASE x = n
    BY <2>2
  <2>3. CASE x \in L
    <3>1. Up(L, x) \subseteq Up(N, x) /\ Up(N, x) \subseteq N
      OBVIOUS
    <3> HIDE DEF Up, N
    <3>2. /\ Cardinality(Up(L, x)) \in Nat /\ Cardinality(Up(N, x)) \in Nat
          /\ Cardinality(Up(L, x)) <= Cardinality(Up(N, x))
      BY <1>1, <3>1
    <3>3. Cardinality(Up(L, x)) <= Retention
      BY <1>2, <2>1, <3>2
    <3>4. x \in Newest(L)
      BY <1>3, <2>3, <3>3
    <3> QED
      BY <3>4
  <2> QED
    BY <2>1, <2>2, <2>3
<1>9. M \subseteq N
  BY <1>5
<1> HIDE DEF Up, M, N
<1>10. Kept(M) = Newest(N)
  BY <1>3, <1>4, <1>7, <1>8, <1>9
<1> QED
  BY <1>10 DEF M, N

(* The autosaves are in order when the writer there is stays the same.      *)
LEMMA WritersLeft ==
  ASSUME WriterInv, TasksTyped', UNCHANGED <<meta, saved, listing>>, contended => contended',
         opened' => opened, missed \subseteq missed',
         \A v \in Tasks : task'[v].kind \in MetaWriters => task'[v] = task[v]
  PROVE  WriterInv'
<1> SUFFICES ASSUME ~contended' PROVE WriterInv'
  BY DEF WriterInv
<1>1. ASSUME NEW u \in Tasks, NEW v \in Tasks,
             task'[u].kind \in MetaWriters, task'[v].kind \in MetaWriters
      PROVE  u = v
  BY <1>1 DEF WriterInv
<1>2. ASSUME NEW u \in Tasks
      PROVE  /\ task'[u].kind \in MetaWriters => task'[u].seen = meta'
             /\ task'[u].kind = "autosave" => \A k \in listing' : k < task'[u].of
  BY DEF WriterInv, MetaWriters
<1>3. ASSUME NEW u \in Tasks, task'[u].step = "list"
      PROVE  task'[u].of \in DOMAIN saved'
  <2>1. task'[u].kind = "autosave"
    BY <1>3 DEF TasksTyped, StepFits
  <2>2. task'[u] = task[u]
    BY <2>1 DEF MetaWriters
  <2> QED
    BY <1>3, <2>2 DEF WriterInv
<1>4. /\ meta'.entries \subseteq DOMAIN saved'
      /\ opened' /\ missed' = {} => ~meta'.clean
  BY DEF WriterInv
<1>5. meta'.entries = Newest(listing')
  BY DEF WriterInv
<1> QED
  BY <1>1, <1>2, <1>3, <1>4, <1>5 DEF WriterInv

(* They are in order when a writer starts.                                  *)
LEMMA WriterStarts ==
  ASSUME TypeOK, TasksTyped', WriterInv, NEW u \in Tasks,
         Autosave(u) \/ \E kind \in {"open", "close"} : Mark(u, kind)
  PROVE  WriterInv'
<1> SUFFICES ASSUME ~contended' PROVE WriterInv'
  BY DEF WriterInv
<1>1. Contends(u) /\ UNCHANGED <<opened, meta, saved, listing, missed>>
  BY DEF Autosave, Mark, books
<1>2. ~contended /\ \A v \in Tasks \ {u} : task[v].kind \notin MetaWriters
  BY <1>1 DEF Contends
<1>3. \A v \in Tasks \ {u} : task'[v] = task[v]
  BY Started DEF Starts
<1>4. task'[u].seen = meta /\ task'[u].step # "list"
      /\ (task'[u].kind = "autosave" => task'[u].of = tally.requests + 1)
  <2>1. CASE Autosave(u)
    <3>1. PICK t : t = [Idle EXCEPT !.kind = "autosave", !.step = "store", !.base = pointer,
                          !.of = tally.requests + 1, !.seen = meta]
      OBVIOUS
    <3>2. task'[u] = t
      BY <2>1, <3>1 DEF Autosave, Start, TypeOK, TasksTyped
    <3> QED
      BY <3>1, <3>2 DEF Idle
  <2>2. ASSUME NEW kind \in {"open", "close"}, Mark(u, kind)
        PROVE  task'[u].seen = meta /\ task'[u].step # "list" /\ task'[u].kind # "autosave"
    <3>1. PICK t : t = [Idle EXCEPT !.kind = kind, !.step = "mark", !.seen = meta]
      OBVIOUS
    <3>2. task'[u] = t
      BY <2>2, <3>1 DEF Mark, Start, TypeOK, TasksTyped
    <3> QED
      BY <3>1, <3>2 DEF Idle
  <2> QED
    BY <2>1, <2>2
<1>5. \A k \in listing : k < tally.requests + 1
  BY DEF TypeOK, AutosavesTyped, FilesTyped
<1>6. ASSUME NEW v \in Tasks, NEW w \in Tasks,
             task'[v].kind \in MetaWriters, task'[w].kind \in MetaWriters
      PROVE  v = w
  BY <1>2, <1>3, <1>6
<1>7. ASSUME NEW v \in Tasks
      PROVE  /\ task'[v].kind \in MetaWriters => task'[v].seen = meta'
             /\ task'[v].kind = "autosave" => \A k \in listing' : k < task'[v].of
             /\ task'[v].step = "list" => task'[v].of \in DOMAIN saved'
  <2>1. CASE v = u
    BY <1>1, <1>4, <1>5, <2>1
  <2>2. CASE v # u
    BY <1>1, <1>2, <1>3, <2>2 DEF WriterInv, MetaWriters
  <2> QED
    BY <2>1, <2>2
<1>8. /\ meta'.entries \subseteq DOMAIN saved' /\ meta'.entries = Newest(listing')
      /\ opened' /\ missed' = {} => ~meta'.clean
  BY <1>1, <1>2 DEF WriterInv, Newest
<1> QED
  BY <1>6, <1>7, <1>8 DEF WriterInv

(* They are in order when one has stored a snapshot, and listed it.         *)
LEMMA AutosaveWritten ==
  ASSUME TypeOK, TasksTyped', WriterInv, NEW u \in Tasks,
         AutosaveStored(u) \/ AutosaveListed(u)
  PROVE  WriterInv'
<1> SUFFICES ASSUME ~contended' PROVE WriterInv'
  BY DEF WriterInv
<1>1. UNCHANGED <<opened, contended, missed>>
  BY DEF AutosaveStored, AutosaveListed, books
<1>2. task[u] \in TaskType /\ task[u].kind = "autosave" /\ task[u].kind \in MetaWriters
  BY DEF AutosaveStored, AutosaveListed, At, TypeOK, TasksTyped, StepFits, MetaWriters
<1>3. /\ \A v \in Tasks \ {u} : task'[v] = task[v] /\ task[v].kind \notin MetaWriters
      /\ task[u].seen = meta /\ \A k \in listing : k < task[u].of
  BY <1>1, <1>2, WorkedOn DEF WorksOn, WriterInv
<1>4. meta.entries \subseteq DOMAIN saved /\ meta.entries = Newest(listing)
      /\ (opened /\ missed = {} => ~meta.clean)
  BY <1>1 DEF WriterInv
<1>5. \A v, w \in Tasks :
        task'[v].kind \in MetaWriters /\ task'[w].kind \in MetaWriters => v = w
  BY <1>3
<1>6. \A v \in Tasks \ {u} : task'[v].step = "list" => task'[v].kind \in MetaWriters
  BY DEF TasksTyped, StepFits, MetaWriters
<1>7. CASE AutosaveStored(u)
  <2>1. PICK t : t = [task[u] EXCEPT !.step = "list"]
    OBVIOUS
  <2>2. t.kind = "autosave" /\ t.of = task[u].of /\ t.seen = meta
    BY <1>2, <1>3, <2>1 DEF TaskType
  <2>3. task'[u] = t
    BY <1>7, <2>1 DEF AutosaveStored, Goto, TypeOK, TasksTyped
  <2>4. UNCHANGED <<meta, listing>> /\ DOMAIN saved' = DOMAIN saved \cup {task[u].of}
    BY <1>7 DEF AutosaveStored
  <2>5. ASSUME NEW v \in Tasks
        PROVE  /\ task'[v].kind \in MetaWriters => task'[v].seen = meta'
               /\ task'[v].kind = "autosave" => \A k \in listing' : k < task'[v].of
               /\ task'[v].step = "list" => task'[v].of \in DOMAIN saved'
    <3>1. CASE v = u
      BY <1>3, <2>2, <2>3, <2>4, <3>1
    <3>2. CASE v # u
      BY <1>3, <1>6, <3>2 DEF MetaWriters
    <3> QED
      BY <3>1, <3>2
  <2>6. meta'.entries = Newest(listing')
    BY <1>4, <2>4 DEF Newest
  <2>7. meta'.entries \subseteq DOMAIN saved' /\ (opened' /\ missed' = {} => ~meta'.clean)
    BY <1>1, <1>4, <2>4
  <2> QED
    BY <1>5, <2>5, <2>6, <2>7 DEF WriterInv
<1>8. CASE AutosaveListed(u)
  <2>1. PICK n \in Nat : n = task[u].of
    BY <1>2 DEF TypeOK, TasksTyped, TargetFits
  <2>2. PICK E : E = Newest(listing) \cup {n}
    OBVIOUS
  <2>3. task[u].seen.entries \cup {task[u].of} = E
    BY <1>3, <1>4, <2>1, <2>2
  <2>4. /\ meta' = [clean |-> FALSE, entries |-> Kept(E)]
        /\ DOMAIN saved' = DOMAIN saved \ (E \ Kept(E)) /\ listing' = listing \cup {n}
        /\ Ends(u)
    BY <1>8, <2>1, <2>3 DEF AutosaveListed
  <2>5. task'[u].kind = "none"
    BY <2>4 DEF Ends, Idle, TypeOK, TasksTyped
  <2>6. E \subseteq DOMAIN saved
    <3>1. n \in DOMAIN saved
      BY <1>1, <1>8, <2>1 DEF AutosaveListed, At, WriterInv
    <3> QED
      BY <1>4, <2>2, <3>1
  <2>7. Kept(E) \subseteq E
    BY DEF Kept
  <2>8. Kept(E) = Newest(listing \cup {n})
    <3>1. IsFiniteSet(listing) /\ listing \subseteq Nat
      <4>1. listing \subseteq 1..tally.requests /\ tally.requests \in Nat
        BY DEF TypeOK, AutosavesTyped, FilesTyped
      <4>2. IsFiniteSet(1..tally.requests)
        BY <4>1, FS_Interval
      <4>3. IsFiniteSet(listing)
        BY <4>1, <4>2, FS_Subset
      <4>4. 1..tally.requests \subseteq Nat
        BY <4>1
      <4> QED
        BY <4>1, <4>3, <4>4
    <3>2. \A k \in listing : k < n
      BY <1>3, <2>1
    <3> QED
      BY <2>2, <3>1, <3>2, NewestOfMore
  <2>10. meta'.entries = Newest(listing')
    BY <2>4, <2>8 DEF Newest
  <2>11. meta'.entries \subseteq DOMAIN saved' /\ ~meta'.clean
    BY <2>4, <2>6, <2>7
  <2>12. ASSUME NEW v \in Tasks
         PROVE  task'[v].kind \notin MetaWriters /\ task'[v].step # "list"
    BY <1>3, <2>5 DEF TasksTyped, StepFits, MetaWriters
  <2> QED
    BY <2>10, <2>11, <2>12 DEF WriterInv, MetaWriters
<1> QED
  BY <1>7, <1>8

(* They are in order when the project has been opened or closed: it is not  *)
(* closed when its current revision has been lost, which is on record.      *)
LEMMA MarkWritten ==
  ASSUME TypeOK, TasksTyped', WriterInv, Whole(pointer), NEW u \in Tasks, Marked(u)
  PROVE  WriterInv'
<1> SUFFICES ASSUME ~contended' PROVE WriterInv'
  BY DEF WriterInv
<1>1. UNCHANGED <<saved, listing, contended, missed>> /\ Ends(u)
  BY DEF Marked, books
<1>2. task[u].kind \in {"open", "close"} /\ task[u].kind \in MetaWriters
  BY DEF Marked, At, TypeOK, TasksTyped, StepFits, MetaWriters
<1>3. /\ \A v \in Tasks \ {u} : task'[v] = task[v] /\ task[v].kind \notin MetaWriters
      /\ task[u].seen = meta
  BY <1>1, <1>2, WorkedOn DEF WorksOn, WriterInv
<1>4. task'[u].kind = "none"
  BY <1>1 DEF Ends, Idle, TypeOK, TasksTyped
<1>5. ASSUME NEW v \in Tasks
      PROVE  task'[v].kind \notin MetaWriters /\ task'[v].step # "list"
  BY <1>3, <1>4 DEF TasksTyped, StepFits, MetaWriters
<1>6. meta' = [meta EXCEPT !.clean = task[u].kind = "close"]
  BY <1>3 DEF Marked
<1>7. meta \in [clean : BOOLEAN, entries : SUBSET Nat]
  BY DEF TypeOK, AutosavesTyped, Metas
<1>8. meta'.entries = meta.entries /\ (task[u].kind = "open" => ~meta'.clean)
  BY <1>6, <1>7
<1>9. meta'.entries \subseteq DOMAIN saved' /\ meta'.entries = Newest(listing')
  BY <1>1, <1>8 DEF WriterInv, Newest
<1>10. ASSUME opened', missed' = {}
       PROVE  ~meta'.clean
  <2>1. CASE task[u].kind = "open"
    BY <1>8, <2>1
  <2>2. CASE task[u].kind # "open"
    <3>1. ~Exists(pointer)
      BY <1>10, <2>2 DEF Marked
    <3>2. pointer \in gone /\ pointer \in Walk(rev, gone, pointer)
      BY <3>1, WalkHolds DEF Exists, TypeOK, StoreTyped
    <3> QED
      BY <1>1, <1>10, <3>2 DEF Whole
  <2> QED
    BY <2>1, <2>2
<1> QED
  BY <1>5, <1>9, <1>10 DEF WriterInv, MetaWriters

(* The autosaves stay in order.                                             *)
LEMMA WriterKept ==
  TypeOK /\ TypeOK' /\ WriterInv /\ Whole(pointer) /\ [Next]_vars => WriterInv'
<1> SUFFICES ASSUME TypeOK, TypeOK', WriterInv, Whole(pointer), [Next]_vars PROVE WriterInv'
  OBVIOUS
<1>1. TasksTyped' /\ TasksTyped /\ task \in [Tasks -> TaskType] /\ Idle.kind = "none"
      /\ "none" \notin MetaWriters
  BY DEF TypeOK, TasksTyped, Idle, MetaWriters
<1>2. ASSUME NEW u \in Tasks, Starts(u) PROVE WriterInv'
  <2>1. CASE Autosave(u) \/ \E kind \in {"open", "close"} : Mark(u, kind)
    BY <1>1, <2>1, WriterStarts
  <2>2. CASE \/ Edit(u) \/ Repairs(u)
             \/ \E s \in Sessions : BeginSession(u, s) \/ CommitSession(u, s)
    <3>1. UNCHANGED <<opened, meta, saved, listing, contended, missed>>
      BY <2>2 DEF Repairs, Edit, BeginSession, CommitSession, Repair, autosaves, books
    <3>2. task'[u].kind \notin MetaWriters \/ Autosave(u) \/ \E kind \in {"open", "close"} : Mark(u, kind)
      BY <1>2, Started DEF Orphaned, PointerRepairs, MetaWriters
    <3>3. \A v \in Tasks \ {u} : task'[v] = task[v]
      BY <1>2, Started
    <3> QED
      BY <1>1, <2>1, <3>1, <3>2, <3>3, WritersLeft
  <2> QED
    BY <1>2, <2>1, <2>2 DEF Starts
<1>3. ASSUME NEW u \in Tasks, WorksOn(u) PROVE WriterInv'
  <2>1. CASE AutosaveStored(u) \/ AutosaveListed(u)
    BY <1>1, <2>1, AutosaveWritten
  <2>2. CASE Marked(u)
    BY <1>1, <2>2, MarkWritten
  <2>3. CASE \/ SessionBegins(u) \/ Lock(u) \/ LockRefused(u) \/ Apply(u) \/ Verify(u) \/ Point(u)
             \/ Materialize(u) \/ Record(u) \/ SessionEnds(u) \/ Scan(u) \/ Audit(u)
             \/ WritePointer(u) \/ Reject(u)
    <3>1. task[u].kind \notin MetaWriters
      <4>1. StepFits(task[u])
        BY <1>1 DEF TasksTyped
      <4>2. \/ task[u].kind = "begin" 
            \/ task[u].step \in CommitSteps \cup {"remove", "scan", "audit", "write", "move"}
        BY <2>3 DEF SessionBegins, Lock, LockRefused, Apply, Verify, Point, Materialize, Record,
           SessionEnds, Scan, Audit, WritePointer, Reject, At, CommitSteps, Holding
      <4> QED
        BY <4>1, <4>2 DEF StepFits, MetaWriters, Commits, Orphaned, PointerRepairs
    <3>2. (\A v \in Tasks \ {u} : task'[v] = task[v]) /\ task'[u].kind \notin MetaWriters
      BY <1>1, <1>3, <3>1, WorkedOn DEF GoesOn, Continues
    <3>3. UNCHANGED <<opened, meta, saved, listing, contended>> /\ missed \subseteq missed'
      BY <2>3 DEF SessionBegins, Lock, LockRefused, Apply, Verify, Point, Materialize, Record,
         SessionEnds, Scan, Audit, WritePointer, Reject, autosaves, books
    <3> QED
      BY <1>1, <3>2, <3>3, WritersLeft
  <2> QED
    BY <1>3, <2>1, <2>2, <2>3 DEF WorksOn
<1>4. CASE Around \/ UNCHANGED vars
  <2>1. /\ UNCHANGED <<meta, saved, listing, contended, missed>>
        /\ opened' => opened
    BY <1>4 DEF Around, AbortSession, ClearLock, OutsideEdit, Crash, vars, autosaves, books
  <2>2. \A v \in Tasks : task'[v].kind \in MetaWriters => task'[v] = task[v]
    BY <1>1, <1>4, AroundTasks
  <2> QED
    BY <1>1, <2>1, <2>2, WritersLeft
<1> QED
  BY <1>2, <1>3, <1>4, StepCases

-----------------------------------------------------------------------------
(* What authority is at stands as long as no revision is published or       *)
(* rejected and the pointer stays.                                          *)
LEMMA StandsLeft ==
  ASSUME TypeOK, StandsInv, UNCHANGED <<pointer, rev, gone, books>>,
         \A v \in Tasks :
           task'[v] = task[v] \/ \E t : task'[v] = t /\ TaskStands(t)
  PROVE  StandsInv'
<1>1. Whole(pointer)' /\ Covers(pointer)'
  BY DEF StandsInv, Whole, Covers, books
<1>2. ASSUME NEW v \in Tasks PROVE TaskStands(task[v])'
  <2>1. PICK t : task'[v] = t /\ TaskStands(t)
    BY DEF StandsInv
  <2>2. TaskStands(t)'
    BY <2>1 DEF TaskStands, Whole, Covers, books
  <2> QED
    BY <2>1, <2>2 DEF TaskStands
<1> QED
  BY <1>1, <1>2 DEF StandsInv

(* Most steps of a task ask nothing of authority.                           *)
Standing == {"verify", "point", "materialize", "record", "write"}

LEMMA StandsAnyway ==
  ASSUME NEW t, t.step \notin Standing
  PROVE  TaskStands(t)
BY DEF TaskStands, Standing

(* What one task does leaves what is behind a revision on record.           *)
LEMMA StandsOn ==
  ASSUME IsStore(rev), IsStore(rev'), Grows, gone' = gone, missed \subseteq missed',
         NEW r \in DOMAIN rev
  PROVE  /\ Whole(r) => Walk(rev', gone', r) \cap gone' \subseteq missed'
         /\ Walk(rev', {}, r) = Walk(rev, {}, r)
<1>1. DOMAIN rev \subseteq DOMAIN rev' /\ \A q \in DOMAIN rev : rev'[q].parent = rev[q].parent
  BY DEF Grows
<1>2. PICK f : f = rev'
  OBVIOUS
<1>3. Walk(f, gone, r) = Walk(rev, gone, r) /\ Walk(f, {}, r) = Walk(rev, {}, r)
  BY <1>1, <1>2, WalkKept
<1> QED
  BY <1>2, <1>3 DEF Whole

(* What holds of the tasks about to publish, and of the others.             *)
LEMMA OthersWrite ==
  ASSUME TypeOK, NEW u \in Tasks, task[u].step \in Holding, NEW v \in Tasks, v # u,
         task[v].step \in Standing
  PROVE  task[v].step = "write" /\ task[v].of \in DOMAIN rev
BY OneAtWork DEF TypeOK, TasksTyped, StepFits, TargetFits, Orphaned, Standing, Holding

(* A commit publishes a child of the current revision.                      *)
LEMMA StandsPublished ==
  ASSUME TypeOK, TypeOK', StandsInv, NEW u \in Tasks, Apply(u), Publishes(u), Grows
  PROVE  StandsInv'
<1>1. PICK new, text : Published(u, new, text)
  BY DEF Publishes
<1>2. /\ task[u].step = "apply" /\ UNCHANGED <<pointer, gone, accepted, waived, missed>>
      /\ rev'[new].parent = pointer /\ pointer \in DOMAIN rev
      /\ IsStore(rev) /\ \A r \in DOMAIN rev : rev'[r] = rev[r]
  BY <1>1, StoreIsStore DEF Published, Apply, At, books, TypeOK, StoreTyped
<1>3. IsStore(rev')
  BY StoreIsStore DEF TypeOK, StoreTyped, IsStore
<1>4. /\ Walk(rev', gone', pointer) \cap gone' \subseteq missed'
      /\ Walk(rev', {}, pointer) = Walk(rev, {}, pointer)
  BY <1>2, <1>3, StandsOn DEF StandsInv
<1>5. Whole(pointer)' /\ Covers(pointer)'
  BY <1>2, <1>4 DEF StandsInv, Whole, Covers
<1>6. ASSUME NEW v \in Tasks PROVE TaskStands(task[v])'
  <2>1. CASE v = u
    <3>1. PICK t : t = [task[u] EXCEPT !.step = "verify", !.new = new]
      OBVIOUS
    <3>2. task'[u] = t
      BY <1>1, <3>1 DEF Published, TypeOK, TasksTyped
    <3>3. t.step = "verify" /\ t.new = new
      <4>1. task[u] \in TaskType
        BY DEF TypeOK, TasksTyped
      <4> QED
        BY <3>1, <4>1 DEF TaskType
    <3>4. PICK q : q = pointer
      OBVIOUS
    <3>5. Whole(q)' /\ Covers(q)'
      BY <1>2, <1>5, <3>4 DEF Whole, Covers
    <3>6. rev'[t.new].parent = q
      BY <1>2, <3>3, <3>4
    <3>7. TaskStands(t)'
      BY <3>3, <3>5, <3>6 DEF TaskStands, Whole, Covers
    <3> QED
      BY <2>1, <3>2, <3>7 DEF TaskStands
  <2>2. CASE v # u
    <3>1. PICK t : t = task[v]
      OBVIOUS
    <3>2. task'[v] = t
      BY <2>2, <3>1, WorkedOn DEF WorksOn
    <3>3. t.step \in Standing => t.step = "write" /\ t.of \in DOMAIN rev
      BY <1>2, <2>2, <3>1, OthersWrite DEF Holding
    <3>4. TaskStands(t)
      BY <3>1 DEF StandsInv
    <3>5. TaskStands(t)'
      BY <1>2, <3>3, <3>4 DEF TaskStands, Standing
    <3> QED
      BY <3>2, <3>5 DEF TaskStands
  <2> QED
    BY <2>1, <2>2
<1> QED
  BY <1>5, <1>6 DEF StandsInv

(* A revision that was read back may be pointed to.                         *)
LEMMA StandsVerified ==
  ASSUME TypeOK, StandsInv, NEW u \in Tasks, Verify(u), Exists(task[u].new)
  PROVE  StandsInv'
<1>1. PICK r \in DOMAIN rev : r = task[u].new
  BY DEF Exists
<1>2. r \notin gone /\ r # Root /\ IsStore(rev)
  BY <1>1, StoreIsStore DEF Exists, Verify, At, TypeOK, TasksTyped, WorkFits, Publishing
<1>3. PICK p : p = rev[r].parent
  OBVIOUS
<1>4. p \in DOMAIN rev /\ p # None
  <2>1. p \in DOMAIN rev /\ DOMAIN rev \subseteq Nat
    BY <1>2, <1>3 DEF TypeOK, StoreTyped, IsStore
  <2> QED
    BY <2>1, RecoveryAssumption
<1>5. Whole(p) /\ Covers(p)
  BY <1>1, <1>3 DEF StandsInv, TaskStands, Verify, At
<1>6. Whole(r)
  BY <1>2, <1>3, <1>4, <1>5, WalkStep DEF Whole
<1>7. Covers(r)
  <2>1. Walk(rev, {}, p) \subseteq Walk(rev, {}, r)
    BY <1>2, <1>3, <1>4, WalkStep
  <2> QED
    BY <1>5, <2>1 DEF Covers
<1>8. task'[u].step = "point" /\ task'[u].new = r
  BY <1>1, GoneTo DEF Verify
<1>9. PICK t : t = task'[u]
  OBVIOUS
<1>10. TaskStands(t)
  BY <1>6, <1>7, <1>8, <1>9 DEF TaskStands
<1>11. \A v \in Tasks \ {u} : task'[v] = task[v]
  BY WorkedOn DEF WorksOn
<1>12. UNCHANGED <<pointer, rev, gone, books>>
  BY DEF Verify
<1> QED
  BY <1>9, <1>10, <1>11, <1>12, StandsLeft

(* A commit moves the pointer to what it has published.                     *)
LEMMA StandsPointed ==
  ASSUME TypeOK, StandsInv, NEW u \in Tasks, Point(u)
  PROVE  StandsInv'
<1>1. PICK r \in DOMAIN rev : r = task[u].new
  BY DEF Point, At, TypeOK, TasksTyped, WorkFits, Publishing
<1>2. /\ task[u].step = "point" /\ UNCHANGED <<rev, gone, accepted, waived, missed>>
      /\ pointer' = r
  BY <1>1 DEF Point, At, books
<1>3. Whole(r) /\ Covers(r)
  BY <1>1, <1>2 DEF StandsInv, TaskStands
<1>4. Whole(pointer)' /\ Covers(pointer)'
  BY <1>2, <1>3 DEF Whole, Covers
<1>5. ASSUME NEW v \in Tasks PROVE TaskStands(task[v])'
  <2>1. PICK t : t = task'[v]
    OBVIOUS
  <2>2. CASE v = u
    <3>1. PICK s : s = IF task[u].kind \in {"session", "adopt-source"} THEN "materialize" ELSE "record"
      OBVIOUS
    <3>2. t.step \in {"materialize", "record"} /\ t.new = r
      BY <1>1, <2>1, <2>2, <3>1, GoneTo DEF Point
    <3>3. r \in Walk(rev, {}, r)
      BY WalkHolds
    <3>4. TaskStands(t)'
      BY <1>2, <3>2, <3>3 DEF TaskStands
    <3> QED
      BY <2>1, <3>4 DEF TaskStands
  <2>3. CASE v # u
    <3>1. t = task[v]
      BY <2>1, <2>3, WorkedOn DEF WorksOn
    <3>2. t.step \in Standing => t.step = "write"
      BY <1>2, <2>3, <3>1, OthersWrite DEF Holding
    <3>3. TaskStands(t)
      BY <3>1 DEF StandsInv
    <3>4. TaskStands(t)'
      BY <1>2, <3>2, <3>3 DEF TaskStands, Standing
    <3> QED
      BY <2>1, <3>4 DEF TaskStands
  <2> QED
    BY <2>2, <2>3
<1> QED
  BY <1>4, <1>5 DEF StandsInv

(* It is reported as accepted: authority is at it still, or at one that a   *)
(* repair has put there on record.                                          *)
LEMMA StandsRecorded ==
  ASSUME TypeOK, StandsInv, NEW u \in Tasks, Record(u)
  PROVE  StandsInv'
<1>1. /\ task[u].step = "record" /\ UNCHANGED <<pointer, rev, gone, waived, missed>>
      /\ accepted' = accepted \cup {task[u].new}
  BY DEF Record, At
<1>2. task[u].new \in Walk(rev, {}, pointer) \cup waived
  BY <1>1 DEF StandsInv, TaskStands
<1>3. Whole(pointer)' /\ Covers(pointer)'
  BY <1>1, <1>2 DEF StandsInv, Whole, Covers
<1>4. ASSUME NEW v \in Tasks PROVE TaskStands(task[v])'
  <2>1. PICK t : t = task'[v]
    OBVIOUS
  <2>2. CASE v = u
    <3>1. t.step \notin Standing
      <4>1. CASE Goto(u, "remove")
        BY <2>1, <2>2, <4>1, GoneTo DEF Standing
      <4>2. CASE Ends(u)
        BY <2>1, <2>2, <4>2 DEF Ends, Idle, Standing, TypeOK, TasksTyped
      <4> QED
        BY <4>1, <4>2 DEF Record
    <3> QED
      BY <2>1, <3>1 DEF TaskStands, Standing
  <2>3. CASE v # u
    <3>1. t = task[v]
      BY <2>1, <2>3, WorkedOn DEF WorksOn
    <3>2. t.step \in Standing => t.step = "write"
      BY <1>1, <2>3, <3>1, OthersWrite DEF Holding
    <3>3. TaskStands(t)
      BY <3>1 DEF StandsInv
    <3>4. TaskStands(t)'
      BY <1>1, <3>2, <3>3 DEF TaskStands, Standing
    <3> QED
      BY <2>1, <3>4 DEF TaskStands
  <2> QED
    BY <2>2, <2>3
<1> QED
  BY <1>3, <1>4 DEF StandsInv

(* What a repair of the pointer may cost is on record.                      *)
LEMMA StandsWritten ==
  ASSUME TypeOK, StandsInv, NEW u \in Tasks, WritePointer(u)
  PROVE  StandsInv'
<1>1. PICK r \in DOMAIN rev : r = task[u].of
  BY DEF WritePointer, At, TypeOK, TasksTyped, StepFits, TargetFits, Orphaned
<1>2. /\ task[u].step = "write" /\ pointer' = r /\ UNCHANGED <<rev, gone>>
      /\ accepted \subseteq accepted' /\ accepted' \subseteq accepted \cup {r}
      /\ missed \subseteq missed' /\ waived \subseteq waived'
  BY <1>1 DEF WritePointer, At
<1>3. /\ Elsewhere(u) => /\ Walk(rev, {}, pointer) \ Walk(rev, {}, r) \subseteq waived'
                         /\ Walk(rev, gone, r) \cap gone \subseteq missed'
      /\ (\E v \in Tasks \ {u} : AboutToPoint(v)) => r \in waived'
  BY <1>1, BehindIsWalk DEF WritePointer
<1>4. IsStore(rev) /\ pointer \in DOMAIN rev /\ None \notin DOMAIN rev
  <2>1. IsStore(rev) /\ pointer \in DOMAIN rev
    BY StoreIsStore DEF TypeOK, StoreTyped
  <2> QED
    BY <2>1, RecoveryAssumption DEF IsStore
<1>5. ASSUME ~Elsewhere(u)
      PROVE  rev[r].parent = pointer /\ (r \in gone => r \in missed)
  <2>1. task[u].kind = "adopt-orphan" /\ task[u].base = pointer
    BY <1>2, <1>5 DEF Elsewhere, TypeOK, TasksTyped, StepFits, PointerRepairs
  <2> QED
    BY <1>1, <1>2, <2>1 DEF StandsInv, TaskStands
<1>6. Walk(rev, {}, pointer) \subseteq Walk(rev, {}, r) \cup waived'
  <2>1. CASE Elsewhere(u)
    BY <1>3, <2>1
  <2>2. CASE ~Elsewhere(u)
    BY <1>4, <1>5, <2>2, WalkStep
  <2> QED
    BY <2>1, <2>2
<1>7. Walk(rev, gone, r) \cap gone \subseteq missed'
  <2>1. CASE Elsewhere(u)
    BY <1>3, <2>1
  <2>2. CASE ~Elsewhere(u)
    <3>1. Walk(rev, gone, r) \subseteq {r} \cup Walk(rev, gone, pointer)
      BY <1>4, <1>5, <2>2, WalkStep
    <3>2. Walk(rev, gone, pointer) \cap gone \subseteq missed
      BY DEF StandsInv, Whole
    <3> QED
      BY <1>2, <1>5, <2>2, <3>1, <3>2
  <2> QED
    BY <2>1, <2>2
<1>8. r \in Walk(rev, {}, r)
  BY WalkHolds
<1>9. accepted \subseteq Walk(rev, {}, pointer) \cup waived
  BY DEF StandsInv, Covers
<1>10. Whole(pointer)' /\ Covers(pointer)'
  BY <1>2, <1>6, <1>7, <1>8, <1>9 DEF Whole, Covers
<1>11. ASSUME NEW v \in Tasks PROVE TaskStands(task[v])'
  <2>1. PICK t : t = task'[v]
    OBVIOUS
  <2>2. CASE v = u
    <3>1. t.step \notin Standing
      BY <2>1, <2>2 DEF WritePointer, Ends, Idle, Standing, TypeOK, TasksTyped
    <3> QED
      BY <2>1, <3>1 DEF TaskStands, Standing
  <2>3. CASE v # u
    <3>1. t = task[v]
      BY <2>1, <2>3, WorkedOn DEF WorksOn
    <3>2. TaskStands(t)
      BY <3>1 DEF StandsInv
    <3>3. t.step \in {"verify", "point"} => r \in waived'
      BY <1>3, <2>3, <3>1 DEF AboutToPoint
    <3>4. ASSUME NEW q, Whole(q), Covers(q), t.step \in {"verify", "point"}
          PROVE  Whole(q)' /\ Covers(q)'
      BY <1>2, <3>3, <3>4 DEF Whole, Covers
    <3>5. t.step = "verify" => Whole(rev[t.new].parent)' /\ Covers(rev[t.new].parent)'
      <4>1. PICK q : q = rev[t.new].parent
        OBVIOUS
      <4>2. t.step = "verify" => Whole(q)' /\ Covers(q)'
        BY <3>2, <3>4, <4>1 DEF TaskStands
      <4>3. q = rev'[t.new].parent
        BY <1>2, <4>1
      <4> QED
        BY <4>2, <4>3 DEF Whole, Covers
    <3>6. t.step = "point" => Whole(t.new)' /\ Covers(t.new)'
      BY <3>2, <3>4 DEF TaskStands
    <3>7. t.step \in {"materialize", "record"} => t.new \in Walk(rev', {}, pointer') \cup waived'
      BY <1>2, <1>6, <3>2 DEF TaskStands
    <3>8. t.step = "write" => /\ t.of \in gone' => t.of \in missed'
                              /\ t.kind = "adopt-orphan" => rev'[t.of].parent = t.base
      BY <1>2, <3>2 DEF TaskStands
    <3>9. TaskStands(t)'
      BY <3>5, <3>6, <3>7, <3>8 DEF TaskStands
    <3> QED
      BY <2>1, <3>9 DEF TaskStands
  <2> QED
    BY <2>2, <2>3
<1> QED
  BY <1>10, <1>11 DEF StandsInv

(* So is what the rejection of an orphan takes away from authority.         *)
LEMMA StandsRejected ==
  ASSUME TypeOK, StandsInv, NEW u \in Tasks, Reject(u)
  PROVE  StandsInv'
<1>1. PICK x \in DOMAIN rev : x = task[u].of
  BY DEF Reject, At, TypeOK, TasksTyped, StepFits, TargetFits, Orphaned
<1>2. /\ UNCHANGED <<pointer, rev, accepted, waived>>
      /\ gone' = gone \cup {x} /\ missed \subseteq missed'
      /\ IsStore(rev) /\ pointer \in DOMAIN rev
  BY <1>1, StoreIsStore DEF Reject, TypeOK, StoreTyped
<1>3. x \in Walk(rev, gone, pointer) => x \in missed'
  BY <1>1, BehindIsWalk DEF Reject
<1>4. ASSUME NEW v \in Tasks, x \in Needed(v) PROVE x \in missed'
  BY <1>1, <1>4 DEF Reject
<1>5. ASSUME NEW q \in DOMAIN rev, Whole(q), x \in Walk(rev, gone, q) => x \in missed'
      PROVE  Walk(rev', gone', q) \cap gone' \subseteq missed'
  <2>1. Walk(rev, gone \cup {x}, q) \subseteq Walk(rev, gone, q)
    BY <1>2, WalkCut
  <2> QED
    BY <1>2, <1>5, <2>1 DEF Whole
<1>6. Whole(pointer)' /\ Covers(pointer)'
  <2>1. Walk(rev', gone', pointer) \cap gone' \subseteq missed'
    BY <1>2, <1>3, <1>5 DEF StandsInv
  <2> QED
    BY <1>2, <2>1 DEF StandsInv, Whole, Covers
<1>7. ASSUME NEW v \in Tasks PROVE TaskStands(task[v])'
  <2>1. PICK t : t = task'[v]
    OBVIOUS
  <2>2. CASE v = u
    <3>1. t.step \notin Standing
      BY <2>1, <2>2 DEF Reject, Ends, Idle, Standing, TypeOK, TasksTyped
    <3> QED
      BY <2>1, <3>1 DEF TaskStands, Standing
  <2>3. CASE v # u
    <3>1. t = task[v]
      BY <2>1, <2>3, WorkedOn DEF WorksOn
    <3>2. TaskStands(t)
      BY <3>1 DEF StandsInv
    <3>3. /\ t.step \in Publishing => t.new \in DOMAIN rev \ {Root}
          /\ t.step = "write" => t.of \in DOMAIN rev
      BY <3>1 DEF TypeOK, TasksTyped, StepFits, TargetFits, WorkFits, Orphaned
    <3>4. /\ t.step = "verify" => Needed(v) = Walk(rev, gone, rev[t.new].parent)
          /\ t.step = "point" => Needed(v) = Walk(rev, gone, t.new)
          /\ t.step = "write" => Needed(v) = Walk(rev, gone, t.of)
      BY <3>1, BehindIsWalk DEF Needed
    <3>5. ASSUME t.step = "verify"
          PROVE  Whole(rev[t.new].parent)' /\ Covers(rev[t.new].parent)'
      <4>1. PICK q \in DOMAIN rev : q = rev[t.new].parent
        BY <3>3, <3>5 DEF TypeOK, StoreTyped, Publishing
      <4>2. Whole(q) /\ Covers(q)
        BY <3>2, <3>5, <4>1 DEF TaskStands
      <4>3. x \in Walk(rev, gone, q) => x \in missed'
        BY <1>4, <3>4, <3>5, <4>1
      <4>4. Walk(rev', gone', q) \cap gone' \subseteq missed'
        BY <1>5, <4>2, <4>3
      <4>5. q = rev'[t.new].parent
        BY <1>2, <4>1
      <4> QED
        BY <1>2, <4>2, <4>4, <4>5 DEF Whole, Covers
    <3>6. ASSUME t.step = "point"
          PROVE  Whole(t.new)' /\ Covers(t.new)'
      <4>1. PICK q \in DOMAIN rev : q = t.new
        BY <3>3, <3>6 DEF Publishing
      <4>2. Whole(q) /\ Covers(q)
        BY <3>2, <3>6, <4>1 DEF TaskStands
      <4>3. x \in Walk(rev, gone, q) => x \in missed'
        BY <1>4, <3>4, <3>6, <4>1
      <4>4. Walk(rev', gone', q) \cap gone' \subseteq missed'
        BY <1>5, <4>2, <4>3
      <4> QED
        BY <1>2, <4>1, <4>2, <4>4 DEF Whole, Covers
    <3>7. t.step \in {"materialize", "record"} => t.new \in Walk(rev', {}, pointer') \cup waived'
      BY <1>2, <3>2 DEF TaskStands
    <3>8. ASSUME t.step = "write"
          PROVE  /\ t.of \in gone' => t.of \in missed'
                 /\ t.kind = "adopt-orphan" => rev'[t.of].parent = t.base
      <4>1. t.of \in Walk(rev, gone, t.of)
        BY <3>3, <3>8, WalkHolds
      <4>2. t.of = x => x \in missed'
        BY <1>4, <3>4, <3>8, <4>1
      <4> QED
        BY <1>2, <3>2, <3>8, <4>2 DEF TaskStands
    <3>9. TaskStands(t)'
      BY <3>5, <3>6, <3>7, <3>8 DEF TaskStands
    <3> QED
      BY <2>1, <3>9 DEF TaskStands
  <2> QED
    BY <2>2, <2>3
<1> QED
  BY <1>6, <1>7 DEF StandsInv

(* Authority stays what it is held to be.                                   *)
LEMMA StandsKept == TypeOK /\ TypeOK' /\ StandsInv /\ [Next]_vars => StandsInv'
<1> SUFFICES ASSUME TypeOK, TypeOK', StandsInv, [Next]_vars PROVE StandsInv'
  OBVIOUS
<1>1. Idle.step \notin Standing
  BY DEF Idle, Standing
<1>2. ASSUME NEW u \in Tasks, UNCHANGED <<pointer, rev, gone, books>>,
             \A v \in Tasks \ {u} : task'[v] = task[v],
             NEW t, task'[u] = t, TaskStands(t)
      PROVE  StandsInv'
  BY <1>2, StandsLeft
<1>3. ASSUME NEW u \in Tasks, UNCHANGED <<pointer, rev, gone, books>>,
             \A v \in Tasks \ {u} : task'[v] = task[v],
             task'[u].step \notin Standing
      PROVE  StandsInv'
  <2>1. PICK t : task'[u] = t
    OBVIOUS
  <2> QED
    BY <1>2, <1>3, <2>1, StandsAnyway
<1>4. ASSUME NEW u \in Tasks, Starts(u) PROVE StandsInv'
  <2>1. UNCHANGED <<pointer, rev, gone, books>>
    BY <1>4 DEF Starts, Repairs, Edit, Autosave, Mark, BeginSession, CommitSession, Repair, folder
  <2>2. task'[u].step \notin Standing /\ \A v \in Tasks \ {u} : task'[v] = task[v]
    BY <1>4, Started DEF Standing
  <2> QED
    BY <1>3, <2>1, <2>2
<1>5. ASSUME NEW u \in Tasks, WorksOn(u) PROVE StandsInv'
  <2>1. \A v \in Tasks \ {u} : task'[v] = task[v]
    BY <1>5, WorkedOn
  <2>2. Ends(u) => task'[u].step \notin Standing
    BY <1>1 DEF Ends, TypeOK, TasksTyped
  <2>3. CASE \/ SessionBegins(u) \/ LockRefused(u) \/ SessionEnds(u) \/ AutosaveListed(u)
             \/ Marked(u)
    <3>1. Ends(u) /\ UNCHANGED <<pointer, rev, gone, books>>
      BY <2>3 DEF SessionBegins, LockRefused, SessionEnds, AutosaveListed, Marked, folder
    <3> QED
      BY <1>3, <2>1, <2>2, <3>1
  <2>4. CASE Lock(u) \/ AutosaveStored(u)
    <3>1. task'[u].step \notin Standing
      BY <2>4, GoneTo DEF Lock, AutosaveStored, Standing
    <3>2. UNCHANGED <<pointer, rev, gone, books>>
      BY <2>4 DEF Lock, AutosaveStored, folder
    <3> QED
      BY <1>3, <2>1, <3>1, <3>2
  <2>5. CASE Scan(u)
    <3>1. UNCHANGED <<pointer, rev, gone, books>>
      BY <2>5 DEF Scan, folder
    <3>2. CASE Ends(u)
      BY <1>3, <2>1, <2>2, <3>1, <3>2
    <3>3. CASE ~Ends(u)
      <4>1. PICK s : s = CASE task[u].kind \in PointerRepairs -> "audit"
                           [] task[u].kind = "reject-orphan" -> "move"
                           [] OTHER -> "lock"
        OBVIOUS
      <4>2. s \notin Standing
        BY <4>1 DEF Standing
      <4>3. PICK t : t = [task[u] EXCEPT !.step = s,
                            !.seen = IF task[u].kind = "adopt-source" THEN working ELSE None]
        OBVIOUS
      <4>4. task'[u] = t
        BY <2>5, <3>3, <4>1, <4>3 DEF Scan, TypeOK, TasksTyped
      <4>5. t.step = s
        <5>1. task[u] \in TaskType
          BY DEF TypeOK, TasksTyped
        <5> QED
          BY <4>3, <5>1 DEF TaskType
      <4> QED
        BY <1>3, <2>1, <3>1, <4>2, <4>4, <4>5
    <3> QED
      BY <3>2, <3>3
  <2>6. CASE Apply(u)
    <3>1. Grows
      BY StoreKept
    <3>2. CASE Refuse(u) /\ rev' = rev
      <4>1. Ends(u) /\ UNCHANGED <<pointer, rev, gone, books>>
        BY <2>6, <3>2 DEF Apply, Refuse
      <4> QED
        BY <1>3, <2>1, <2>2, <4>1
    <3> QED
      BY <2>6, <3>1, <3>2, Applied, StandsPublished
  <2>7. CASE Verify(u)
    <3>1. CASE Exists(task[u].new)
      BY <2>7, <3>1, StandsVerified
    <3>2. CASE ~Exists(task[u].new)
      <4>1. Ends(u) /\ UNCHANGED <<pointer, rev, gone, books>>
        BY <2>7, <3>2 DEF Verify
      <4> QED
        BY <1>3, <2>1, <2>2, <4>1
    <3> QED
      BY <3>1, <3>2
  <2>8. CASE Point(u)
    BY <2>8, StandsPointed
  <2>9. CASE Materialize(u)
    <3>1. /\ task'[u].step = "record" /\ task'[u].new = task[u].new /\ task[u].step = "materialize"
          /\ UNCHANGED <<pointer, rev, gone, books>>
      BY <2>9, GoneTo DEF Materialize, At
    <3>2. PICK t : t = task'[u]
      OBVIOUS
    <3>3. TaskStands(t)
      BY <3>1, <3>2 DEF StandsInv, TaskStands
    <3> QED
      BY <1>2, <2>1, <3>1, <3>2, <3>3
  <2>10. CASE Record(u)
    BY <2>10, StandsRecorded
  <2>11. CASE Audit(u)
    <3>1. UNCHANGED <<pointer, rev, gone, books>>
      BY <2>11 DEF Audit, folder
    <3>2. CASE Ends(u)
      BY <1>3, <2>1, <2>2, <3>1, <3>2
    <3>3. CASE ~Ends(u)
      <4>1. Goto(u, "write") /\ Adoptable(u)
        BY <2>11, <3>3 DEF Audit
      <4>2. PICK t : t = task'[u]
        OBVIOUS
      <4>3. /\ t.step = "write" /\ t.of = task[u].of
            /\ t.kind = task[u].kind /\ t.base = task[u].base
        BY <4>1, <4>2, GoneTo
      <4>4. TaskStands(t)
        BY <4>1, <4>3 DEF TaskStands, Adoptable, Orphans
      <4> QED
        BY <1>2, <2>1, <3>1, <4>2, <4>4
    <3> QED
      BY <3>2, <3>3
  <2>12. CASE WritePointer(u)
    BY <2>12, StandsWritten
  <2>13. CASE Reject(u)
    BY <2>13, StandsRejected
  <2> QED
    BY <1>5, <2>3, <2>4, <2>5, <2>6, <2>7, <2>8, <2>9, <2>10, <2>11, <2>12, <2>13 DEF WorksOn
<1>6. CASE Around \/ UNCHANGED vars
  <2>1. UNCHANGED <<pointer, rev, gone, books>>
    BY <1>6 DEF Around, AbortSession, ClearLock, OutsideEdit, Crash, vars, folder, books
  <2>2. TaskStands(Idle)
    BY <1>1, StandsAnyway
  <2>3. \A v \in Tasks : task'[v] = task[v] \/ \E t : task'[v] = t /\ TaskStands(t)
    BY <1>6, <2>2, AroundTasks
  <2> QED
    BY <2>1, <2>3, StandsLeft
<1> QED
  BY <1>4, <1>5, <1>6, StepCases

-----------------------------------------------------------------------------
(* All of it holds of a new project.                                        *)
LEMMA InvInit == Init => IInv
<1> SUFFICES ASSUME Init PROVE IInv
  OBVIOUS
<1>1. /\ DOMAIN rev = {Root} /\ rev[Root] = [parent |-> None, source |-> Root, by |-> None]
      /\ pointer = Root /\ gone = {} /\ accepted = {Root} /\ waived = {} /\ missed = {}
      /\ Root = 1
  BY DEF Init, Root
<1>2. /\ None \notin Sessions \cup Nat \cup Tasks /\ None \notin {"failed", "committed"}
      /\ MaxRequests \in Nat /\ Retention \in Nat
  BY RecoveryAssumption
<1>3. task = [u \in Tasks |-> Idle] /\ \A u \in Tasks : task[u] = Idle
  BY DEF Init
<1>4. /\ Idle = [kind |-> "none", step |-> "none", base |-> None, of |-> None,
                 new |-> None, seen |-> None]
      /\ Idle.kind = "none" /\ Idle.step = "none"
  BY DEF Idle
<1>5. StoreTyped
  <2>1. Cardinality({Root}) = 1 /\ {Root} = 1..1
    BY <1>1, FS_Singleton
  <2> QED
    BY <1>1, <2>1 DEF StoreTyped, Names
<1>6. FilesTyped
  <2>1. working = 1 /\ opened = FALSE /\ session = [s \in Sessions |-> None]
        /\ receipt = [s \in Sessions |-> None]
        /\ tally = [requests |-> 0, crashes |-> 0, outside |-> 0]
    BY <1>1 DEF Init
  <2>2. session \in [Sessions -> {None, Ended} \cup [base : Nat, text : Nat]]
        /\ \A s \in Sessions : session[s] = None
    BY <2>1
  <2>3. receipt \in [Sessions -> {None, "failed", "committed"}]
    BY <2>1
  <2>4. tally \in [requests : Nat, crashes : Nat, outside : Nat] /\ tally.requests <= MaxRequests
    BY <1>2, <2>1
  <2> QED
    BY <2>1, <2>2, <2>3, <2>4 DEF FilesTyped
<1>7. AutosavesTyped
  <2>1. meta = [clean |-> TRUE, entries |-> {}] /\ saved = [n \in {} |-> None]
        /\ listing = {} /\ contended = FALSE /\ tally.requests = 0
    BY DEF Init
  <2>2. DOMAIN saved = {} /\ saved \in [DOMAIN saved -> Nat]
    BY <2>1
  <2> QED
    BY <2>1, <2>2 DEF AutosavesTyped, Metas
<1>8. BooksTyped
  BY <1>1 DEF BooksTyped
<1>9. TasksTyped
  <2>1. PICK t : t = Idle
    OBVIOUS
  <2>2. Fits(t)
    BY <2>1, IdleFits
  <2>3. task = [u \in Tasks |-> t] /\ t \in TaskType
    BY <1>3, <2>1, <2>2 DEF Fits
  <2>4. \A u \in Tasks : task[u] = t
    BY <2>3
  <2> QED
    BY <2>2, <2>3, <2>4 DEF TasksTyped, Fits
<1>10. LockInv
  BY <1>2, <1>3, <1>4 DEF LockInv, Holding, Init
<1>11. OriginInv
  <2>1. \A r \in DOMAIN rev : rev[r].by = None
    BY <1>1
  <2> QED
    BY <1>2, <1>3, <1>4, <2>1 DEF OriginInv, SiblingInv, SessionInv, RestoreInv
<1>12. ReceiptInv
  <2>1. receipt = [s \in Sessions |-> None] /\ \A r \in DOMAIN rev : rev[r].by = None
    BY <1>1 DEF Init
  <2> QED
    BY <1>2, <1>3, <1>4, <2>1 DEF ReceiptInv
<1>13. WriterInv
  BY <1>3, <1>4 DEF WriterInv, Init, MetaWriters, Newest
<1>14. StandsInv
  <2>1. Root \in Walk(rev, {}, Root)
    BY <1>1, WalkHolds
  <2>2. \A u \in Tasks : TaskStands(task[u])
    BY <1>3, <1>4, StandsAnyway DEF Standing
  <2> QED
    BY <1>1, <2>1, <2>2 DEF StandsInv, Whole, Covers
<1> QED
  BY <1>5, <1>6, <1>7, <1>8, <1>9, <1>10, <1>11, <1>12, <1>13, <1>14 DEF IInv, TypeOK

(* Every step keeps all of it.                                              *)
LEMMA InvNext == IInv /\ [Next]_vars => IInv'
<1> SUFFICES ASSUME IInv, [Next]_vars PROVE IInv'
  OBVIOUS
<1>1. TypeOK /\ OriginInv /\ ReceiptInv /\ WriterInv /\ StandsInv /\ Whole(pointer)
  BY DEF IInv, StandsInv
<1>2. TypeOK'
  BY <1>1, TypeKept
<1>3. OriginInv'
  BY <1>1, OriginKept
<1>4. ReceiptInv'
  BY <1>1, <1>2, ReceiptKept
<1>5. WriterInv'
  BY <1>1, <1>2, WriterKept
<1>6. StandsInv'
  BY <1>1, <1>2, StandsKept
<1> QED
  BY <1>2, <1>3, <1>4, <1>5, <1>6 DEF IInv

(* The inductive invariant: what is on disk and in the server has its type, *)
(* revisions know where they come from, receipts and autosave metadata have *)
(* one writer at a time, and what stands behind the current revision, or    *)
(* one that is about to be current, is there or on record.                  *)
THEOREM Invariant == Spec => []IInv
BY InvInit, InvNext, PTL DEF Spec

(* Revisions, files, autosaves, tasks and the lock have their types, and    *)
(* the lock is held by the task that is between taking and releasing it.    *)
THEOREM TypeCorrect == Spec => []TypeOK
<1>1. IInv => TypeOK
  BY DEF IInv
<1> QED
  BY <1>1, Invariant, PTL

(* Revisions that one session or the restoration of one autosave made have  *)
(* one parent, whatever was crashed, refused, orphaned and tried again: so  *)
(* of them no more than one can ever be on the line of the current revision.*)
THEOREM SiblingsShareAParent == Spec => []SiblingInv
<1>1. IInv => SiblingInv
  BY DEF IInv, OriginInv
<1> QED
  BY <1>1, Invariant, PTL

(* Authority stands: repairs of the pointer, rejections, commits and        *)
(* crashes cost it no revision and no accepted edit but for what is on      *)
(* record as given up.                                                      *)
THEOREM AuthorityCorrect == Spec => []AuthorityStands
<1>1. ASSUME IInv PROVE AuthorityStands
  <2>1. /\ IsStore(rev) /\ pointer \in DOMAIN rev /\ Whole(pointer) /\ Covers(pointer)
        /\ Chain(pointer) = Walk(rev, gone, pointer)
    BY <1>1, StoreIsStore, BehindIsWalk DEF IInv, TypeOK, StoreTyped, StandsInv
  <2>2. Chain(pointer) \cap gone \subseteq missed
    BY <2>1 DEF Whole
  <2>3. ASSUME Chain(pointer) \cap gone = {}
        PROVE  accepted \subseteq Chain(pointer) \cup waived
    <3>1. Walk(rev, gone, pointer) = Walk(rev, {}, pointer)
      BY <2>1, <2>3, WalkWhole
    <3> QED
      BY <2>1, <3>1 DEF Covers
  <2> QED
    BY <2>2, <2>3 DEF AuthorityStands
<1> QED
  BY <1>1, Invariant, PTL

(* An edit of a session or the restoration of an autosave is done once.     *)
LEMMA OnceOnly == ASSUME IInv PROVE DoneOnce
<1> SUFFICES ASSUME NEW x \in Sessions \cup 1..MaxRequests PROVE Cardinality(By(x)) <= 1
  BY DEF DoneOnce
<1>1. x # None
  BY RecoveryAssumption
<1>2. IsStore(rev) /\ pointer \in DOMAIN rev /\ StoreTyped /\ SiblingInv
  BY StoreIsStore DEF IInv, TypeOK, StoreTyped, OriginInv
<1>3. By(x) \subseteq Walk(rev, {}, pointer)
  <2>1. Walk(rev, gone, pointer) \subseteq Walk(rev, {}, pointer)
    BY <1>2, WalkCut
  <2> QED
    BY <2>1, BehindIsWalk DEF By
<1>4. ASSUME NEW r \in By(x), NEW q \in By(x) PROVE r = q
  <2>1. r \in DOMAIN rev /\ q \in DOMAIN rev /\ rev[r].by = x /\ rev[q].by = x
    BY <1>3 DEF By, Walk
  <2>2. rev[r].parent = rev[q].parent
    BY <1>1, <1>2, <2>1 DEF SiblingInv
  <2>3. rev[r].parent # None
    <3>1. r # Root
      BY <1>1, <1>2, <2>1 DEF StoreTyped
    <3>2. rev[r].parent \in DOMAIN rev
      BY <1>2, <2>1, <3>1 DEF StoreTyped
    <3> QED
      BY <1>2, <3>2, RecoveryAssumption DEF IsStore
  <2> QED
    BY <1>2, <1>3, <2>2, <2>3, LineUnforked
<1>5. CASE By(x) = {}
  <2>1. Cardinality(By(x)) = 0
    BY <1>5, FS_EmptySet
  <2> QED
    BY <2>1
<1>6. CASE By(x) # {}
  <2>1. PICK r : By(x) = {r}
    BY <1>4, <1>6
  <2>2. Cardinality({r}) = 1
    BY FS_Singleton
  <2>3. Cardinality(By(x)) = 1
    BY <2>1, <2>2
  <2> QED
    BY <2>3
<1> QED
  BY <1>5, <1>6

(* Recovery keeps its books: what is tried again is done once, receipts of  *)
(* sessions are right without crashes, and the autosaves listed are the     *)
(* newest, all stored, unless two writers of the metadata overlapped.       *)
THEOREM RecoveryKeepsBooks == Spec => []RecoveryKeepsItsBooks
<1>1. ASSUME IInv PROVE RecoveryKeepsItsBooks
  <2>1. DoneOnce
    BY <1>1, OnceOnly
  <2>2. SessionReceiptsAreRight
    <3> SUFFICES ASSUME tally.crashes = 0, NEW s \in Sessions
                 PROVE  /\ receipt[s] = "failed" => By(s) \subseteq gone
                        /\ receipt[s] = "committed" => \E r \in accepted : rev[r].by = s
      BY DEF SessionReceiptsAreRight
    <3>1. ReceiptInv
      BY <1>1 DEF IInv
    <3>2. \A r \in By(s) : r \in DOMAIN rev /\ rev[r].by = s
      BY DEF By, Chain, Behind
    <3> QED
      BY <3>1, <3>2 DEF ReceiptInv
  <2>3. AutosavesAreListed
    BY <1>1 DEF IInv, WriterInv, AutosavesAreListed, Newest
  <2> QED
    BY <2>1, <2>2, <2>3 DEF RecoveryKeepsItsBooks
<1> QED
  BY <1>1, Invariant, PTL
=============================================================================
