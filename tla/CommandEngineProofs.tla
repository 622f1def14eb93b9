------------------------- MODULE CommandEngineProofs -------------------------
(***************************************************************************)
(* Theorems about project authority, for any number of processes,          *)
(* commands, operations, crashes, errors and edits.                        *)
(***************************************************************************)
EXTENDS CommandEngine, FiniteSetTheorems, SequenceTheorems, TLAPS

(* The stacks a history command pops are high enough. *)
Fits(c, r) ==
  /\ Op(c).kind = "undo" => Op(c).steps <= Len(rev[r].undo)
  /\ Op(c).kind = "redo" => Op(c).steps <= Len(rev[r].redo)

(* A revision refers to revisions of D only. *)
Refers(r, D) == r.content \in D /\ r.undo \in Seq(D) /\ r.redo \in Seq(D)

(* Ids are minted once, so what is published never changes, and it refers  *)
(* only to what was published before.                                      *)
StoreInv ==
  /\ Root \in DOMAIN rev /\ pointer \in DOMAIN rev
  /\ \A r \in DOMAIN rev \cup staging : r <= minted
  /\ staging \cap DOMAIN rev = {}
  /\ \A r \in DOMAIN rev : Refers(rev[r], DOMAIN rev)
  /\ \A r \in DOMAIN rev \ {Root} :
       rev[r].parent \in DOMAIN rev /\ rev[r].parent < r

(* From Load on a command's base is the revision it has loaded, and the id *)
(* it stages under is its own.                                             *)
JobOK(p) ==
  /\ cmd[p] # None => issued[cmd[p]] # None
  /\ pc[p] \in {"apply", "commit", "publish"} =>
       current[p] \in DOMAIN rev /\ current[p] = Base(cmd[p])
  /\ pc[p] \in {"commit", "publish"} => Fits(cmd[p], current[p])
  /\ pc[p] = "publish" => new[p] \in staging /\ current[p] < new[p]
  /\ pc[p] \in {"swap", "materialize", "committed"} => new[p] \in DOMAIN rev
  /\ pc[p] = "swap" => rev[new[p]].parent = current[p]
  /\ new[p] # None => new[p] <= minted

IdsDistinct == \A p, q \in Processes : p # q /\ new[p] = new[q] => new[p] = None

JobInv == IdsDistinct /\ \A p \in Processes : JobOK(p)

(* While the lease discipline holds, the one process in the lock sees a    *)
(* pointer nobody else moves.                                              *)
LeaseInv ==
  broken \/
    /\ \A p, q \in holders : p = q
    /\ \A p \in Processes : pc[p] \in {"publish", "swap"} => current[p] = pointer

(* A revision was made by a command that was built on its parent. *)
LineageInv ==
  /\ rev[Root] = RootRevision
  /\ \A r \in DOMAIN rev \ {Root} :
       LET c == rev[r].command IN
         c \in Commands /\ issued[c] # None /\ Base(c) = rev[r].parent

IInv == TypeOK /\ StoreInv /\ JobInv /\ LeaseInv /\ LineageInv

-----------------------------------------------------------------------------
(* Ancestors, for any store of revisions. *)
ClosedIn(f, S) == \A s \in S : f[s].parent # None => f[s].parent \in S
Line(f, r) ==
  {s \in DOMAIN f : \A S \in SUBSET (DOMAIN f \ {s}) : r \in S => ~ClosedIn(f, S)}

(* Parents are older revisions of the store, down to the root. *)
IsStore(f) ==
  /\ DOMAIN f \subseteq Nat /\ Root \in DOMAIN f /\ f[Root].parent = None
  /\ \A r \in DOMAIN f \ {Root} : f[r].parent \in DOMAIN f /\ f[r].parent < r

(* A revision is on its own line. *)
LEMMA LineHolds ==
  ASSUME NEW f, NEW r \in DOMAIN f
  PROVE  r \in Line(f, r)
BY DEF Line

(* With a revision, its parent is on the line. *)
LEMMA LineClosed ==
  ASSUME NEW f, IsStore(f), NEW r \in DOMAIN f, NEW s \in Line(f, r), s # Root
  PROVE  f[s].parent \in Line(f, r)
<1>1. s \in DOMAIN f /\ f[s].parent \in DOMAIN f /\ f[s].parent # None
  BY EngineAssumption DEF IsStore, Line
<1>2. ASSUME NEW S \in SUBSET (DOMAIN f \ {f[s].parent}), r \in S, ClosedIn(f, S)
      PROVE  FALSE
  <2>1. s \notin S
    BY <1>1, <1>2 DEF ClosedIn
  <2> QED
    BY <1>2, <2>1 DEF Line
<1> QED
  BY <1>1, <1>2 DEF Line

(* Nothing else is: a closed set with the revision in it holds its line. *)
LEMMA LineLeast ==
  ASSUME NEW f, NEW r, NEW S \in SUBSET DOMAIN f, r \in S, ClosedIn(f, S)
  PROVE  Line(f, r) \subseteq S
BY DEF Line

(* A line is closed as a set. *)
LEMMA LineIsClosed ==
  ASSUME NEW f, IsStore(f), NEW r \in DOMAIN f
  PROVE  Line(f, r) \subseteq DOMAIN f /\ ClosedIn(f, Line(f, r))
<1>1. Line(f, r) \subseteq DOMAIN f
  BY DEF Line
<1>2. f[Root].parent = None
  BY DEF IsStore
<1> QED
  BY <1>1, <1>2, LineClosed DEF ClosedIn

(* A line is the revision and the line of its parent. *)
LEMMA LineStep ==
  ASSUME NEW f, IsStore(f), NEW r \in DOMAIN f
  PROVE  Line(f, r) = IF r = Root THEN {Root} ELSE {r} \cup Line(f, f[r].parent)
<1>1. CASE r = Root
  <2>1. ClosedIn(f, {Root})
    BY DEF ClosedIn, IsStore
  <2>2. Line(f, r) \subseteq {Root}
    BY <1>1, <2>1, LineLeast DEF IsStore
  <2> QED
    BY <1>1, <2>2, LineHolds
<1>2. CASE r # Root
  <2> DEFINE q == f[r].parent
  <2>1. q \in DOMAIN f /\ q # None
    BY <1>2, EngineAssumption DEF IsStore
  <2> HIDE DEF q
  <2>2. ClosedIn(f, Line(f, q)) /\ Line(f, q) \subseteq DOMAIN f /\ q \in Line(f, q)
    BY <2>1, LineIsClosed, LineHolds
  <2>3. ClosedIn(f, {r} \cup Line(f, q)) /\ {r} \cup Line(f, q) \subseteq DOMAIN f
    BY <2>2 DEF ClosedIn, q
  <2>4. Line(f, r) \subseteq {r} \cup Line(f, q)
    <3> DEFINE S == {r} \cup Line(f, q)
    <3>1. S \in SUBSET DOMAIN f /\ r \in S /\ ClosedIn(f, S)
      BY <2>3
    <3> HIDE DEF S
    <3>2. Line(f, r) \subseteq S
      BY <3>1, LineLeast
    <3> QED
      BY <3>2 DEF S
  <2>5. r \in Line(f, r) /\ q \in Line(f, r)
    BY <1>2, LineHolds, LineClosed DEF q
  <2>6. Line(f, q) \subseteq Line(f, r)
    <3>1. ClosedIn(f, Line(f, r)) /\ Line(f, r) \in SUBSET DOMAIN f
      BY LineIsClosed
    <3> QED
      BY <2>5, <3>1, LineLeast
  <2> QED
    BY <1>2, <2>4, <2>5, <2>6 DEF q
<1> QED
  BY <1>1, <1>2

(* A line leads back in time. *)
LEMMA LineBelow ==
  ASSUME NEW f, IsStore(f), NEW r \in DOMAIN f, NEW s \in Line(f, r)
  PROVE  s \in DOMAIN f /\ s \in Nat /\ s <= r
<1> DEFINE S == {t \in DOMAIN f : t <= r}
<1>1. ClosedIn(f, S)
  <2> SUFFICES ASSUME NEW t \in S, f[t].parent # None PROVE f[t].parent \in S
    BY DEF ClosedIn
  <2>1. t # Root
    BY DEF IsStore
  <2>2. f[t].parent \in DOMAIN f /\ f[t].parent < t /\ t <= r
    BY <2>1 DEF IsStore
  <2>3. f[t].parent \in Nat /\ t \in Nat /\ r \in Nat
    BY <2>2 DEF IsStore
  <2> QED
    BY <2>2, <2>3
<1>2. r \in S /\ S \in SUBSET DOMAIN f
  BY DEF IsStore
<1> HIDE DEF S
<1>3. s \in S
  BY <1>1, <1>2, LineLeast
<1> QED
  BY <1>3 DEF S, IsStore

(* Of two revisions on a line one is on the line of the other. *)
LEMMA LineChain ==
  ASSUME NEW f, IsStore(f), NEW r \in DOMAIN f, NEW s \in Line(f, r), NEW t \in Line(f, r)
  PROVE  s \in Line(f, t) \/ t \in Line(f, s)
<1> DEFINE Comparable(x) == x \in Line(f, t) \/ t \in Line(f, x)
           S == {x \in DOMAIN f : Comparable(x)}
<1>1. ClosedIn(f, S)
  <2> SUFFICES ASSUME NEW x \in S, f[x].parent # None PROVE f[x].parent \in S
    BY DEF ClosedIn
  <2>1. x # Root /\ x \in DOMAIN f /\ Comparable(x) /\ t \in DOMAIN f
    BY DEF IsStore, Line
  <2>2. f[x].parent \in DOMAIN f
    BY <2>1 DEF IsStore
  <2>3. CASE x \in Line(f, t)
    BY <2>1, <2>2, <2>3, LineClosed
  <2>4. CASE t \in Line(f, x)
    <3>1. t = x \/ t \in Line(f, f[x].parent)
      BY <2>1, <2>4, LineStep
    <3>2. CASE t = x
      BY <2>1, <2>2, <2>3, <2>4, <3>2
    <3> QED
      BY <2>2, <3>1, <3>2
  <2> QED
    BY <2>1, <2>3, <2>4
<1>2. r \in S /\ S \in SUBSET DOMAIN f
  OBVIOUS
<1> HIDE DEF S
<1>3. s \in S
  BY <1>1, <1>2, LineLeast
<1> QED
  BY <1>3 DEF S

(* Publishing a revision leaves the lines of the others as they are. *)
LEMMA LineKept ==
  ASSUME NEW f, IsStore(f), NEW g, IsStore(g), DOMAIN f \subseteq DOMAIN g,
         \A r \in DOMAIN f : g[r] = f[r],
         NEW r \in DOMAIN f
  PROVE  Line(g, r) = Line(f, r)
<1>1. Line(g, r) \subseteq Line(f, r)
  <2>1. Line(f, r) \subseteq DOMAIN f /\ ClosedIn(f, Line(f, r)) /\ r \in Line(f, r)
    BY LineIsClosed, LineHolds
  <2>2. ClosedIn(g, Line(f, r)) /\ Line(f, r) \in SUBSET DOMAIN g
    BY <2>1 DEF ClosedIn
  <2> QED
    BY <2>1, <2>2, LineLeast
<1>2. Line(f, r) \subseteq Line(g, r)
  <2> DEFINE S == Line(g, r)
  <2>1. S \subseteq DOMAIN g /\ ClosedIn(g, S) /\ r \in S
    BY LineIsClosed, LineHolds
  <2>2. S \in SUBSET DOMAIN f
    BY <1>1 DEF Line
  <2> HIDE DEF S
  <2>3. ClosedIn(f, S)
    BY <2>1, <2>2 DEF ClosedIn
  <2> QED
    BY <2>1, <2>2, <2>3, LineLeast DEF S
<1> QED
  BY <1>1, <1>2

(* The model's ancestors are the line of the store it has. *)
LEMMA AncestorsAreLine == \A r : Ancestors(r) = Line(rev, r)
BY DEF Ancestors, Line, Closed, ClosedIn

-----------------------------------------------------------------------------
(* Reversal keeps the length and the elements, from the other end. *)
LEMMA ReverseSeq ==
  ASSUME NEW S, NEW s \in Seq(S)
  PROVE  /\ Reverse(s) \in Seq(S) /\ Len(Reverse(s)) = Len(s)
         /\ \A i \in 1..Len(s) : Reverse(s)[i] = s[Len(s) - i + 1]
<1>1. Reverse(s) \in [1..Len(s) -> S]
  BY LenProperties DEF Reverse
<1>2. Reverse(s) \in Seq(S) /\ Len(Reverse(s)) = Len(s)
  BY <1>1, LenProperties, SeqDef
<1>3. \A i \in 1..Len(s) : Reverse(s)[i] = s[Len(s) - i + 1]
  BY DEF Reverse
<1> QED
  BY <1>2, <1>3

(* The same, of a sequence whose length goes by another name. *)
LEMMA ReverseOfLen ==
  ASSUME NEW S, NEW s \in Seq(S), NEW n, Len(s) = n
  PROVE  /\ Reverse(s) \in Seq(S) /\ Len(Reverse(s)) = n
         /\ \A i \in 1..n : Reverse(s)[i] = s[n - i + 1]
BY ReverseSeq

(* Concatenation is associative. *)
LEMMA Assoc ==
  ASSUME NEW S, NEW s \in Seq(S), NEW t \in Seq(S), NEW u \in Seq(S)
  PROVE  s \o (t \o u) = (s \o t) \o u
BY ConcatAssociative

(* Two elements make a sequence of two. *)
LEMMA AppendOne ==
  ASSUME NEW S, NEW x \in S, NEW y \in S
  PROVE  Append(<<x>>, y) = <<x, y>>
<1>1. <<x>> \in Seq(S) /\ Len(<<x>>) = 1 /\ <<x>>[1] = x
  OBVIOUS
<1>2. /\ Append(<<x>>, y) \in Seq(S) /\ Len(Append(<<x>>, y)) = 2
      /\ Append(<<x>>, y)[1] = x /\ Append(<<x>>, y)[2] = y
  BY <1>1, AppendProperties
<1>3. <<x, y>> \in Seq(S) /\ Len(<<x, y>>) = 2 /\ <<x, y>>[1] = x /\ <<x, y>>[2] = y
  OBVIOUS
<1>4. \A i \in 1..2 : Append(<<x>>, y)[i] = <<x, y>>[i]
  <2>1. \A i \in 1..2 : i = 1 \/ i = 2
    OBVIOUS
  <2> QED
    BY <1>2, <1>3, <2>1
<1> QED
  BY <1>2, <1>3, <1>4, SeqEqual

(* Reversal swaps the halves of what it reverses. *)
LEMMA ReverseOfConcat ==
  ASSUME NEW S, NEW s \in Seq(S), NEW t \in Seq(S)
  PROVE  Reverse(s \o t) = Reverse(t) \o Reverse(s)
<1> DEFINE u == Reverse(s \o t)
           v == Reverse(t) \o Reverse(s)
           m == Len(s)
           n == Len(t)
<1>1. m \in Nat /\ n \in Nat
  BY LenProperties
<1>2. /\ s \o t \in Seq(S) /\ Len(s \o t) = m + n
      /\ \A i \in 1..m + n : (s \o t)[i] = IF i <= m THEN s[i] ELSE t[i - m]
  BY ConcatProperties
<1>3. /\ u \in Seq(S) /\ Len(u) = m + n
      /\ \A i \in 1..m + n : u[i] = (s \o t)[(m + n) - i + 1]
  <2> DEFINE w == s \o t
             k == m + n
  <2>1. w \in Seq(S) /\ Len(w) = k
    BY <1>2
  <2> HIDE DEF w, k, m, n
  <2>2. /\ Reverse(w) \in Seq(S) /\ Len(Reverse(w)) = k
        /\ \A i \in 1..k : Reverse(w)[i] = w[k - i + 1]
    BY <2>1, ReverseOfLen
  <2> QED
    BY <2>2 DEF w, k
<1>4. /\ Reverse(t) \in Seq(S) /\ Len(Reverse(t)) = n
      /\ \A i \in 1..n : Reverse(t)[i] = t[n - i + 1]
      /\ Reverse(s) \in Seq(S) /\ Len(Reverse(s)) = m
      /\ \A i \in 1..m : Reverse(s)[i] = s[m - i + 1]
  BY ReverseSeq
<1>5. /\ v \in Seq(S) /\ Len(v) = n + m
      /\ \A i \in 1..n + m : v[i] = IF i <= n THEN Reverse(t)[i] ELSE Reverse(s)[i - n]
  <2> DEFINE a == Reverse(t)
             b == Reverse(s)
  <2>1. a \in Seq(S) /\ Len(a) = n /\ b \in Seq(S) /\ Len(b) = m
    BY <1>4
  <2> HIDE DEF a, b, m, n
  <2>2. /\ a \o b \in Seq(S) /\ Len(a \o b) = Len(a) + Len(b)
        /\ \A i \in 1..Len(a) + Len(b) :
             (a \o b)[i] = IF i <= Len(a) THEN a[i] ELSE b[i - Len(a)]
    BY <2>1, ConcatProperties
  <2>3. /\ a \o b \in Seq(S) /\ Len(a \o b) = n + m
        /\ \A i \in 1..n + m : (a \o b)[i] = IF i <= n THEN a[i] ELSE b[i - n]
    BY <2>1, <2>2
  <2> QED
    BY <2>3 DEF a, b
<1> HIDE DEF u, v, m, n
<1>6. ASSUME NEW i \in 1..m + n PROVE u[i] = v[i]
  <2>1. CASE i <= n
    <3>1. /\ (m + n) - i + 1 \in 1..m + n /\ ~((m + n) - i + 1 <= m)
          /\ ((m + n) - i + 1) - m = n - i + 1 /\ i \in 1..n /\ i \in 1..n + m
      BY <1>1, <1>6, <2>1
    <3>2. u[i] = (s \o t)[(m + n) - i + 1]
      BY <1>3, <1>6
    <3> DEFINE j == (m + n) - i + 1
    <3> HIDE DEF j
    <3>3. (s \o t)[j] = t[j - m]
      BY <1>2, <3>1 DEF j
    <3>4. v[i] = t[n - i + 1]
      BY <1>4, <1>5, <2>1, <3>1
    <3> QED
      BY <3>1, <3>2, <3>3, <3>4 DEF j
  <2>2. CASE ~(i <= n)
    <3>1. (m + n) - i + 1 \in 1..m + n /\ (m + n) - i + 1 <= m
          /\ m - (i - n) + 1 = (m + n) - i + 1 /\ i - n \in 1..m /\ i \in 1..n + m
      BY <1>1, <1>6, <2>2
    <3>2. u[i] = (s \o t)[(m + n) - i + 1]
      BY <1>3, <1>6
    <3>3. (s \o t)[(m + n) - i + 1] = s[(m + n) - i + 1]
      BY <1>2, <3>1
    <3>4. v[i] = s[m - (i - n) + 1]
      BY <1>4, <1>5, <2>2, <3>1
    <3> QED
      BY <3>1, <3>2, <3>3, <3>4
  <2> QED
    BY <2>1, <2>2
<1>7. Len(u) = Len(v)
  BY <1>1, <1>3, <1>5
<1>8. u = v
  BY <1>3, <1>5, <1>6, <1>7, SeqEqual
<1> QED
  BY <1>8 DEF u, v

(* A single element, or none, is its own reversal. *)
LEMMA ReverseShort ==
  /\ Reverse(<<>>) = <<>>
  /\ \A x : Reverse(<<x>>) = <<x>>
<1>1. Reverse(<<>>) = <<>>
  BY DEF Reverse
<1>2. ASSUME NEW x PROVE Reverse(<<x>>) = <<x>>
  <2>1. <<x>> \in Seq({x}) /\ Len(<<x>>) = 1 /\ <<x>>[1] = x
    OBVIOUS
  <2>2. /\ Reverse(<<x>>) \in Seq({x}) /\ Len(Reverse(<<x>>)) = 1
        /\ Reverse(<<x>>)[1] = x
    BY <2>1, ReverseSeq
  <2> QED
    BY <2>1, <2>2, SeqEqual
<1> QED
  BY <1>1, <1>2

(* Reversing twice restores. *)
LEMMA ReverseTwice ==
  ASSUME NEW S, NEW s \in Seq(S)
  PROVE  Reverse(Reverse(s)) = s
<1> DEFINE r == Reverse(s)
           n == Len(s)
<1>1. /\ n \in Nat /\ r \in Seq(S) /\ Len(r) = n
      /\ \A i \in 1..n : r[i] = s[n - i + 1]
  BY ReverseSeq, LenProperties
<1>2. /\ Reverse(r) \in Seq(S) /\ Len(Reverse(r)) = n
      /\ \A i \in 1..n : Reverse(r)[i] = r[n - i + 1]
  BY <1>1, ReverseSeq
<1> HIDE DEF r
<1>3. ASSUME NEW i \in 1..n PROVE Reverse(r)[i] = s[i]
  <2>1. n - i + 1 \in 1..n /\ n - (n - i + 1) + 1 = i
    BY <1>1
  <2> QED
    BY <1>1, <1>2, <1>3, <2>1
<1>4. Reverse(r) = s
  BY <1>1, <1>2, <1>3, SeqEqual
<1> QED
  BY <1>4 DEF r

(* A stack is what lies below an element of it, that element, and the rest. *)
LEMMA SplitAt ==
  ASSUME NEW S, NEW s \in Seq(S), NEW k \in 1..Len(s)
  PROVE  s = (SubSeq(s, 1, k - 1) \o <<s[k]>>) \o SubSeq(s, k + 1, Len(s))
<1>1. Len(s) \in Nat
  BY LenProperties
<1>2. SubSeq(s, 1, k) = SubSeq(s, 1, k - 1) \o <<s[k]>>
  <2>1. 1 \in 1..Len(s) /\ k \in 1..Len(s)
    BY <1>1
  <2> QED
    BY <2>1, SubSeqRecursiveSecond
<1>3. SubSeq(s, 1, k) \o SubSeq(s, k + 1, Len(s)) = SubSeq(s, 1, Len(s))
  <2>1. 1 \in 1..Len(s) + 1 /\ k \in 1 - 1..Len(s) /\ Len(s) \in k..Len(s)
    BY <1>1
  <2> QED
    BY <2>1, ConcatAdjacentSubSeq
<1>4. SubSeq(s, 1, Len(s)) = s
  BY SubSeqFull
<1> QED
  BY <1>2, <1>3, <1>4

(* What is cut out of a stack has its elements. *)
LEMMA PieceSeq ==
  ASSUME NEW S, NEW s \in Seq(S), NEW m \in Nat \ {0}, NEW n \in Nat, n <= Len(s)
  PROVE  SubSeq(s, m, n) \in Seq(S)
<1>1. \A i \in m..n : s[i] \in S
  BY ElementOfSeq, LenProperties
<1> QED
  BY <1>1, SubSeqProperties

(* Moving "steps" down one stack and up the other keeps both stacks, and   *)
(* finds the target, among the published revisions.                        *)
LEMMA StackMove ==
  ASSUME NEW D, NEW from \in Seq(D), NEW onto \in Seq(D), NEW content \in D,
         NEW steps \in Nat \ {0}, steps <= Len(from)
  PROVE  LET left == Len(from) - steps
             passed == SubSeq(from, left + 2, Len(from)) IN
           /\ from[left + 1] \in D
           /\ SubSeq(from, 1, left) \in Seq(D)
           /\ onto \o <<content>> \o Reverse(passed) \in Seq(D)
<1> DEFINE left == Len(from) - steps
           passed == SubSeq(from, left + 2, Len(from))
<1>1. left \in Nat /\ left + 1 \in 1..Len(from) /\ Len(from) \in Nat
  BY LenProperties
<1>2. from[left + 1] \in D
  BY <1>1, ElementOfSeq
<1>3. SubSeq(from, 1, left) \in Seq(D)
  BY <1>1, PieceSeq
<1>4. passed \in Seq(D)
  BY <1>1, PieceSeq
<1> HIDE DEF left, passed
<1>5. Reverse(passed) \in Seq(D)
  BY <1>4, ReverseSeq
<1>6. <<content>> \in Seq(D)
  OBVIOUS
<1>7. onto \o <<content>> \in Seq(D)
  BY <1>6, ConcatProperties
<1>8. (onto \o <<content>>) \o Reverse(passed) \in Seq(D)
  BY <1>5, <1>7, ConcatProperties
<1> QED
  BY <1>2, <1>3, <1>8 DEF left, passed

(* What a command publishes on a revision it fits refers to nothing but    *)
(* itself and what was published before.                                   *)
LEMMA NextRevisionSound ==
  ASSUME TypeOK, StoreInv, NEW c \in Commands, issued[c] # None,
         NEW parent \in DOMAIN rev, Fits(c, parent), NEW id \in Nat
  PROVE  /\ NextRevision(c, parent, id) \in Revision
         /\ NextRevision(c, parent, id).parent = parent
         /\ Refers(NextRevision(c, parent, id), DOMAIN rev \cup {id})
<1> DEFINE r == rev[parent]
           D == DOMAIN rev \cup {id}
           n == NextRevision(c, parent, id)
<1>1. /\ Op(c).steps \in Nat \ {0} /\ DOMAIN rev \subseteq Nat
      /\ r \in Revision
      /\ r.content \in DOMAIN rev
      /\ r.undo \in Seq(DOMAIN rev) /\ r.redo \in Seq(DOMAIN rev)
  <2>1. issued[c] \in Envelope
    BY DEF TypeOK
  <2>2. Op(c) \in Ops
    BY <2>1 DEF Op, Envelope
  <2>3. Op(c).steps \in Nat \ {0}
    BY <2>2, EngineAssumption
  <2>4. DOMAIN rev \subseteq Nat /\ r \in Revision
    BY DEF TypeOK
  <2> QED
    BY <2>3, <2>4 DEF StoreInv, Refers
<1>2. /\ D \subseteq Nat /\ DOMAIN rev \subseteq D /\ r.content \in D
      /\ r.undo \in Seq(D) /\ r.redo \in Seq(D)
  BY <1>1, SeqMonotonic
<1>3. \A x \in DOMAIN rev : rev[x].source \in Nat
  BY DEF TypeOK, Revision
<1> HIDE DEF r, D
<1>4. CASE Op(c).kind = "undo"
  <2> DEFINE left == Len(r.undo) - Op(c).steps
  <2>1. Op(c).steps <= Len(r.undo)
    BY <1>4 DEF Fits, r
  <2>2. /\ r.undo[left + 1] \in DOMAIN rev
        /\ SubSeq(r.undo, 1, left) \in Seq(DOMAIN rev)
        /\ r.redo \o <<r.content>> \o Reverse(SubSeq(r.undo, left + 2, Len(r.undo)))
             \in Seq(DOMAIN rev)
    BY <1>1, <2>1, StackMove
  <2>3. n = [parent |-> parent, command |-> c, content |-> r.undo[left + 1],
             undo |-> SubSeq(r.undo, 1, left),
             redo |-> r.redo \o <<r.content>>
                        \o Reverse(SubSeq(r.undo, left + 2, Len(r.undo))),
             source |-> rev[r.undo[left + 1]].source]
    BY <1>4 DEF NextRevision, NextUndo, r
  <2> HIDE DEF left, n
  <2>4. /\ n.parent = parent /\ n.command = c /\ n.content \in DOMAIN rev
        /\ n.undo \in Seq(DOMAIN rev) /\ n.redo \in Seq(DOMAIN rev)
        /\ n.source \in Nat
    BY <1>3, <2>2, <2>3
  <2>5. /\ n.undo \in Seq(D) /\ n.redo \in Seq(D)
        /\ n.undo \in Seq(Nat) /\ n.redo \in Seq(Nat)
    BY <1>1, <1>2, <2>4, SeqMonotonic
  <2>6. n \in Revision
    BY <1>1, <2>3, <2>4, <2>5 DEF Revision
  <2> QED
    BY <1>2, <2>4, <2>5, <2>6 DEF n, D, Refers
<1>5. CASE Op(c).kind = "redo"
  <2> DEFINE left == Len(r.redo) - Op(c).steps
  <2>1. Op(c).steps <= Len(r.redo)
    BY <1>5 DEF Fits, r
  <2>2. /\ r.redo[left + 1] \in DOMAIN rev
        /\ SubSeq(r.redo, 1, left) \in Seq(DOMAIN rev)
        /\ r.undo \o <<r.content>> \o Reverse(SubSeq(r.redo, left + 2, Len(r.redo)))
             \in Seq(DOMAIN rev)
    BY <1>1, <2>1, StackMove
  <2>3. n = [parent |-> parent, command |-> c, content |-> r.redo[left + 1],
             undo |-> r.undo \o <<r.content>>
                        \o Reverse(SubSeq(r.redo, left + 2, Len(r.redo))),
             redo |-> SubSeq(r.redo, 1, left),
             source |-> rev[r.redo[left + 1]].source]
    BY <1>5 DEF NextRevision, NextRedo, r
  <2> HIDE DEF left, n
  <2>4. /\ n.parent = parent /\ n.command = c /\ n.content \in DOMAIN rev
        /\ n.undo \in Seq(DOMAIN rev) /\ n.redo \in Seq(DOMAIN rev)
        /\ n.source \in Nat
    BY <1>3, <2>2, <2>3
  <2>5. /\ n.undo \in Seq(D) /\ n.redo \in Seq(D)
        /\ n.undo \in Seq(Nat) /\ n.redo \in Seq(Nat)
    BY <1>1, <1>2, <2>4, SeqMonotonic
  <2>6. n \in Revision
    BY <1>1, <2>3, <2>4, <2>5 DEF Revision
  <2> QED
    BY <1>2, <2>4, <2>5, <2>6 DEF n, D, Refers
<1>6. CASE Op(c).kind \notin {"undo", "redo"}
  <2>1. n = [parent |-> parent, command |-> c, content |-> id,
             undo |-> Append(r.undo, r.content), redo |-> <<>>,
             source |-> IF Op(c).kind = "source" THEN id ELSE r.source]
    BY <1>6 DEF NextRevision, NextEdit, r
  <2>2. /\ Append(r.undo, r.content) \in Seq(D) /\ <<>> \in Seq(D)
        /\ Append(r.undo, r.content) \in Seq(Nat) /\ <<>> \in Seq(Nat)
    <3>1. Append(r.undo, r.content) \in Seq(D) /\ <<>> \in Seq(D)
      BY <1>2, AppendProperties, EmptySeq
    <3> QED
      BY <1>2, <3>1, SeqMonotonic
  <2>3. id \in D /\ id \in Nat /\ parent \in Nat /\ r.source \in Nat
    BY <1>1, <1>3 DEF D, r
  <2> HIDE DEF n
  <2>4. /\ n.parent = parent /\ n.command = c /\ n.content = id
        /\ n.undo \in Seq(D) /\ n.redo \in Seq(D)
    BY <2>1, <2>2
  <2>5. n \in Revision
    BY <2>1, <2>2, <2>3 DEF Revision
  <2> QED
    BY <2>3, <2>4, <2>5 DEF n, D, Refers
<1> QED
  BY <1>4, <1>5, <1>6

(* A revision carries the command that makes it. *)
LEMMA NextRevisionMadeBy ==
  ASSUME NEW c, NEW parent, NEW id
  PROVE  /\ NextRevision(c, parent, id).command = c
         /\ NextRevision(c, parent, id).parent = parent
<1>1. NextUndo(c, parent).command = c /\ NextUndo(c, parent).parent = parent
  BY DEF NextUndo
<1>2. NextRedo(c, parent).command = c /\ NextRedo(c, parent).parent = parent
  BY DEF NextRedo
<1>3. NextEdit(c, parent, id).command = c /\ NextEdit(c, parent, id).parent = parent
  BY DEF NextEdit
<1> QED
  BY <1>1, <1>2, <1>3 DEF NextRevision

(* What a process publishes is such a revision, under an id of its own. *)
LEMMA PublishSound ==
  ASSUME TypeOK, StoreInv, JobInv, NEW p \in Processes, Publish(p)
  PROVE  /\ new[p] \in staging /\ new[p] \in Nat /\ new[p] \notin DOMAIN rev
         /\ current[p] \in DOMAIN rev /\ current[p] < new[p]
         /\ NextRevision(cmd[p], current[p], new[p]) \in Revision
         /\ NextRevision(cmd[p], current[p], new[p]).parent = current[p]
         /\ Refers(NextRevision(cmd[p], current[p], new[p]), DOMAIN rev \cup {new[p]})
<1>1. /\ new[p] \in staging /\ new[p] \in Nat /\ new[p] \notin DOMAIN rev
      /\ current[p] < new[p]
  BY DEF Publish, JobInv, JobOK, StoreInv, TypeOK
<1>2. /\ cmd[p] \in Commands /\ issued[cmd[p]] # None
      /\ current[p] \in DOMAIN rev /\ Fits(cmd[p], current[p])
  BY DEF Publish, JobInv, JobOK, TypeOK
<1>3. /\ NextRevision(cmd[p], current[p], new[p]) \in Revision
      /\ NextRevision(cmd[p], current[p], new[p]).parent = current[p]
      /\ Refers(NextRevision(cmd[p], current[p], new[p]), DOMAIN rev \cup {new[p]})
  <2>1. new[p] \in Nat
    BY <1>1
  <2> QED
    BY <1>2, <2>1, NextRevisionSound
<1> QED
  BY <1>1, <1>2, <1>3

-----------------------------------------------------------------------------
(* A project folder as it is initialised is well typed. *)
LEMMA TypeInit == Init => TypeOK
<1> SUFFICES ASSUME Init PROVE TypeOK
  OBVIOUS
<1>1. Root \in Nat /\ RootRevision \in Revision /\ DOMAIN rev = {Root}
  <2>1. <<>> \in Seq(Nat)
    BY EmptySeq
  <2> QED
    BY <2>1 DEF Init, Root, RootRevision, Revision
<1>2. rev \in [DOMAIN rev -> Revision] /\ DOMAIN rev \subseteq Nat
  BY <1>1 DEF Init
<1>3. /\ pc \in [Processes -> Steps]
      /\ holders = {p \in Processes : pc[p] \in LockedSteps} /\ broken \in BOOLEAN
      /\ \A p \in Processes : cmd[p] # None <=> pc[p] # "idle"
  BY DEF Init, L!Init, Steps, LockedSteps
<1>4. /\ cmd \in [Processes -> Commands \cup {None}]
      /\ current \in [Processes -> Nat \cup {None}]
      /\ new \in [Processes -> Nat \cup {None}]
      /\ issued \in [Commands -> Envelope \cup {None}]
      /\ receipts \in [{Key[c] : c \in Commands} -> Receipt \cup {None}]
  BY DEF Init
<1>5. /\ barrier \in [Operations -> [state : {"none", "begun", "active"},
                                    base : Nat \cup {None}]]
      /\ staging \subseteq Nat
      /\ crashes \in 0..MaxCrashes /\ errors \in 0..MaxErrors /\ edits \in 0..MaxEdits
  BY EngineAssumption DEF Init
<1> QED
  BY <1>1, <1>2, <1>3, <1>4, <1>5 DEF Init, TypeOK

(* Whoever executes a command has one that a client has built. *)
LEMMA Running ==
  ASSUME TypeOK, JobInv, NEW p \in Processes, pc[p] # "idle"
  PROVE  /\ cmd[p] \in Commands /\ issued[cmd[p]] \in Envelope
         /\ Op(cmd[p]) \in Ops /\ Key[cmd[p]] \in {Key[c] : c \in Commands}
<1>1. cmd[p] \in Commands /\ issued[cmd[p]] # None
  BY DEF TypeOK, JobInv, JobOK
<1>2. issued[cmd[p]] \in Envelope
  BY <1>1 DEF TypeOK
<1> QED
  BY <1>1, <1>2 DEF Op, Envelope

(* What RecordSuccess and RecordFailure write is a receipt. *)
LEMMA RecordTyped ==
  ASSUME TypeOK, JobInv, NEW p \in Processes, pc[p] # "idle",
         NEW status \in {"committed", "validated", "failed"}, Record(p, status)
  PROVE  receipts' \in [{Key[c] : c \in Commands} -> Receipt \cup {None}]
<1> DEFINE r == [command |-> cmd[p], status |-> status,
                 result |-> IF status = "committed" THEN new[p] ELSE None]
<1>1. r \in Receipt
  BY Running DEF TypeOK, Receipt
<1> HIDE DEF r
<1>2. receipts' = [receipts EXCEPT ![Key[cmd[p]]] = r]
  BY DEF Record, r
<1> QED
  BY <1>1, <1>2 DEF TypeOK

(* Each step leaves every variable in its type; for the published revision *)
(* this needs the stacks of its parent, hence StoreInv and JobInv.         *)
LEMMA TypeStep == TypeOK /\ StoreInv /\ JobInv /\ [Next]_vars => TypeOK'
<1> SUFFICES ASSUME TypeOK, StoreInv, JobInv, [Next]_vars PROVE TypeOK'
  OBVIOUS
<1> USE EngineAssumption
    DEF TypeOK, Steps, LockedSteps, Goto, Leave, Job, Failures, Store, Outside, Mutex
<1>1. ASSUME NEW p \in Processes, NEW c \in Commands, NEW op \in Ops, Submit(p, c, op)
      PROVE  TypeOK'
  <2>1. [op |-> op, base |-> pointer, expected |-> working] \in Envelope
    BY DEF Envelope
  <2>2. issued' \in [Commands -> Envelope \cup {None}]
    BY <1>1, <2>1 DEF Submit
  <2> QED
    BY <1>1, <2>2 DEF Submit
<1>2. ASSUME NEW p \in Processes, Execute(p) PROVE TypeOK'
  <2>1. CASE LookForReceipt(p) \/ LockRefused(p) \/ LookAgain(p) \/ Apply(p)
    BY <2>1 DEF LookForReceipt, LockRefused, LookAgain, Apply
  <2>2. CASE Lock(p)
    BY <2>2 DEF Lock, L!Acquire
  <2>3. CASE Load(p)
    BY <2>3 DEF Load
  <2>4. CASE Stage(p)
    BY <2>4 DEF Stage
  <2>5. CASE Publish(p)
    <3> DEFINE n == NextRevision(cmd[p], current[p], new[p])
    <3>1. n \in Revision /\ new[p] \in Nat
      BY <2>5, PublishSound
    <3> HIDE DEF n
    <3>2. rev' = [r \in DOMAIN rev \cup {new[p]} |-> IF r = new[p] THEN n ELSE rev[r]]
      BY <2>5 DEF Publish, n
    <3>3. rev' \in [DOMAIN rev' -> Revision] /\ DOMAIN rev' \subseteq Nat
      BY <3>1, <3>2
    <3> QED
      BY <2>5, <3>3 DEF Publish
  <2>6. CASE SwapPointer(p)
    BY <2>6 DEF SwapPointer, JobInv, JobOK
  <2>7. CASE Materialize(p)
    <3>1. new[p] \in Nat /\ rev[pointer].source \in Nat
      BY <2>7 DEF Materialize, JobInv, JobOK, StoreInv, Revision
    <3>2. working' \in Nat
      BY <2>7, <3>1 DEF Materialize
    <3> QED
      BY <2>7, <3>2 DEF Materialize
  <2>8. CASE RecordSuccess(p)
    <3>1. receipts' \in [{Key[c] : c \in Commands} -> Receipt \cup {None}]
      BY <2>8, RecordTyped DEF RecordSuccess
    <3> QED
      BY <2>8, <3>1 DEF RecordSuccess
  <2>9. CASE RecordFailure(p)
    <3>1. receipts' \in [{Key[c] : c \in Commands} -> Receipt \cup {None}]
      BY <2>9, RecordTyped DEF RecordFailure
    <3> QED
      BY <2>9, <3>1 DEF RecordFailure
  <2>10. CASE Release(p)
    BY <2>10 DEF Release, L!Drop
  <2> QED
    BY <1>2, <2>1, <2>2, <2>3, <2>4, <2>5, <2>6, <2>7, <2>8, <2>9, <2>10 DEF Execute
<1>3. ASSUME NEW p \in Processes, Fail(p) PROVE TypeOK'
  <2>1. CASE CallFails(p)
    BY <2>1 DEF CallFails
  <2>2. CASE MaterializeFails(p)
    BY <2>2 DEF MaterializeFails
  <2>3. CASE ReceiptSyncFails(p)
    <3>1. receipts' \in [{Key[c] : c \in Commands} -> Receipt \cup {None}]
      BY <2>3, RecordTyped DEF ReceiptSyncFails
    <3> QED
      BY <2>3, <3>1 DEF ReceiptSyncFails
  <2>4. CASE Crash(p)
    BY <2>4 DEF Crash
  <2> QED
    BY <1>3, <2>1, <2>2, <2>3, <2>4 DEF Fail
<1>4. ASSUME NEW o \in Operations, Operate(o) PROVE TypeOK'
  BY <1>4 DEF Operate, ReadBase, RaiseBarrier, CompleteOperation
<1>5. CASE BreakLease
  BY <1>5 DEF BreakLease, engineVars, L!Break
<1>6. CASE EditOutside
  BY <1>6 DEF EditOutside, External
<1>7. CASE UNCHANGED vars
  BY <1>7 DEF vars, engineVars
<1> QED
  BY <1>1, <1>2, <1>3, <1>4, <1>5, <1>6, <1>7 DEF Next

-----------------------------------------------------------------------------
(* Only publishing, which adds a revision, staging, clearing away and the  *)
(* pointer swap touch the store.                                           *)
LEMMA StoreUntouched ==
  ASSUME [Next]_vars
  PROVE  \/ UNCHANGED <<rev, pointer, minted, staging>>
         \/ \E p \in Processes :
              Stage(p) \/ Publish(p) \/ SwapPointer(p) \/ CallFails(p)
BY DEF Next, Submit, Execute, LookForReceipt, Lock, LockRefused, LookAgain, Load,
       Apply, Materialize, RecordSuccess, RecordFailure, Release, Fail,
       MaterializeFails, ReceiptSyncFails, Crash, Operate, ReadBase, RaiseBarrier,
       CompleteOperation, BreakLease, EditOutside, vars, engineVars, Store

(* A published revision stays as it is; a publication adds one. *)
LEMMA PublishedStays ==
  ASSUME TypeOK, StoreInv, JobInv, [Next]_vars, NEW r \in DOMAIN rev
  PROVE  r \in DOMAIN rev' /\ rev'[r] = rev[r]
<1>1. CASE \E p \in Processes : Publish(p)
  <2>1. PICK p \in Processes : Publish(p)
    BY <1>1
  <2>2. new[p] \notin DOMAIN rev
    BY <2>1 DEF Publish, JobInv, JobOK, StoreInv
  <2> QED
    BY <2>1, <2>2 DEF Publish
<1>2. CASE ~ \E p \in Processes : Publish(p)
  BY <1>2, StoreUntouched DEF Stage, SwapPointer, CallFails
<1> QED
  BY <1>1, <1>2

(* Each step leaves the store sound: fresh ids, references to what is       *)
(* published, and a pointer that moves to a published revision only.       *)
LEMMA StoreStep == TypeOK /\ StoreInv /\ JobInv /\ [Next]_vars => StoreInv'
<1> SUFFICES ASSUME TypeOK, StoreInv, JobInv, [Next]_vars PROVE StoreInv'
  OBVIOUS
<1>1. DOMAIN rev \subseteq Nat /\ minted \in Nat /\ staging \subseteq Nat
  BY DEF TypeOK
<1>2. CASE UNCHANGED <<rev, pointer, minted, staging>>
  BY <1>2 DEF StoreInv
<1>3. ASSUME NEW p \in Processes, Stage(p) PROVE StoreInv'
  <2>1. CASE Stale(p)
    BY <1>3, <2>1 DEF Stage, StoreInv
  <2>2. CASE ~Stale(p)
    <3>1. /\ rev' = rev /\ pointer' = pointer
          /\ minted' = minted + 1 /\ staging' = staging \cup {minted + 1}
      BY <1>3, <2>2 DEF Stage
    <3>2. minted + 1 \notin DOMAIN rev
      BY <1>1 DEF StoreInv
    <3>3. \A r \in DOMAIN rev \cup staging : r <= minted + 1
      <4> SUFFICES ASSUME NEW r \in DOMAIN rev \cup staging PROVE r <= minted + 1
        OBVIOUS
      <4>1. r \in Nat /\ r <= minted
        BY <1>1 DEF StoreInv
      <4> QED
        BY <1>1, <4>1
    <3>4. \A r \in DOMAIN rev' \cup staging' : r <= minted'
      BY <1>1, <3>1, <3>3
    <3>5. staging' \cap DOMAIN rev' = {}
      BY <3>1, <3>2 DEF StoreInv
    <3> QED
      BY <3>1, <3>4, <3>5 DEF StoreInv
  <2> QED
    BY <2>1, <2>2
<1>4. ASSUME NEW p \in Processes, Publish(p) PROVE StoreInv'
  <2> DEFINE n == NextRevision(cmd[p], current[p], new[p])
             D == DOMAIN rev \cup {new[p]}
  <2>1. /\ new[p] \in staging /\ new[p] \in Nat /\ new[p] \notin DOMAIN rev
        /\ current[p] \in DOMAIN rev /\ current[p] < new[p]
        /\ n.parent = current[p] /\ Refers(n, D)
    BY <1>4, PublishSound
  <2> HIDE DEF n
  <2>3. rev' = [r \in D |-> IF r = new[p] THEN n ELSE rev[r]]
    BY <1>4 DEF Publish, n
  <2>4. DOMAIN rev' = D /\ rev'[new[p]] = n /\ \A r \in DOMAIN rev : rev'[r] = rev[r]
    BY <2>1, <2>3
  <2>5. pointer' = pointer /\ minted' = minted /\ staging' = staging \ {new[p]}
    BY <1>4 DEF Publish
  <2>6. \A r \in DOMAIN rev : Refers(rev[r], D)
    BY SeqMonotonic DEF StoreInv, Refers
  <2>7. \A r \in D : Refers(rev'[r], D)
    BY <2>1, <2>4, <2>6
  <2>8. \A r \in D \ {Root} : rev'[r].parent \in D /\ rev'[r].parent < r
    BY <2>1, <2>4 DEF StoreInv
  <2>9. /\ Root \in D /\ pointer \in D
        /\ \A r \in D \cup (staging \ {new[p]}) : r <= minted
        /\ (staging \ {new[p]}) \cap D = {}
    BY <2>1 DEF StoreInv
  <2> HIDE DEF D
  <2> QED
    BY <2>4, <2>5, <2>7, <2>8, <2>9 DEF StoreInv
<1>5. ASSUME NEW p \in Processes, SwapPointer(p) PROVE StoreInv'
  BY <1>5 DEF SwapPointer, StoreInv, JobInv, JobOK
<1>6. ASSUME NEW p \in Processes, CallFails(p) PROVE StoreInv'
  BY <1>6 DEF CallFails, StoreInv
<1> QED
  BY <1>2, <1>3, <1>4, <1>5, <1>6, StoreUntouched

-----------------------------------------------------------------------------
(* What a client has built is not built again. *)
LEMMA IssuedStays ==
  ASSUME [Next]_vars, NEW c \in Commands, TypeOK, issued[c] # None
  PROVE  issued'[c] = issued[c]
<1>1. ASSUME NEW p \in Processes, NEW d \in Commands, NEW op \in Ops, Submit(p, d, op)
      PROVE  issued'[c] = issued[c]
  BY <1>1 DEF Submit, TypeOK
<1>2. CASE ~ \E p \in Processes, d \in Commands, op \in Ops : Submit(p, d, op)
  BY <1>2 DEF Next, Execute, LookForReceipt, Lock, LockRefused, LookAgain, Load,
       Apply, Stage, Publish, SwapPointer, Materialize, RecordSuccess, RecordFailure,
       Release, Fail, CallFails, MaterializeFails, ReceiptSyncFails, Crash, Operate,
       ReadBase, RaiseBarrier, CompleteOperation, BreakLease, EditOutside, vars, engineVars
<1> QED
  BY <1>1, <1>2

(* Ids already minted stay below the counter. *)
LEMMA MintedGrows == TypeOK /\ [Next]_vars => minted' \in Nat /\ minted <= minted'
<1> SUFFICES ASSUME TypeOK, [Next]_vars PROVE minted' \in Nat /\ minted <= minted'
  OBVIOUS
<1>1. minted \in Nat
  BY DEF TypeOK
<1>2. minted' = minted \/ minted' = minted + 1
  BY StoreUntouched DEF Stage, Publish, SwapPointer, CallFails
<1> QED
  BY <1>1, <1>2

(* A step that leaves a process where it is leaves its job in order. *)
LEMMA OthersKeep ==
  ASSUME TypeOK, StoreInv, JobInv, [Next]_vars, NEW q \in Processes,
         pc'[q] = pc[q], cmd'[q] = cmd[q], current'[q] = current[q], new'[q] = new[q],
         pc[q] = "publish" => new[q] \in staging'
  PROVE  JobOK(q)'
<1>1. JobOK(q) /\ cmd[q] \in Commands \cup {None} /\ (cmd[q] # None <=> pc[q] # "idle")
  BY DEF JobInv, TypeOK
<1>2. cmd[q] # None => issued'[cmd[q]] = issued[cmd[q]]
  BY <1>1, IssuedStays DEF JobOK
<1>3. \A r \in DOMAIN rev : r \in DOMAIN rev' /\ rev'[r] = rev[r]
  BY PublishedStays
<1>4. /\ new'[q] # None => new'[q] <= minted'
      /\ cmd'[q] # None => issued'[cmd'[q]] # None
  <2>1. new[q] # None => new[q] \in Nat /\ new[q] <= minted
    BY <1>1 DEF JobOK, TypeOK
  <2> QED
    BY <1>1, <1>2, <2>1, MintedGrows DEF JobOK, TypeOK
<1>5. pc'[q] \in {"apply", "commit", "publish"} =>
        current'[q] \in DOMAIN rev' /\ current'[q] = issued'[cmd'[q]].base
  BY <1>1, <1>2, <1>3 DEF JobOK, Base
<1>6. pc'[q] \in {"commit", "publish"} =>
        /\ issued'[cmd'[q]].op.kind = "undo" =>
             issued'[cmd'[q]].op.steps <= Len(rev'[current'[q]].undo)
        /\ issued'[cmd'[q]].op.kind = "redo" =>
             issued'[cmd'[q]].op.steps <= Len(rev'[current'[q]].redo)
  BY <1>1, <1>2, <1>3 DEF JobOK, Fits, Op
<1>7. /\ pc'[q] = "publish" => new'[q] \in staging' /\ current'[q] < new'[q]
      /\ pc'[q] \in {"swap", "materialize", "committed"} => new'[q] \in DOMAIN rev'
      /\ pc'[q] = "swap" => rev'[new'[q]].parent = current'[q]
  BY <1>1, <1>3 DEF JobOK
<1> QED
  BY <1>4, <1>5, <1>6, <1>7 DEF JobOK, Fits, Op, Base

(* A process forgets its id or stages under the next one. *)
LEMMA IdsStep == TypeOK /\ JobInv /\ [Next]_vars => IdsDistinct'
<1> SUFFICES ASSUME TypeOK, JobInv, [Next]_vars PROVE IdsDistinct'
  OBVIOUS
<1>1. IdsDistinct /\ new \in [Processes -> Nat \cup {None}] /\ minted \in Nat
      /\ \A q \in Processes : new[q] # None => new[q] \in Nat /\ new[q] <= minted
  BY DEF JobInv, JobOK, TypeOK
<1> DEFINE OneId == \E p \in Processes : new' = [new EXCEPT ![p] = None]
                                       \/ new' = [new EXCEPT ![p] = minted + 1]
<1>2. new' = new \/ OneId
  <2> USE DEF Leave, Job
  <2>1. ASSUME NEW p \in Processes, Execute(p) PROVE new' = new \/ OneId
    BY <2>1 DEF Execute, LookForReceipt, Lock, LockRefused, LookAgain, Load, Apply,
         Stage, Publish, SwapPointer, Materialize, RecordSuccess, RecordFailure, Release
  <2>2. ASSUME NEW p \in Processes, Fail(p) PROVE new' = new \/ OneId
    BY <2>2 DEF Fail, CallFails, MaterializeFails, ReceiptSyncFails, Crash
  <2>3. ASSUME NEW p \in Processes, NEW c \in Commands, NEW op \in Ops, Submit(p, c, op)
        PROVE  new' = new
    BY <2>3 DEF Submit
  <2>4. CASE \/ \E o \in Operations : Operate(o)
             \/ BreakLease \/ EditOutside \/ UNCHANGED vars
    BY <2>4 DEF Operate, ReadBase, RaiseBarrier, CompleteOperation, BreakLease,
         EditOutside, vars, engineVars
  <2> QED
    BY <2>1, <2>2, <2>3, <2>4 DEF Next
<1>3. ASSUME NEW p \in Processes, new' = [new EXCEPT ![p] = minted + 1]
      PROVE  IdsDistinct'
  <2>1. \A q \in Processes : new[q] # minted + 1
    BY <1>1, EngineAssumption
  <2> QED
    BY <1>1, <1>3, <2>1 DEF IdsDistinct
<1>4. ASSUME NEW p \in Processes, new' = [new EXCEPT ![p] = None]
      PROVE  IdsDistinct'
  BY <1>1, <1>4 DEF IdsDistinct
<1> QED
  BY <1>1, <1>2, <1>3, <1>4 DEF IdsDistinct

(* Each step leaves every job in order, its own and those of the others. *)
LEMMA JobStep == TypeOK /\ StoreInv /\ JobInv /\ [Next]_vars => JobInv'
<1> SUFFICES ASSUME TypeOK, StoreInv, JobInv, [Next]_vars, NEW q \in Processes
             PROVE  JobOK(q)'
  BY IdsStep DEF JobInv
<1>1. /\ pc \in [Processes -> Steps] /\ cmd \in [Processes -> Commands \cup {None}]
      /\ current \in [Processes -> Nat \cup {None}]
      /\ new \in [Processes -> Nat \cup {None}]
      /\ minted \in Nat /\ DOMAIN rev \subseteq Nat /\ staging \subseteq Nat
  BY DEF TypeOK
<1>2. JobOK(q)
  BY DEF JobInv
<1> DEFINE Moved == ~ (/\ pc'[q] = pc[q] /\ cmd'[q] = cmd[q] /\ current'[q] = current[q]
                       /\ new'[q] = new[q] /\ (pc[q] = "publish" => new[q] \in staging'))
<1>3. CASE ~Moved
  BY <1>3, OthersKeep
(* Another process's step is not a move of this one. *)
<1>4. ASSUME NEW p \in Processes, p # q, Execute(p) \/ Fail(p)
      PROVE  ~Moved
  <2>1. pc'[q] = pc[q] /\ cmd'[q] = cmd[q] /\ current'[q] = current[q] /\ new'[q] = new[q]
    BY <1>1, <1>4
       DEF Execute, LookForReceipt, Lock, LockRefused, LookAgain, Load, Apply, Stage,
           Publish, SwapPointer, Materialize, RecordSuccess, RecordFailure, Release,
           Fail, CallFails, MaterializeFails, ReceiptSyncFails, Crash, Goto, Leave, Job
  <2>2. \/ staging \subseteq staging' \/ staging' = staging \ {new[p]}
    BY <1>4
       DEF Execute, LookForReceipt, Lock, LockRefused, LookAgain, Load, Apply, Stage,
           Publish, SwapPointer, Materialize, RecordSuccess, RecordFailure, Release,
           Fail, CallFails, MaterializeFails, ReceiptSyncFails, Crash, Store
  <2>3. pc[q] = "publish" => new[q] \in staging /\ new[q] # None
    BY <1>1, <1>2, EngineAssumption DEF JobOK
  <2>4. pc[q] = "publish" => new[q] # new[p]
    BY <1>4, <2>3 DEF JobInv, IdsDistinct
  <2> QED
    BY <2>1, <2>2, <2>3, <2>4
<1>5. ASSUME NEW c \in Commands, NEW op \in Ops, NEW p \in Processes, Submit(p, c, op)
      PROVE  JobOK(q)'
  <2>1. CASE p # q
    BY <1>1, <1>2, <1>3, <1>5, <2>1 DEF Submit, Goto, Store, JobOK
  <2>2. CASE p = q
    <3>1. /\ pc'[q] = "look" /\ cmd'[q] = c /\ new'[q] = new[q] /\ minted' = minted
      BY <1>1, <1>5, <2>2 DEF Submit, Goto, Store
    <3>2. issued'[c] # None
      <4>1. [op |-> op, base |-> pointer, expected |-> working] \in Envelope
        BY DEF TypeOK, Envelope
      <4> QED
        BY <1>5, <4>1, EngineAssumption DEF Submit, TypeOK
    <3> QED
      BY <1>2, <3>1, <3>2 DEF JobOK
  <2> QED
    BY <2>1, <2>2
<1> USE DEF Goto, Leave, Job, Store
<1>6. CASE \/ LookForReceipt(q) \/ Lock(q) \/ LockRefused(q) \/ LookAgain(q)
           \/ RecordSuccess(q) \/ RecordFailure(q) \/ Release(q) \/ Crash(q)
  <2>1. pc'[q] \notin {"apply", "commit", "publish", "swap", "materialize", "committed"}
    BY <1>1, <1>6 DEF LookForReceipt, Lock, LockRefused, LookAgain, RecordSuccess,
                     RecordFailure, Release, Crash
  <2>2. /\ cmd'[q] = None \/ cmd'[q] = cmd[q]
        /\ new'[q] = None \/ new'[q] = new[q]
        /\ minted' = minted /\ issued' = issued
    BY <1>1, <1>6 DEF LookForReceipt, Lock, LockRefused, LookAgain, RecordSuccess,
                     RecordFailure, Release, Crash
  <2> QED
    BY <1>2, <2>1, <2>2 DEF JobOK
<1>7. CASE Load(q)
  <2>1. /\ pc'[q] = "apply" => Base(cmd[q]) = pointer
        /\ pc'[q] \in {"fail", "validated", "apply"}
        /\ current'[q] = pointer /\ cmd' = cmd /\ issued' = issued
        /\ new' = new /\ minted' = minted /\ rev' = rev
    BY <1>1, <1>7 DEF Load, Stale
  <2> QED
    BY <1>2, <2>1 DEF JobOK, Base, StoreInv
<1>8. CASE Apply(q)
  <2>1. /\ pc[q] = "apply" /\ pc'[q] \in {"commit", "fail"}
        /\ pc'[q] = "commit" => Fits(cmd[q], current[q])
    BY <1>1, <1>8 DEF Apply, Applicable, Fits
  <2>2. UNCHANGED <<cmd, current, new, issued, minted, rev>>
    BY <1>8 DEF Apply
  <2> QED
    BY <1>2, <2>1, <2>2 DEF JobOK, Base, Fits, Op
<1>9. CASE Stage(q)
  <2>1. CASE Stale(q)
    BY <1>1, <1>2, <1>9, <2>1 DEF Stage, JobOK
  <2>2. CASE ~Stale(q)
    <3>1. /\ pc[q] = "commit" /\ pc'[q] = "publish" /\ current'[q] = pointer
          /\ current[q] = pointer
          /\ new'[q] = minted + 1 /\ minted' = minted + 1 /\ minted + 1 \in staging'
          /\ UNCHANGED <<cmd, issued, rev>>
      BY <1>1, <1>2, <1>9, <2>2 DEF Stage, Stale, JobOK
    <3>2. pointer \in DOMAIN rev /\ pointer \in Nat /\ pointer < minted + 1
      BY <1>1 DEF StoreInv
    <3> QED
      BY <1>1, <1>2, <3>1, <3>2 DEF JobOK, Base, Fits, Op
  <2> QED
    BY <2>1, <2>2
<1>10. CASE Publish(q)
  <2>1. /\ pc[q] = "publish" /\ pc'[q] = "swap"
        /\ UNCHANGED <<cmd, current, new, issued, minted>>
        /\ new[q] \in DOMAIN rev' /\ new[q] \in Nat
        /\ rev'[new[q]] = NextRevision(cmd[q], current[q], new[q])
    BY <1>1, <1>2, <1>10 DEF Publish, JobOK
  <2>2. NextRevision(cmd[q], current[q], new[q]).parent = current[q]
    BY <1>10, PublishSound
  <2> QED
    BY <1>2, <2>1, <2>2 DEF JobOK
<1>11. CASE SwapPointer(q) \/ Materialize(q) \/ MaterializeFails(q)
  <2>1. /\ pc[q] \in {"swap", "materialize"} /\ pc'[q] \in {"materialize", "committed"}
        /\ UNCHANGED <<cmd, current, new, issued, minted, rev>>
    BY <1>1, <1>11 DEF SwapPointer, Materialize, MaterializeFails
  <2> QED
    BY <1>2, <2>1 DEF JobOK
<1>12. CASE CallFails(q) \/ ReceiptSyncFails(q)
  <2>1. /\ pc'[q] \in {"release", "fail"}
        /\ UNCHANGED <<cmd, current, new, issued, minted, rev>>
    BY <1>1, <1>12 DEF CallFails, ReceiptSyncFails
  <2> QED
    BY <1>2, <2>1 DEF JobOK
<1>13. ASSUME \/ \E o \in Operations : Operate(o)
              \/ BreakLease \/ EditOutside \/ UNCHANGED vars
       PROVE  ~Moved
  BY <1>2, <1>13 DEF Operate, ReadBase, RaiseBarrier, CompleteOperation, BreakLease,
       EditOutside, vars, engineVars, JobOK
<1>14. Execute(q) \/ Fail(q) => JobOK(q)'
  BY <1>6, <1>7, <1>8, <1>9, <1>10, <1>11, <1>12 DEF Execute, Fail
<1> QED
  BY <1>3, <1>4, <1>5, <1>13, <1>14 DEF Next

-----------------------------------------------------------------------------
(* Under the lease discipline a process between Stage and SwapPointer is   *)
(* the only one in the lock, so nobody else moves the pointer.             *)
LEMMA LeaseStep == TypeOK /\ LeaseInv /\ [Next]_vars => LeaseInv'
<1> SUFFICES ASSUME TypeOK, LeaseInv, [Next]_vars, ~broken' PROVE LeaseInv'
  BY DEF LeaseInv
<1>1. /\ pc \in [Processes -> Steps] /\ current \in [Processes -> Nat \cup {None}]
      /\ holders = {p \in Processes : pc[p] \in LockedSteps} /\ broken \in BOOLEAN
  BY DEF TypeOK
<1>2. ~broken
  BY <1>1 DEF Next, Submit, Execute, LookForReceipt, Lock, LockRefused, LookAgain, Load,
       Apply, Stage, Publish, SwapPointer, Materialize, RecordSuccess, RecordFailure,
       Release, Fail, CallFails, MaterializeFails, ReceiptSyncFails, Crash, Operate,
       ReadBase, RaiseBarrier, CompleteOperation, BreakLease, EditOutside, L!Acquire,
       L!Drop, L!Break, Mutex, vars
<1>3. /\ \A p, q \in holders : p = q
      /\ \A p \in Processes : pc[p] \in {"publish", "swap"} => current[p] = pointer
  BY <1>2 DEF LeaseInv
<1>4. holders' \subseteq holders \/ \E p \in Processes : Lock(p)
  <2> USE DEF Mutex
  <2>1. ASSUME NEW p \in Processes, Execute(p)
        PROVE  holders' \subseteq holders \/ Lock(p)
    BY <2>1 DEF Execute, LookForReceipt, LockRefused, LookAgain, Load, Apply, Stage,
         Publish, SwapPointer, Materialize, RecordSuccess, RecordFailure, Release, L!Drop
  <2>2. ASSUME NEW p \in Processes, Fail(p) PROVE holders' \subseteq holders
    BY <2>2 DEF Fail, CallFails, MaterializeFails, ReceiptSyncFails, Crash
  <2>3. ASSUME NEW p \in Processes, NEW c \in Commands, NEW op \in Ops, Submit(p, c, op)
        PROVE  holders' = holders
    BY <2>3 DEF Submit
  <2>4. CASE \/ \E o \in Operations : Operate(o)
             \/ BreakLease \/ EditOutside \/ UNCHANGED vars
    BY <2>4 DEF Operate, ReadBase, RaiseBarrier, CompleteOperation, BreakLease,
         EditOutside, L!Break, vars
  <2> QED
    BY <2>1, <2>2, <2>3, <2>4 DEF Next
<1>5. \A p, q \in holders' : p = q
  BY <1>2, <1>3, <1>4 DEF Lock, L!Acquire
<1>6. ASSUME NEW q \in Processes, pc'[q] \in {"publish", "swap"}
      PROVE  current'[q] = pointer'
  <2> USE DEF Goto, Leave, Job, Store
  <2>1. ASSUME NEW p \in Processes, SwapPointer(p)
        PROVE  current'[q] = pointer'
    <3>1. p \in holders /\ pc' = [pc EXCEPT ![p] = "materialize"]
      BY <1>1, <2>1 DEF SwapPointer, LockedSteps, Steps
    <3>2. q # p /\ pc[q] \in {"publish", "swap"}
      BY <1>1, <1>6, <3>1
    <3>3. q \in holders
      BY <1>1, <3>2 DEF LockedSteps, Steps
    <3> QED
      BY <1>3, <3>1, <3>2, <3>3
  <2>2. ASSUME NEW p \in Processes, Stage(p)
        PROVE  current'[q] = pointer'
    BY <1>1, <1>3, <1>6, <2>2 DEF Stage
  <2>3. ASSUME NEW p \in Processes, Publish(p)
        PROVE  current'[q] = pointer'
    BY <1>1, <1>3, <1>6, <2>3 DEF Publish
  <2>4. CASE \A p \in Processes : ~Stage(p) /\ ~Publish(p) /\ ~SwapPointer(p)
    <3>1. pc'[q] = pc[q] /\ current'[q] = current[q] /\ pointer' = pointer
      BY <1>1, <1>6, <2>4
         DEF Next, Submit, Execute, LookForReceipt, Lock, LockRefused, LookAgain, Load,
             Apply, Materialize, RecordSuccess, RecordFailure, Release, Fail, CallFails,
             MaterializeFails, ReceiptSyncFails, Crash, Operate, ReadBase, RaiseBarrier,
             CompleteOperation, BreakLease, EditOutside, vars, engineVars
    <3> QED
      BY <1>3, <1>6, <3>1
  <2> QED
    BY <2>1, <2>2, <2>3, <2>4
<1> QED
  BY <1>5, <1>6 DEF LeaseInv

-----------------------------------------------------------------------------
(* Each step leaves every revision the work of a command based on its      *)
(* parent: what is published is, and built commands are not built again.   *)
LEMMA LineageStep ==
  TypeOK /\ StoreInv /\ JobInv /\ LineageInv /\ [Next]_vars => LineageInv'
<1> SUFFICES ASSUME TypeOK, StoreInv, JobInv, LineageInv, [Next]_vars
             PROVE  LineageInv'
  OBVIOUS
<1> DEFINE Made(r) == LET c == rev'[r].command IN
                        c \in Commands /\ issued'[c] # None /\ issued'[c].base = rev'[r].parent
<1>1. ASSUME NEW r \in DOMAIN rev \ {Root} PROVE Made(r)
  <2>1. /\ rev[r].command \in Commands /\ issued[rev[r].command] # None
        /\ issued[rev[r].command].base = rev[r].parent
    BY <1>1 DEF LineageInv, Base
  <2>2. issued'[rev[r].command] = issued[rev[r].command]
    BY <2>1, IssuedStays
  <2>3. rev'[r] = rev[r]
    BY <1>1, PublishedStays
  <2> QED
    BY <2>1, <2>2, <2>3
<1>2. rev'[Root] = RootRevision
  BY PublishedStays DEF StoreInv, LineageInv
<1>3. ASSUME NEW r \in DOMAIN rev', r \notin DOMAIN rev PROVE Made(r)
  <2>1. PICK p \in Processes : Publish(p)
    BY <1>3, StoreUntouched DEF Stage, SwapPointer, CallFails
  <2>2. r = new[p] /\ rev'[r] = NextRevision(cmd[p], current[p], new[p])
    BY <1>3, <2>1 DEF Publish
  <2>3. /\ cmd[p] \in Commands /\ issued[cmd[p]] # None
        /\ issued[cmd[p]].base = current[p] /\ issued' = issued
    BY <2>1 DEF Publish, TypeOK, JobInv, JobOK, Base
  <2>4. rev'[r].command = cmd[p] /\ rev'[r].parent = current[p]
    BY <2>2, NextRevisionMadeBy
  <2> QED
    BY <2>3, <2>4
<1> QED
  BY <1>1, <1>2, <1>3 DEF LineageInv, Base

-----------------------------------------------------------------------------
(* The inductive invariant holds of every behaviour. *)
LEMMA InvCorrect == Spec => []IInv
<1>1. Init => IInv
  <2> SUFFICES ASSUME Init PROVE IInv
    OBVIOUS
  <2>1. TypeOK
    BY TypeInit
  <2>2. StoreInv
    <3>1. DOMAIN rev = {Root} /\ rev[Root] = RootRevision
      BY DEF Init
    <3>2. <<>> \in Seq(DOMAIN rev)
      BY EmptySeq
    <3>3. Refers(rev[Root], DOMAIN rev)
      BY <3>1, <3>2 DEF RootRevision, Refers
    <3>4. pointer = Root /\ staging = {} /\ minted = Root /\ Root <= Root
      BY DEF Init, Root
    <3> QED
      BY <3>1, <3>3, <3>4 DEF StoreInv
  <2>3. JobInv
    BY DEF Init, JobInv, JobOK, IdsDistinct
  <2>4. LeaseInv
    BY DEF Init, L!Init, LeaseInv
  <2>5. LineageInv
    BY DEF Init, LineageInv
  <2> QED
    BY <2>1, <2>2, <2>3, <2>4, <2>5 DEF IInv
<1>2. IInv /\ [Next]_vars => IInv'
  BY TypeStep, StoreStep, JobStep, LeaseStep, LineageStep DEF IInv
<1> QED
  BY <1>1, <1>2, PTL DEF Spec

(* Every variable has its type; a process has a command just while it runs *)
(* one, and believes it holds the lock just while it is past acquisition.  *)
THEOREM TypeCorrect == Spec => []TypeOK
<1>1. IInv => TypeOK
  BY DEF IInv
<1> QED
  BY <1>1, InvCorrect, PTL

(* The pointer always names a completely published revision, whose line of *)
(* parents is published and leads to the root.                             *)
THEOREM AuthorityCorrect == Spec => []AuthorityComplete
<1>1. IInv => AuthorityComplete
  BY DEF IInv, StoreInv, AuthorityComplete
<1> QED
  BY <1>1, InvCorrect, PTL

(* Authority moves only from a revision to its own child, so no accepted   *)
(* revision is lost, as long as the lock's lease discipline holds.         *)
THEOREM NoUpdateLost == Spec => NoLostUpdate
<1> DEFINE ToChild == pointer' # pointer => rev'[pointer'].parent = pointer \/ broken'
<1>1. ASSUME IInv, [Next]_vars PROVE ToChild
  <2>1. ASSUME NEW p \in Processes, SwapPointer(p) PROVE ToChild
    <3>1. /\ pc[p] = "swap" /\ pointer' = new[p] /\ rev' = rev /\ broken' = broken
          /\ rev[new[p]].parent = current[p]
      BY <1>1, <2>1 DEF SwapPointer, Mutex, IInv, JobInv, JobOK
    <3>2. broken \/ current[p] = pointer
      BY <1>1, <3>1 DEF IInv, LeaseInv
    <3> QED
      BY <3>1, <3>2
  <2>2. CASE \A p \in Processes : ~SwapPointer(p)
    BY <1>1, <2>2, StoreUntouched DEF Stage, Publish, CallFails
  <2> QED
    BY <2>1, <2>2
<1>2. IInv /\ [Next]_vars => [ToChild]_vars
  BY <1>1
<1> QED
  BY <1>2, InvCorrect, PTL DEF Spec, NoLostUpdate

-----------------------------------------------------------------------------
(* The published revisions are a store in the sense of the lines. *)
LEMMA StoreIsStore == IInv => IsStore(rev)
BY DEF IInv, TypeOK, StoreInv, LineageInv, IsStore, RootRevision

(* On the line of a revision each command occurs once: its revisions would  *)
(* have one parent, and the later one would descend from it by the other.   *)
LEMMA CommandsOnLine ==
  ASSUME IInv, NEW r \in DOMAIN rev, NEW s \in Line(rev, r), NEW t \in Line(rev, r),
         rev[s].command = rev[t].command
  PROVE  s = t
<1>1. IsStore(rev) /\ s \in DOMAIN rev /\ t \in DOMAIN rev
  BY StoreIsStore, LineBelow
<1>2. \A x \in DOMAIN rev : rev[x].command = None <=> x = Root
  BY EngineAssumption DEF IInv, LineageInv, RootRevision
<1>3. CASE s = Root \/ t = Root
  BY <1>1, <1>2, <1>3
<1>4. CASE s # Root /\ t # Root
  <2>1. rev[s].parent = rev[t].parent
    BY <1>1, <1>4 DEF IInv, LineageInv
  <2>2. ASSUME NEW x \in DOMAIN rev, NEW y \in DOMAIN rev, x # Root, y # Root,
               rev[x].parent = rev[y].parent, x \in Line(rev, y)
        PROVE  x = y
    <3>1. x = y \/ x \in Line(rev, rev[y].parent)
      BY <1>1, <2>2, LineStep
    <3>2. rev[x].parent \in DOMAIN rev /\ rev[x].parent \in Nat /\ x \in Nat
          /\ rev[x].parent < x
      BY <1>1, <2>2 DEF IsStore
    <3>3. x \in Line(rev, rev[x].parent) => x <= rev[x].parent
      BY <1>1, <3>2, LineBelow
    <3> QED
      BY <2>2, <3>1, <3>2, <3>3
  <2>3. s \in Line(rev, t) \/ t \in Line(rev, s)
    BY <1>1, LineChain
  <2> QED
    BY <1>1, <1>4, <2>1, <2>2, <2>3
<1> QED
  BY <1>3, <1>4

(* Authority never descends from two revisions made by the same command,   *)
(* whatever is retried after crashes, errors and lost leases.              *)
THEOREM EffectAtMostOnce == Spec => []AtMostOnce
<1>1. ASSUME IInv PROVE AtMostOnce
  <2>1. pointer \in DOMAIN rev /\ Ancestors(pointer) = Line(rev, pointer)
    BY <1>1, AncestorsAreLine DEF IInv, StoreInv
  <2> SUFFICES ASSUME NEW r \in Line(rev, pointer), NEW s \in Line(rev, pointer),
                      rev[r].command = rev[s].command
               PROVE  r = s
    BY <2>1 DEF AtMostOnce
  <2> QED
    BY <1>1, <2>1, CommandsOnLine
<1> QED
  BY <1>1, InvCorrect, PTL

-----------------------------------------------------------------------------
(* Receipts, the revisions that jobs swap in, and the pointer agree: a      *)
(* receipt is under its command's key, a job swaps in the work of its own   *)
(* command, and what a job has swapped in is current while it holds the     *)
(* lock.                                                                    *)
Effective(p) == pc[p] \in {"materialize", "committed"}

ReceiptInv ==
  /\ \A k \in DOMAIN receipts : receipts[k] # None => Key[receipts[k].command] = k
  /\ \A p \in Processes :
       pc[p] \in {"swap", "materialize", "committed"} => rev[new[p]].command = cmd[p]
  /\ broken \/ \A p \in Processes : Effective(p) => new[p] = pointer
  /\ CommittedIsAuthoritative

(* Between the second look for a receipt and the writing of one there is   *)
(* none, and whatever took effect has one or is about to.                  *)
OutcomeInv ==
  broken \/ crashes + errors > 0 \/
    /\ \A p \in Processes :
         pc[p] \in LockedSteps \ {"lookAgain", "release"} => receipts[Key[cmd[p]]] = None
    /\ \A r \in Ancestors(pointer) \ {Root} :
         \/ receipts[Key[rev[r].command]] # None
         \/ \E p \in Processes : Effective(p) /\ new[p] = r
    /\ FailedHadNoEffect

(* The lease discipline is not mended. *)
LEMMA BrokenStays ==
  ASSUME TypeOK, [Next]_vars, broken
  PROVE  broken'
BY DEF TypeOK, Next, Submit, Execute, LookForReceipt, Lock, LockRefused, LookAgain, Load,
       Apply, Stage, Publish, SwapPointer, Materialize, RecordSuccess, RecordFailure,
       Release, Fail, CallFails, MaterializeFails, ReceiptSyncFails, Crash, Operate,
       ReadBase, RaiseBarrier, CompleteOperation, BreakLease, EditOutside, L!Acquire,
       L!Drop, L!Break, Mutex, vars

(* A sum of counts is zero just if each count is. *)
LEMMA NoneCounted ==
  \A a, b \in Nat : a + b \in Nat /\ (a + b = 0 <=> a = 0 /\ b = 0)
OBVIOUS

(* Failures and outside edits are counted, never forgotten. *)
LEMMA FailuresGrow ==
  ASSUME TypeOK, TypeOK', [Next]_vars
  PROVE  /\ crashes' + errors' = 0 =>
              /\ crashes + errors = 0
              /\ \A p \in Processes : ~Fail(p)
         /\ crashes' + errors' + edits' = 0 =>
              crashes + errors + edits = 0 /\ crashes' + errors' = 0 /\ ~EditOutside
<1>1. /\ crashes \in Nat /\ errors \in Nat /\ edits \in Nat
      /\ crashes' \in Nat /\ errors' \in Nat /\ edits' \in Nat
  BY EngineAssumption DEF TypeOK
<1>2. /\ crashes' + errors' = 0 <=> crashes' = 0 /\ errors' = 0
      /\ crashes' + errors' + edits' = 0 <=> crashes' = 0 /\ errors' = 0 /\ edits' = 0
      /\ crashes + errors = 0 <=> crashes = 0 /\ errors = 0
      /\ crashes + errors + edits = 0 <=> crashes = 0 /\ errors = 0 /\ edits = 0
  <2>1. crashes' + errors' = 0 <=> crashes' = 0 /\ errors' = 0
    BY <1>1, NoneCounted, Zenon
  <2>2. crashes' + errors' + edits' = 0 <=> crashes' = 0 /\ errors' = 0 /\ edits' = 0
    <3>1. crashes' + errors' \in Nat
      BY <1>1, NoneCounted, Zenon
    <3>2. (crashes' + errors') + edits' = 0 <=> crashes' + errors' = 0 /\ edits' = 0
      BY <1>1, <3>1, NoneCounted, Zenon
    <3> QED
      BY <2>1, <3>2, Zenon
  <2>3. crashes + errors = 0 <=> crashes = 0 /\ errors = 0
    BY <1>1, NoneCounted
  <2>4. crashes + errors + edits = 0 <=> crashes = 0 /\ errors = 0 /\ edits = 0
    BY <1>1, NoneCounted
  <2> QED
    BY <2>1, <2>2, <2>3, <2>4, Zenon
<1>3. (\E p \in Processes : Fail(p)) => crashes' = crashes + 1 \/ errors' = errors + 1
  BY DEF Fail, CallFails, MaterializeFails, ReceiptSyncFails, Crash
<1>4. EditOutside => edits' = edits + 1
  BY DEF EditOutside
<1>5. \A n \in Nat : n + 1 # 0
  OBVIOUS
<1>6. (\A p \in Processes : ~Fail(p)) => crashes' = crashes /\ errors' = errors
  BY DEF Next, Submit, Execute, LookForReceipt, Lock, LockRefused, LookAgain, Load,
       Apply, Stage, Publish, SwapPointer, Materialize, RecordSuccess, RecordFailure,
       Release, Operate, ReadBase, RaiseBarrier, CompleteOperation, BreakLease,
       EditOutside, engineVars, Failures, vars
<1>7. edits' = edits \/ EditOutside
  BY DEF Next, Submit, Execute, LookForReceipt, Lock, LockRefused, LookAgain, Load,
       Apply, Stage, Publish, SwapPointer, Materialize, RecordSuccess, RecordFailure,
       Release, Fail, CallFails, MaterializeFails, ReceiptSyncFails, Crash, Operate,
       ReadBase, RaiseBarrier, CompleteOperation, BreakLease, engineVars, Failures, vars
<1>8. crashes' = 0 /\ errors' = 0 =>
        crashes = 0 /\ errors = 0 /\ \A p \in Processes : ~Fail(p)
  BY <1>1, <1>3, <1>5, <1>6
<1>9. edits' = 0 => edits = 0 /\ ~EditOutside
  BY <1>1, <1>4, <1>5, <1>7
<1> QED
  BY <1>2, <1>8, <1>9

(* Only the recording steps touch the receipts. *)
LEMMA ReceiptsUntouched ==
  ASSUME [Next]_vars
  PROVE  \/ receipts' = receipts
         \/ \E p \in Processes : RecordSuccess(p) \/ RecordFailure(p) \/ ReceiptSyncFails(p)
BY DEF Next, Submit, Execute, LookForReceipt, Lock, LockRefused, LookAgain, Load,
       Apply, Stage, Publish, SwapPointer, Materialize, Release, Fail, CallFails,
       MaterializeFails, Crash, Operate, ReadBase, RaiseBarrier, CompleteOperation,
       BreakLease, EditOutside, vars, engineVars

(* While the lease discipline holds two processes are not both in the lock. *)
LEMMA Alone ==
  ASSUME TypeOK, LeaseInv, ~broken, NEW p \in Processes, NEW q \in Processes,
         pc[p] \in LockedSteps, pc[q] \in LockedSteps
  PROVE  p = q
BY DEF TypeOK, LeaseInv

(* The way to and past the swap of the pointer. *)
LEMMA EnterSwap ==
  ASSUME TypeOK, [Next]_vars, NEW q \in Processes,
         pc'[q] \in {"swap", "materialize", "committed"}
  PROVE  /\ cmd'[q] = cmd[q] /\ new'[q] = new[q] /\ current'[q] = current[q]
         /\ \/ pc'[q] = pc[q]
            \/ Publish(q) \/ SwapPointer(q) \/ Materialize(q) \/ MaterializeFails(q)
<1> USE DEF TypeOK, Goto, Leave, Job
<1>1. ASSUME NEW p \in Processes, Execute(p) \/ Fail(p), p # q
      PROVE  cmd'[q] = cmd[q] /\ new'[q] = new[q] /\ current'[q] = current[q] /\ pc'[q] = pc[q]
  BY <1>1 DEF Execute, LookForReceipt, Lock, LockRefused, LookAgain, Load, Apply, Stage,
           Publish, SwapPointer, Materialize, RecordSuccess, RecordFailure, Release,
           Fail, CallFails, MaterializeFails, ReceiptSyncFails, Crash
<1>2. CASE Execute(q) \/ Fail(q)
  <2>1. Publish(q) \/ SwapPointer(q) \/ Materialize(q) \/ MaterializeFails(q)
    BY <1>2 DEF Execute, LookForReceipt, Lock, LockRefused, LookAgain, Load, Apply, Stage,
             RecordSuccess, RecordFailure, Release, Fail, CallFails, ReceiptSyncFails, Crash
  <2> QED
    BY <2>1 DEF Publish, SwapPointer, Materialize, MaterializeFails
<1>3. ASSUME NEW p \in Processes, NEW c \in Commands, NEW op \in Ops, Submit(p, c, op)
      PROVE  cmd'[q] = cmd[q] /\ new'[q] = new[q] /\ current'[q] = current[q] /\ pc'[q] = pc[q]
  BY <1>3 DEF Submit
<1>4. CASE \/ \E o \in Operations : Operate(o)
           \/ BreakLease \/ EditOutside \/ UNCHANGED vars
  BY <1>4 DEF Operate, ReadBase, RaiseBarrier, CompleteOperation, BreakLease,
       EditOutside, vars, engineVars
<1> QED
  BY <1>1, <1>2, <1>3, <1>4 DEF Next

(* The way past the second look for a receipt. *)
LEMMA EnterLocked ==
  ASSUME TypeOK, [Next]_vars, NEW q \in Processes,
         pc'[q] \in LockedSteps \ {"lookAgain", "release"}
  PROVE  /\ cmd'[q] = cmd[q]
         /\ \/ pc[q] \in LockedSteps \ {"lookAgain", "release"}
            \/ LookAgain(q) /\ ~Recorded(q)
<1> USE DEF TypeOK, Goto, Leave, Job, LockedSteps, Steps
<1>1. ASSUME NEW p \in Processes, Execute(p) \/ Fail(p), p # q
      PROVE  cmd'[q] = cmd[q] /\ pc'[q] = pc[q]
  BY <1>1 DEF Execute, LookForReceipt, Lock, LockRefused, LookAgain, Load, Apply, Stage,
           Publish, SwapPointer, Materialize, RecordSuccess, RecordFailure, Release,
           Fail, CallFails, MaterializeFails, ReceiptSyncFails, Crash
<1>2. CASE Execute(q) \/ Fail(q)
  <2>1. CASE pc[q] \in LockedSteps \ {"lookAgain", "release"}
    <3>1. cmd'[q] = cmd[q]
      BY <1>2, <2>1 DEF Execute, LookForReceipt, Lock, LockRefused, LookAgain, Load, Apply,
           Stage, Publish, SwapPointer, Materialize, RecordSuccess, RecordFailure, Release,
           Fail, CallFails, MaterializeFails, ReceiptSyncFails, Crash
    <3> QED
      BY <2>1, <3>1
  <2>2. CASE pc[q] \notin LockedSteps \ {"lookAgain", "release"}
    <3>1. LookAgain(q)
      BY <1>2, <2>2 DEF Execute, LookForReceipt, Lock, LockRefused, Load, Apply, Stage,
           Publish, SwapPointer, Materialize, RecordSuccess, RecordFailure, Release,
           Fail, CallFails, MaterializeFails, ReceiptSyncFails, Crash
    <3>2. cmd'[q] = cmd[q] /\ ~Recorded(q)
      BY <3>1 DEF LookAgain
    <3> QED
      BY <3>1, <3>2
  <2> QED
    BY <2>1, <2>2
<1>3. ASSUME NEW p \in Processes, NEW c \in Commands, NEW op \in Ops, Submit(p, c, op)
      PROVE  cmd'[q] = cmd[q] /\ pc'[q] = pc[q]
  BY <1>3 DEF Submit
<1>4. CASE \/ \E o \in Operations : Operate(o)
           \/ BreakLease \/ EditOutside \/ UNCHANGED vars
  BY <1>4 DEF Operate, ReadBase, RaiseBarrier, CompleteOperation, BreakLease,
       EditOutside, vars, engineVars
<1> QED
  BY <1>1, <1>2, <1>3, <1>4 DEF Next

(* While the lease discipline holds authority's line only grows, by the    *)
(* revision that is swapped in.                                            *)
LEMMA LineGrows ==
  ASSUME IInv, IInv', [Next]_vars
  PROVE  /\ pointer' = pointer => Line(rev', pointer') = Line(rev, pointer)
         /\ ~broken => \/ pointer' = pointer
                       \/ /\ \E p \in Processes : SwapPointer(p)
                          /\ Line(rev', pointer') = {pointer'} \cup Line(rev, pointer)
                          /\ pointer' \notin Line(rev, pointer)
<1>1. IsStore(rev) /\ IsStore(rev') /\ pointer \in DOMAIN rev
  <2>1. /\ TypeOK' /\ StoreInv' /\ LineageInv'
    BY DEF IInv
  <2>2. IsStore(rev)
    BY StoreIsStore
  <2>3. IsStore(rev')
    BY <2>1 DEF TypeOK, StoreInv, LineageInv, IsStore, RootRevision
  <2> QED
    BY <2>2, <2>3 DEF IInv, StoreInv
<1>2. \A r \in DOMAIN rev : r \in DOMAIN rev' /\ rev'[r] = rev[r]
  BY PublishedStays DEF IInv
<1>3. Line(rev', pointer) = Line(rev, pointer)
  BY <1>1, <1>2, LineKept
<1>4. ASSUME ~broken, NEW p \in Processes, SwapPointer(p)
      PROVE  /\ Line(rev', pointer') = {pointer'} \cup Line(rev, pointer)
             /\ pointer' \notin Line(rev, pointer)
  <2>1. /\ pc[p] = "swap" /\ pointer' = new[p] /\ rev' = rev
        /\ new[p] \in DOMAIN rev /\ rev[new[p]].parent = current[p]
        /\ current[p] = pointer
    BY <1>4 DEF SwapPointer, IInv, JobInv, JobOK, LeaseInv
  <2>2. new[p] # Root /\ pointer < new[p] /\ pointer \in Nat /\ new[p] \in Nat
    BY <1>1, <2>1, EngineAssumption DEF IsStore
  <2>3. Line(rev, new[p]) = {new[p]} \cup Line(rev, pointer)
    BY <1>1, <2>1, <2>2, LineStep
  <2>4. new[p] \notin Line(rev, pointer)
    BY <1>1, <2>2, LineBelow
  <2> QED
    BY <2>1, <2>3, <2>4
<1>5. pointer' = pointer \/ \E p \in Processes : SwapPointer(p)
  BY StoreUntouched DEF Stage, Publish, CallFails
<1> QED
  BY <1>3, <1>4, <1>5

(* What is written under a command's key is a receipt of that command. *)
LEMMA WhatIsRecorded ==
  ASSUME TypeOK, JobInv, NEW p \in Processes, pc[p] # "idle",
         NEW status \in {"committed", "validated", "failed"}, Record(p, status)
  PROVE  /\ Key[cmd[p]] \in DOMAIN receipts
         /\ receipts' = [receipts EXCEPT ![Key[cmd[p]]] = receipts'[Key[cmd[p]]]]
         /\ receipts'[Key[cmd[p]]] # None
         /\ receipts'[Key[cmd[p]]].command = cmd[p]
         /\ receipts'[Key[cmd[p]]].status = status
         /\ receipts'[Key[cmd[p]]].result = IF status = "committed" THEN new[p] ELSE None
<1> DEFINE r == [command |-> cmd[p], status |-> status,
                 result |-> IF status = "committed" THEN new[p] ELSE None]
<1>1. r \in Receipt
  BY Running DEF TypeOK, Receipt
<1>2. /\ r # None /\ r.command = cmd[p] /\ r.status = status
      /\ r.result = IF status = "committed" THEN new[p] ELSE None
  BY <1>1, EngineAssumption
<1> HIDE DEF r
<1>3. receipts' = [receipts EXCEPT ![Key[cmd[p]]] = r]
  BY DEF Record, r
<1>4. Key[cmd[p]] \in DOMAIN receipts
  BY Running DEF TypeOK
<1> QED
  BY <1>2, <1>3, <1>4

(* Whoever has swapped the pointer goes on to record its success. *)
LEMMA LeaveEffective ==
  ASSUME TypeOK, [Next]_vars, NEW q \in Processes, Effective(q),
         ~RecordSuccess(q), ~Fail(q)
  PROVE  Effective(q)' /\ new'[q] = new[q]
<1> USE DEF TypeOK, Goto, Leave, Job, Effective
<1>1. ASSUME NEW p \in Processes, Execute(p) \/ Fail(p), p # q
      PROVE  new'[q] = new[q] /\ pc'[q] = pc[q]
  BY <1>1 DEF Execute, LookForReceipt, Lock, LockRefused, LookAgain, Load, Apply, Stage,
           Publish, SwapPointer, Materialize, RecordSuccess, RecordFailure, Release,
           Fail, CallFails, MaterializeFails, ReceiptSyncFails, Crash
<1>2. CASE Execute(q)
  <2>1. Materialize(q)
    BY <1>2 DEF Execute, LookForReceipt, Lock, LockRefused, LookAgain, Load, Apply, Stage,
             Publish, SwapPointer, RecordFailure, Release
  <2> QED
    BY <2>1 DEF Materialize
<1>3. ASSUME NEW p \in Processes, NEW c \in Commands, NEW op \in Ops, Submit(p, c, op)
      PROVE  new'[q] = new[q] /\ pc'[q] = pc[q]
  BY <1>3 DEF Submit
<1>4. CASE \/ \E o \in Operations : Operate(o)
           \/ BreakLease \/ EditOutside \/ UNCHANGED vars
  BY <1>4 DEF Operate, ReadBase, RaiseBarrier, CompleteOperation, BreakLease,
       EditOutside, vars, engineVars
<1> QED
  BY <1>1, <1>2, <1>3, <1>4 DEF Next

(* Each step leaves receipts, jobs and pointer in agreement. *)
LEMMA ReceiptStep ==
  ASSUME IInv, IInv', ReceiptInv, [Next]_vars
  PROVE  ReceiptInv'
<1>1. /\ TypeOK /\ StoreInv /\ JobInv /\ LeaseInv /\ LineageInv /\ TypeOK'
      /\ pointer \in DOMAIN rev
  BY DEF IInv, StoreInv
<1>2. \A r \in DOMAIN rev : r \in DOMAIN rev' /\ rev'[r] = rev[r]
  BY <1>1, PublishedStays
<1>3. /\ Ancestors(pointer)' = Line(rev', pointer')
      /\ Ancestors(pointer) = Line(rev, pointer)
  BY DEF Ancestors, Line, Closed, ClosedIn
(* What is written under a command's key is that command's receipt. *)
<1>4. ASSUME NEW k \in DOMAIN receipts', receipts'[k] # receipts[k]
      PROVE  \E p \in Processes :
               /\ pc[p] \in LockedSteps /\ k = Key[cmd[p]] /\ receipts'[k].command = cmd[p]
               /\ receipts'[k].status = "committed" =>
                    /\ pc[p] = "committed" /\ receipts'[k].result = new[p]
                    /\ UNCHANGED <<pointer, rev>>
  <2>1. DOMAIN receipts' = DOMAIN receipts
    BY <1>1 DEF TypeOK
  <2>2. PICK p \in Processes : RecordSuccess(p) \/ RecordFailure(p) \/ ReceiptSyncFails(p)
    BY <1>4, ReceiptsUntouched
  <2>3. PICK status \in {"committed", "validated", "failed"} :
          /\ Record(p, status)
          /\ status = "committed" => pc[p] = "committed"
          /\ pc[p] \in LockedSteps /\ UNCHANGED <<pointer, rev>>
    BY <2>2 DEF RecordSuccess, RecordFailure, ReceiptSyncFails, Store, LockedSteps, Steps
  <2>4. k = Key[cmd[p]] /\ receipts'[k] = [command |-> cmd[p], status |-> status,
                          result |-> IF status = "committed" THEN new[p] ELSE None]
    BY <1>4, <2>1, <2>3 DEF Record
  <2> QED
    BY <2>3, <2>4
<1>5. ASSUME NEW k \in DOMAIN receipts', receipts'[k] # None
      PROVE  Key[receipts'[k].command] = k
  <2>1. DOMAIN receipts' = DOMAIN receipts
    BY <1>1 DEF TypeOK
  <2> QED
    BY <1>4, <1>5, <2>1 DEF ReceiptInv
<1>6. ASSUME NEW q \in Processes, pc'[q] \in {"swap", "materialize", "committed"}
      PROVE  rev'[new'[q]].command = cmd'[q]
  <2>1. CASE Publish(q)
    <3>1. new[q] \in DOMAIN rev' /\ rev'[new[q]] = NextRevision(cmd[q], current[q], new[q])
      BY <2>1 DEF Publish
    <3> QED
      BY <1>1, <1>6, <3>1, EnterSwap, NextRevisionMadeBy
  <2>2. CASE ~Publish(q)
    <3>1. pc[q] \in {"swap", "materialize", "committed"}
      BY <1>1, <1>6, <2>2, EnterSwap DEF SwapPointer, Materialize, MaterializeFails
    <3>2. new[q] \in DOMAIN rev /\ rev[new[q]].command = cmd[q]
      BY <1>1, <3>1 DEF JobInv, JobOK, ReceiptInv
    <3> QED
      BY <1>1, <1>2, <1>6, <3>2, EnterSwap
  <2> QED
    BY <2>1, <2>2
<1>7. ASSUME ~broken', NEW q \in Processes, pc'[q] \in {"materialize", "committed"}
      PROVE  new'[q] = pointer'
  <2>1. ~broken /\ new'[q] = new[q]
    BY <1>1, <1>7, BrokenStays, EnterSwap
  <2>2. CASE SwapPointer(q)
    BY <2>1, <2>2 DEF SwapPointer
  <2>3. CASE ~SwapPointer(q)
    <3>1. pc[q] \in {"materialize", "committed"}
      BY <1>1, <1>7, <2>3, EnterSwap DEF Publish, Goto, TypeOK, Materialize, MaterializeFails
    <3>2. \A p \in Processes : SwapPointer(p) => p = q
      BY <1>1, <2>1, <3>1, Alone DEF SwapPointer, LockedSteps, Steps
    <3>3. pointer' = pointer
      BY <2>3, <3>2, StoreUntouched DEF Stage, Publish, CallFails
    <3> QED
      BY <2>1, <3>1, <3>3 DEF ReceiptInv, Effective
  <2> QED
    BY <2>2, <2>3
<1>8. ASSUME ~broken', NEW k \in DOMAIN receipts',
             receipts'[k] # None, receipts'[k].status = "committed"
      PROVE  /\ receipts'[k].result \in Line(rev', pointer')
             /\ rev'[receipts'[k].result].command = receipts'[k].command
  <2>1. ~broken
    BY <1>1, <1>8, BrokenStays
  <2>2. Line(rev, pointer) \subseteq Line(rev', pointer')
    BY <2>1, LineGrows
  <2>3. Line(rev, pointer) \subseteq DOMAIN rev
    BY DEF Line
  <2>4. CASE receipts'[k] = receipts[k]
    <3>1. k \in DOMAIN receipts
      BY <1>1 DEF TypeOK
    <3>2. /\ receipts[k].result \in Line(rev, pointer)
          /\ rev[receipts[k].result].command = receipts[k].command
      BY <1>3, <1>8, <2>1, <2>4, <3>1 DEF ReceiptInv, CommittedIsAuthoritative
    <3> QED
      BY <1>2, <2>2, <2>3, <2>4, <3>2
  <2>5. CASE receipts'[k] # receipts[k]
    <3>1. PICK p \in Processes :
            /\ receipts'[k].command = cmd[p] /\ receipts'[k].result = new[p]
            /\ pc[p] = "committed" /\ UNCHANGED <<pointer, rev>>
      BY <1>4, <1>8, <2>5
    <3>2. new[p] = pointer /\ rev[new[p]].command = cmd[p]
      BY <2>1, <3>1 DEF ReceiptInv, Effective
    <3>3. pointer \in Line(rev, pointer)
      BY <1>1, LineHolds
    <3> QED
      BY <3>1, <3>2, <3>3
  <2> QED
    BY <2>4, <2>5
<1>9. CommittedIsAuthoritative'
  BY <1>3, <1>8 DEF CommittedIsAuthoritative
<1> QED
  BY <1>5, <1>6, <1>7, <1>9 DEF ReceiptInv, Effective

(* Each step keeps the outcome of commands and their receipts together.    *)
LEMMA OutcomeStep ==
  ASSUME IInv, IInv', ReceiptInv, ReceiptInv', OutcomeInv, [Next]_vars
  PROVE  OutcomeInv'
<1> SUFFICES ASSUME ~broken', ~(crashes' + errors' > 0) PROVE OutcomeInv'
  BY DEF OutcomeInv
<1>1. /\ TypeOK /\ StoreInv /\ JobInv /\ LeaseInv /\ LineageInv /\ TypeOK'
      /\ pointer \in DOMAIN rev
  BY DEF IInv, StoreInv
<1>2. /\ ~broken /\ ~(crashes + errors > 0) /\ \A p \in Processes : ~Fail(p)
  <2>1. crashes' + errors' \in Nat
    <3>1. crashes' \in Nat /\ errors' \in Nat
      BY <1>1, EngineAssumption DEF TypeOK
    <3> QED
      BY <3>1, NoneCounted, Zenon
  <2>2. \A n \in Nat : ~(n > 0) <=> n = 0
    OBVIOUS
  <2>3. crashes' + errors' = 0
    BY <2>1, <2>2, Zenon
  <2>4. crashes + errors = 0 /\ \A p \in Processes : ~Fail(p)
    BY <1>1, <2>3, FailuresGrow, Zenon
  <2> QED
    BY <1>1, <2>4, BrokenStays
<1>3. /\ Ancestors(pointer)' = Line(rev', pointer')
      /\ Ancestors(pointer) = Line(rev, pointer)
  BY DEF Ancestors, Line, Closed, ClosedIn
<1>4. /\ \A p \in Processes :
           pc[p] \in LockedSteps \ {"lookAgain", "release"} => receipts[Key[cmd[p]]] = None
      /\ \A r \in Line(rev, pointer) \ {Root} :
           \/ receipts[Key[rev[r].command]] # None
           \/ \E p \in Processes : Effective(p) /\ new[p] = r
      /\ \A k \in DOMAIN receipts :
           receipts[k] # None /\ receipts[k].status = "failed" =>
             \A r \in Line(rev, pointer) : rev[r].command # receipts[k].command
  BY <1>2, <1>3 DEF OutcomeInv, FailedHadNoEffect
<1>5. Line(rev, pointer) \subseteq DOMAIN rev
  BY DEF Line
<1>6. \A r \in DOMAIN rev : r \in DOMAIN rev' /\ rev'[r] = rev[r]
  BY <1>1, PublishedStays
<1>7. DOMAIN receipts' = DOMAIN receipts /\ DOMAIN receipts = {Key[c] : c \in Commands}
  BY <1>1 DEF TypeOK
(* Recording is done by the one process in the lock, for its own key. *)
<1>8. \/ receipts' = receipts
      \/ \E p \in Processes, status \in {"committed", "validated", "failed"} :
           /\ pc[p] \in {"committed", "validated", "fail"} /\ pc'[p] = "release"
           /\ status = "failed" <=> pc[p] = "fail"
           /\ receipts' = [receipts EXCEPT ![Key[cmd[p]]] = receipts'[Key[cmd[p]]]]
           /\ receipts'[Key[cmd[p]]] # None /\ receipts'[Key[cmd[p]]].command = cmd[p]
           /\ receipts'[Key[cmd[p]]].status = status
           /\ UNCHANGED <<pointer, rev>>
  <2> SUFFICES ASSUME receipts' # receipts
               PROVE  \E p \in Processes, status \in {"committed", "validated", "failed"} :
           /\ pc[p] \in {"committed", "validated", "fail"} /\ pc'[p] = "release"
           /\ status = "failed" <=> pc[p] = "fail"
           /\ receipts' = [receipts EXCEPT ![Key[cmd[p]]] = receipts'[Key[cmd[p]]]]
           /\ receipts'[Key[cmd[p]]] # None /\ receipts'[Key[cmd[p]]].command = cmd[p]
           /\ receipts'[Key[cmd[p]]].status = status
           /\ UNCHANGED <<pointer, rev>>
    OBVIOUS
  <2>1. PICK p \in Processes : RecordSuccess(p) \/ RecordFailure(p)
    BY <1>2, ReceiptsUntouched DEF Fail
  <2>2. PICK status \in {"committed", "validated", "failed"} :
          /\ Record(p, status)
          /\ pc[p] \in {"committed", "validated", "fail"} /\ pc'[p] = "release"
          /\ status = "failed" <=> pc[p] = "fail"
          /\ UNCHANGED <<pointer, rev>>
    BY <1>1, <2>1 DEF RecordSuccess, RecordFailure, Goto, Store, TypeOK
  <2> QED
    BY <1>1, <2>2, WhatIsRecorded
<1>9. ASSUME NEW q \in Processes, pc'[q] \in LockedSteps \ {"lookAgain", "release"}
      PROVE  receipts'[Key[cmd'[q]]] = None
  <2>1. cmd'[q] = cmd[q] /\ pc[q] \in LockedSteps /\ receipts[Key[cmd[q]]] = None
    BY <1>1, <1>4, <1>9, EnterLocked DEF LookAgain, Recorded, LockedSteps, Steps
  <2>2. receipts' = receipts
    <3> SUFFICES ASSUME NEW p \in Processes,
                        pc[p] \in {"committed", "validated", "fail"}, pc'[p] = "release"
                 PROVE  FALSE
      BY <1>8
    <3>1. pc[p] \in LockedSteps
      BY DEF LockedSteps, Steps
    <3>2. p = q
      BY <1>1, <1>2, <2>1, <3>1, Alone
    <3> QED
      BY <1>9, <3>2
  <2> QED
    BY <2>1, <2>2
<1>10. \A k \in DOMAIN receipts : receipts[k] # None => receipts'[k] # None
  BY <1>8
<1>11. ASSUME NEW r \in Line(rev', pointer') \ {Root}
       PROVE  \/ receipts'[Key[rev'[r].command]] # None
              \/ \E p \in Processes : Effective(p)' /\ new'[p] = r
  <2>1. CASE r \notin Line(rev, pointer)
    <3>1. PICK p \in Processes : SwapPointer(p) /\ r = pointer'
      BY <1>2, <1>11, <2>1, LineGrows
    <3>2. pc'[p] = "materialize" /\ new'[p] = r
      BY <1>1, <3>1 DEF SwapPointer, Goto, Job, TypeOK
    <3> QED
      BY <3>2 DEF Effective
  <2>2. CASE r \in Line(rev, pointer)
    <3>1. rev'[r] = rev[r]
      BY <1>5, <1>6, <2>2
    <3>2. ASSUME NEW p \in Processes, Effective(p), new[p] = r
          PROVE  \/ receipts'[Key[rev[r].command]] # None
                 \/ Effective(p)' /\ new'[p] = r
      <4>1. rev[r].command = cmd[p]
        BY <3>2 DEF ReceiptInv, Effective
      <4>2. CASE RecordSuccess(p)
        <5>1. /\ pc[p] = "committed"
              /\ \E status \in {"committed", "validated"} : Record(p, status)
          BY <3>2, <4>2 DEF RecordSuccess, Effective
        <5> QED
          BY <1>1, <4>1, <5>1, WhatIsRecorded
      <4>3. CASE ~RecordSuccess(p)
        BY <1>1, <1>2, <3>2, <4>3, LeaveEffective
      <4> QED
        BY <4>2, <4>3
    <3>3. Key[rev[r].command] \in DOMAIN receipts
      BY <1>1, <1>5, <1>7, <1>11, <2>2 DEF LineageInv
    <3> QED
      BY <1>4, <1>10, <1>11, <2>2, <3>1, <3>2, <3>3
  <2> QED
    BY <2>1, <2>2
<1>12. ASSUME NEW k \in DOMAIN receipts, receipts'[k] # None,
              receipts'[k].status = "failed", NEW r \in Line(rev', pointer')
       PROVE  rev'[r].command # receipts'[k].command
  <2>1. CASE receipts'[k] = receipts[k] /\ r \in Line(rev, pointer)
    BY <1>4, <1>5, <1>6, <1>12, <2>1
  <2>2. CASE receipts'[k] = receipts[k] /\ r \notin Line(rev, pointer)
    <3>1. PICK p \in Processes : SwapPointer(p) /\ r = pointer'
      BY <1>2, <1>12, <2>2, LineGrows
    <3>2. /\ pc[p] = "swap" /\ r = new[p] /\ rev' = rev
          /\ rev[r].command = cmd[p]
      BY <3>1 DEF SwapPointer, ReceiptInv
    <3>3. receipts[Key[cmd[p]]] = None
      BY <1>4, <3>2 DEF LockedSteps, Steps
    <3>4. Key[receipts[k].command] = k
      BY <1>12, <2>2 DEF ReceiptInv
    <3> QED
      BY <1>12, <2>2, <3>2, <3>3, <3>4
  <2>3. CASE receipts'[k] # receipts[k]
    <3>1. PICK p \in Processes :
            /\ pc[p] = "fail" /\ k = Key[cmd[p]] /\ receipts'[k].command = cmd[p]
            /\ UNCHANGED <<pointer, rev>>
      BY <1>8, <1>12, <2>3
    <3>2. receipts[k] = None /\ pc[p] \in LockedSteps /\ cmd[p] # None
      BY <1>1, <1>4, <3>1 DEF LockedSteps, Steps, TypeOK
    <3>3. r \in Line(rev, pointer)
      BY <1>12, <3>1
    <3> SUFFICES ASSUME rev[r].command = cmd[p] PROVE FALSE
      BY <3>1
    <3>4. r # Root
      BY <1>1, <3>2 DEF LineageInv, RootRevision
    <3>5. PICK q \in Processes : Effective(q)
      BY <1>4, <3>1, <3>2, <3>3, <3>4
    <3>6. pc[q] \in LockedSteps
      BY <3>5 DEF Effective, LockedSteps, Steps
    <3>7. p = q
      BY <1>1, <1>2, <3>2, <3>6, Alone
    <3> QED
      BY <3>1, <3>5, <3>7 DEF Effective
  <2> QED
    BY <2>1, <2>2, <2>3
<1> QED
  BY <1>3, <1>7, <1>9, <1>11, <1>12 DEF OutcomeInv, FailedHadNoEffect

(* The inductive invariants of the receipts hold of every behaviour. *)
LEMMA ReceiptsCorrect == Spec => [](ReceiptInv /\ OutcomeInv)
<1>1. Init => ReceiptInv /\ OutcomeInv
  <2> SUFFICES ASSUME Init PROVE ReceiptInv /\ OutcomeInv
    OBVIOUS
  <2>1. /\ DOMAIN rev = {Root} /\ \A k \in DOMAIN receipts : receipts[k] = None
        /\ \A p \in Processes : pc[p] = "idle"
    BY DEF Init
  <2>2. \A r \in Ancestors(pointer) : r = Root
    BY <2>1 DEF Ancestors
  <2> QED
    BY <2>1, <2>2 DEF ReceiptInv, OutcomeInv, Effective, LockedSteps,
                      CommittedIsAuthoritative, FailedHadNoEffect
<1>2. IInv /\ IInv' /\ ReceiptInv /\ OutcomeInv /\ [Next]_vars => (ReceiptInv /\ OutcomeInv)'
  BY ReceiptStep, OutcomeStep
<1> QED
  BY <1>1, <1>2, InvCorrect, PTL DEF Spec

(* A "committed" receipt names a revision of its command that authority    *)
(* descends from; without crashes or failed calls a "failed" one names a   *)
(* command that had no effect.                                             *)
THEOREM ReceiptsTrue == Spec => []ReceiptsAreTrue
<1>1. ReceiptInv /\ OutcomeInv => ReceiptsAreTrue
  BY DEF ReceiptInv, OutcomeInv, ReceiptsAreTrue, FailedHadNoEffect
<1> QED
  BY <1>1, ReceiptsCorrect, PTL

-----------------------------------------------------------------------------
(* The source text a job publishes: its own for a source edit, that of the *)
(* revision it has loaded for any other edit.                              *)
SourceOK(p) ==
  pc[p] \in {"swap", "materialize"} =>
    /\ current[p] \in DOMAIN rev
    /\ Op(cmd[p]).kind = "source" => rev[new[p]].source = new[p]
    /\ Op(cmd[p]).kind \notin {"source", "undo", "redo"} =>
         rev[new[p]].source = rev[current[p]].source

(* Between the swap and the working file the file holds what it held.      *)
SyncInv ==
  /\ \A p \in Processes : SourceOK(p)
  /\ \/ broken \/ crashes + errors + edits > 0
     \/ \A p \in Processes : pc[p] = "materialize" => working = rev[current[p]].source
  /\ WorkingFileInSync

(* Only jobs that write working files and outside editors touch the file.  *)
LEMMA WorkingUntouched ==
  ASSUME [Next]_vars
  PROVE  \/ working' = working \/ EditOutside \/ \E p \in Processes : Materialize(p)
BY DEF Next, Submit, Execute, LookForReceipt, Lock, LockRefused, LookAgain, Load,
       Apply, Stage, Publish, SwapPointer, RecordSuccess, RecordFailure, Release, Fail,
       CallFails, MaterializeFails, ReceiptSyncFails, Crash, Operate, ReadBase,
       RaiseBarrier, CompleteOperation, BreakLease, vars, engineVars, Outside

(* Each step leaves the published source texts as they should be. *)
LEMMA SourceStep ==
  ASSUME IInv, SyncInv, [Next]_vars, NEW q \in Processes
  PROVE  SourceOK(q)'
<1> SUFFICES ASSUME pc'[q] \in {"swap", "materialize"} PROVE SourceOK(q)'
  BY DEF SourceOK
<1>1. TypeOK /\ StoreInv /\ JobInv
  BY DEF IInv
<1>2. \A r \in DOMAIN rev : r \in DOMAIN rev' /\ rev'[r] = rev[r]
  BY <1>1, PublishedStays
<1>3. /\ cmd'[q] = cmd[q] /\ new'[q] = new[q] /\ current'[q] = current[q]
      /\ pc'[q] = pc[q] \/ Publish(q) \/ SwapPointer(q) \/ Materialize(q) \/ MaterializeFails(q)
  BY <1>1, EnterSwap
<1>4. CASE Publish(q)
  <2>1. current[q] \in DOMAIN rev
    BY <1>1, <1>4, PublishSound
  <2>2. rev'[new[q]] = NextRevision(cmd[q], current[q], new[q]) /\ issued' = issued
    BY <1>4 DEF Publish
  <2>3. /\ Op(cmd[q]).kind = "source" =>
             NextRevision(cmd[q], current[q], new[q]).source = new[q]
        /\ Op(cmd[q]).kind \notin {"source", "undo", "redo"} =>
             NextRevision(cmd[q], current[q], new[q]).source = rev[current[q]].source
    <3>1. Op(cmd[q]).kind \notin {"undo", "redo"} =>
            NextRevision(cmd[q], current[q], new[q]) = NextEdit(cmd[q], current[q], new[q])
      BY DEF NextRevision
    <3>2. NextEdit(cmd[q], current[q], new[q]).source =
            IF Op(cmd[q]).kind = "source" THEN new[q] ELSE rev[current[q]].source
      BY DEF NextEdit
    <3> QED
      BY <3>1, <3>2
  <2> QED
    BY <1>2, <1>3, <2>1, <2>2, <2>3 DEF SourceOK, Op
<1>5. CASE ~Publish(q)
  <2>1. pc[q] \in {"swap", "materialize"}
    BY <1>1, <1>3, <1>5 DEF SwapPointer, Materialize, MaterializeFails, Goto, TypeOK
  <2>2. /\ current[q] \in DOMAIN rev /\ new[q] \in DOMAIN rev
        /\ cmd[q] \in Commands /\ issued[cmd[q]] # None
    BY <1>1, <2>1 DEF SyncInv, SourceOK, JobInv, JobOK, TypeOK
  <2>3. issued'[cmd[q]] = issued[cmd[q]]
    BY <1>1, <2>2, IssuedStays
  <2> QED
    BY <1>2, <1>3, <2>1, <2>2, <2>3 DEF SyncInv, SourceOK, Op
<1> QED
  BY <1>4, <1>5

(* Each step keeps the working file in step with authority. *)
LEMMA SyncStep ==
  ASSUME IInv, IInv', ReceiptInv, SyncInv, [Next]_vars
  PROVE  SyncInv'
<1>1. TypeOK /\ StoreInv /\ JobInv /\ LeaseInv /\ TypeOK' /\ pointer \in DOMAIN rev
  BY DEF IInv, StoreInv
<1>2. \A p \in Processes : SourceOK(p)'
  BY SourceStep
<1> SUFFICES ASSUME ~broken', ~(crashes' + errors' + edits' > 0)
             PROVE  /\ \A p \in Processes :
                         pc'[p] = "materialize" => working' = rev'[current'[p]].source
                    /\ \/ \E p \in Processes : pc'[p] = "materialize"
                       \/ working' = rev'[pointer'].source
  BY <1>2 DEF SyncInv, WorkingFileInSync
<1>3. /\ ~broken /\ ~(crashes + errors + edits > 0)
      /\ ~EditOutside /\ \A p \in Processes : ~Fail(p)
  <2>1. crashes' + errors' + edits' \in Nat
    <3>1. crashes' \in Nat /\ errors' \in Nat /\ edits' \in Nat
      BY <1>1, EngineAssumption DEF TypeOK
    <3>2. crashes' + errors' \in Nat
      BY <3>1, NoneCounted, Zenon
    <3> QED
      BY <3>1, <3>2, NoneCounted, Zenon
  <2>2. \A n \in Nat : ~(n > 0) <=> n = 0
    OBVIOUS
  <2>3. crashes' + errors' + edits' = 0
    BY <2>1, <2>2, Zenon
  <2>4. /\ crashes + errors + edits = 0 /\ crashes' + errors' = 0 /\ ~EditOutside
    BY <1>1, <2>3, FailuresGrow, Zenon
  <2>5. \A p \in Processes : ~Fail(p)
    BY <1>1, <2>4, FailuresGrow, Zenon
  <2> QED
    BY <1>1, <2>4, <2>5, BrokenStays
<1>4. /\ \A p \in Processes : pc[p] = "materialize" => working = rev[current[p]].source
      /\ \/ \E p \in Processes : pc[p] = "materialize"
         \/ working = rev[pointer].source
  BY <1>3 DEF SyncInv, WorkingFileInSync
<1>5. \A r \in DOMAIN rev : r \in DOMAIN rev' /\ rev'[r] = rev[r]
  BY <1>1, PublishedStays
<1>6. ASSUME NEW q \in Processes, pc'[q] = "materialize"
      PROVE  working' = rev'[current'[q]].source
  <2>1. /\ current'[q] = current[q]
        /\ pc'[q] = pc[q] \/ SwapPointer(q)
        /\ pc[q] \in {"swap", "materialize"}
    BY <1>1, <1>3, <1>6, EnterSwap
       DEF Fail, Publish, SwapPointer, Materialize, Goto, TypeOK
  <2>2. \A p \in Processes : pc[p] = "materialize" => p = q
    BY <1>1, <1>3, <2>1, Alone DEF LockedSteps, Steps
  <2>3. working' = working
    <3>1. ASSUME NEW p \in Processes, Materialize(p) PROVE FALSE
      <4>1. pc[p] = "materialize" /\ pc'[p] = "committed"
        BY <1>1, <3>1 DEF Materialize, Goto, TypeOK
      <4>2. p = q
        BY <2>2, <4>1
      <4> QED
        BY <1>6, <4>1, <4>2
    <3> QED
      BY <1>3, <3>1, WorkingUntouched
  <2>4. working = rev[current[q]].source
    <3>1. CASE pc[q] = "materialize"
      BY <1>4, <3>1
    <3>2. CASE pc[q] = "swap"
      BY <1>1, <1>3, <1>4, <2>2, <3>2 DEF LeaseInv
    <3> QED
      BY <2>1, <3>1, <3>2
  <2>5. current[q] \in DOMAIN rev
    BY <2>1 DEF SyncInv, SourceOK
  <2> QED
    BY <1>5, <2>1, <2>3, <2>4, <2>5
<1>7. ASSUME \A p \in Processes : pc'[p] # "materialize"
      PROVE  working' = rev'[pointer'].source
  <2>1. ASSUME NEW p \in Processes, Materialize(p)
        PROVE  working' = rev'[pointer'].source
    <3>1. /\ pc[p] = "materialize" /\ pointer' = pointer /\ rev' = rev
          /\ working' = CASE Op(cmd[p]).kind = "source" -> new[p]
                          [] MovesHistory(cmd[p]) -> rev[pointer].source
                          [] OTHER -> working
      BY <2>1 DEF Materialize, Store
    <3>2. new[p] = pointer /\ working = rev[current[p]].source
      BY <1>3, <1>4, <3>1 DEF ReceiptInv, Effective
    <3>3. /\ Op(cmd[p]).kind = "source" => rev[new[p]].source = new[p]
          /\ Op(cmd[p]).kind \notin {"source", "undo", "redo"} =>
               rev[new[p]].source = rev[current[p]].source
      BY <3>1 DEF SyncInv, SourceOK
    <3>4. CASE Op(cmd[p]).kind = "source"
      BY <3>1, <3>2, <3>3, <3>4 DEF MovesHistory
    <3>5. CASE Op(cmd[p]).kind \in {"undo", "redo"}
      BY <3>1, <3>2, <3>5 DEF MovesHistory
    <3>6. CASE Op(cmd[p]).kind \notin {"source", "undo", "redo"}
      BY <3>1, <3>2, <3>3, <3>6 DEF MovesHistory
    <3> QED
      BY <3>4, <3>5, <3>6
  <2>2. CASE \A p \in Processes : ~Materialize(p)
    <3>1. working' = working
      BY <1>3, <2>2, WorkingUntouched
    <3>2. \A p \in Processes : ~SwapPointer(p)
      BY <1>1, <1>7 DEF SwapPointer, Goto, TypeOK
    <3>3. pointer' = pointer
      BY <3>2, StoreUntouched DEF Stage, Publish, CallFails
    <3>4. ASSUME NEW p \in Processes, pc[p] = "materialize" PROVE FALSE
      <4>1. Effective(p) /\ ~RecordSuccess(p)
        BY <3>4 DEF Effective, RecordSuccess
      <4>2. pc'[p] = "committed"
        BY <1>1, <1>3, <1>7, <4>1, LeaveEffective DEF Effective
      <4> QED
        BY <1>1, <1>3, <2>2, <3>4, <4>2, EnterSwap DEF Publish, SwapPointer, Fail
    <3> QED
      BY <1>1, <1>4, <1>5, <3>1, <3>3, <3>4
  <2> QED
    BY <2>1, <2>2
<1> QED
  BY <1>6, <1>7

(* Unless a crash, a failed call, an outside edit or a broken lease comes   *)
(* between, the working source file holds the authoritative text whenever  *)
(* no command is on its way from the pointer swap to the file.             *)
THEOREM WorkingFileCorrect == Spec => []WorkingFileInSync
<1>1. Init => SyncInv
  BY DEF Init, SyncInv, SourceOK, WorkingFileInSync, Root, RootRevision
<1>2. IInv /\ IInv' /\ ReceiptInv /\ SyncInv /\ [Next]_vars => SyncInv'
  BY SyncStep
<1>3. SyncInv => WorkingFileInSync
  BY DEF SyncInv
<1> QED
  BY <1>1, <1>2, <1>3, InvCorrect, ReceiptsCorrect, PTL DEF Spec
-----------------------------------------------------------------------------
(* What moving contents between stacks uses of sequences: they are closed  *)
(* under concatenation, which is associative, and under reversal, an       *)
(* involution that swaps the halves of what it reverses.                   *)
Joins(s, t, u) == s \o (t \o u) = (s \o t) \o u

Sums(Q) == \A s, t \in Q : s \o t \in Q
Associates(Q) == \A s, t, u \in Q : Joins(s, t, u)
Swaps(Q) == \A s, t \in Q : Reverse(s \o t) = Reverse(t) \o Reverse(s)
Involutes(Q) == \A s \in Q : Reverse(s) \in Q /\ Reverse(Reverse(s)) = s

(* The sequences over any set are such a set of tapes. *)
LEMMA SeqReversible ==
  \A S : Sums(Seq(S)) /\ Associates(Seq(S)) /\ Swaps(Seq(S)) /\ Involutes(Seq(S))
<1> SUFFICES ASSUME NEW S
             PROVE  Sums(Seq(S)) /\ Associates(Seq(S)) /\ Swaps(Seq(S)) /\ Involutes(Seq(S))
  OBVIOUS
<1>1. Sums(Seq(S))
  BY ConcatProperties DEF Sums
<1>2. Associates(Seq(S))
  BY Assoc DEF Associates, Joins
<1>3. Swaps(Seq(S))
  BY ReverseOfConcat DEF Swaps
<1>4. Involutes(Seq(S))
  BY ReverseSeq, ReverseTwice DEF Involutes
<1> QED
  BY <1>1, <1>2, <1>3, <1>4

(* Taking p from above d \o y and putting it, reversed, on o \o x, where x *)
(* and then o's reversal came next, leaves the whole as it was.            *)
Turns(d, y, p, o, x) ==
  (d \o y) \o Reverse((o \o x) \o Reverse(p)) = (((d \o y) \o p) \o x) \o Reverse(o)

(* It does so in whatever is concatenated and reversed as sequences are. *)
LEMMA TurnOver ==
  ASSUME NEW Q, Sums(Q), Swaps(Q), Associates(Q), Involutes(Q),
         NEW d \in Q, NEW p \in Q, NEW o \in Q,
         NEW x \in Q, Reverse(x) = x, NEW y \in Q
  PROVE  Turns(d, y, p, o, x)
<1> DEFINE low == d \o y
           back == Reverse(o)
<1>1. back \in Q /\ Reverse(p) \in Q /\ Reverse(Reverse(p)) = p
  BY Zenon DEF Involutes
<1>2. low \in Q /\ o \o x \in Q /\ p \o x \in Q
  BY Zenon DEF Sums
<1>3. Reverse(o \o x) = x \o back
  BY Zenon DEF Swaps
<1>4. Reverse((o \o x) \o Reverse(p)) = Reverse(Reverse(p)) \o Reverse(o \o x)
  BY <1>1, <1>2, Zenon DEF Swaps
<1> HIDE DEF low, back
<1>5. Joins(p, x, back)
  BY <1>1, Zenon DEF Associates
<1>6. Joins(low, p \o x, back)
  BY <1>1, <1>2, Zenon DEF Associates
<1>7. Joins(low, p, x)
  BY <1>2, Zenon DEF Associates
<1>8. low \o Reverse((o \o x) \o Reverse(p)) = ((low \o p) \o x) \o back
  BY <1>1, <1>3, <1>4, <1>5, <1>6, <1>7, Zenon DEF Joins
<1> QED
  BY <1>8, Zenon DEF low, back, Turns

(* Moving down the one stack and up the other does it, in both directions. *)
LEMMA MoveKeepsTape ==
  ASSUME NEW S, NEW from \in Seq(S), NEW onto \in Seq(S), NEW x \in S,
         NEW left \in Nat, left < Len(from)
  PROVE  LET y == from[left + 1]
             passed == SubSeq(from, left + 2, Len(from))
             down == SubSeq(from, 1, left) IN
           /\ from = (down \o <<y>>) \o passed
           /\ Turns(down, <<y>>, passed, onto, <<x>>)
           /\ Turns(onto, <<x>>, Reverse(passed), down, <<y>>)
           /\ Reverse(Reverse(passed)) = passed
<1> DEFINE y == from[left + 1]
           passed == SubSeq(from, left + 2, Len(from))
           down == SubSeq(from, 1, left)
<1>1. left + 1 \in 1..Len(from) /\ Len(from) \in Nat
  BY LenProperties
<1>2. y \in S /\ passed \in Seq(S) /\ down \in Seq(S)
  <2>1. y \in S
    BY <1>1, ElementOfSeq
  <2>2. passed \in Seq(S)
    BY <1>1, PieceSeq
  <2>3. down \in Seq(S)
    BY <1>1, PieceSeq
  <2> QED
    BY <2>1, <2>2, <2>3
<1>3. from = (down \o <<y>>) \o passed
  <2>1. (left + 1) - 1 = left /\ (left + 1) + 1 = left + 2
    BY <1>1
  <2>2. from = (SubSeq(from, 1, (left + 1) - 1) \o <<from[left + 1]>>)
                 \o SubSeq(from, (left + 1) + 1, Len(from))
    BY <1>1, SplitAt
  <2> QED
    BY <2>1, <2>2
<1> HIDE DEF y, passed, down
<1> DEFINE Q == Seq(S)
<1>4. <<x>> \in Q /\ <<y>> \in Q
  BY <1>2
<1>5. /\ Sums(Q) /\ Swaps(Q) /\ Associates(Q) /\ Involutes(Q)
      /\ <<x>> \in Q /\ <<y>> \in Q /\ down \in Q /\ passed \in Q /\ onto \in Q
      /\ Reverse(<<x>>) = <<x>> /\ Reverse(<<y>>) = <<y>>
  BY <1>2, <1>4, SeqReversible, ReverseShort, Zenon
<1> HIDE DEF Q
<1>6. Reverse(passed) \in Q /\ Reverse(Reverse(passed)) = passed
  BY <1>5, Zenon DEF Involutes
<1>7. Turns(down, <<y>>, passed, onto, <<x>>)
  BY <1>5, TurnOver, Zenon
<1>8. Turns(onto, <<x>>, Reverse(passed), down, <<y>>)
  BY <1>5, <1>6, TurnOver, Zenon
<1> QED
  BY <1>3, <1>6, <1>7, <1>8 DEF y, passed, down

(* The contents an editor can move through from a revision, as in Tape. *)
TapeOf(v) == v.undo \o <<v.content>> \o Reverse(v.redo)

(* Contents in the order they were made, none of them after revision n. *)
Rising(t, n) ==
  \A i \in DOMAIN t : t[i] <= n /\ \A j \in DOMAIN t : i < j => t[i] < t[j]

(* HistoryRestores, of any store; that a revision holds no content younger *)
(* than itself is what an edit's new content needs to come last.           *)
Restores(f) ==
  \A r \in DOMAIN f :
    /\ Rising(TapeOf(f[r]), r)
    /\ f[r].source = f[f[r].content].source
    /\ r # Root =>
         TapeOf(f[r]) = IF f[r].content = r
                          THEN f[f[r].parent].undo \o <<f[f[r].parent].content, r>>
                          ELSE TapeOf(f[f[r].parent])

(* Cutting a rising tape after its present content and adding a younger    *)
(* one leaves it rising.                                                   *)
LEMMA EditRises ==
  ASSUME NEW u \in Seq(Nat), NEW x \in Nat, NEW s \in Seq(Nat), NEW n \in Nat,
         Rising(u \o <<x>> \o s, n), NEW id \in Nat, n < id
  PROVE  Rising(u \o <<x, id>>, id)
<1> DEFINE t == (u \o <<x>>) \o s
           e == u \o <<x, id>>
           m == Len(u)
<1>1. m \in Nat /\ Len(s) \in Nat
  BY LenProperties
<1>2. /\ u \o <<x>> \in Seq(Nat) /\ Len(u \o <<x>>) = m + 1
      /\ \A i \in 1..m : (u \o <<x>>)[i] = u[i]
      /\ (u \o <<x>>)[m + 1] = x
  BY ConcatProperties
<1>3. /\ DOMAIN t = 1..(m + 1) + Len(s)
      /\ \A i \in 1..m + 1 : t[i] = (u \o <<x>>)[i]
  <2> DEFINE h == u \o <<x>>
  <2>1. h \in Seq(Nat) /\ Len(h) = m + 1
    BY <1>2
  <2> HIDE DEF h
  <2>2. /\ h \o s \in Seq(Nat) /\ Len(h \o s) = Len(h) + Len(s)
        /\ \A i \in 1..Len(h) + Len(s) : (h \o s)[i] = IF i <= Len(h) THEN h[i] ELSE s[i - Len(h)]
    BY <2>1, ConcatProperties
  <2>3. DOMAIN (h \o s) = 1..Len(h \o s)
    BY <2>2, LenProperties
  <2> QED
    BY <1>1, <2>1, <2>2, <2>3 DEF h
<1>4. /\ \A i \in 1..m : i \in DOMAIN t /\ t[i] = u[i]
      /\ m + 1 \in DOMAIN t /\ t[m + 1] = x
  BY <1>1, <1>2, <1>3
<1>5. /\ DOMAIN e = 1..m + 2
      /\ \A i \in 1..m : e[i] = u[i]
      /\ e[m + 1] = x /\ e[m + 2] = id
  BY ConcatProperties
<1>6. \A i \in 1..m : u[i] \in Nat
  BY ElementOfSeq
<1> HIDE DEF t, e, m
<1>7. \A i \in 1..m + 1 : i \in DOMAIN t /\ e[i] = t[i] /\ e[i] \in Nat
  <2> SUFFICES ASSUME NEW i \in 1..m + 1 PROVE i \in DOMAIN t /\ e[i] = t[i] /\ e[i] \in Nat
    OBVIOUS
  <2>1. CASE i \in 1..m
    BY <1>4, <1>5, <1>6, <2>1
  <2>2. CASE i = m + 1
    BY <1>4, <1>5, <2>2
  <2>3. i \in 1..m \/ i = m + 1
    BY <1>1
  <2> QED
    BY <2>1, <2>2, <2>3
<1>8. Rising(t, n)
  BY DEF t
<1>9. ASSUME NEW i \in 1..m + 1 PROVE e[i] < id
  BY <1>7, <1>8, <1>9 DEF Rising
<1>10. ASSUME NEW i \in 1..m + 2, NEW j \in 1..m + 2, i < j PROVE e[i] < e[j]
  <2>1. i \in 1..m + 1
    BY <1>1, <1>10
  <2>2. CASE j = m + 2
    BY <1>5, <1>9, <2>1, <2>2
  <2>3. CASE j \in 1..m + 1
    BY <1>7, <1>8, <1>10, <2>1, <2>3 DEF Rising
  <2> QED
    BY <1>1, <2>2, <2>3
<1>11. ASSUME NEW i \in 1..m + 2 PROVE e[i] <= id
  <2>1. CASE i \in 1..m + 1
    BY <1>7, <1>9, <2>1
  <2>2. CASE i = m + 2
    BY <1>5, <2>2
  <2>3. i \in 1..m + 1 \/ i = m + 2
    BY <1>1, <1>11
  <2> QED
    BY <2>1, <2>2, <2>3
<1>12. Rising(e, id)
  BY <1>5, <1>10, <1>11 DEF Rising
<1> QED
  BY <1>12 DEF e

(* What a command publishes: a move of the history keeps the tape of the   *)
(* parent and takes an old content with its source; any other edit puts    *)
(* the new revision after the parent's content.                            *)
LEMMA NextTape ==
  ASSUME TypeOK, StoreInv, NEW c \in Commands, issued[c] # None,
         NEW parent \in DOMAIN rev, Fits(c, parent), NEW id \in Nat
  PROVE  LET n == NextRevision(c, parent, id)
             r == rev[parent] IN
           \/ /\ TapeOf(n) = TapeOf(r)
              /\ n.content \in DOMAIN rev /\ n.source = rev[n.content].source
           \/ /\ TapeOf(n) = r.undo \o <<r.content, id>>
              /\ n.content = id
<1> DEFINE r == rev[parent]
           n == NextRevision(c, parent, id)
<1>1. Op(c).steps \in Nat \ {0}
  <2>1. issued[c] \in Envelope
    BY DEF TypeOK
  <2> QED
    BY <2>1, EngineAssumption DEF Op, Envelope
<1>2. /\ r.content \in DOMAIN rev /\ r.undo \in Seq(DOMAIN rev)
      /\ r.redo \in Seq(DOMAIN rev)
  BY DEF StoreInv, Refers
<1> HIDE DEF r
<1>3. CASE Op(c).kind = "undo"
  <2> DEFINE left == Len(r.undo) - Op(c).steps
             passed == SubSeq(r.undo, left + 2, Len(r.undo))
             up == (r.redo \o <<r.content>>) \o Reverse(passed)
             down == SubSeq(r.undo, 1, left)
             y == r.undo[left + 1]
  <2>1. left \in Nat /\ left < Len(r.undo) /\ left + 1 \in 1..Len(r.undo)
    <3>1. Op(c).steps <= Len(r.undo) /\ Len(r.undo) \in Nat
      BY <1>2, <1>3, LenProperties DEF Fits, r
    <3> QED
      BY <1>1, <3>1
  <2>2. n.undo = down /\ n.redo = up /\ n.content = y /\ n.source = rev[y].source
    BY <1>3 DEF NextRevision, NextUndo, r
  <2>3. y \in DOMAIN rev
    BY <1>2, <2>1, ElementOfSeq
  <2> HIDE DEF left
  <2>4. /\ r.undo = (down \o <<y>>) \o passed
        /\ Turns(down, <<y>>, passed, r.redo, <<r.content>>)
        /\ Turns(r.redo, <<r.content>>, Reverse(passed), down, <<y>>)
        /\ Reverse(Reverse(passed)) = passed
    BY <1>2, <2>1, MoveKeepsTape
  <2> HIDE DEF n, y, passed, down
  <2>5. TapeOf(n) = TapeOf(r)
    BY <2>2, <2>4, Zenon DEF TapeOf, Turns
  <2> QED
    BY <2>2, <2>3, <2>5 DEF n, r
<1>4. CASE Op(c).kind = "redo"
  <2> DEFINE left == Len(r.redo) - Op(c).steps
             passed == SubSeq(r.redo, left + 2, Len(r.redo))
             up == (r.undo \o <<r.content>>) \o Reverse(passed)
             down == SubSeq(r.redo, 1, left)
             y == r.redo[left + 1]
  <2>1. left \in Nat /\ left < Len(r.redo) /\ left + 1 \in 1..Len(r.redo)
    <3>1. Op(c).steps <= Len(r.redo) /\ Len(r.redo) \in Nat
      BY <1>2, <1>4, LenProperties DEF Fits, r
    <3> QED
      BY <1>1, <3>1
  <2>2. n.undo = up /\ n.redo = down /\ n.content = y /\ n.source = rev[y].source
    BY <1>4 DEF NextRevision, NextRedo, r
  <2>3. y \in DOMAIN rev
    BY <1>2, <2>1, ElementOfSeq
  <2> HIDE DEF left
  <2>4. /\ r.redo = (down \o <<y>>) \o passed
        /\ Turns(down, <<y>>, passed, r.undo, <<r.content>>)
        /\ Turns(r.undo, <<r.content>>, Reverse(passed), down, <<y>>)
        /\ Reverse(Reverse(passed)) = passed
    BY <1>2, <2>1, MoveKeepsTape
  <2> HIDE DEF n, y, passed, down
  <2>5. TapeOf(n) = TapeOf(r)
    BY <2>2, <2>4, Zenon DEF TapeOf, Turns
  <2> QED
    BY <2>2, <2>3, <2>5 DEF n, r
<1>5. CASE Op(c).kind \notin {"undo", "redo"}
  <2>1. n.undo = Append(r.undo, r.content) /\ n.redo = <<>> /\ n.content = id
    BY <1>5 DEF NextRevision, NextEdit, r
  <2> HIDE DEF n
  <2>2. TapeOf(n) = (Append(r.undo, r.content) \o <<id>>) \o <<>>
    BY <2>1, ReverseShort DEF TapeOf
  <2>3. (Append(r.undo, r.content) \o <<id>>) \o <<>> = r.undo \o <<r.content, id>>
    <3> DEFINE u == r.undo
               x == r.content
               S == DOMAIN rev \cup {id}
    <3>1. u \in Seq(S) /\ x \in S /\ id \in S
      BY <1>2, SeqMonotonic
    <3> HIDE DEF u, x, S
    <3>2. Append(u, x) = u \o <<x>>
      BY <3>1, AppendIsConcat
    <3>3. (u \o <<x>>) \o <<id>> = u \o (<<x>> \o <<id>>)
      <4>1. <<x>> \in Seq(S) /\ <<id>> \in Seq(S)
        BY <3>1
      <4> QED
        BY <3>1, <4>1, Assoc
    <3>4. <<x>> \o <<id>> = <<x, id>>
      <4>1. <<x>> \in Seq(S)
        BY <3>1
      <4>2. Append(<<x>>, id) = <<x>> \o <<id>>
        BY <3>1, <4>1, AppendIsConcat
      <4>3. Append(<<x>>, id) = <<x, id>>
        BY <3>1, AppendOne
      <4> QED
        BY <4>2, <4>3
    <3>5. u \o <<x, id>> \in Seq(S)
      <4>1. <<x, id>> \in Seq(S)
        BY <3>1
      <4> QED
        BY <3>1, <4>1, ConcatProperties
    <3>6. (u \o <<x, id>>) \o <<>> = u \o <<x, id>>
      BY <3>5, ConcatEmptySeq
    <3> QED
      BY <3>2, <3>3, <3>4, <3>6 DEF u, x
  <2> QED
    BY <2>1, <2>2, <2>3 DEF n, r
<1> QED
  BY <1>3, <1>4, <1>5

(* Restores is HistoryRestores, of the store the engine has. *)
LEMMA RestoresMeans == TypeOK /\ StoreInv /\ Restores(rev) => HistoryRestores
<1> SUFFICES ASSUME TypeOK, StoreInv, Restores(rev) PROVE HistoryRestores
  OBVIOUS
<1>1. \A r \in DOMAIN rev : Tape(r) = TapeOf(rev[r])
  BY DEF Tape, TapeOf
<1>2. ContentIsRestored
  BY DEF ContentIsRestored, Restores
<1>3. ASSUME NEW r \in DOMAIN rev \ {Root}
      PROVE  /\ \A i, j \in DOMAIN Tape(r) : i < j => Tape(r)[i] < Tape(r)[j]
             /\ IF rev[r].content = r
                  THEN Tape(r) = rev[rev[r].parent].undo \o <<rev[rev[r].parent].content, r>>
                  ELSE Tape(r) = Tape(rev[r].parent)
  <2>1. rev[r].parent \in DOMAIN rev /\ Tape(r) = TapeOf(rev[r])
        /\ Tape(rev[r].parent) = TapeOf(rev[rev[r].parent])
    BY <1>1 DEF StoreInv
  <2>2. \A i, j \in DOMAIN Tape(r) : i < j => Tape(r)[i] < Tape(r)[j]
    BY <2>1 DEF Restores, Rising
  <2> QED
    BY <2>1, <2>2 DEF Restores
<1> QED
  BY <1>2, <1>3 DEF HistoryRestores, HistoryIsATape

(* The project a folder is initialised with has one content. *)
LEMMA RestoresInit == Init => Restores(rev)
<1> SUFFICES ASSUME Init PROVE Restores(rev)
  OBVIOUS
<1>1. DOMAIN rev = {Root} /\ rev[Root] = RootRevision
  BY DEF Init
<1>2. TapeOf(RootRevision) = <<Root>>
  <2>1. TapeOf(RootRevision) = (<<>> \o <<Root>>) \o <<>>
    BY ReverseShort DEF TapeOf, RootRevision
  <2>2. <<Root>> \in Seq(Nat)
    BY DEF Root
  <2> QED
    BY <2>1, <2>2, ConcatEmptySeq
<1>3. Rising(<<Root>>, Root)
  BY DEF Rising, Root
<1> QED
  BY <1>1, <1>2, <1>3 DEF Restores, RootRevision

(* Each step keeps what is published, and what it publishes restores. *)
LEMMA RestoresStep ==
  TypeOK /\ StoreInv /\ JobInv /\ Restores(rev) /\ [Next]_vars => Restores(rev')
<1> SUFFICES ASSUME TypeOK, StoreInv, JobInv, Restores(rev), [Next]_vars
             PROVE  Restores(rev')
  OBVIOUS
<1> DEFINE Good(r) ==
      /\ Rising(TapeOf(rev'[r]), r)
      /\ rev'[r].source = rev'[rev'[r].content].source
      /\ r # Root =>
           TapeOf(rev'[r]) =
             IF rev'[r].content = r
               THEN rev'[rev'[r].parent].undo \o <<rev'[rev'[r].parent].content, r>>
               ELSE TapeOf(rev'[rev'[r].parent])
<1>1. \A r \in DOMAIN rev : r \in DOMAIN rev' /\ rev'[r] = rev[r]
  BY PublishedStays
<1>2. \A r \in DOMAIN rev : rev[r].content \in DOMAIN rev /\ (r # Root => rev[r].parent \in DOMAIN rev)
  BY DEF StoreInv, Refers
<1>3. ASSUME NEW r \in DOMAIN rev PROVE Good(r)
  <2>1. /\ rev'[r] = rev[r] /\ rev'[rev[r].content] = rev[rev[r].content]
        /\ r # Root => rev'[rev[r].parent] = rev[rev[r].parent]
    BY <1>1, <1>2, <1>3
  <2> QED
    BY <1>3, <2>1 DEF Restores
<1>4. ASSUME NEW r \in DOMAIN rev', r \notin DOMAIN rev PROVE Good(r)
  <2>1. PICK p \in Processes : Publish(p)
    BY <1>4, StoreUntouched DEF Stage, SwapPointer, CallFails
  <2> DEFINE q == current[p]
             n == NextRevision(cmd[p], current[p], new[p])
  <2>2. /\ r = new[p] /\ r \in Nat /\ r # Root /\ q \in DOMAIN rev /\ q < r /\ n.parent = q
        /\ rev'[r] = n
    BY <1>4, <2>1, PublishSound DEF Publish, StoreInv
  <2>3. \/ /\ TapeOf(n) = TapeOf(rev[q])
           /\ n.content \in DOMAIN rev /\ n.source = rev[n.content].source
        \/ /\ TapeOf(n) = rev[q].undo \o <<rev[q].content, r>>
           /\ n.content = r
    <3>1. /\ cmd[p] \in Commands /\ issued[cmd[p]] # None /\ Fits(cmd[p], current[p])
      BY <2>1 DEF Publish, TypeOK, JobInv, JobOK
    <3> QED
      BY <2>2, <3>1, NextTape
  <2> HIDE DEF q, n
  <2>4. /\ rev[q].undo \in Seq(Nat) /\ rev[q].content \in Nat /\ rev[q].redo \in Seq(Nat)
        /\ q \in Nat
    BY <2>2 DEF TypeOK, Revision
  <2>5. Rising(TapeOf(rev[q]), q)
    BY <2>2 DEF Restores
  <2>6. rev'[q] = rev[q]
    BY <1>1, <2>2
  <2>7. CASE TapeOf(n) = TapeOf(rev[q]) /\ n.content \in DOMAIN rev
             /\ n.source = rev[n.content].source
    <3>1. n.content # r /\ rev'[n.content] = rev[n.content]
      BY <1>1, <1>4, <2>7
    <3>2. Rising(TapeOf(rev[q]), r)
      <4> DEFINE t == TapeOf(rev[q])
      <4>1. \A i \in DOMAIN t : t[i] \in Nat
        <5>1. <<rev[q].content>> \in Seq(Nat) /\ Reverse(rev[q].redo) \in Seq(Nat)
          BY <2>4, ReverseSeq
        <5>2. rev[q].undo \o <<rev[q].content>> \in Seq(Nat)
          BY <2>4, <5>1, ConcatProperties
        <5>3. t \in Seq(Nat)
          BY <5>1, <5>2, ConcatProperties DEF TapeOf
        <5> HIDE DEF t
        <5> QED
          BY <5>3, ElementOfSeq, LenProperties
      <4>2. Rising(t, q)
        BY <2>5
      <4> HIDE DEF t
      <4>3. Rising(t, r)
        BY <2>2, <2>4, <4>1, <4>2 DEF Rising
      <4> QED
        BY <4>3 DEF t
    <3> QED
      BY <2>2, <2>6, <2>7, <3>1, <3>2
  <2>8. CASE TapeOf(n) = rev[q].undo \o <<rev[q].content, r>> /\ n.content = r
    <3>1. Rising(rev[q].undo \o <<rev[q].content, r>>, r)
      <4> DEFINE u == rev[q].undo
                 x == rev[q].content
                 d == Reverse(rev[q].redo)
      <4>1. d \in Seq(Nat) /\ u \in Seq(Nat) /\ x \in Nat
        BY <2>4, ReverseSeq
      <4>2. Rising((u \o <<x>>) \o d, q)
        BY <2>5 DEF TapeOf
      <4> HIDE DEF u, x, d
      <4>3. Rising(u \o <<x, r>>, r)
        BY <2>2, <2>4, <4>1, <4>2, EditRises
      <4> QED
        BY <4>3 DEF u, x
    <3> QED
      BY <2>2, <2>6, <2>8, <3>1
  <2> QED
    BY <2>3, <2>7, <2>8
<1> QED
  BY <1>3, <1>4 DEF Restores

(* Any sequence of edits, undos and redos of several steps moves along one  *)
(* tape of contents and restores exactly what it reaches, whatever crashes,*)
(* fails or breaks the lock's lease in between.                            *)
THEOREM HistoryCorrect == Spec => []HistoryRestores
<1>1. Init => Restores(rev)
  BY RestoresInit
<1>2. IInv /\ IInv' /\ Restores(rev) /\ [Next]_vars => Restores(rev)'
  BY RestoresStep DEF IInv, Restores
<1>3. IInv /\ Restores(rev) => HistoryRestores
  BY RestoresMeans DEF IInv
<1> QED
  BY <1>1, <1>2, <1>3, InvCorrect, PTL DEF Spec
-----------------------------------------------------------------------------
(* The members of S up to s, and the i-th of S in their order. *)
UpTo(S, s) == {q \in S : q <= s}
Nth(S, i) == CHOOSE s \in S : Cardinality(UpTo(S, s)) = i

(* Later members have more members up to them. *)
LEMMA UpToGrows ==
  ASSUME NEW S \in SUBSET Nat, IsFiniteSet(S), NEW s \in S, NEW t \in S, s < t
  PROVE  Cardinality(UpTo(S, s)) < Cardinality(UpTo(S, t))
<1> DEFINE A == UpTo(S, s)
           B == UpTo(S, t)
<1>1. A \in SUBSET B /\ t \in B /\ t \notin A /\ B \in SUBSET S
  <2>1. s \in Nat /\ t \in Nat /\ \A q \in S : q \in Nat
    OBVIOUS
  <2>2. \A q \in S : q <= s => q <= t
    BY <2>1
  <2>3. ~(t <= s) /\ t <= t
    BY <2>1
  <2> QED
    BY <2>2, <2>3 DEF UpTo
<1>2. A # B
  BY <1>1
<1> HIDE DEF A, B
<1>3. IsFiniteSet(B)
  BY <1>1, FS_Subset
<1>4. Cardinality(B) \in Nat /\ Cardinality(A) <= Cardinality(B)
      /\ Cardinality(A) # Cardinality(B)
  BY <1>1, <1>2, <1>3, FS_Subset, FS_CardinalityType
<1>5. Cardinality(A) \in Nat
  BY <1>1, <1>3, FS_Subset, FS_CardinalityType
<1>6. Cardinality(A) < Cardinality(B)
  BY <1>4, <1>5
<1> QED
  BY <1>6 DEF A, B

(* Each member has its own number, and each number its member. *)
LEMMA Numbered ==
  ASSUME NEW S \in SUBSET Nat, IsFiniteSet(S)
  PROVE  /\ \A s \in S : Cardinality(UpTo(S, s)) \in 1..Cardinality(S)
         /\ \A s, t \in S : Cardinality(UpTo(S, s)) = Cardinality(UpTo(S, t)) => s = t
         /\ \A i \in 1..Cardinality(S) : \E s \in S : Cardinality(UpTo(S, s)) = i
<1> DEFINE n == Cardinality(S)
           rank == [s \in S |-> Cardinality(UpTo(S, s))]
<1>1. n \in Nat
  BY FS_CardinalityType
<1>2. ASSUME NEW s \in S PROVE Cardinality(UpTo(S, s)) \in 1..n
  <2> DEFINE A == UpTo(S, s)
  <2>1. A \in SUBSET S /\ A # {}
    BY DEF UpTo
  <2> HIDE DEF A
  <2>2. IsFiniteSet(A) /\ Cardinality(A) <= n
    BY <2>1, FS_Subset
  <2>3. Cardinality(A) \in Nat /\ Cardinality(A) # 0
    BY <2>1, <2>2, FS_CardinalityType, FS_EmptySet
  <2>4. Cardinality(A) \in 1..n
    BY <1>1, <2>2, <2>3
  <2> QED
    BY <2>4 DEF A
<1>3. ASSUME NEW s \in S, NEW t \in S, Cardinality(UpTo(S, s)) = Cardinality(UpTo(S, t))
      PROVE  s = t
  <2>1. s \in Nat /\ t \in Nat
    OBVIOUS
  <2>2. Cardinality(UpTo(S, s)) \in Nat /\ Cardinality(UpTo(S, t)) \in Nat
    BY <1>1, <1>2
  <2>3. ~(s < t) /\ ~(t < s)
    BY <1>3, <2>2, UpToGrows
  <2> QED
    BY <2>1, <2>3
<1>4. rank \in Injection(S, 1..n)
  BY <1>2, <1>3, Zenon DEF Injection, IsInjective
<1>5. IsFiniteSet(1..n) /\ Cardinality(1..n) = n
  BY <1>1, FS_Interval
<1> HIDE DEF rank, n
<1>6. rank \in Surjection(S, 1..n)
  BY <1>4, <1>5, FS_Injection DEF n
<1>7. \A i \in 1..n : \E s \in S : rank[s] = i
  BY <1>6 DEF Surjection
<1> QED
  BY <1>2, <1>3, <1>7 DEF rank, n

(* So the i-th member is the one numbered i. *)
LEMMA NthIs ==
  ASSUME NEW S \in SUBSET Nat, IsFiniteSet(S), NEW i \in 1..Cardinality(S)
  PROVE  /\ Nth(S, i) \in S /\ Cardinality(UpTo(S, Nth(S, i))) = i
         /\ \A s \in S : Cardinality(UpTo(S, s)) = i => s = Nth(S, i)
<1>1. \E s \in S : Cardinality(UpTo(S, s)) = i
  BY Numbered
<1>2. Nth(S, i) \in S /\ Cardinality(UpTo(S, Nth(S, i))) = i
  BY <1>1 DEF Nth
<1>3. \A s, t \in S : Cardinality(UpTo(S, s)) = Cardinality(UpTo(S, t)) => s = t
  BY Numbered
<1>4. ASSUME NEW s \in S, Cardinality(UpTo(S, s)) = i PROVE s = Nth(S, i)
  BY <1>2, <1>3, <1>4
<1> QED
  BY <1>2, <1>4

(* A greater member comes last and leaves the others their numbers. *)
LEMMA NthOfMore ==
  ASSUME NEW S \in SUBSET Nat, IsFiniteSet(S), NEW m \in Nat, \A s \in S : s < m
  PROVE  LET T == S \cup {m} IN
           /\ IsFiniteSet(T) /\ Cardinality(T) = Cardinality(S) + 1
           /\ \A i \in 1..Cardinality(S) : Nth(T, i) = Nth(S, i)
           /\ Nth(T, Cardinality(T)) = m
<1> DEFINE T == S \cup {m}
           n == Cardinality(S)
<1>1. T \in SUBSET Nat /\ m \in T /\ m \notin S /\ S \subseteq T
  OBVIOUS
<1>2. IsFiniteSet(T) /\ Cardinality(T) = n + 1 /\ n \in Nat
  BY <1>1, FS_AddElement, FS_CardinalityType
<1>3. ASSUME NEW s \in S PROVE UpTo(T, s) = UpTo(S, s)
  <2>1. s \in Nat /\ s < m
    OBVIOUS
  <2>2. ~(m <= s)
    BY <2>1
  <2> QED
    BY <2>2 DEF UpTo
<1>4. UpTo(T, m) = T
  <2>1. \A q \in T : q <= m
    OBVIOUS
  <2> QED
    BY <2>1 DEF UpTo
<1>5. ASSUME NEW i \in 1..n PROVE Nth(T, i) = Nth(S, i)
  <2>1. Nth(S, i) \in S /\ Cardinality(UpTo(S, Nth(S, i))) = i
    BY NthIs
  <2>2. Nth(S, i) \in T /\ Cardinality(UpTo(T, Nth(S, i))) = i
    BY <1>3, <2>1
  <2>3. i \in 1..Cardinality(T)
    BY <1>2
  <2> HIDE DEF T
  <2>4. \A s \in T : Cardinality(UpTo(T, s)) = i => s = Nth(T, i)
    BY <1>1, <1>2, <2>3, NthIs
  <2> QED
    BY <2>2, <2>4
<1>6. Nth(T, n + 1) = m
  <2>1. n + 1 \in 1..Cardinality(T) /\ Cardinality(UpTo(T, m)) = n + 1
    BY <1>2, <1>4
  <2> HIDE DEF T
  <2> QED
    BY <1>1, <1>2, <2>1, NthIs
<1> QED
  BY <1>2, <1>5, <1>6

(* The revisions made on the way to r, and the commands that made them. *)
Since(f, r) == Line(f, r) \ {Root}
Made(f, S) == [i \in 1..Cardinality(S) |-> f[Nth(S, i)].command]

(* A sequence is as long as its domain. *)
LEMMA LenIs ==
  \A Q : \A t \in Seq(Q), n \in Nat : DOMAIN t = 1..n => Len(t) = n
BY LenProperties

(* The log of the abstract specification: the distinct commands of the     *)
(* finitely many revisions from which authority descends.                  *)
LogInv ==
  LET S == Since(rev, pointer) IN
    /\ CommandsTo(pointer) = Made(rev, S)
    /\ S \in SUBSET Nat /\ IsFiniteSet(S)
    /\ \A s \in S : rev[s].command \in Commands
    /\ \A s, t \in S : rev[s].command = rev[t].command => s = t
    /\ CommandsTo(pointer) \in Seq(Commands)
    /\ IsInjective(CommandsTo(pointer))

(* A sound engine has such a log: no command has taken effect twice. *)
LEMMA LogSound == IInv => LogInv
<1> SUFFICES ASSUME IInv PROVE LogInv
  OBVIOUS
<1> DEFINE S == Since(rev, pointer)
           n == Cardinality(S)
<1>1. IsStore(rev) /\ pointer \in DOMAIN rev
  BY StoreIsStore DEF IInv, StoreInv
<1>2. CommandsTo(pointer) = Made(rev, S)
  <2> DEFINE X == Ancestors(pointer) \ {Root}
  <2>1. X = S
    BY AncestorsAreLine DEF Since
  <2>2. CommandsTo(pointer) = Made(rev, X)
    BY DEF CommandsTo, Made, Nth, UpTo
  <2> QED
    BY <2>1, <2>2
<1>3. S \in SUBSET Nat /\ S \subseteq DOMAIN rev \ {Root} /\ \A s \in S : s <= pointer
  BY <1>1, LineBelow DEF Since
<1>4. IsFiniteSet(S)
  <2>1. pointer \in Nat
    BY DEF IInv, TypeOK
  <2> HIDE DEF S
  <2> QED
    BY <1>3, <2>1, FS_BoundedSetOfNaturals
<1>5. \A s \in S : rev[s].command \in Commands
  BY <1>3 DEF IInv, LineageInv
<1>6. \A s, t \in S : rev[s].command = rev[t].command => s = t
  BY <1>1, CommandsOnLine DEF Since
<1>7. n \in Nat
  BY <1>4, FS_CardinalityType
<1> HIDE DEF S
<1>8. \A i \in 1..n : Nth(S, i) \in S /\ Cardinality(UpTo(S, Nth(S, i))) = i
  BY <1>3, <1>4, NthIs
<1> HIDE DEF n
<1>9. DOMAIN Made(rev, S) = 1..n /\ \A i \in 1..n : Made(rev, S)[i] = rev[Nth(S, i)].command
  BY DEF Made, n
<1>10. Made(rev, S) \in Seq(Commands)
  <2>1. Made(rev, S) \in [1..n -> Commands]
    BY <1>5, <1>8 DEF Made, n
  <2> QED
    BY <1>7, <2>1, SeqDef
<1>11. IsInjective(Made(rev, S))
  <2> SUFFICES ASSUME NEW i \in 1..n, NEW j \in 1..n, Made(rev, S)[i] = Made(rev, S)[j]
               PROVE  i = j
    BY <1>9 DEF IsInjective
  <2>1. Nth(S, i) = Nth(S, j)
    BY <1>6, <1>8, <1>9
  <2> QED
    BY <1>8, <2>1
<1> QED
  BY <1>2, <1>3, <1>4, <1>5, <1>6, <1>10, <1>11 DEF LogInv, S

(* Every step of the engine is one of the log, or leaves the log alone. *)
LEMMA LogStep ==
  IInv /\ IInv' /\ LogInv /\ LogInv' /\ [Next]_vars => [Log!Next]_(Log!logVars)
<1> SUFFICES ASSUME IInv, IInv', LogInv, LogInv', [Next]_vars
             PROVE  Log!Next \/ UNCHANGED Log!logVars
  OBVIOUS
<1> DEFINE log == CommandsTo(pointer)
           S == Since(rev, pointer)
           T == Since(rev', pointer')
<1>1. /\ log = Made(rev, S) /\ S \in SUBSET Nat /\ IsFiniteSet(S)
      /\ \A s \in S : rev[s].command \in Commands
      /\ log' = Made(rev', T) /\ T \in SUBSET Nat /\ IsFiniteSet(T)
      /\ \A s \in T : rev'[s].command \in Commands
      /\ \A s, t \in T : rev'[s].command = rev'[t].command => s = t
      /\ log' \in Seq(Commands) /\ IsInjective(log')
  BY DEF LogInv, Since, Line, ClosedIn, Made, Nth, UpTo
<1>2. /\ S \subseteq DOMAIN rev /\ \A s \in S : rev'[s] = rev[s]
  <2>1. S \subseteq DOMAIN rev
    BY DEF Since, Line
  <2> QED
    BY <2>1, PublishedStays DEF IInv
<1>3. \A i \in 1..Cardinality(S) : Nth(S, i) \in S
  BY <1>1, NthIs
<1> HIDE DEF S, T, log
<1>4. CASE pointer' = pointer
  <2>1. T = S
    BY <1>4, LineGrows DEF S, T, Since
  <2>2. log' = log
    BY <1>1, <1>2, <1>3, <2>1 DEF Made
  <2>3. broken' = broken \/ broken' = TRUE
    <3>1. broken \in BOOLEAN /\ broken' \in BOOLEAN
      BY DEF IInv, TypeOK
    <3>2. broken => broken'
      BY BrokenStays DEF IInv
    <3> QED
      BY <3>1, <3>2
  <2> QED
    BY <2>2, <2>3 DEF log, Log!Next, Log!Break, Log!logVars
<1>5. CASE pointer' # pointer
  <2>1. PICK p \in Processes : SwapPointer(p)
    BY <1>5, StoreUntouched DEF Stage, Publish, CallFails
  <2>2. broken' = broken /\ rev' = rev
    BY <2>1 DEF SwapPointer, Mutex
  <2>3. CASE broken
    BY <1>1, <2>2, <2>3 DEF log, Log!Next, Log!Replace, Log!IsInjective, IsInjective
  <2>4. CASE ~broken
    <3> DEFINE m == pointer'
               c == rev[m].command
    <3>1. Line(rev', m) = {m} \cup Line(rev, pointer) /\ m \notin Line(rev, pointer)
      BY <1>5, <2>4, LineGrows
    <3>2. m # Root /\ m \in Nat /\ \A s \in S : s < m
      <4>1. /\ pc[p] = "swap" /\ m = new[p] /\ new[p] \in DOMAIN rev
            /\ rev[new[p]].parent = current[p] /\ current[p] = pointer
        BY <2>1, <2>4 DEF SwapPointer, IInv, JobInv, JobOK, LeaseInv
      <4>2. IsStore(rev) /\ pointer \in DOMAIN rev
        BY StoreIsStore DEF IInv, StoreInv
      <4>3. m # Root /\ pointer < m /\ pointer \in Nat /\ m \in Nat
        BY <4>1, <4>2, EngineAssumption DEF IsStore
      <4>4. \A s \in S : s \in Nat /\ s <= pointer
        BY <4>2, LineBelow DEF S, Since
      <4> QED
        BY <4>3, <4>4
    <3>3. T = S \cup {m}
      BY <3>1, <3>2 DEF S, T, Since
    <3> HIDE DEF m
    <3>4. /\ Cardinality(T) = Cardinality(S) + 1
          /\ \A i \in 1..Cardinality(S) : Nth(T, i) = Nth(S, i)
          /\ Nth(T, Cardinality(T)) = m
      BY <1>1, <3>2, <3>3, NthOfMore
    <3> HIDE DEF c
    <3>5. c \in Commands /\ \A s \in S : rev[s].command # c
      <4>1. m \in T /\ S \subseteq T /\ m \notin S
        BY <3>2, <3>3, <1>1
      <4> QED
        BY <1>1, <2>2, <4>1 DEF c
    <3>6. c \notin ToSet(log)
      BY <1>1, <1>3, <3>5 DEF ToSet, Made
    <3>7. log' = Append(log, c)
      <4> DEFINE k == Cardinality(S)
      <4>1. k \in Nat
        BY <1>1, FS_CardinalityType
      <4>2. log = [i \in 1..k |-> rev[Nth(S, i)].command]
        BY <1>1 DEF Made
      <4>3. log' = [i \in 1..k + 1 |-> rev[Nth(T, i)].command]
        BY <1>1, <2>2, <3>4 DEF Made
      <4> HIDE DEF k
      <4>4. log \in Seq(Commands) /\ Len(log) = k
        <5>1. log \in Seq(Commands)
          BY DEF log, LogInv
        <5>2. DOMAIN log = 1..k
          BY <4>2
        <5> QED
          BY <4>1, <5>1, <5>2, LenIs
      <4>5. log' \in Seq(Commands) /\ Len(log') = k + 1
        <5>1. DOMAIN log' = 1..k + 1 /\ k + 1 \in Nat
          BY <4>1, <4>3
        <5> QED
          BY <1>1, <5>1, LenIs
      <4>6. /\ Append(log, c) \in Seq(Commands) /\ Len(Append(log, c)) = k + 1
            /\ \A i \in 1..k : Append(log, c)[i] = log[i]
            /\ Append(log, c)[k + 1] = c
        BY <3>5, <4>4, AppendProperties
      <4>7. ASSUME NEW i \in 1..k + 1 PROVE log'[i] = Append(log, c)[i]
        <5>1. CASE i \in 1..k
          BY <3>4, <4>2, <4>3, <4>6, <5>1 DEF k
        <5>2. CASE i = k + 1
          <6>1. Nth(T, k + 1) = m
            BY <3>4 DEF k
          <6>2. log'[i] = rev[m].command
            BY <4>3, <5>2, <6>1
          <6>3. c = rev[m].command
            BY DEF c
          <6> QED
            BY <4>6, <5>2, <6>2, <6>3
        <5>3. i \in 1..k \/ i = k + 1
          BY <4>1
        <5> QED
          BY <5>1, <5>2, <5>3
      <4> QED
        BY <4>5, <4>6, <4>7, SeqEqual
    <3> QED
      BY <2>2, <3>5, <3>6, <3>7 DEF log, Log!Next, Log!Accept, Log!ToSet, ToSet
  <2> QED
    BY <2>3, <2>4
<1> QED
  BY <1>4, <1>5

(* The engine implements the log of accepted commands: whatever processes  *)
(* interleave, crash or retry, authority's ancestry grows by one fresh     *)
(* command at a time, and is replaced only under a broken lease.           *)
THEOREM LogImplemented == Spec => ImplementsLog
<1>1. Init /\ LogInv => Log!Init
  <2> SUFFICES ASSUME Init, LogInv PROVE CommandsTo(pointer) = <<>> /\ broken = FALSE
    BY DEF Log!Init
  <2>1. pointer = Root /\ DOMAIN rev = {Root} /\ broken = FALSE
    BY DEF Init, L!Init
  <2>2. Since(rev, pointer) = {}
    BY <2>1 DEF Since, Line
  <2>3. /\ CommandsTo(pointer) = Made(rev, {}) /\ CommandsTo(pointer) \in Seq(Commands)
    BY <2>2 DEF LogInv
  <2>4. DOMAIN Made(rev, {}) = 1..0
    BY FS_EmptySet DEF Made
  <2>5. Len(CommandsTo(pointer)) = 0
    BY <2>3, <2>4, LenIs
  <2> QED
    BY <2>1, <2>3, <2>5, EmptySeq
<1>2. IInv /\ IInv' /\ LogInv /\ LogInv' /\ [Next]_vars => [Log!Next]_(Log!logVars)
  BY LogStep
<1>3. IInv => LogInv
  BY LogSound
<1> QED
  BY <1>1, <1>2, <1>3, InvCorrect, PTL DEF Spec, ImplementsLog, Log!Spec
=============================================================================
