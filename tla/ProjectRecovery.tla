--------------------------- MODULE ProjectRecovery ---------------------------
(* What brings a project folder back: the repairs of the studio server      *)
(* (reliability-service.ts), autosaves (autosave-store.ts) and source edit  *)
(* sessions (source-edit-session.ts), among commands, openings, closings    *)
(* and crashes.  A commit is abbreviated from CommandEngine to the steps    *)
(* that a repair can come between; leases do not lapse here, and file       *)
(* system calls do not fail.  Repairs of the pointer take no lock.          *)
EXTENDS Naturals, FiniteSets

CONSTANTS
  Tasks,         \* requests that the server handles at once
  Sessions,      \* source edit sessions, each used once
  None,
  Ended,         \* of a session: its file has been removed
  Retention,     \* autosaveRetention
  MaxRequests, MaxRevisions, MaxCrashes, MaxOutside  \* bounds

ASSUME RecoveryAssumption ==
  /\ Retention \in Nat \ {0}
  /\ {MaxRequests, MaxRevisions, MaxCrashes, MaxOutside} \subseteq Nat
  /\ Ended # None
  /\ \A x \in {None, Ended} : x \notin Sessions \cup Nat \cup Tasks
  /\ Sessions \cap Nat = {}
  /\ "dead" \notin Tasks /\ None \notin {"failed", "committed"}

VARIABLES
  opened,    \* the project is open in the server
  pointer,   \* current-revision.json
  rev,       \* the revisions published so far
  gone,      \* those of them that were quarantined
  holder,    \* of the mutation lock: a task, "dead" or None
  working,   \* the text of the working source file
  session,   \* each session: None, what its file says, or Ended
  receipt,   \* the receipt of each session's command
  meta,      \* autosave-metadata.json
  saved,     \* autosaves/: the revision each snapshot is based on
  task,      \* what is being handled
  tally,     \* requests, crashes and outside edits so far
  accepted,  \* revisions that a response has reported as current
  waived,    \* those a repair may have cost, see WritePointer
  missed,    \* rejected revisions that authority came to need, see Reject
  listing,   \* the autosaves that have been completed
  contended  \* two writers of the metadata have overlapped

folder == <<pointer, rev, gone, holder, working>>
autosaves == <<meta, saved, listing, contended>>
books == <<accepted, waived, missed>>
vars == <<opened, folder, session, receipt, autosaves, task, tally, books>>

-----------------------------------------------------------------------------
Root == 1
Outside == 0   \* a text written by another program

Idle == [kind |-> "none", step |-> "none", base |-> None, of |-> None,
         new |-> None, seen |-> None]

Init ==
  /\ opened = FALSE
  /\ pointer = Root
  /\ rev = [r \in {Root} |-> [parent |-> None, source |-> Root, by |-> None]]
  /\ gone = {} /\ holder = None /\ working = Root
  /\ session = [s \in Sessions |-> None] /\ receipt = [s \in Sessions |-> None]
  /\ meta = [clean |-> TRUE, entries |-> {}] /\ saved = [n \in {} |-> None]
  /\ task = [u \in Tasks |-> Idle]
  /\ tally = [requests |-> 0, crashes |-> 0, outside |-> 0]
  /\ accepted = {Root} /\ waived = {} /\ missed = {}
  /\ listing = {} /\ contended = FALSE

Exists(r) == r \in DOMAIN rev \ gone

(* What lies behind r, itself included: the least set that holds r and the  *)
(* parents of its members, but for those that are cut.  A walk along the    *)
(* parents meets the Chain of r, which a missing revision ends; its Line is *)
(* all that it was ever made from.                                          *)
Closed(S, cut) == \A s \in S \ cut : rev[s].parent # None => rev[s].parent \in S
Behind(r, cut) ==
  {q \in DOMAIN rev : \A S \in SUBSET (DOMAIN rev \ {q}) : r \in S => ~Closed(S, cut)}
Chain(r) == Behind(r, gone)
Line(r) == Behind(r, {})

(* auditRevisionStorage, which needs a current revision that can be loaded. *)
Orphans == (DOMAIN rev \ gone) \ Chain(pointer)

Transition == \E u \in Tasks : task[u].kind \in {"open", "close"}
Readable == opened /\ ~Transition
CanStart(u) == task[u] = Idle /\ Readable /\ Exists(pointer)

(* A request begins; the bound is on how many ever do.                      *)
Start(u, t) ==
  /\ tally.requests < MaxRequests
  /\ tally' = [tally EXCEPT !.requests = @ + 1]
  /\ task' = [task EXCEPT ![u] = t]
Goto(u, step) == task' = [task EXCEPT ![u].step = step]
Ends(u) == task' = [task EXCEPT ![u] = Idle]
At(u, step) == task[u].step = step
Unlock(u) == holder' = IF holder = u THEN None ELSE holder

-----------------------------------------------------------------------------
(* A command of a client, based on the revision it sees.                    *)
Edit(u) ==
  /\ CanStart(u)
  /\ Start(u, [Idle EXCEPT !.kind = "edit", !.step = "lock", !.base = pointer])
  /\ UNCHANGED <<opened, folder, session, receipt, autosaves, books>>

(* beginSourceEdit reads the revision, and then the file it is about.       *)
BeginSession(u, s) ==
  /\ CanStart(u) /\ session[s] = None /\ \A v \in Tasks : task[v].of # s
  /\ Start(u, [Idle EXCEPT !.kind = "begin", !.step = "read", !.base = pointer, !.of = s])
  /\ UNCHANGED <<opened, folder, session, receipt, autosaves, books>>

SessionBegins(u) ==
  /\ task[u].kind = "begin"
  /\ session' = [session EXCEPT ![task[u].of] = [base |-> task[u].base, text |-> working]]
  /\ Ends(u)
  /\ UNCHANGED <<opened, folder, receipt, autosaves, tally, books>>

(* commitSourceEdit: a second command of a session has another issue time,  *)
(* so that it is refused once there is a receipt.                           *)
CommitSession(u, s) ==
  /\ CanStart(u) /\ session[s] \notin {None, Ended} /\ receipt[s] = None
  /\ Start(u, [Idle EXCEPT !.kind = "session", !.step = "lock",
                           !.base = session[s].base, !.of = s, !.seen = session[s].text])
  /\ UNCHANGED <<opened, folder, session, receipt, autosaves, books>>

AbortSession(s) ==
  /\ Readable /\ session[s] \notin {None, Ended}
  /\ session' = [session EXCEPT ![s] = Ended]
  /\ UNCHANGED <<opened, folder, receipt, autosaves, task, tally, books>>

-----------------------------------------------------------------------------
(* A commit.  The lock of a dead process is recovered once it has expired.  *)
Commits == {"edit", "session", "adopt-source", "restore"}

Lock(u) ==
  /\ At(u, "lock") /\ holder \in {None, "dead"}
  /\ holder' = u
  /\ Goto(u, "apply")
  /\ UNCHANGED <<opened, pointer, rev, gone, working, session, receipt, autosaves,
                 tally, books>>

LockRefused(u) ==
  /\ At(u, "lock") /\ holder # None
  /\ Ends(u)
  /\ UNCHANGED <<opened, folder, session, receipt, autosaves, tally, books>>

(* Whether an autosave can be restored: it is listed, and stored.           *)
Valid(n) == n \in meta.entries \cap DOMAIN saved

(* Faulty: an autosave may be restored onto another revision than its own.  *)
X_Unchanged(u) ==
  CASE task[u].kind \in {"session", "adopt-source"} -> working = task[u].seen
    [] task[u].kind = "restore" -> Valid(task[u].of)
    [] OTHER -> TRUE

(* What the edit or the restoration was based on is still there.            *)
Unchanged(u) ==
  CASE task[u].kind \in {"session", "adopt-source"} -> working = task[u].seen
    [] task[u].kind = "restore" -> Valid(task[u].of) /\ saved[task[u].of] = pointer
    [] OTHER -> TRUE

Based(u) ==
  Exists(pointer) /\ (task[u].kind = "restore" \/ task[u].base = pointer)

(* The command is refused: a receipt says so, unless there is one or the    *)
(* revision could not even be loaded; a session ends when its file was      *)
(* changed outside, and otherwise stays.                                    *)
Refuse(u) ==
  LET s == task[u].of
      recorded == task[u].kind = "session" /\ receipt[s] = None /\ Exists(pointer)
  IN /\ receipt' = IF recorded THEN [receipt EXCEPT ![s] = "failed"] ELSE receipt
     /\ session' = IF recorded /\ Based(u) /\ ~Unchanged(u)
                     THEN [session EXCEPT ![s] = Ended] ELSE session
     /\ Unlock(u) /\ Ends(u)

(* applyCommand and commitProjectRevision up to publication; a source edit  *)
(* may also be refused for what is in it.                                   *)
Apply(u) ==
  /\ At(u, "apply")
  /\ \/ /\ Based(u) /\ Unchanged(u)
        /\ task[u].kind = "session" => receipt[task[u].of] = None
        /\ LET new == Cardinality(DOMAIN rev) + 1
               text == CASE task[u].kind = "session" -> new
                         [] task[u].kind = "adopt-source" -> task[u].seen
                         [] OTHER -> rev[pointer].source
           IN /\ new <= MaxRevisions
              /\ rev' = [r \in DOMAIN rev \cup {new} |->
                           IF r \in DOMAIN rev THEN rev[r]
                           ELSE [parent |-> pointer, source |-> text, by |-> task[u].of]]
              /\ task' = [task EXCEPT ![u].step = "verify", ![u].new = new]
        /\ UNCHANGED <<session, receipt, holder>>
     \/ /\ \/ ~Based(u) \/ ~Unchanged(u)
           \/ task[u].kind = "session"
        /\ Refuse(u)
        /\ UNCHANGED rev
  /\ UNCHANGED <<opened, pointer, gone, working, autosaves, tally, books>>

(* Faulty: it is not read back.                                             *)
X_Verify(u) ==
  /\ At(u, "verify")
  /\ Goto(u, "point")
  /\ UNCHANGED <<opened, folder, session, receipt, autosaves, tally, books>>

(* The published revision is read back before the pointer is replaced.      *)
Verify(u) ==
  /\ At(u, "verify")
  /\ IF Exists(task[u].new)
       THEN Goto(u, "point") /\ UNCHANGED <<holder, receipt>>
       ELSE /\ receipt' = IF task[u].kind = "session"
                            THEN [receipt EXCEPT ![task[u].of] = "failed"] ELSE receipt
            /\ Unlock(u) /\ Ends(u)
  /\ UNCHANGED <<opened, pointer, rev, gone, working, session, autosaves, tally, books>>

Point(u) ==
  /\ At(u, "point")
  /\ pointer' = task[u].new
  /\ Goto(u, IF task[u].kind \in {"session", "adopt-source"} THEN "materialize" ELSE "record")
  /\ UNCHANGED <<opened, rev, gone, holder, working, session, receipt, autosaves,
                 tally, books>>

Materialize(u) ==
  /\ At(u, "materialize")
  /\ working' = rev[task[u].new].source
  /\ Goto(u, "record")
  /\ UNCHANGED <<opened, pointer, rev, gone, holder, session, receipt, autosaves,
                 tally, books>>

(* The receipt is written, the lock released and the caller answered; the   *)
(* file of a session is removed after that.                                 *)
Record(u) ==
  /\ At(u, "record")
  /\ accepted' = accepted \cup {task[u].new}
  /\ IF task[u].kind = "session"
       THEN receipt' = [receipt EXCEPT ![task[u].of] = "committed"] /\ Goto(u, "remove")
       ELSE Ends(u) /\ UNCHANGED receipt
  /\ Unlock(u)
  /\ UNCHANGED <<opened, pointer, rev, gone, working, session, autosaves, tally,
                 waived, missed>>

SessionEnds(u) ==
  /\ At(u, "remove")
  /\ session' = [session EXCEPT ![task[u].of] = Ended]
  /\ Ends(u)
  /\ UNCHANGED <<opened, folder, receipt, autosaves, tally, books>>

-----------------------------------------------------------------------------
(* repair: the issue is looked for once more before anything is done, with  *)
(* the revision that was current when the request came.                     *)
PointerRepairs == {"adopt-orphan", "recover-pointer"}

Repair(u, kind, target) ==
  /\ CanStart(u)
  /\ Start(u, [Idle EXCEPT !.kind = kind, !.step = "scan", !.base = pointer, !.of = target])
  /\ UNCHANGED <<opened, folder, session, receipt, autosaves, books>>

Issue(u) ==
  LET kind == task[u].kind IN
    CASE kind \in PointerRepairs \cup {"reject-orphan"} -> task[u].of \in Orphans
      [] kind = "restore" -> Valid(task[u].of) /\ ~meta.clean
      [] kind = "adopt-source" -> working # rev[pointer].source

Scan(u) ==
  /\ At(u, "scan")
  /\ IF Readable /\ Exists(pointer) /\ Issue(u)
       THEN task' = [task EXCEPT
              ![u].step = CASE task[u].kind \in PointerRepairs -> "audit"
                            [] task[u].kind = "reject-orphan" -> "move"
                            [] OTHER -> "lock",
              ![u].seen = IF task[u].kind = "adopt-source" THEN working ELSE None]
       ELSE Ends(u)
  /\ UNCHANGED <<opened, folder, session, receipt, autosaves, tally, books>>

(* Faulty: an orphan of any parent is adopted.                              *)
X_Adoptable(u) == task[u].of \in Orphans

(* The orphan is verified again, and an adopted one is a child of the       *)
(* revision that was current when the request came.                         *)
Adoptable(u) ==
  /\ task[u].of \in Orphans
  /\ task[u].kind = "adopt-orphan" => rev[task[u].of].parent = task[u].base

Audit(u) ==
  /\ At(u, "audit")
  /\ IF Readable /\ Exists(pointer) /\ Adoptable(u) THEN Goto(u, "write") ELSE Ends(u)
  /\ UNCHANGED <<opened, folder, session, receipt, autosaves, tally, books>>

(* The pointer is written without the lock.  What that may cost is put on   *)
(* record: all that is not behind the new pointer when the old one was      *)
(* given up on purpose, or has moved since the request came; and the new    *)
(* one itself when a commit is about to point elsewhere.                    *)
Elsewhere(u) == task[u].kind = "recover-pointer" \/ pointer # task[u].base
AboutToPoint(u) == task[u].step \in {"verify", "point"}

WritePointer(u) ==
  /\ At(u, "write")
  /\ pointer' = task[u].of
  /\ accepted' = IF Exists(task[u].of) THEN accepted \cup {task[u].of} ELSE accepted
  /\ waived' = waived
       \cup (IF Elsewhere(u) THEN Line(pointer) \ Line(task[u].of) ELSE {})
       \cup (IF \E v \in Tasks \ {u} : AboutToPoint(v) THEN {task[u].of} ELSE {})
  /\ missed' = IF Elsewhere(u) THEN missed \cup (Chain(task[u].of) \cap gone) ELSE missed
  /\ Ends(u)
  /\ UNCHANGED <<opened, rev, gone, holder, working, session, receipt, autosaves, tally>>

(* An orphan is moved away as rejected, if it is still there; on record is  *)
(* whether it has become part of authority meanwhile, or is about to.  A    *)
(* commit that has yet to read its own revision back does not look behind.  *)
Needed(u) ==
  CASE task[u].step = "verify" -> Chain(rev[task[u].new].parent)
    [] task[u].step = "point" -> Chain(task[u].new)
    [] task[u].step = "write" -> Chain(task[u].of)
    [] OTHER -> {}

Reject(u) ==
  /\ At(u, "move")
  /\ gone' = gone \cup ({task[u].of} \cap DOMAIN rev)
  /\ missed' = missed
       \cup ({task[u].of} \cap (Chain(pointer) \cup UNION {Needed(v) : v \in Tasks}))
  /\ Ends(u)
  /\ UNCHANGED <<opened, pointer, rev, holder, working, session, receipt, autosaves,
                 tally, accepted, waived>>

(* clear-stale-lock; MutationLock has its steps.                            *)
ClearLock ==
  /\ Readable /\ holder = "dead"
  /\ holder' = None
  /\ UNCHANGED <<opened, pointer, rev, gone, working, session, receipt, autosaves,
                 task, tally, books>>

-----------------------------------------------------------------------------
(* Every writer of the autosave metadata has read them some time before.    *)
MetaWriters == {"open", "close", "autosave"}
Contends(u) ==
  contended' = (contended \/ \E v \in Tasks \ {u} : task[v].kind \in MetaWriters)

(* createProjectAutosave, which libraries may call: a snapshot of the       *)
(* current documents is put in place, and then listed.                      *)
Autosave(u) ==
  /\ CanStart(u)
  /\ Start(u, [Idle EXCEPT !.kind = "autosave", !.step = "store", !.base = pointer,
                           !.of = tally.requests + 1, !.seen = meta])
  /\ Contends(u)
  /\ UNCHANGED <<opened, folder, session, receipt, meta, saved, listing, books>>

AutosaveStored(u) ==
  /\ At(u, "store")
  /\ saved' = [n \in DOMAIN saved \cup {task[u].of} |->
                 IF n \in DOMAIN saved THEN saved[n] ELSE task[u].base]
  /\ Goto(u, "list")
  /\ UNCHANGED <<opened, folder, session, receipt, meta, listing, contended, tally, books>>

(* Faulty: the oldest are kept.                                             *)
X_Kept(entries) ==
  {n \in entries : Cardinality({k \in entries : k <= n}) <= Retention}

Kept(entries) ==
  {n \in entries : Cardinality({k \in entries : k >= n}) <= Retention}

AutosaveListed(u) ==
  /\ At(u, "list")
  /\ LET entries == task[u].seen.entries \cup {task[u].of} IN
       /\ meta' = [clean |-> FALSE, entries |-> Kept(entries)]
       /\ saved' = [n \in DOMAIN saved \ (entries \ Kept(entries)) |-> saved[n]]
  /\ listing' = listing \cup {task[u].of}
  /\ Ends(u)
  /\ UNCHANGED <<opened, folder, session, receipt, contended, tally, books>>

(* open and close mark the metadata; the project is readable between.       *)
Mark(u, kind) ==
  /\ task[u] = Idle /\ ~Transition /\ Exists(pointer)
  /\ kind = "close" => opened
  /\ Start(u, [Idle EXCEPT !.kind = kind, !.step = "mark", !.seen = meta])
  /\ Contends(u)
  /\ UNCHANGED <<opened, folder, session, receipt, meta, saved, listing, books>>

Marked(u) ==
  /\ At(u, "mark")
  /\ meta' = [task[u].seen EXCEPT !.clean = task[u].kind = "close"]
  /\ opened' = (task[u].kind = "open" \/ ~Exists(pointer))
  /\ Ends(u)
  /\ UNCHANGED <<folder, session, receipt, saved, listing, contended, tally, books>>

-----------------------------------------------------------------------------
OutsideEdit ==
  /\ tally.outside < MaxOutside /\ working # Outside
  /\ tally' = [tally EXCEPT !.outside = @ + 1]
  /\ working' = Outside
  /\ UNCHANGED <<opened, pointer, rev, gone, holder, session, receipt, autosaves,
                 task, books>>

(* The server dies between any two steps, and its lock stays behind.        *)
Crash ==
  /\ tally.crashes < MaxCrashes
  /\ tally' = [tally EXCEPT !.crashes = @ + 1]
  /\ opened' = FALSE
  /\ task' = [u \in Tasks |-> Idle]
  /\ holder' = IF holder \in Tasks THEN "dead" ELSE holder
  /\ UNCHANGED <<pointer, rev, gone, working, session, receipt, autosaves, books>>

Next ==
  \/ \E u \in Tasks :
       \/ Edit(u) \/ SessionBegins(u)
       \/ \E s \in Sessions : BeginSession(u, s) \/ CommitSession(u, s)
       \/ Lock(u) \/ LockRefused(u) \/ Apply(u) \/ Verify(u) \/ Point(u)
       \/ Materialize(u) \/ Record(u) \/ SessionEnds(u)
       \/ \E kind \in PointerRepairs \cup {"reject-orphan"}, r \in Orphans : Repair(u, kind, r)
       \/ \E n \in meta.entries : Repair(u, "restore", n)
       \/ Repair(u, "adopt-source", None)
       \/ Scan(u) \/ Audit(u) \/ WritePointer(u) \/ Reject(u)
       \/ Autosave(u) \/ AutosaveStored(u) \/ AutosaveListed(u)
       \/ \E kind \in {"open", "close"} : Mark(u, kind)
       \/ Marked(u)
  \/ \E s \in Sessions : AbortSession(s)
  \/ ClearLock \/ OutsideEdit \/ Crash

Spec == Init /\ [][Next]_vars

-----------------------------------------------------------------------------
(* Authority misses no revision, and no edit that was reported as accepted, *)
(* through crashes, rejections and adoptions, but for what is on record: an *)
(* orphan rejected while it was needed, a pointer moved away on purpose or  *)
(* since the repair that moves it was requested, and an adopted orphan that *)
(* a commit then left behind.                                               *)
AuthorityStands ==
  LET missing == Chain(pointer) \cap gone IN
    /\ missing \subseteq missed
    /\ missing = {} => accepted \subseteq Chain(pointer) \cup waived

(* However often it is tried again after a crash or a refusal, an edit of a *)
(* session or the restoration of an autosave is done once.                  *)
By(x) == {r \in Chain(pointer) : rev[r].by = x}
DoneOnce == \A x \in Sessions \cup 1 .. MaxRequests : Cardinality(By(x)) <= 1

(* Without crashes a session's receipt is right: what failed is not there,  *)
(* what was committed was published.                                        *)
SessionReceiptsAreRight ==
  tally.crashes = 0 =>
    \A s \in Sessions :
      /\ receipt[s] = "failed" => By(s) \subseteq gone
      /\ receipt[s] = "committed" => \E r \in accepted : rev[r].by = s

(* The autosaves listed are the newest completed ones, all stored, and an   *)
(* open project counts as not cleanly shut down; unless two writers of the  *)
(* metadata overlapped, or the project could not be closed.                 *)
AutosavesAreListed ==
  contended \/
    /\ meta.entries \subseteq DOMAIN saved
    /\ meta.entries = {n \in listing : Cardinality({k \in listing : k >= n}) <= Retention}
    /\ opened /\ missed = {} => ~meta.clean

(* What recovery keeps of sessions and autosaves is right.                  *)
RecoveryKeepsItsBooks == DoneOnce /\ SessionReceiptsAreRight /\ AutosavesAreListed
=============================================================================
