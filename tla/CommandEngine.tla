---------------------------- MODULE CommandEngine ----------------------------
(***************************************************************************)
(* Project authority: executeProjectCommand of                             *)
(* packages/schema/src/command-engine.ts, with commitProjectRevision of    *)
(* revision-store.ts and the operation barriers of operation-barrier.ts.   *)
(*                                                                         *)
(* Processes execute commands on one project folder.  A command reads its  *)
(* receipt, takes the mutation lock (LeaseLock), reads the receipt again,  *)
(* loads the current revision, stages and publishes a new revision, swaps  *)
(* the pointer, materialises working files, records a receipt and releases *)
(* the lock; there is one action per file system effect or await that      *)
(* another process, a crash or an I/O error can come between.              *)
(***************************************************************************)
EXTENDS Naturals, Sequences, FiniteSets, SequencesExt

CONSTANTS
  Processes,    \* executors of commands: server sessions, CLI, agents
  Commands,     \* command identities (commandId with its envelope)
  Key,          \* the idempotency key (actor, idempotencyId) of a command
  Ops,          \* what commands may ask for, records [kind, steps]
  Operations,   \* asynchronous operations that raise a barrier (renders)
  None,
  MaxCrashes,   \* bound on processes that die while executing a command
  MaxErrors,    \* bound on file system calls that fail
  MaxEdits      \* bound on edits of working files outside the studio

Kinds == {"edit", "source", "undo", "redo", "validate", "foreign"}

(* A command as its client built it: the revision it is based on, and the  *)
(* content it expects in the working source file.                          *)
Envelope == [op : Ops, base : Nat, expected : Nat]

(* What is recorded of a command under its key. *)
Receipt ==
  [command : Commands, status : {"committed", "validated", "failed"},
   result : Nat \cup {None}]

ASSUME EngineAssumption ==
  /\ Ops \subseteq [kind : Kinds, steps : Nat \ {0}]
  /\ Commands = DOMAIN Key
  /\ None \notin Commands \cup Nat \cup Envelope \cup Receipt
  /\ MaxCrashes \in Nat /\ MaxErrors \in Nat /\ MaxEdits \in Nat

VARIABLES
  pc,        \* the next step of each process
  cmd,       \* the command each process executes
  current,   \* the revision it has loaded as the current one
  new,       \* the revision it stages, publishes and swaps in
  issued,    \* the commands clients have built, with base and file hash
  pointer,   \* current-revision.json: the authoritative revision
  rev,       \* revisions/: the published, complete revisions
  staging,   \* revisions/.staging-*: revisions not yet published
  minted,    \* how many revision ids have been used
  receipts,  \* receipts/commands/: one per idempotency key
  working,   \* the content of the editable source file on disk
  barrier,   \* working/operation-barriers/: state of each operation
  holders, broken,         \* the mutation lock
  crashes, errors, edits   \* failures so far, counted

engineVars ==
  <<pc, cmd, current, new, issued, pointer, rev, staging, minted, receipts,
    working, barrier, crashes, errors, edits>>

vars == <<engineVars, holders, broken>>

L == INSTANCE LeaseLock
-----------------------------------------------------------------------------
Root == 1       \* the revision a project folder is initialised with
External == 0   \* source text that no revision embeds

(***************************************************************************)
(* A revision is an immutable directory.  Its documents are abstracted to  *)
(* what undo, redo and source edits depend on: "content" is the revision   *)
(* whose documents it holds (contentRevisionId), "source" the revision     *)
(* whose source text is embedded in those documents.                       *)
(***************************************************************************)
Revision ==
  [parent : Nat \cup {None}, command : Commands \cup {None}, content : Nat,
   undo : Seq(Nat), redo : Seq(Nat), source : Nat]

RootRevision ==
  [parent |-> None, command |-> None, content |-> Root,
   undo |-> <<>>, redo |-> <<>>, source |-> Root]

Op(c) == issued[c].op
Base(c) == issued[c].base
MovesHistory(c) == Op(c).kind \in {"undo", "redo"}

(* commitProjectRevision without explicit history: the content it replaces *)
(* goes on the undo stack and the redo stack is dropped.                   *)
NextEdit(c, parent, id) ==
  LET r == rev[parent] IN
    [parent |-> parent, command |-> c, content |-> id,
     undo |-> Append(r.undo, r.content), redo |-> <<>>,
     source |-> IF Op(c).kind = "source" THEN id ELSE r.source]

(* Faulty: the contents passed over are pushed oldest first. *)
NextUndo_WrongOrder(c, parent) ==
  LET r == rev[parent]
      left == Len(r.undo) - Op(c).steps
  IN [parent |-> parent, command |-> c, content |-> r.undo[left + 1],
      undo |-> SubSeq(r.undo, 1, left),
      redo |-> r.redo \o SubSeq(r.undo, left + 2, Len(r.undo)) \o <<r.content>>,
      source |-> rev[r.undo[left + 1]].source]

(* history.undo: pops "steps" contents; the last one popped is restored,   *)
(* and the ones passed over, with the present one, go on the redo stack.   *)
NextUndo(c, parent) ==
  LET r == rev[parent]
      left == Len(r.undo) - Op(c).steps
      target == r.undo[left + 1]
      passed == SubSeq(r.undo, left + 2, Len(r.undo))
  IN [parent |-> parent, command |-> c, content |-> target,
      undo |-> SubSeq(r.undo, 1, left),
      redo |-> r.redo \o <<r.content>> \o Reverse(passed),
      source |-> rev[target].source]

(* Faulty: the stacks move but the present documents are kept. *)
NextRedo_KeepsDocuments(c, parent) ==
  LET r == rev[parent]
      left == Len(r.redo) - Op(c).steps
  IN [parent |-> parent, command |-> c, content |-> r.redo[left + 1],
      undo |-> r.undo \o <<r.content>> \o Reverse(SubSeq(r.redo, left + 2, Len(r.redo))),
      redo |-> SubSeq(r.redo, 1, left),
      source |-> r.source]

NextRedo(c, parent) ==
  LET r == rev[parent]
      left == Len(r.redo) - Op(c).steps
      target == r.redo[left + 1]
      passed == SubSeq(r.redo, left + 2, Len(r.redo))
  IN [parent |-> parent, command |-> c, content |-> target,
      undo |-> r.undo \o <<r.content>> \o Reverse(passed),
      redo |-> SubSeq(r.redo, 1, left),
      source |-> rev[target].source]

NextRevision(c, parent, id) ==
  CASE Op(c).kind = "undo" -> NextUndo(c, parent)
    [] Op(c).kind = "redo" -> NextRedo(c, parent)
    [] OTHER -> NextEdit(c, parent, id)

(* What applyCommand accepts; the rest is recorded as a failure. *)
NoBarrier == \A o \in Operations : barrier[o].state # "active"

Applicable(c, r) ==
  CASE Op(c).kind = "undo" -> NoBarrier /\ Op(c).steps <= Len(rev[r].undo)
    [] Op(c).kind = "redo" -> NoBarrier /\ Op(c).steps <= Len(rev[r].redo)
    [] Op(c).kind = "source" -> working = issued[c].expected
    [] OTHER -> TRUE

-----------------------------------------------------------------------------
Init ==
  /\ pc = [p \in Processes |-> "idle"]
  /\ cmd = [p \in Processes |-> None]
  /\ current = [p \in Processes |-> None]
  /\ new = [p \in Processes |-> None]
  /\ issued = [c \in Commands |-> None]
  /\ pointer = Root
  /\ rev = [r \in {Root} |-> RootRevision]
  /\ staging = {}
  /\ minted = Root
  /\ receipts = [k \in {Key[c] : c \in Commands} |-> None]
  /\ working = Root
  /\ barrier = [o \in Operations |-> [state |-> "none", base |-> None]]
  /\ crashes = 0 /\ errors = 0 /\ edits = 0
  /\ L!Init

Goto(p, step) == pc' = [pc EXCEPT ![p] = step]

Leave(p) ==
  /\ Goto(p, "idle")
  /\ cmd' = [cmd EXCEPT ![p] = None]
  /\ current' = [current EXCEPT ![p] = None]
  /\ new' = [new EXCEPT ![p] = None]

Record(p, status) ==
  receipts' = [receipts EXCEPT ![Key[cmd[p]]] =
    [command |-> cmd[p], status |-> status,
     result |-> IF status = "committed" THEN new[p] ELSE None]]

Recorded(p) == receipts[Key[cmd[p]]] # None

Job == <<cmd, current, new>>
Failures == <<crashes, errors, edits>>
Store == <<pointer, rev, staging, minted>>
Outside == <<working, barrier>>
Mutex == <<holders, broken>>

-----------------------------------------------------------------------------
(* A client builds a command on the revision and the working file it sees, *)
(* or sends one again.                                                     *)
Submit(p, c, op) ==
  /\ pc[p] = "idle"
  /\ issued' = [issued EXCEPT ![c] =
       IF @ = None THEN [op |-> op, base |-> pointer, expected |-> working]
                   ELSE @]
  /\ issued[c] # None => op = Op(c)
  /\ cmd' = [cmd EXCEPT ![p] = c]
  /\ Goto(p, "look")
  /\ UNCHANGED <<current, new, Store, receipts, Outside, Failures, Mutex>>

(* A receipt under the key is replayed, or refused when it belongs to      *)
(* another command; either way the command is not executed.                *)
LookForReceipt(p) ==
  /\ pc[p] = "look"
  /\ IF Recorded(p) THEN Leave(p)
                    ELSE Goto(p, "lock") /\ UNCHANGED Job
  /\ UNCHANGED <<issued, Store, receipts, Outside, Failures, Mutex>>

(* Faulty: the command starts while another one holds the lock. *)
Lock_NotExclusive(p) ==
  /\ pc[p] = "lock"
  /\ holders' = holders \cup {p}
  /\ Goto(p, "lookAgain")
  /\ UNCHANGED <<Job, issued, Store, receipts, Outside, Failures, broken>>

Lock(p) ==
  /\ pc[p] = "lock"
  /\ L!Acquire(p)
  /\ Goto(p, "lookAgain")
  /\ UNCHANGED <<Job, issued, Store, receipts, Outside, Failures>>

(* Held, or left behind and not yet expired: the command fails unrecorded. *)
LockRefused(p) ==
  /\ pc[p] = "lock"
  /\ Leave(p)
  /\ UNCHANGED <<issued, Store, receipts, Outside, Failures, Mutex>>

(* Faulty: the receipt is looked for only before the lock is taken. *)
LookAgain_Skipped(p) ==
  /\ pc[p] = "lookAgain"
  /\ Goto(p, "load")
  /\ UNCHANGED <<Job, issued, Store, receipts, Outside, Failures, Mutex>>

LookAgain(p) ==
  /\ pc[p] = "lookAgain"
  /\ Goto(p, IF Recorded(p) THEN "release" ELSE "load")
  /\ UNCHANGED <<Job, issued, Store, receipts, Outside, Failures, Mutex>>

(* Faulty: commands are applied to whatever revision is current. *)
Stale_Rebased(p) == FALSE

Stale(p) == Base(cmd[p]) # pointer

(* Another project's command and a stale base are recorded as failures. *)
Load(p) ==
  /\ pc[p] = "load"
  /\ current' = [current EXCEPT ![p] = pointer]
  /\ Goto(p, IF Op(cmd[p]).kind = "foreign" \/ Stale(p) THEN "fail"
             ELSE IF Op(cmd[p]).kind = "validate" THEN "validated"
             ELSE "apply")
  /\ UNCHANGED <<cmd, new, issued, Store, receipts, Outside, Failures, Mutex>>

(* Faulty: a refused command ends without a receipt. *)
Apply_Unrecorded(p) ==
  /\ pc[p] = "apply"
  /\ \/ Applicable(cmd[p], current[p]) /\ Goto(p, "commit")
     \/ Goto(p, "release")
  /\ UNCHANGED <<Job, issued, Store, receipts, Outside, Failures, Mutex>>

(* applyCommand; a handler's own validation may refuse any command.        *)
Apply(p) ==
  /\ pc[p] = "apply"
  /\ \/ Applicable(cmd[p], current[p]) /\ Goto(p, "commit")
     \/ Goto(p, "fail")
  /\ UNCHANGED <<Job, issued, Store, receipts, Outside, Failures, Mutex>>

(* Faulty: the pointer is swapped before the revision is published. *)
Stage_SwapsFirst(p) ==
  /\ pc[p] = "commit" /\ ~Stale(p)
  /\ current' = [current EXCEPT ![p] = pointer]
  /\ minted' = minted + 1
  /\ new' = [new EXCEPT ![p] = minted + 1]
  /\ staging' = staging \cup {minted + 1}
  /\ Goto(p, "swap")
  /\ UNCHANGED <<cmd, issued, pointer, rev, receipts, Outside, Failures, Mutex>>

(* commitProjectRevision checks the base once more, then writes the six    *)
(* documents of a revision with a fresh id in a staging directory.         *)
Stage(p) ==
  /\ pc[p] = "commit"
  /\ current' = [current EXCEPT ![p] = pointer]
  /\ IF Stale(p)
       THEN Goto(p, "fail") /\ UNCHANGED <<new, minted, staging>>
       ELSE /\ minted' = minted + 1
            /\ new' = [new EXCEPT ![p] = minted + 1]
            /\ staging' = staging \cup {minted + 1}
            /\ Goto(p, "publish")
  /\ UNCHANGED <<cmd, issued, pointer, rev, receipts, Outside, Failures, Mutex>>

Publish(p) ==
  /\ pc[p] = "publish"
  /\ staging' = staging \ {new[p]}
  /\ rev' = [r \in DOMAIN rev \cup {new[p]} |->
               IF r = new[p] THEN NextRevision(cmd[p], current[p], new[p]) ELSE rev[r]]
  /\ Goto(p, "swap")
  /\ UNCHANGED <<Job, issued, pointer, minted, receipts, Outside, Failures, Mutex>>

SwapPointer(p) ==
  /\ pc[p] = "swap"
  /\ pointer' = new[p]
  /\ Goto(p, "materialize")
  /\ UNCHANGED <<Job, issued, rev, staging, minted, receipts, Outside, Failures, Mutex>>

(* Faulty: history moves leave the working files as they are. *)
Materialize_EditsOnly(p) ==
  /\ pc[p] = "materialize"
  /\ working' = IF Op(cmd[p]).kind = "source" THEN new[p] ELSE working
  /\ Goto(p, "committed")
  /\ UNCHANGED <<Job, issued, Store, receipts, barrier, Failures, Mutex>>

(* A source edit writes the text it was given; a history move rewrites the *)
(* working file from whatever revision is authoritative by then.           *)
Materialize(p) ==
  /\ pc[p] = "materialize"
  /\ working' = CASE Op(cmd[p]).kind = "source" -> new[p]
                  [] MovesHistory(cmd[p]) -> rev[pointer].source
                  [] OTHER -> working
  /\ Goto(p, "committed")
  /\ UNCHANGED <<Job, issued, Store, receipts, barrier, Failures, Mutex>>

RecordSuccess(p) ==
  /\ \/ pc[p] = "committed" /\ Record(p, "committed")
     \/ pc[p] = "validated" /\ Record(p, "validated")
  /\ Goto(p, "release")
  /\ UNCHANGED <<Job, issued, Store, Outside, Failures, Mutex>>

RecordFailure(p) ==
  /\ pc[p] = "fail"
  /\ Record(p, "failed")
  /\ Goto(p, "release")
  /\ UNCHANGED <<Job, issued, Store, Outside, Failures, Mutex>>

Release(p) ==
  /\ pc[p] = "release"
  /\ L!Drop(p)
  /\ Leave(p)
  /\ UNCHANGED <<issued, Store, receipts, Outside, Failures>>

-----------------------------------------------------------------------------
(* A file system call fails.  Inside the inner try block every error is    *)
(* recorded as a failed command, after the swap too; elsewhere the error   *)
(* goes to the caller.  At "materialize" it is the directory sync after    *)
(* the pointer's rename that failed.                                       *)
CallFails(p) ==
  /\ pc[p] \notin {"idle", "look", "lock", "release"}
  /\ errors < MaxErrors
  /\ errors' = errors + 1
  /\ Goto(p, IF pc[p] \in {"lookAgain", "load", "validated", "fail"}
               THEN "release" ELSE "fail")
  /\ staging' = staging \ {new[p]}
  /\ UNCHANGED <<Job, issued, pointer, rev, minted, receipts, Outside, crashes, edits, Mutex>>

(* Errors while working files are written are warnings. *)
MaterializeFails(p) ==
  /\ pc[p] = "materialize"
  /\ errors < MaxErrors
  /\ errors' = errors + 1
  /\ Goto(p, "committed")
  /\ UNCHANGED <<Job, issued, Store, receipts, Outside, crashes, edits, Mutex>>

(* The receipt is in place but the sync of its directory fails. *)
ReceiptSyncFails(p) ==
  /\ pc[p] = "committed"
  /\ errors < MaxErrors
  /\ errors' = errors + 1
  /\ Record(p, "committed")
  /\ Goto(p, "fail")
  /\ UNCHANGED <<Job, issued, Store, Outside, crashes, edits, Mutex>>

(* The process dies.  Its lock stays until it expires, which LockRefused   *)
(* allows for; its staging directory stays for the storage audit.          *)
Crash(p) ==
  /\ pc[p] # "idle"
  /\ crashes < MaxCrashes
  /\ crashes' = crashes + 1
  /\ holders' = holders \ {p}
  /\ Leave(p)
  /\ UNCHANGED <<issued, Store, receipts, Outside, errors, edits, broken>>

BreakLease ==
  /\ L!Break
  /\ UNCHANGED engineVars

(* An editor outside the studio saves the source file. *)
EditOutside ==
  /\ edits < MaxEdits
  /\ edits' = edits + 1
  /\ working' = External
  /\ UNCHANGED <<pc, Job, issued, Store, receipts, barrier, crashes, errors, Mutex>>

(* beginAsyncOperation reads the pointer, then writes the barrier file;    *)
(* it does not take the lock.                                              *)
ReadBase(o) ==
  /\ barrier[o].state = "none"
  /\ barrier' = [barrier EXCEPT ![o] = [state |-> "begun", base |-> pointer]]
  /\ UNCHANGED <<pc, Job, issued, Store, receipts, working, Failures, Mutex>>

RaiseBarrier(o) ==
  /\ barrier[o].state = "begun"
  /\ barrier' = [barrier EXCEPT ![o].state = "active"]
  /\ UNCHANGED <<pc, Job, issued, Store, receipts, working, Failures, Mutex>>

CompleteOperation(o) ==
  /\ barrier[o].state = "active"
  /\ barrier' = [barrier EXCEPT ![o] = [state |-> "none", base |-> None]]
  /\ UNCHANGED <<pc, Job, issued, Store, receipts, working, Failures, Mutex>>

-----------------------------------------------------------------------------
Execute(p) ==
  \/ LookForReceipt(p) \/ Lock(p) \/ LockRefused(p) \/ LookAgain(p) \/ Load(p)
  \/ Apply(p) \/ Stage(p) \/ Publish(p) \/ SwapPointer(p) \/ Materialize(p)
  \/ RecordSuccess(p) \/ RecordFailure(p) \/ Release(p)

Fail(p) == CallFails(p) \/ MaterializeFails(p) \/ ReceiptSyncFails(p) \/ Crash(p)

Operate(o) == ReadBase(o) \/ RaiseBarrier(o) \/ CompleteOperation(o)

Next ==
  \/ \E p \in Processes :
       \/ \E c \in Commands, op \in Ops : Submit(p, c, op)
       \/ Execute(p)
       \/ Fail(p)
  \/ \E o \in Operations : Operate(o)
  \/ BreakLease
  \/ EditOutside

Spec == Init /\ [][Next]_vars

(* An executor that has started a command runs it to its end: each awaited *)
(* call settles.  Clients, failures and outside actors owe nothing.        *)
FairSpec == Spec /\ \A p \in Processes : WF_vars(Execute(p))

-----------------------------------------------------------------------------
Steps ==
  {"idle", "look", "lock", "lookAgain", "load", "apply", "commit", "publish",
   "swap", "materialize", "committed", "validated", "fail", "release"}

(* The steps taken between acquiring the lock and releasing it. *)
LockedSteps == Steps \ {"idle", "look", "lock"}

(* Every variable has its type; a process has a command just while it runs *)
(* one, and believes it holds the lock just while it is past acquisition.  *)
TypeOK ==
  /\ pc \in [Processes -> Steps]
  /\ cmd \in [Processes -> Commands \cup {None}]
  /\ current \in [Processes -> Nat \cup {None}]
  /\ new \in [Processes -> Nat \cup {None}]
  /\ issued \in [Commands -> Envelope \cup {None}]
  /\ pointer \in Nat /\ minted \in Nat
  /\ rev \in [DOMAIN rev -> Revision] /\ DOMAIN rev \subseteq Nat
  /\ staging \subseteq Nat
  /\ receipts \in [{Key[c] : c \in Commands} -> Receipt \cup {None}]
  /\ working \in Nat
  /\ barrier \in [Operations -> [state : {"none", "begun", "active"},
                                 base : Nat \cup {None}]]
  /\ crashes \in 0..MaxCrashes /\ errors \in 0..MaxErrors /\ edits \in 0..MaxEdits
  /\ broken \in BOOLEAN
  /\ holders = {p \in Processes : pc[p] \in LockedSteps}
  /\ \A p \in Processes : cmd[p] # None <=> pc[p] # "idle"

(* The revisions from which r descends, r included: those in every set of  *)
(* revisions that holds r and the parent of each of its members.           *)
Closed(S) == \A s \in S : rev[s].parent # None => rev[s].parent \in S

Ancestors(r) ==
  {s \in DOMAIN rev : \A S \in SUBSET (DOMAIN rev \ {s}) : r \in S => ~Closed(S)}

(* The commands that led from the project's creation to revision r, in the *)
(* order in which their revisions were made.                               *)
CommandsTo(r) ==
  LET line == Ancestors(r) \ {Root}
      UpTo(s) == {q \in line : q <= s}
  IN [i \in 1..Cardinality(line) |->
        rev[CHOOSE s \in line : Cardinality(UpTo(s)) = i].command]

(* The contents an editor can move through from revision r, oldest first.  *)
Tape(r) == rev[r].undo \o <<rev[r].content>> \o Reverse(rev[r].redo)

(* The pointer always names a completely published revision, whose line of *)
(* parents is published too and leads to the root: a crash at any point    *)
(* leaves the old or the new revision authoritative, never part of one.    *)
AuthorityComplete ==
  /\ pointer \in DOMAIN rev
  /\ staging \cap DOMAIN rev = {}
  /\ \A r \in DOMAIN rev \ {Root} :
       rev[r].parent \in DOMAIN rev /\ rev[r].parent < r

(* Authority moves only from a revision to its own child, so no accepted   *)
(* revision is lost, as long as the lock's lease discipline holds.         *)
NoLostUpdate ==
  [][pointer' # pointer => rev'[pointer'].parent = pointer \/ broken']_vars

(* A command takes effect at most once: whatever is retried after crashes, *)
(* errors and lost leases, authority never descends from two revisions     *)
(* made by the same command.                                               *)
AtMostOnce ==
  \A r, s \in Ancestors(pointer) :
    rev[r].command = rev[s].command => r = s

(* A receipt that says "committed" names a revision of that very command   *)
(* from which authority descends, crashes and errors notwithstanding.      *)
CommittedIsAuthoritative ==
  broken \/ \A k \in DOMAIN receipts :
    receipts[k] # None /\ receipts[k].status = "committed" =>
      /\ receipts[k].result \in Ancestors(pointer)
      /\ rev[receipts[k].result].command = receipts[k].command

(* Without a crash or a failed call, a "failed" receipt is right too:      *)
(* nothing authority descends from was made by that command.               *)
FailedHadNoEffect ==
  broken \/ crashes + errors > 0 \/ \A k \in DOMAIN receipts :
    receipts[k] # None /\ receipts[k].status = "failed" =>
      \A r \in Ancestors(pointer) : rev[r].command # receipts[k].command

(* Receipts are true, as far as a crash allows: a process that dies between *)
(* the pointer swap and the receipt leaves a command that its retry records *)
(* as failed, though it took effect.                                        *)
ReceiptsAreTrue == CommittedIsAuthoritative /\ FailedHadNoEffect

(* Undo and redo move along the contents without losing or repeating any:  *)
(* they leave the tape of the revision they start from as it was, and an   *)
(* edit cuts the tape after the present content and extends it.            *)
HistoryIsATape ==
  \A r \in DOMAIN rev \ {Root} :
    LET before == rev[rev[r].parent] IN
    /\ \A i, j \in DOMAIN Tape(r) : i < j => Tape(r)[i] < Tape(r)[j]
    /\ IF rev[r].content = r
         THEN Tape(r) = before.undo \o <<before.content, r>>
         ELSE Tape(r) = Tape(rev[r].parent)

(* Undo and redo restore: two revisions with the same content embed the    *)
(* same source text, that of the revision the content was created in.      *)
ContentIsRestored ==
  \A r \in DOMAIN rev : rev[r].source = rev[rev[r].content].source

(* Any sequence of edits, undos and redos of several steps moves along one  *)
(* tape of contents and restores exactly what it reaches.                   *)
HistoryRestores == HistoryIsATape /\ ContentIsRestored

(* When no command is on its way from the pointer swap to the working file *)
(* the file holds the authoritative source (no crash, error, broken lease  *)
(* or outside edit so far).                                                *)
WorkingFileInSync ==
  \/ broken \/ crashes + errors + edits > 0
  \/ \E p \in Processes : pc[p] = "materialize"
  \/ working = rev[pointer].source

(* A command that got the lock leaves a receipt, unless its process dies   *)
(* or a call fails: the lock, the checks and the other executors cannot    *)
(* make it vanish.                                                         *)
LockedCommandSettles ==
  \A p \in Processes, c \in Commands :
    pc[p] = "lookAgain" /\ cmd[p] = c
      ~> receipts[Key[c]] # None \/ crashes + errors > 0

(* The pointer's ancestry implements the log of accepted commands.         *)
Log == INSTANCE RevisionLog WITH log <- CommandsTo(pointer)
ImplementsLog == Log!Spec
=============================================================================
