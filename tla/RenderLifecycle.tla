---------------------------- MODULE RenderLifecycle ----------------------------
(* Render outputs and their lifecycle (render-service.ts, qa/lifecycle.ts,  *)
(* render/recovery.ts): a render activates its output, QA judges it, a      *)
(* person approves it and it is delivered.  Every such transition is a      *)
(* revision of the project, and it is also an event file of the output.     *)
(* The two are kept in step by an intent that is written before the commit  *)
(* and removed after the event; whoever reads the output's receipt finishes *)
(* or discards the intents it finds.  The server may crash between any two  *)
(* steps.  Committing is one step here: CommandEngine shows that it is one. *)
EXTENDS Naturals, Sequences, SequencesExt

CONSTANTS
  Outputs,          \* output identities, each for one render request
  Processes,        \* the requests and jobs the server has in flight
  Readers,          \* those of them that only read
  Verdicts,         \* the verdicts QA can come to
  None,
  MaxRequests,      \* bound: requests other than reads
  MaxDisturbances   \* bound: edits, undos, redos, crashes, and calls that fail by themselves

Verdict == {"qa_failed", "qa_warning", "qa_passed"}
States == Verdict \cup {"none", "rendered_unchecked", "approved", "delivered"}
Transaction == [id : Nat, output : Outputs, from : States, to : States, source : Nat]

ASSUME LifecycleAssumption ==
  /\ Verdicts \subseteq Verdict /\ Readers \subseteq Processes
  /\ None \notin Outputs \cup Transaction
  /\ {MaxRequests, MaxDisturbances} \subseteq Nat

VARIABLES
  revisions,   \* the ancestry of the current revision, oldest first
  history,     \* the undo and redo stacks of the current revision
  intents,     \* transactions/*.json
  events,      \* lifecycle/*.json
  base,        \* the revision each output was rendered from; 0: no receipt
  published,   \* outputs with an output.json
  delivery,    \* the event each delivery.json names
  checklist,   \* the review checklist of each output
  journal,     \* the recovery journal of each render
  barriers,    \* renders whose operation barrier is raised
  proc,        \* what each process is at
  undoing,     \* the base of an undo or redo that has checked for barriers
  counters,    \* requests, transactions and disturbances so far
  raced,       \* history: outputs a reader's recovery got in the way of
  rewound,     \* history: an undo or redo has changed the approval state
  stranded     \* history: renders that ended in an error outside the reach of their clean-up

files == <<intents, events, base, published, delivery, checklist, journal, barriers>>
authority == <<revisions, history>>
observed == <<raced, rewound, stranded>>
vars == <<authority, files, proc, undoing, counters, observed>>

Stages == {"none", "request-persisted", "operation-started", "receipt-published",
           "approval-transitioned", "output-published"}
Statuses == {"none", "pending", "running", "failed", "cancelled", "completed"}

Current == Len(revisions)
Approval == revisions[Current]
Idle == [op |-> "none", output |-> None, step |-> "idle", goal |-> "none",
         to |-> "none", expected |-> 0, seen |-> 0, todo |-> {}, tx |-> None]

Init ==
  /\ revisions = <<[state |-> "none", output |-> None, by |-> 0]>>
  /\ history = [content |-> 1, undo |-> <<>>, redo |-> <<>>]
  /\ intents = {} /\ events = {}
  /\ base = [o \in Outputs |-> 0] /\ published = {}
  /\ delivery = [o \in Outputs |-> None]
  /\ checklist = [o \in Outputs |-> "none"]
  /\ journal = [o \in Outputs |-> [stage |-> "none", status |-> "none"]]
  /\ barriers = {} /\ proc = [p \in Processes |-> Idle] /\ undoing = 0
  /\ counters = [requests |-> 0, transactions |-> 0, disturbances |-> 0, crashed |-> FALSE]
  /\ raced = {} /\ rewound = FALSE /\ stranded = {}

-----------------------------------------------------------------------------
(* The rules of the lifecycle.                                             *)

(* A transition of an output, from the approval state of a revision. *)
TransitionAllowed(approval, to, o) ==
  \/ to = "rendered_unchecked" /\ approval.output # o
  \/ /\ approval.output = o
     /\ \/ approval.state = "rendered_unchecked" /\ to \in Verdict
        \/ approval.state \in {"qa_warning", "qa_passed"} /\ to = "approved"
        \/ approval.state = "approved" /\ to = "delivered"

EventsOf(o) == {e \in events : e.output = o}
IntentsOf(o) == {t \in intents : t.output = o}

(* Outputs whose transition is committed, and its event about to be written. *)
Transitioning == {proc[p].output : p \in {q \in Processes : proc[q].step = "event"}}

(* Events are ordered by their revisions, each of which follows its source. *)
Earlier(es, e) == {d \in es : d.source < e.source}
Latest(es) == CHOOSE e \in es : \A d \in es : d.source <= e.source

(* What a reader of a receipt demands of the events it finds. *)
ValidChain(o, es) ==
  /\ es # {}
  /\ \A d, e \in es : d.source = e.source => d = e
  /\ \A e \in es :
       IF Earlier(es, e) = {} THEN e.to = "rendered_unchecked" /\ e.source = base[o]
       ELSE /\ e.from = Latest(Earlier(es, e)).to
            /\ TransitionAllowed([state |-> e.from, output |-> o], e.to, o)

(* The revision of a transaction, or of a recovered event, is in authority. *)
Reachable(t, current) == \E i \in 1..current : revisions[i].by = t.id

-----------------------------------------------------------------------------
(* The life of a request: what it is about to do next, and how it ends.    *)

At(p, step) == proc[p].step = step
Goto(p, request) == proc' = [proc EXCEPT ![p] = request]
Ends(p) == proc' = [proc EXCEPT ![p] = Idle]

(* A render is about to settle, or to lower its barrier. *)
Closes(p, step) == Goto(p, [proc[p] EXCEPT !.step = step, !.tx = None])

(* A render that fails has to settle; any other request just ends. *)
Fails(p) == IF proc[p].op = "render" THEN Closes(p, "settle") ELSE Ends(p)

Disturbance(what) ==
  /\ counters.disturbances < MaxDisturbances
  /\ counters' = [counters EXCEPT !.disturbances = @ + 1, !.crashed = (@ \/ what = "crash")]

(* It fails by itself, or because of a condition that makes it fail. *)
FailsBy(p, condition) ==
  /\ Fails(p)
  /\ IF condition THEN UNCHANGED counters ELSE Disturbance("error")

Requests ==
  /\ counters.requests < MaxRequests
  /\ counters' = [counters EXCEPT !.requests = @ + 1]

(* A read of an output, or a request that begins with one. *)
StartRequest(p, op, o) ==
  /\ At(p, "idle") /\ base[o] # 0
  /\ IF op = "read" THEN UNCHANGED counters ELSE Requests
  /\ Goto(p, [proc[p] EXCEPT !.op = op, !.output = o, !.step = "scan",
              !.goal = IF o \in published THEN "receipt" ELSE "output"])
  /\ UNCHANGED <<authority, files, undoing, observed>>

(* A render is requested for the revision that is current. *)
StartRender(p, o) ==
  /\ At(p, "idle") /\ journal[o].stage = "none" /\ Requests
  /\ journal' = [journal EXCEPT ![o] = [stage |-> "request-persisted", status |-> "pending"]]
  /\ Goto(p, [proc[p] EXCEPT !.op = "render", !.output = o, !.step = "begin", !.expected = Current,
              !.to = "rendered_unchecked"])
  /\ UNCHANGED <<authority, intents, events, base, published, delivery, checklist,
                 barriers, undoing, observed>>

(* Its job starts: unless the revision has changed, it raises its barrier. *)
BeginRender(p) ==
  /\ At(p, "begin") /\ proc[p].expected = Current
  /\ barriers' = barriers \cup {proc[p].output}
  /\ Goto(p, [proc[p] EXCEPT !.step = "raised"])
  /\ UNCHANGED <<authority, intents, events, base, published, delivery, checklist, journal,
                 undoing, counters, observed>>

(* The revision has changed, or there is an error before the barrier's file. *)
RenderRefused(p) ==
  /\ At(p, "begin") /\ Ends(p)
  /\ IF proc[p].expected # Current THEN UNCHANGED counters ELSE Disturbance("error")
  /\ UNCHANGED <<authority, files, undoing, observed>>

(* An error once the file is there, in writing it or in reading or beginning *)
(* the journal: the clean-up does not cover these lines yet.                 *)
StrandBarrier(p) ==
  /\ At(p, "raised") /\ Ends(p) /\ Disturbance("error")
  /\ stranded' = stranded \cup {proc[p].output}
  /\ UNCHANGED <<authority, files, undoing, raced, rewound>>

(* From here on whatever ends the render settles it. *)
StartOperation(p) ==
  /\ At(p, "raised")
  /\ journal' = [journal EXCEPT ![proc[p].output] =
                   [stage |-> "operation-started", status |-> "running"]]
  /\ Goto(p, [proc[p] EXCEPT !.step = "execute"])
  /\ UNCHANGED <<authority, intents, events, base, published, delivery, checklist, barriers,
                 undoing, counters, observed>>

(* The artifacts are rendered and validated, and the receipt is published. *)
PublishReceipt(p) ==
  /\ At(p, "execute")
  /\ LET o == proc[p].output IN
       /\ base' = [base EXCEPT ![o] = proc[p].expected]
       /\ journal' = [journal EXCEPT ![o].stage = "receipt-published"]
  /\ Goto(p, [proc[p] EXCEPT !.step = "scan", !.goal = "transition"])
  /\ UNCHANGED <<authority, intents, events, published, delivery, checklist, barriers,
                 undoing, counters, observed>>

RenderFails(p) ==
  /\ proc[p].step \in {"raised", "execute"} /\ FailsBy(p, FALSE)
  /\ UNCHANGED <<authority, files, undoing, observed>>

X_Settle(p) ==  \* forgets the barrier
  /\ At(p, "settle") /\ Ends(p)
  /\ \E status \in {"failed", "cancelled"} :
       journal' = [journal EXCEPT ![proc[p].output].status = status]
  /\ UNCHANGED <<authority, intents, events, base, published, delivery, checklist, barriers,
                 undoing, counters, observed>>

(* The failure or the cancellation is recorded in the journal, or that fails *)
(* too; either way the barrier is to be lowered.                             *)
Settle(p) ==
  /\ At(p, "settle") /\ Closes(p, "lower")
  /\ \/ /\ \E status \in {"failed", "cancelled"} :
            journal' = [journal EXCEPT ![proc[p].output].status = status]
          /\ UNCHANGED counters
     \/ UNCHANGED journal /\ Disturbance("error")
  /\ UNCHANGED <<authority, intents, events, base, published, delivery, checklist, barriers,
                 undoing, observed>>

LowerBarrier(p) ==
  /\ At(p, "lower") /\ Ends(p)
  /\ barriers' = barriers \ {proc[p].output}
  /\ UNCHANGED <<authority, intents, events, base, published, delivery, checklist, journal,
                 undoing, counters, observed>>

(* The file cannot be removed. *)
LowerFails(p) ==
  /\ At(p, "lower") /\ Ends(p) /\ Disturbance("error")
  /\ stranded' = stranded \cup {proc[p].output}
  /\ UNCHANGED <<authority, files, undoing, raced, rewound>>

-----------------------------------------------------------------------------
(* Recovery of the intents of an output: the first thing every reader and  *)
(* every transition does.                                                  *)

(* The names of the intents, and the current revision. *)
Scan(p) ==
  /\ At(p, "scan")
  /\ Goto(p, [proc[p] EXCEPT !.step = "resolve", !.seen = Current,
              !.todo = IntentsOf(proc[p].output)])
  /\ UNCHANGED <<authority, files, undoing, counters, observed>>

X_Resolve(p, t) ==  \* finishes every intent
  /\ At(p, "resolve") /\ t \in proc[p].todo /\ t \in intents
  /\ events' = events \cup {t} /\ intents' = intents \ {t}
  /\ Goto(p, [proc[p] EXCEPT !.todo = proc[p].todo \ {t}])
  /\ UNCHANGED <<authority, base, published, delivery, checklist, journal, barriers,
                 undoing, counters, observed>>

(* One of them: the event of a revision that was committed is written, an   *)
(* intent that was not is removed.                                          *)
Resolve(p, t) ==
  /\ At(p, "resolve") /\ t \in proc[p].todo /\ t \in intents
  /\ events' = IF Reachable(t, proc[p].seen) THEN events \cup {t} ELSE events
  /\ intents' = intents \ {t}
  /\ raced' = IF Reachable(t, Current) /\ ~Reachable(t, proc[p].seen)
              THEN raced \cup {t.output} ELSE raced
  /\ Goto(p, [proc[p] EXCEPT !.todo = proc[p].todo \ {t}])
  /\ UNCHANGED <<authority, base, published, delivery, checklist, journal, barriers,
                 undoing, counters, rewound, stranded>>

Resolved(p) == At(p, "resolve") /\ proc[p].todo = {}

-----------------------------------------------------------------------------
(* Reading an output and its receipt.                                      *)

(* There is no output.json yet.  Without any event the activation may have *)
(* been committed and its event lost: it is looked for (the next step).    *)
FindEvents(p) ==
  /\ Resolved(p) /\ proc[p].goal = "output"
  /\ Goto(p, IF EventsOf(proc[p].output) = {} THEN [proc[p] EXCEPT !.step = "activation"]
             ELSE [proc[p] EXCEPT !.step = "scan", !.goal = "receipt"])
  /\ UNCHANGED <<authority, files, undoing, counters, observed>>

(* The revision that activated an output, in the ancestry of the current one. *)
IsActivation(i, o) ==
  /\ i = base[o] + 1
  /\ revisions[i].output = o /\ revisions[i].state = "rendered_unchecked"

(* An event made up from the activating revision, or nothing to be read. *)
RecoverActivation(p) ==
  /\ At(p, "activation")
  /\ LET o == proc[p].output IN
       IF \E i \in 1..Current : IsActivation(i, o)
         THEN /\ events' = events \cup {[id |-> 0, output |-> o, source |-> base[o],
                   from |-> revisions[base[o]].state, to |-> "rendered_unchecked"]}
              /\ raced' = IF o \in Transitioning \/ EventsOf(o) # {} \/ IntentsOf(o) # {}
                          THEN raced \cup {o} ELSE raced
              /\ Goto(p, [proc[p] EXCEPT !.step = "scan", !.goal = "receipt"])
         ELSE Ends(p) /\ UNCHANGED <<events, raced>>
  /\ UNCHANGED <<authority, intents, base, published, delivery, checklist, journal,
                 barriers, undoing, counters, rewound, stranded>>

(* The state and the evidence a request wants, and the revision it will ask *)
(* to follow.                                                               *)
Wanted(p, es) ==
  LET o == proc[p].output IN
  /\ Approval.output = o
  /\ \/ proc[p].op = "qa" /\ Approval.state = "rendered_unchecked"
     \/ /\ proc[p].op = "approve" /\ checklist[o] = "complete"
        /\ Approval.state \in {"qa_passed", "qa_warning"}
     \/ /\ proc[p].op = "deliver" /\ checklist[o] = "complete"
        /\ Approval.state = "approved" /\ Latest(es).to = "approved"

(* The receipt is valid: a missing output.json or delivery.json is written, *)
(* and the request goes on.                                                 *)
ReadReceipt(p) ==
  /\ Resolved(p) /\ proc[p].goal = "receipt"
  /\ LET o == proc[p].output
         es == EventsOf(o) IN
       /\ ValidChain(o, es)
       /\ delivery[o] # None => Latest(es).to = "delivered" /\ delivery[o] = Latest(es).id
       /\ published' = published \cup {o}
       /\ delivery' = IF Latest(es).to = "delivered"
                      THEN [delivery EXCEPT ![o] = Latest(es).id] ELSE delivery
       /\ IF Wanted(p, es)
            THEN Goto(p, [proc[p] EXCEPT !.step = IF proc[p].op = "qa" THEN "evaluate" ELSE "scan",
                          !.goal = "transition", !.expected = Current,
                          !.to = IF proc[p].op = "approve" THEN "approved" ELSE "delivered"])
            ELSE Ends(p)
  /\ UNCHANGED <<authority, intents, events, base, checklist, journal, barriers,
                 undoing, counters, observed>>

(* The receipt is refused. *)
Unreadable(o) ==
  LET es == EventsOf(o) IN
    ~ /\ ValidChain(o, es)
      /\ delivery[o] # None => Latest(es).to = "delivered" /\ delivery[o] = Latest(es).id

ReadFails(p) ==
  /\ Resolved(p) /\ proc[p].goal = "receipt" /\ Unreadable(proc[p].output)
  /\ Ends(p)
  /\ UNCHANGED <<authority, files, undoing, counters, observed>>

(* QA records its report and a new checklist, and comes to a verdict. *)
Evaluate(p) ==
  /\ At(p, "evaluate")
  /\ checklist' = [checklist EXCEPT ![proc[p].output] = "open"]
  /\ \E v \in Verdicts : Goto(p, [proc[p] EXCEPT !.step = "scan", !.goal = "transition", !.to = v])
  /\ UNCHANGED <<authority, intents, events, base, published, delivery, journal,
                 barriers, undoing, counters, observed>>

(* The last item of the checklist is recorded. *)
RecordChecklist(o) ==
  /\ checklist[o] = "open"
  /\ checklist' = [checklist EXCEPT ![o] = "complete"]
  /\ UNCHANGED <<authority, intents, events, base, published, delivery, journal,
                 barriers, proc, undoing, counters, observed>>

-----------------------------------------------------------------------------
(* A transition: intent, commit, event, and the intent is removed.         *)

X_WriteIntent(p) ==  \* the delivery is recorded before it is committed
  /\ Resolved(p) /\ proc[p].goal = "transition" /\ proc[p].expected = Current
  /\ LET t == [id |-> counters.transactions + 1, output |-> proc[p].output,
               from |-> Approval.state, to |-> proc[p].to, source |-> Current] IN
       /\ intents' = intents \cup {t} /\ Goto(p, [proc[p] EXCEPT !.step = "commit", !.tx = t])
       /\ delivery' = IF t.to = "delivered" THEN [delivery EXCEPT ![t.output] = t.id] ELSE delivery
  /\ counters' = [counters EXCEPT !.transactions = @ + 1]
  /\ UNCHANGED <<authority, events, base, published, checklist, journal, barriers,
                 undoing, observed>>

WriteIntent(p) ==
  /\ Resolved(p) /\ proc[p].goal = "transition" /\ proc[p].expected = Current
  /\ LET t == [id |-> counters.transactions + 1, output |-> proc[p].output,
               from |-> Approval.state, to |-> proc[p].to, source |-> Current] IN
       intents' = intents \cup {t} /\ Goto(p, [proc[p] EXCEPT !.step = "commit", !.tx = t])
  /\ counters' = [counters EXCEPT !.transactions = @ + 1]
  /\ UNCHANGED <<authority, events, base, published, delivery, checklist, journal,
                 barriers, undoing, observed>>

(* A new revision on top of the current one. *)
Grow(approval) == revisions' = Append(revisions, approval)

Record ==
  history' = [content |-> Current + 1, undo |-> Append(history.undo, history.content),
              redo |-> <<>>]

X_Commit(p) ==  \* removes the intent before the event is written
  /\ At(p, "commit") /\ proc[p].expected = Current
  /\ TransitionAllowed(Approval, proc[p].to, proc[p].output)
  /\ Grow([state |-> proc[p].to, output |-> proc[p].output, by |-> proc[p].tx.id])
  /\ Record /\ intents' = intents \ {proc[p].tx}
  /\ Goto(p, [proc[p] EXCEPT !.step = "event"])
  /\ UNCHANGED <<events, base, published, delivery, checklist, journal, barriers,
                 undoing, counters, observed>>

(* The base and the rules allow it.  (If a reader has discarded the intent, *)
(* nobody notices.)                                                         *)
Commit(p) ==
  /\ At(p, "commit") /\ proc[p].expected = Current
  /\ TransitionAllowed(Approval, proc[p].to, proc[p].output)
  /\ Grow([state |-> proc[p].to, output |-> proc[p].output, by |-> proc[p].tx.id])
  /\ Record
  /\ raced' = IF proc[p].tx \in intents THEN raced ELSE raced \cup {proc[p].output}
  /\ Goto(p, [proc[p] EXCEPT !.step = "event"])
  /\ UNCHANGED <<files, undoing, counters, rewound, stranded>>

(* The commit is refused, for the base or the rules, or fails: the intent   *)
(* is removed.                                                              *)
CommitRefused(p) ==
  /\ At(p, "commit")
  /\ intents' = intents \ {proc[p].tx}
  /\ FailsBy(p, proc[p].expected # Current
                 \/ ~TransitionAllowed(Approval, proc[p].to, proc[p].output))
  /\ UNCHANGED <<authority, events, base, published, delivery, checklist, journal,
                 barriers, undoing, observed>>

WriteEvent(p) ==
  /\ At(p, "event")
  /\ events' = events \cup {proc[p].tx}
  /\ Goto(p, [proc[p] EXCEPT !.step = "tidy"])
  /\ UNCHANGED <<authority, intents, base, published, delivery, checklist, journal,
                 barriers, undoing, counters, observed>>

(* The intent is removed, and the request goes on to what follows: a render *)
(* publishes its output, a delivery its record.                             *)
RemoveIntent(p) ==
  /\ At(p, "tidy")
  /\ intents' = intents \ {proc[p].tx}
  /\ LET o == proc[p].output IN
       IF proc[p].op = "render"
         THEN /\ journal' = [journal EXCEPT ![o].stage = "approval-transitioned"]
              /\ Goto(p, [proc[p] EXCEPT !.step = "publish"])
       ELSE /\ IF proc[p].op = "deliver" THEN Goto(p, [proc[p] EXCEPT !.step = "publish"]) ELSE Ends(p)
            /\ UNCHANGED journal
  /\ UNCHANGED <<authority, events, base, published, delivery, checklist, barriers,
                 undoing, counters, observed>>

PublishOutput(p) ==
  /\ At(p, "publish") /\ proc[p].op = "render"
  /\ published' = published \cup {proc[p].output}
  /\ journal' = [journal EXCEPT ![proc[p].output] = [stage |-> "output-published", status |-> "completed"]]
  /\ Closes(p, "lower")
  /\ UNCHANGED <<authority, intents, events, base, delivery, checklist, barriers, undoing,
                 counters, observed>>

PublishDelivery(p) ==
  /\ At(p, "publish") /\ proc[p].op = "deliver"
  /\ delivery' = [delivery EXCEPT ![proc[p].output] = proc[p].tx.id]
  /\ Ends(p)
  /\ UNCHANGED <<authority, intents, events, base, published, checklist, journal,
                 barriers, undoing, counters, observed>>

(* An await of a request fails: by itself, or because a file it has listed  *)
(* is gone, which somebody else has resolved, or because the project has    *)
(* moved on before the intent is written.                                   *)
CallFails(p) ==
  /\ proc[p].step \in {"scan", "resolve", "activation", "evaluate", "event", "tidy", "publish"}
  /\ FailsBy(p, \/ proc[p].todo \ intents # {}
                \/ Resolved(p) /\ proc[p].goal = "transition" /\ proc[p].expected # Current)
  /\ UNCHANGED <<authority, files, undoing, observed>>

-----------------------------------------------------------------------------
(* Everything else that commits revisions.                                 *)

(* An edit keeps the approval state. *)
Edit ==
  /\ Disturbance("change")
  /\ Grow([Approval EXCEPT !.by = 0]) /\ Record
  /\ UNCHANGED <<files, proc, undoing, observed>>

(* An undo or a redo finds no barrier; it commits later. *)
CheckBarriers ==
  /\ undoing = 0 /\ barriers = {} /\ Disturbance("change")
  /\ undoing' = Current
  /\ UNCHANGED <<authority, files, proc, observed>>

(* It restores the documents of the content it goes to, the approval state  *)
(* among them.                                                              *)
Restore(target, h) ==
  /\ undoing = Current
  /\ Grow([revisions[target] EXCEPT !.by = 0])
  /\ history' = h
  /\ rewound' = (rewound \/ revisions[target].state # Approval.state
                         \/ revisions[target].output # Approval.output)
  /\ undoing' = 0
  /\ UNCHANGED <<files, proc, counters, raced, stranded>>

Undo ==
  /\ history.undo # <<>>
  /\ Restore(Last(history.undo), [content |-> Last(history.undo),
       undo |-> Front(history.undo), redo |-> Append(history.redo, history.content)])

Redo ==
  /\ history.redo # <<>>
  /\ Restore(Last(history.redo), [content |-> Last(history.redo),
       redo |-> Front(history.redo), undo |-> Append(history.undo, history.content)])

(* The base has moved, the stack is empty, or the command fails. *)
MoveFails ==
  /\ undoing # 0 /\ undoing' = 0
  /\ UNCHANGED <<authority, files, proc, counters, observed>>

(* The server dies; the files stay as they are. *)
Crash ==
  /\ Disturbance("crash")
  /\ proc' = [p \in Processes |-> Idle] /\ undoing' = 0
  /\ UNCHANGED <<authority, files, observed>>

-----------------------------------------------------------------------------
Request(p) ==
  \E o \in Outputs :
    \/ StartRequest(p, "read", o)
    \/ /\ p \notin Readers
       /\ \/ \E op \in {"qa", "approve", "deliver"} : StartRequest(p, op, o)
          \/ StartRender(p, o)

Step(p) ==
  \/ BeginRender(p) \/ RenderRefused(p) \/ StrandBarrier(p) \/ StartOperation(p)
  \/ PublishReceipt(p) \/ RenderFails(p) \/ Settle(p) \/ LowerBarrier(p) \/ LowerFails(p)
  \/ Scan(p) \/ \E t \in intents : Resolve(p, t)
  \/ FindEvents(p) \/ RecoverActivation(p) \/ ReadReceipt(p) \/ ReadFails(p) \/ Evaluate(p)
  \/ WriteIntent(p) \/ Commit(p) \/ CommitRefused(p)
  \/ WriteEvent(p) \/ RemoveIntent(p) \/ PublishOutput(p) \/ PublishDelivery(p)
  \/ CallFails(p)

Next ==
  \/ \E p \in Processes : Request(p) \/ Step(p)
  \/ \E o \in Outputs : RecordChecklist(o)
  \/ Edit \/ CheckBarriers \/ Undo \/ Redo \/ MoveFails
  \/ Crash

Spec == Init /\ [][Next]_vars

-----------------------------------------------------------------------------
(* Every variable has its type, and a process holds a transaction of its    *)
(* output exactly between the writing of its intent and its end.            *)
TypeOK ==
  /\ \A i \in 1..Current : revisions[i] \in
       [state : States, output : Outputs \cup {None}, by : 0..counters.transactions]
  /\ history.content \in 1..Current
  /\ intents \cup events \subseteq Transaction
  /\ base \in [Outputs -> 0..Current] /\ published \subseteq Outputs
  /\ delivery \in [Outputs -> Nat \cup {None}]
  /\ checklist \in [Outputs -> {"none", "open", "complete"}]
  /\ journal \in [Outputs -> [stage : Stages, status : Statuses]]
  /\ barriers \subseteq Outputs /\ raced \cup stranded \subseteq Outputs /\ rewound \in BOOLEAN
  /\ undoing \in 0..Current
  /\ \A p \in Processes :
       /\ proc[p].output \in Outputs \cup {None} /\ proc[p].to \in States
       /\ {proc[p].expected, proc[p].seen} \subseteq 0..Current
       /\ (proc[p].tx # None) = (proc[p].step \in {"commit", "event", "tidy"}
                                 \/ proc[p].step = "publish")
       /\ proc[p].tx # None => proc[p].tx.output = proc[p].output

(* No event without its revision: whatever readers recover and writers lose,*)
(* an event file names a committed revision in the ancestry of authority    *)
(* that made exactly this transition.                                       *)
EventsAreCommitted ==
  \A e \in events :
    /\ e.source < Current
    /\ revisions[e.source + 1].by # 0
    /\ e.id \in {0, revisions[e.source + 1].by}
    /\ revisions[e.source].state = e.from
    /\ revisions[e.source + 1].state = e.to
    /\ revisions[e.source + 1].output = e.output

(* No revision without its event: a committed transition has its event, or  *)
(* an intent from which the next reader will write it, or a live writer,    *)
(* through crashes, errors and recoveries by others, unless a reader that   *)
(* had looked at authority before the commit discarded the intent.          *)
CommitIsRecorded ==
  \A i \in 2..Current :
    revisions[i].by # 0 =>
      \/ \E t \in events \cup intents : t.source = i - 1 /\ t.output = revisions[i].output
      \/ \E p \in Processes : At(p, "event") /\ proc[p].tx.id = revisions[i].by
      \/ revisions[i].output \in raced

(* Receipts stay readable: the events of an output form one valid chain, in *)
(* step with its delivery record, unless a reader's recovery collided with  *)
(* a transition, or an undo took the approval state back.                   *)
ReceiptsReadable ==
  \A o \in Outputs :
    EventsOf(o) # {} /\ o \notin raced /\ ~rewound => ~Unreadable(o)

(* The recovery journal is never ahead of the truth: it speaks of a         *)
(* transition only if the activation is in authority, and of a completed    *)
(* render only if the output is published.                                  *)
JournalNeverAhead ==
  \A o \in Outputs :
    /\ journal[o].stage \in {"approval-transitioned", "output-published"} =>
         \E i \in 1..Current : IsActivation(i, o)
    /\ journal[o].status = "completed" => o \in published

(* Authority, events and journal agree.                                     *)
RecordsAgree == TypeOK /\ EventsAreCommitted /\ JournalNeverAhead

(* Only a running render holds up undo and redo: however a render ends once *)
(* its clean-up covers it (success, error, cancellation, a refused commit, a *)
(* failure that cannot be recorded), it takes its barrier with it.  What     *)
(* leaves a barrier behind is a crash, an error between its raising and the  *)
(* first line that is covered, and an error of the lowering itself.          *)
BarriersHaveOwners ==
  \A o \in barriers :
    \/ counters.crashed \/ o \in stranded
    \/ \E p \in Processes : proc[p].op = "render" /\ proc[p].output = o
=============================================================================
