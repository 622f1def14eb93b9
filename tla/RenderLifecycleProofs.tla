----------------------- MODULE RenderLifecycleProofs -----------------------
(* Theorems about the render lifecycle, for any outputs, requests and       *)
(* processes, any verdicts, and any number of requests, edits, failures and *)
(* crashes.                                                                 *)
EXTENDS RenderLifecycle, SequenceTheorems, TLAPS

(* What a process can be doing, in which step of it, and to which end. *)
Ops == {"none", "read", "qa", "approve", "deliver", "render"}
Fresh == {"begin", "raised", "execute"}
Rendering == {"begin", "raised", "execute", "settle", "lower"}
Preparing == {"scan", "resolve", "activation", "evaluate"}
Committed == {"event", "tidy", "publish"}
Transacting == {"commit"} \cup Committed
Steps == {"idle"} \cup Rendering \cup Preparing \cup Transacting
Goals == {"none", "receipt", "output", "transition"}

(* The type of an entry of the ancestry, and of a request. *)
Approvals == [state : States, output : Outputs \cup {None}, by : Nat]
RequestRecord ==
  [op : Ops, output : Outputs \cup {None}, step : Steps, goal : Goals, to : States,
   expected : Nat, seen : Nat, todo : SUBSET Transaction, tx : Transaction \cup {None}]

(* The types of the variables, record by record: what the steps need of     *)
(* TypeOK, and no relation between variables.                               *)
Typed ==
  /\ revisions \in Seq(Approvals) /\ revisions # <<>>
  /\ history \in [content : Nat, undo : Seq(Nat), redo : Seq(Nat)]
  /\ intents \subseteq Transaction /\ events \subseteq Transaction
  /\ base \in [Outputs -> Nat] /\ published \subseteq Outputs
  /\ delivery \in [Outputs -> Nat \cup {None}]
  /\ checklist \in [Outputs -> {"none", "open", "complete"}]
  /\ journal \in [Outputs -> [stage : Stages, status : Statuses]]
  /\ barriers \subseteq Outputs /\ raced \subseteq Outputs /\ stranded \subseteq Outputs
  /\ rewound \in BOOLEAN /\ undoing \in Nat
  /\ counters \in [requests : Nat, transactions : Nat, disturbances : Nat, crashed : BOOLEAN]
  /\ proc \in [Processes -> RequestRecord]

(* How the fields of a request hang together: a render begins, executes,    *)
(* makes its transition and closes; a request holds a transaction from its intent *)
(* to its end, and the transaction is for its output, its target state and  *)
(* its expected revision; only a render and a delivery publish.             *)
Shape(r) ==
  /\ r.op = "none" => r.step = "idle"
  /\ r.step # "idle" => r.output \in Outputs
  /\ r.step \in Rendering => r.op = "render"
  /\ r.op = "render" => /\ r.step \notin {"idle", "activation", "evaluate"}
                        /\ r.to = "rendered_unchecked"
                        /\ r.step \notin Rendering => r.goal = "transition"
  /\ r.step \notin Transacting => r.tx = None
  /\ r.step \in Transacting => /\ r.tx # None
                               /\ r.tx.output = r.output /\ r.tx.to = r.to
                               /\ r.tx.source = r.expected
  /\ r.step = "publish" => r.op \in {"render", "deliver"}

Shapes == \A p \in Processes : Shape(proc[p])

-----------------------------------------------------------------------------
(* Process p becomes request r, and the others stay what they are. *)
Becomes(p, r) ==
  /\ r \in RequestRecord /\ proc' \in [Processes -> RequestRecord] /\ proc'[p] = r
  /\ \A q \in Processes : q # p => proc'[q] = proc[q]

(* The same request, perhaps further on: r and s agree on what it is for. *)
SameRequest(r, s) == s.op = r.op /\ s.output = r.output /\ s.tx = r.tx
SameButStep(r, s) ==
  /\ SameRequest(r, s) /\ s.goal = r.goal /\ s.to = r.to
  /\ s.expected = r.expected /\ s.seen = r.seen /\ s.todo = r.todo

(* A process that goes to a request becomes it (Goto). *)
LEMMA GotoBecomes ==
  ASSUME Typed, NEW p \in Processes, NEW r \in RequestRecord, Goto(p, r)
  PROVE  Becomes(p, r)
BY DEF Typed, Goto, Becomes

(* An idle process has the type of a request. *)
LEMMA IdleTyped == Idle \in RequestRecord
BY DEF Idle, RequestRecord, Ops, Steps, Goals, States

(* A process whose request ends is idle. *)
LEMMA EndsBecomes ==
  ASSUME Typed, NEW p \in Processes, Ends(p)
  PROVE  Becomes(p, Idle)
BY IdleTyped DEF Typed, Ends, Becomes

(* A change of the step alone leaves the request a typed one. *)
LEMMA AdvanceBecomes ==
  ASSUME Typed, NEW p \in Processes, NEW to \in Steps, Goto(p, [proc[p] EXCEPT !.step = to])
  PROVE  \E r : Becomes(p, r) /\ r.step = to /\ SameButStep(proc[p], r)
<1> DEFINE r == [proc[p] EXCEPT !.step = to]
<1>1. Goto(p, r) /\ proc[p] \in RequestRecord
  BY DEF Typed
<1> HIDE DEF r
<1>2. r \in RequestRecord /\ r.step = to /\ SameButStep(proc[p], r)
  BY <1>1 DEF r, RequestRecord, SameButStep, SameRequest
<1> QED BY <1>1, <1>2, GotoBecomes

(* A render that closes is the same request, without its transaction. *)
LEMMA ClosesBecomes ==
  ASSUME Typed, NEW p \in Processes, NEW step \in {"settle", "lower"}, Closes(p, step)
  PROVE  \E r : /\ Becomes(p, r) /\ r.step = step /\ r.tx = None
                /\ r.op = proc[p].op /\ r.output = proc[p].output /\ r.goal = proc[p].goal
                /\ r.to = proc[p].to /\ r.expected = proc[p].expected /\ r.seen = proc[p].seen
<1> DEFINE r == [proc[p] EXCEPT !.step = step, !.tx = None]
<1>1. Goto(p, r) /\ proc[p] \in RequestRecord
  BY DEF Typed, Closes
<1> HIDE DEF r
<1>2. r \in RequestRecord
  BY <1>1 DEF r, RequestRecord, Steps, Rendering
<1>3. /\ r.step = step /\ r.tx = None
      /\ r.op = proc[p].op /\ r.output = proc[p].output /\ r.goal = proc[p].goal
      /\ r.to = proc[p].to /\ r.expected = proc[p].expected /\ r.seen = proc[p].seen
  BY <1>1 DEF r, RequestRecord
<1> QED BY <1>1, <1>2, <1>3, GotoBecomes

(* What a request is when it starts (StartRequest). *)
LEMMA StartRequestBecomes ==
  ASSUME Typed, NEW p \in Processes, NEW op \in Ops, NEW o \in Outputs, StartRequest(p, op, o)
  PROVE  \E r : /\ Becomes(p, r) /\ r.op = op /\ r.output = o /\ r.step = "scan"
                /\ r.goal \in {"receipt", "output"}
                /\ r.tx = proc[p].tx /\ r.expected = proc[p].expected /\ r.seen = proc[p].seen
<1> DEFINE goal == IF o \in published THEN "receipt" ELSE "output"
           r == [proc[p] EXCEPT !.op = op, !.output = o, !.step = "scan", !.goal = goal]
<1>1. Goto(p, r) /\ proc[p] \in RequestRecord /\ goal \in Goals
  BY DEF Typed, StartRequest, Goals
<1> HIDE DEF goal, r
<1>2. r \in RequestRecord
  BY <1>1 DEF r, RequestRecord, Steps, Preparing
<1>3. /\ r.op = op /\ r.output = o /\ r.step = "scan" /\ r.goal = goal
      /\ r.tx = proc[p].tx /\ r.expected = proc[p].expected /\ r.seen = proc[p].seen
  BY <1>1 DEF r, RequestRecord
<1>4. goal \in {"receipt", "output"}
  BY DEF goal
<1> QED BY <1>1, <1>2, <1>3, <1>4, GotoBecomes

(* What a render is when it is requested (StartRender). *)
LEMMA StartRenderBecomes ==
  ASSUME Typed, NEW p \in Processes, NEW o \in Outputs, StartRender(p, o)
  PROVE  \E r : /\ Becomes(p, r) /\ r.op = "render" /\ r.output = o /\ r.step = "begin"
                /\ r.to = "rendered_unchecked" /\ r.expected = Current
                /\ r.tx = proc[p].tx /\ r.seen = proc[p].seen
<1> DEFINE r == [proc[p] EXCEPT !.op = "render", !.output = o, !.step = "begin",
                                !.expected = Current, !.to = "rendered_unchecked"]
<1>1. Goto(p, r) /\ proc[p] \in RequestRecord /\ Current \in Nat
  BY DEF Typed, StartRender, Current
<1> HIDE DEF r
<1>2. r \in RequestRecord
  BY <1>1 DEF r, RequestRecord, Steps, Rendering, Ops, States
<1>3. /\ r.op = "render" /\ r.output = o /\ r.step = "begin"
      /\ r.to = "rendered_unchecked" /\ r.expected = Current
      /\ r.tx = proc[p].tx /\ r.seen = proc[p].seen
  BY <1>1 DEF r, RequestRecord
<1> QED BY <1>1, <1>2, <1>3, GotoBecomes

(* A render that has published its receipt goes on to its transition. *)
LEMMA PublishReceiptBecomes ==
  ASSUME Typed, NEW p \in Processes, PublishReceipt(p)
  PROVE  \E r : /\ Becomes(p, r) /\ SameRequest(proc[p], r)
                /\ r.step = "scan" /\ r.goal = "transition"
                /\ r.to = proc[p].to /\ r.expected = proc[p].expected /\ r.seen = proc[p].seen
<1> DEFINE r == [proc[p] EXCEPT !.step = "scan", !.goal = "transition"]
<1>1. Goto(p, r) /\ proc[p] \in RequestRecord
  BY DEF Typed, PublishReceipt
<1> HIDE DEF r
<1>2. r \in RequestRecord
  BY <1>1 DEF r, RequestRecord, Steps, Preparing, Goals
<1>3. /\ SameRequest(proc[p], r) /\ r.step = "scan" /\ r.goal = "transition"
      /\ r.to = proc[p].to /\ r.expected = proc[p].expected /\ r.seen = proc[p].seen
  BY <1>1 DEF r, RequestRecord, SameRequest
<1> QED BY <1>1, <1>2, <1>3, GotoBecomes

(* A scan notes the current revision and the intents of the output. *)
LEMMA ScanBecomes ==
  ASSUME Typed, NEW p \in Processes, Scan(p)
  PROVE  \E r : /\ Becomes(p, r) /\ SameRequest(proc[p], r)
                /\ r.step = "resolve" /\ r.seen = Current /\ r.todo = IntentsOf(proc[p].output)
                /\ r.goal = proc[p].goal /\ r.to = proc[p].to /\ r.expected = proc[p].expected
<1> DEFINE r == [proc[p] EXCEPT !.step = "resolve", !.seen = Current,
                                !.todo = IntentsOf(proc[p].output)]
<1>1. /\ Goto(p, r) /\ proc[p] \in RequestRecord /\ Current \in Nat
      /\ IntentsOf(proc[p].output) \subseteq Transaction
  BY DEF Typed, Scan, Current, IntentsOf
<1> HIDE DEF r
<1>2. r \in RequestRecord
  BY <1>1 DEF r, RequestRecord, Steps, Preparing
<1>3. /\ SameRequest(proc[p], r)
      /\ r.step = "resolve" /\ r.seen = Current /\ r.todo = IntentsOf(proc[p].output)
      /\ r.goal = proc[p].goal /\ r.to = proc[p].to /\ r.expected = proc[p].expected
  BY <1>1 DEF r, RequestRecord, SameRequest
<1> QED BY <1>1, <1>2, <1>3, GotoBecomes

(* Resolving an intent takes it off the list. *)
LEMMA ResolveBecomes ==
  ASSUME Typed, NEW p \in Processes, NEW t, Resolve(p, t)
  PROVE  \E r : /\ Becomes(p, r) /\ SameRequest(proc[p], r)
                /\ r.step = proc[p].step /\ r.seen = proc[p].seen /\ r.todo = proc[p].todo \ {t}
                /\ r.goal = proc[p].goal /\ r.to = proc[p].to /\ r.expected = proc[p].expected
<1> DEFINE r == [proc[p] EXCEPT !.todo = proc[p].todo \ {t}]
<1>1. Goto(p, r) /\ proc[p] \in RequestRecord
  BY DEF Typed, Resolve
<1> HIDE DEF r
<1>2. r \in RequestRecord
  BY <1>1 DEF r, RequestRecord
<1>3. /\ SameRequest(proc[p], r)
      /\ r.step = proc[p].step /\ r.seen = proc[p].seen /\ r.todo = proc[p].todo \ {t}
      /\ r.goal = proc[p].goal /\ r.to = proc[p].to /\ r.expected = proc[p].expected
  BY <1>1 DEF r, RequestRecord, SameRequest
<1> QED BY <1>1, <1>2, <1>3, GotoBecomes

(* After an output has been found to have events, its receipt is read. *)
LEMMA RetryBecomes ==
  ASSUME Typed, NEW p \in Processes,
         Goto(p, [proc[p] EXCEPT !.step = "scan", !.goal = "receipt"])
  PROVE  \E r : /\ Becomes(p, r) /\ SameRequest(proc[p], r)
                /\ r.step = "scan" /\ r.goal = "receipt" /\ r.seen = proc[p].seen
                /\ r.to = proc[p].to /\ r.expected = proc[p].expected
<1> DEFINE r == [proc[p] EXCEPT !.step = "scan", !.goal = "receipt"]
<1>1. Goto(p, r) /\ proc[p] \in RequestRecord
  BY DEF Typed
<1> HIDE DEF r
<1>2. r \in RequestRecord
  BY <1>1 DEF r, RequestRecord, Steps, Preparing, Goals
<1>3. /\ SameRequest(proc[p], r)
      /\ r.step = "scan" /\ r.goal = "receipt" /\ r.seen = proc[p].seen
      /\ r.to = proc[p].to /\ r.expected = proc[p].expected
  BY <1>1 DEF r, RequestRecord, SameRequest
<1> QED BY <1>1, <1>2, <1>3, GotoBecomes

(* After its receipt has been read a request ends or, if the output is in   *)
(* the state it wants, goes on for the current revision.                    *)
LEMMA ReadReceiptBecomes ==
  ASSUME Typed, NEW p \in Processes, ReadReceipt(p)
  PROVE  \/ Ends(p)
         \/ /\ Wanted(p, EventsOf(proc[p].output))
            /\ \E r : /\ Becomes(p, r) /\ SameRequest(proc[p], r)
                      /\ r.step = IF proc[p].op = "qa" THEN "evaluate" ELSE "scan"
                      /\ r.goal = "transition" /\ r.expected = Current
                      /\ r.to = IF proc[p].op = "approve" THEN "approved" ELSE "delivered"
                      /\ r.seen = proc[p].seen
<1> DEFINE step == IF proc[p].op = "qa" THEN "evaluate" ELSE "scan"
           to == IF proc[p].op = "approve" THEN "approved" ELSE "delivered"
           r == [proc[p] EXCEPT !.step = step, !.goal = "transition", !.expected = Current,
                                !.to = to]
<1>1. /\ Ends(p) \/ (Wanted(p, EventsOf(proc[p].output)) /\ Goto(p, r))
      /\ proc[p] \in RequestRecord /\ Current \in Nat
      /\ step \in Steps /\ to \in States
  BY DEF Typed, ReadReceipt, Current, Steps, Preparing, States
<1> HIDE DEF step, to, r
<1>2. r \in RequestRecord
  BY <1>1 DEF r, RequestRecord, Goals
<1>3. /\ SameRequest(proc[p], r) /\ r.step = step /\ r.goal = "transition"
      /\ r.expected = Current /\ r.to = to /\ r.seen = proc[p].seen
  BY <1>1 DEF r, RequestRecord, SameRequest
<1>4. ASSUME Goto(p, r) PROVE Becomes(p, r)
  BY <1>2, <1>4, GotoBecomes
<1> QED BY <1>1, <1>3, <1>4 DEF step, to

(* QA goes on to the transition that its verdict calls for. *)
LEMMA EvaluateBecomes ==
  ASSUME Typed, NEW p \in Processes, Evaluate(p)
  PROVE  \E r : /\ Becomes(p, r) /\ SameRequest(proc[p], r)
                /\ r.step = "scan" /\ r.goal = "transition" /\ r.to \in Verdict
                /\ r.seen = proc[p].seen /\ r.expected = proc[p].expected
<1>1. PICK v \in Verdicts :
        Goto(p, [proc[p] EXCEPT !.step = "scan", !.goal = "transition", !.to = v])
  BY DEF Evaluate
<1> DEFINE r == [proc[p] EXCEPT !.step = "scan", !.goal = "transition", !.to = v]
<1>2. Goto(p, r) /\ proc[p] \in RequestRecord /\ v \in Verdict
  BY <1>1, LifecycleAssumption DEF Typed
<1> HIDE DEF r
<1>3. r \in RequestRecord
  BY <1>2 DEF r, RequestRecord, Steps, Preparing, Goals, States
<1>4. /\ SameRequest(proc[p], r) /\ r.step = "scan" /\ r.goal = "transition" /\ r.to \in Verdict
      /\ r.seen = proc[p].seen /\ r.expected = proc[p].expected
  BY <1>2 DEF r, RequestRecord, SameRequest
<1> QED BY <1>2, <1>3, <1>4, GotoBecomes

(* The transaction of the intent that p writes. *)
NewIntent(p) ==
  [id |-> counters.transactions + 1, output |-> proc[p].output,
   from |-> Approval.state, to |-> proc[p].to, source |-> Current]

(* There is a current revision, and it has an approval state. *)
LEMMA CurrentApproval ==
  ASSUME Typed
  PROVE  Current \in Nat /\ Current >= 1 /\ Approval \in Approvals
BY EmptySeq, LenProperties, ElementOfSeq DEF Typed, Current, Approval

(* A new intent is a transaction. *)
LEMMA NewIntentTyped ==
  ASSUME Typed, NEW p \in Processes, proc[p].output \in Outputs
  PROVE  NewIntent(p) \in Transaction
<1>1. proc[p] \in RequestRecord /\ Approval \in Approvals /\ Current \in Nat
  BY CurrentApproval DEF Typed
<1>2. counters.transactions + 1 \in Nat
  BY DEF Typed
<1> QED BY <1>1, <1>2 DEF NewIntent, Transaction, RequestRecord, Approvals

(* A process that has written its intent is about to commit it. *)
LEMMA WriteIntentBecomes ==
  ASSUME Typed, NEW p \in Processes, WriteIntent(p), proc[p].output \in Outputs
  PROVE  \E r : /\ Becomes(p, r) /\ r.tx = NewIntent(p) /\ r.step = "commit"
                /\ r.op = proc[p].op /\ r.output = proc[p].output /\ r.goal = proc[p].goal
                /\ r.to = proc[p].to /\ r.expected = proc[p].expected /\ r.seen = proc[p].seen
<1> DEFINE t == NewIntent(p)
           r == [proc[p] EXCEPT !.step = "commit", !.tx = t]
<1>1. Goto(p, r) /\ proc[p] \in RequestRecord /\ t \in Transaction
  BY NewIntentTyped DEF Typed, WriteIntent, NewIntent
<1> HIDE DEF t, r
<1>2. r \in RequestRecord
  BY <1>1 DEF r, RequestRecord, Steps, Transacting
<1>3. /\ r.tx = t /\ r.step = "commit"
      /\ r.op = proc[p].op /\ r.output = proc[p].output /\ r.goal = proc[p].goal
      /\ r.to = proc[p].to /\ r.expected = proc[p].expected /\ r.seen = proc[p].seen
  BY <1>1 DEF r, RequestRecord
<1> QED BY <1>1, <1>2, <1>3, GotoBecomes DEF t

-----------------------------------------------------------------------------
(* The requests that begin by reading an output. *)
Requested == {"read", "qa", "approve", "deliver"}

(* A render that is over, but has to settle or to lower its barrier. *)
Winds(p) ==
  /\ proc[p].op = "render" \/ proc[p].step = "settle"
  /\ Closes(p, "settle") \/ Closes(p, "lower")

(* The actions that move process p without ending its request. *)
Moves(p) ==
  \/ \E op \in Requested, o \in Outputs : StartRequest(p, op, o)
  \/ \E o \in Outputs : StartRender(p, o)
  \/ BeginRender(p) \/ StartOperation(p) \/ PublishReceipt(p) \/ Winds(p)
  \/ Scan(p) \/ (\E t \in intents : Resolve(p, t))
  \/ FindEvents(p) \/ RecoverActivation(p) \/ ReadReceipt(p) \/ Evaluate(p)
  \/ WriteIntent(p) \/ Commit(p) \/ WriteEvent(p) \/ RemoveIntent(p)

(* A step of a request ends it or moves it on. *)
LEMMA StepMoves ==
  ASSUME NEW p \in Processes, Step(p)
  PROVE  Ends(p) \/ Moves(p)
<1>1. ASSUME NEW c, FailsBy(p, c) PROVE Ends(p) \/ Winds(p)
  BY <1>1 DEF FailsBy, Fails, Winds
<1>2. RenderFails(p) \/ CommitRefused(p) \/ CallFails(p) => Ends(p) \/ Winds(p)
  BY <1>1 DEF RenderFails, CommitRefused, CallFails
<1>3. Settle(p) \/ PublishOutput(p) => Winds(p)
  BY DEF Settle, PublishOutput, Winds, At
<1>4. RenderRefused(p) \/ StrandBarrier(p) \/ LowerBarrier(p) \/ LowerFails(p)
      \/ ReadFails(p) \/ PublishDelivery(p) => Ends(p)
  BY DEF RenderRefused, StrandBarrier, LowerBarrier, LowerFails, ReadFails, PublishDelivery
<1> QED BY <1>2, <1>3, <1>4 DEF Step, Moves

(* Every step moves at most one process, but for a crash. *)
LEMMA ActorMoves ==
  ASSUME [Next]_vars
  PROVE  \/ proc' = proc \/ proc' = [p \in Processes |-> Idle]
         \/ \E p \in Processes : Ends(p) \/ Moves(p)
<1>1. CASE \E p \in Processes : Request(p)
  BY <1>1 DEF Request, Moves, Requested
<1>2. ASSUME NEW p \in Processes, Step(p) PROVE Ends(p) \/ Moves(p)
  BY <1>2, StepMoves
<1>3. CASE \E o \in Outputs : RecordChecklist(o)
  BY <1>3 DEF RecordChecklist
<1>4. CASE Edit \/ CheckBarriers \/ Undo \/ Redo \/ MoveFails \/ Crash
  BY <1>4 DEF Edit, CheckBarriers, Undo, Redo, Restore, MoveFails, Crash
<1>5. CASE UNCHANGED vars
  BY <1>5 DEF vars
<1> QED BY <1>1, <1>2, <1>3, <1>4, <1>5 DEF Next

(* Process p goes to a step, and nothing else of its request changes. *)
Advances(p, to) ==
  \E r : Becomes(p, r) /\ r.step = to /\ SameButStep(proc[p], r)

(* A render begins only on the revision it was requested for. *)
LEMMA BeginRenderBecomes ==
  ASSUME Typed, NEW p \in Processes, BeginRender(p)
  PROVE  Advances(p, "raised") /\ proc[p].expected = Current
BY AdvanceBecomes DEF BeginRender, Advances, Steps, Rendering

(* With its barrier raised, a render executes. *)
LEMMA StartOperationBecomes ==
  ASSUME Typed, NEW p \in Processes, StartOperation(p)
  PROVE  Advances(p, "execute")
BY AdvanceBecomes DEF StartOperation, Advances, Steps, Rendering

(* A render that winds up is still the same one. *)
LEMMA WindsBecomes ==
  ASSUME Typed, Shapes, NEW p \in Processes, Winds(p)
  PROVE  /\ proc[p].op = "render" /\ proc[p].step # "idle"
         /\ \E r : /\ Becomes(p, r) /\ r.step \in {"settle", "lower"} /\ r.tx = None
                   /\ r.op = "render" /\ r.output = proc[p].output /\ r.goal = proc[p].goal
                   /\ r.to = proc[p].to /\ r.expected = proc[p].expected
                   /\ r.seen = proc[p].seen
<1>1. Shape(proc[p])
  BY DEF Shapes
<1>2. proc[p].op = "render" /\ proc[p].step # "idle"
  BY <1>1 DEF Winds, Shape, Rendering
<1>3. PICK step \in {"settle", "lower"} : Closes(p, step)
  BY DEF Winds
<1>4. PICK r : /\ Becomes(p, r) /\ r.step = step /\ r.tx = None
               /\ r.op = proc[p].op /\ r.output = proc[p].output /\ r.goal = proc[p].goal
               /\ r.to = proc[p].to /\ r.expected = proc[p].expected /\ r.seen = proc[p].seen
  BY <1>3, ClosesBecomes
<1> QED BY <1>2, <1>4

(* An output without events has its activation looked for. *)
LEMMA FindEventsBecomes ==
  ASSUME Typed, NEW p \in Processes, FindEvents(p)
  PROVE  \/ Advances(p, "activation")
         \/ \E r : /\ Becomes(p, r) /\ SameRequest(proc[p], r)
                   /\ r.step = "scan" /\ r.goal = "receipt" /\ r.seen = proc[p].seen
                   /\ r.to = proc[p].to /\ r.expected = proc[p].expected
<1>1. "activation" \in Steps
  BY DEF Steps, Preparing
<1>2. CASE EventsOf(proc[p].output) = {}
  <2>1. Goto(p, [proc[p] EXCEPT !.step = "activation"])
    BY <1>2 DEF FindEvents
  <2> QED BY <1>1, <2>1, AdvanceBecomes DEF Advances
<1>3. CASE EventsOf(proc[p].output) # {}
  <2>1. Goto(p, [proc[p] EXCEPT !.step = "scan", !.goal = "receipt"])
    BY <1>3 DEF FindEvents
  <2> QED BY <2>1, RetryBecomes
<1> QED BY <1>2, <1>3

(* Looking for an activation ends a request or has it read the receipt. *)
LEMMA RecoverActivationBecomes ==
  ASSUME Typed, NEW p \in Processes, RecoverActivation(p)
  PROVE  \/ Ends(p)
         \/ \E r : /\ Becomes(p, r) /\ SameRequest(proc[p], r)
                   /\ r.step = "scan" /\ r.goal = "receipt" /\ r.seen = proc[p].seen
                   /\ r.to = proc[p].to /\ r.expected = proc[p].expected
BY RetryBecomes DEF RecoverActivation

(* After its commit a process writes its event. *)
LEMMA CommitBecomes ==
  ASSUME Typed, NEW p \in Processes, Commit(p)
  PROVE  Advances(p, "event")
BY AdvanceBecomes DEF Commit, Advances, Steps, Transacting, Committed

(* After its event a process removes its intent. *)
LEMMA WriteEventBecomes ==
  ASSUME Typed, NEW p \in Processes, WriteEvent(p)
  PROVE  Advances(p, "tidy")
BY AdvanceBecomes DEF WriteEvent, Advances, Steps, Transacting, Committed

(* After its intent a request ends, unless it has something to publish. *)
LEMMA RemoveIntentBecomes ==
  ASSUME Typed, NEW p \in Processes, RemoveIntent(p)
  PROVE  \/ Ends(p) /\ proc[p].op # "render"
         \/ Advances(p, "publish") /\ proc[p].op \in {"render", "deliver"}
BY AdvanceBecomes DEF RemoveIntent, Advances, Steps, Transacting, Committed

(* Whatever a process does by itself leaves every process a typed request. *)
LEMMA MovesBecomes ==
  ASSUME Typed, Shapes, NEW p \in Processes, Ends(p) \/ Moves(p)
  PROVE  \E r : Becomes(p, r)
<1>1. CASE \E op \in Requested, o \in Outputs : StartRequest(p, op, o)
  BY <1>1, StartRequestBecomes DEF Requested, Ops
<1>2. CASE \E o \in Outputs : StartRender(p, o)
  BY <1>2, StartRenderBecomes
<1>3. CASE \E t \in intents : Resolve(p, t)
  BY <1>3, ResolveBecomes
<1>4. CASE Ends(p)
  BY <1>4, EndsBecomes
<1>5. CASE BeginRender(p) \/ FindEvents(p) \/ RecoverActivation(p) \/ RemoveIntent(p)
  BY <1>5, EndsBecomes, BeginRenderBecomes, FindEventsBecomes, RecoverActivationBecomes,
     RemoveIntentBecomes DEF Advances
<1>9. CASE StartOperation(p) \/ Winds(p)
  BY <1>9, StartOperationBecomes, WindsBecomes DEF Advances
<1>6. CASE PublishReceipt(p) \/ Scan(p) \/ ReadReceipt(p) \/ Evaluate(p)
  BY <1>6, EndsBecomes, PublishReceiptBecomes, ScanBecomes, ReadReceiptBecomes, EvaluateBecomes
<1>7. CASE Commit(p) \/ WriteEvent(p)
  BY <1>7, CommitBecomes, WriteEventBecomes DEF Advances
<1>8. CASE WriteIntent(p)
  <2>1. proc[p].output \in Outputs
    BY <1>8 DEF WriteIntent, Resolved, At, Shapes, Shape
  <2> QED BY <1>8, <2>1, WriteIntentBecomes
<1> QED BY <1>1, <1>2, <1>3, <1>4, <1>5, <1>6, <1>7, <1>8, <1>9 DEF Moves

(* A step leaves a process alone, makes it idle or is a move of that        *)
(* process.                                                                 *)
LEMMA ProcChange ==
  ASSUME Typed, Shapes, [Next]_vars
  PROVE  /\ proc' \in [Processes -> RequestRecord]
         /\ \A q \in Processes : proc'[q] = proc[q] \/ proc'[q] = Idle \/ Moves(q)
<1>1. CASE proc' = proc
  BY <1>1 DEF Typed
<1>2. CASE proc' = [p \in Processes |-> Idle]
  BY <1>2, IdleTyped
<1>3. ASSUME NEW p \in Processes, Ends(p) \/ Moves(p)
      PROVE  /\ proc' \in [Processes -> RequestRecord]
             /\ \A q \in Processes : proc'[q] = proc[q] \/ proc'[q] = Idle \/ Moves(q)
  <2>1. PICK r : Becomes(p, r)
    BY <1>3, MovesBecomes
  <2>2. Ends(p) => proc'[p] = Idle
    BY EndsBecomes DEF Becomes
  <2> QED BY <1>3, <2>1, <2>2 DEF Becomes
<1> QED BY <1>1, <1>2, <1>3, ActorMoves

(* Every step keeps the shape of the requests. *)
LEMMA ShapesStep ==
  ASSUME Typed, Shapes, [Next]_vars
  PROVE  Shapes'
<1> SUFFICES ASSUME NEW p \in Processes PROVE Shape(proc'[p])
  BY DEF Shapes
<1>1. Shape(proc[p])
  BY DEF Shapes
<1>2. CASE proc'[p] = proc[p]
  BY <1>1, <1>2
<1>3. Shape(Idle)
  BY DEF Shape, Idle, Rendering, Transacting, Committed
<1>4. ASSUME NEW op \in Requested, NEW o \in Outputs, StartRequest(p, op, o)
      PROVE  Shape(proc'[p])
  <2>1. proc[p].step = "idle" /\ op \in Ops
    BY <1>4 DEF StartRequest, At, Requested, Ops
  <2>2. PICK r : /\ r = proc'[p] /\ r.op = op /\ r.output = o /\ r.step = "scan"
                 /\ r.tx = proc[p].tx
    BY <1>4, <2>1, StartRequestBecomes DEF Becomes
  <2>3. Shape(r)
    BY <1>1, <2>1, <2>2 DEF Shape, Requested, Rendering, Transacting, Committed
  <2> QED BY <2>2, <2>3
<1>5. ASSUME NEW o \in Outputs, StartRender(p, o) PROVE Shape(proc'[p])
  <2>1. proc[p].step = "idle"
    BY <1>5 DEF StartRender, At
  <2>2. PICK r : /\ r = proc'[p] /\ r.op = "render" /\ r.output = o /\ r.step = "begin"
                 /\ r.to = "rendered_unchecked" /\ r.tx = proc[p].tx
    BY <1>5, StartRenderBecomes DEF Becomes
  <2>3. Shape(r)
    BY <1>1, <2>1, <2>2 DEF Shape, Rendering, Transacting, Committed
  <2> QED BY <2>2, <2>3
<1>6. CASE BeginRender(p) \/ StartOperation(p) \/ PublishReceipt(p)
  <2>1. proc[p].step \in Rendering /\ proc[p].op = "render"
    BY <1>1, <1>6 DEF BeginRender, StartOperation, PublishReceipt, At, Shape, Rendering
  <2>2. CASE BeginRender(p) \/ StartOperation(p)
    <3>1. PICK to \in {"raised", "execute"} : Advances(p, to)
      BY <2>2, BeginRenderBecomes, StartOperationBecomes
    <3>2. PICK r : r = proc'[p] /\ r.step = to /\ SameButStep(proc[p], r)
      BY <3>1 DEF Advances, Becomes
    <3>3. Shape(r)
      BY <1>1, <2>1, <3>2
         DEF SameButStep, SameRequest, Shape, Rendering, Transacting, Committed
    <3> QED BY <3>2, <3>3
  <2>3. CASE PublishReceipt(p)
    <3>1. PICK r : /\ r = proc'[p] /\ r.step = "scan" /\ r.goal = "transition"
                   /\ r.to = proc[p].to /\ SameRequest(proc[p], r)
      BY <2>3, PublishReceiptBecomes DEF Becomes
    <3>2. Shape(r)
      BY <1>1, <2>1, <3>1 DEF SameRequest, Shape, Rendering, Transacting, Committed
    <3> QED BY <3>1, <3>2
  <2> QED BY <1>6, <2>2, <2>3
<1>7. CASE Scan(p)
  BY <1>1, <1>7, ScanBecomes
     DEF Scan, At, SameRequest, Becomes, Shape, Rendering, Transacting, Committed
<1>8. ASSUME NEW t \in intents, Resolve(p, t) PROVE Shape(proc'[p])
  <2>1. proc[p].step = "resolve"
    BY <1>8 DEF Resolve, At
  <2>2. PICK r : /\ r = proc'[p] /\ SameRequest(proc[p], r) /\ r.step = proc[p].step
                 /\ r.goal = proc[p].goal /\ r.to = proc[p].to
    BY <1>8, ResolveBecomes DEF Becomes
  <2>3. Shape(r)
    BY <1>1, <2>1, <2>2 DEF SameRequest, Shape, Rendering, Transacting, Committed
  <2> QED BY <2>2, <2>3
<1>9. CASE FindEvents(p)
  BY <1>1, <1>9, FindEventsBecomes
     DEF FindEvents, Resolved, At, Advances, SameButStep, SameRequest, Becomes, Shape,
         Rendering, Transacting, Committed
<1>10. CASE RecoverActivation(p)
  BY ZenonT(40), <1>1, <1>3, <1>10, RecoverActivationBecomes, EndsBecomes
     DEF RecoverActivation, At, SameRequest, Becomes, Shape, Rendering, Transacting, Committed
<1>11. CASE ReadReceipt(p)
  <2>1. proc[p].step = "resolve" /\ proc[p].goal = "receipt"
    BY <1>11 DEF ReadReceipt, Resolved, At
  <2>2. CASE Ends(p)
    BY <1>3, <2>2, EndsBecomes DEF Becomes
  <2>3. CASE ~Ends(p)
    <3>1. PICK r : r = proc'[p] /\ r.step \in {"evaluate", "scan"} /\ SameRequest(proc[p], r)
      BY <1>11, <2>3, ReadReceiptBecomes DEF Becomes
    <3>2. Shape(r)
      BY <1>1, <2>1, <3>1 DEF SameRequest, Shape, Rendering, Transacting, Committed
    <3> QED BY <3>1, <3>2
  <2> QED BY <2>2, <2>3
<1>12. CASE Evaluate(p)
  BY <1>1, <1>12, EvaluateBecomes
     DEF Evaluate, At, SameRequest, Becomes, Shape, Rendering, Transacting, Committed
<1>13. CASE WriteIntent(p)
  <2>1. /\ proc[p].output \in Outputs /\ proc[p].step = "resolve"
        /\ proc[p].goal = "transition" /\ proc[p].expected = Current
    BY <1>1, <1>13 DEF WriteIntent, Resolved, At, Shape
  <2>2. NewIntent(p) # None /\ NewIntent(p).output = proc[p].output
        /\ NewIntent(p).to = proc[p].to /\ NewIntent(p).source = proc[p].expected
    BY <2>1, NewIntentTyped, LifecycleAssumption DEF NewIntent
  <2> QED
    BY <1>1, <1>13, <2>1, <2>2, WriteIntentBecomes
       DEF Becomes, Shape, Rendering, Transacting, Committed
<1>14. CASE Commit(p)
  BY <1>1, <1>14, CommitBecomes
     DEF Commit, At, Advances, SameButStep, SameRequest, Becomes, Shape, Rendering,
         Transacting, Committed
<1>15. CASE WriteEvent(p)
  BY <1>1, <1>15, WriteEventBecomes
     DEF WriteEvent, At, Advances, SameButStep, SameRequest, Becomes, Shape, Rendering,
         Transacting, Committed
<1>16. CASE RemoveIntent(p)
  BY <1>1, <1>3, <1>16, RemoveIntentBecomes, EndsBecomes
     DEF RemoveIntent, At, Advances, SameButStep, SameRequest, Becomes, Shape, Rendering,
         Transacting, Committed
<1>17. CASE Winds(p)
  <2>1. PICK r : /\ r = proc'[p] /\ r.step \in {"settle", "lower"} /\ r.tx = None
                 /\ r.op = "render" /\ r.output = proc[p].output /\ r.to = proc[p].to
    BY <1>17, WindsBecomes DEF Becomes
  <2>2. proc[p].op = "render"
    BY <1>17, WindsBecomes
  <2>3. Shape(r)
    BY <1>1, <2>1, <2>2 DEF Shape, Rendering, Transacting, Committed
  <2> QED BY <2>1, <2>3
<1> QED
  BY <1>2, <1>3, <1>4, <1>5, <1>6, <1>7, <1>8, <1>9, <1>10, <1>11, <1>12, <1>13, <1>14, <1>15,
     <1>16, <1>17, ProcChange DEF Moves


(* The files change, and races happen, only in steps of a request. *)
LEMMA OthersKeep ==
  ASSUME [Next]_vars
  PROVE  \/ UNCHANGED <<intents, events, base, published, delivery, barriers, raced, stranded>>
         \/ \E p \in Processes : Step(p)
<1>1. CASE \E p \in Processes : Request(p)
  BY <1>1 DEF Request, StartRequest, StartRender, files, observed
<1>2. CASE \E o \in Outputs : RecordChecklist(o)
  BY <1>2 DEF RecordChecklist, observed
<1>3. CASE Edit \/ CheckBarriers \/ Undo \/ Redo \/ MoveFails \/ Crash
  BY <1>3 DEF Edit, CheckBarriers, Undo, Redo, Restore, MoveFails, Crash, files, observed
<1>4. CASE UNCHANGED vars
  BY <1>4 DEF vars, files, observed
<1> QED BY <1>1, <1>2, <1>3, <1>4 DEF Next

(* Only the publication of a receipt changes bases. *)
LEMMA BaseChange ==
  ASSUME [Next]_vars
  PROVE  \/ base' = base
         \/ \E p \in Processes : PublishReceipt(p)
<1>1. ASSUME NEW p \in Processes, Step(p)
      PROVE  base' = base \/ PublishReceipt(p)
  BY <1>1 DEF Step, BeginRender, RenderRefused, StrandBarrier, StartOperation, Settle, LowerBarrier, LowerFails,
              RenderFails, Scan, Resolve, FindEvents,
              RecoverActivation, ReadReceipt, ReadFails, Evaluate, WriteIntent, Commit,
              CommitRefused, WriteEvent, RemoveIntent, PublishOutput, PublishDelivery,
              CallFails, files
<1> QED BY <1>1, OthersKeep

(* Events are written by their writer and by recovery only. *)
LEMMA EventsChange ==
  ASSUME [Next]_vars
  PROVE  \/ events' = events
         \/ \E p \in Processes : WriteEvent(p) \/ RecoverActivation(p) \/ (\E t \in intents : Resolve(p, t))
<1>1. ASSUME NEW p \in Processes, Step(p)
      PROVE  events' = events \/ WriteEvent(p) \/ RecoverActivation(p) \/ (\E t \in intents : Resolve(p, t))
  BY <1>1 DEF Step, BeginRender, RenderRefused, StrandBarrier, StartOperation, Settle, LowerBarrier, LowerFails,
              PublishReceipt, RenderFails, Scan, FindEvents,
              ReadReceipt, ReadFails, Evaluate, WriteIntent, Commit, CommitRefused,
              RemoveIntent, PublishOutput, PublishDelivery, CallFails, files
<1> QED BY <1>1, OthersKeep

(* Intents are written by their writer, and removed by it or by a reader. *)
LEMMA IntentsChange ==
  ASSUME [Next]_vars
  PROVE  \/ intents' = intents
         \/ \E p \in Processes : WriteIntent(p) \/ CommitRefused(p) \/ RemoveIntent(p) \/ (\E t \in intents : Resolve(p, t))
<1>1. ASSUME NEW p \in Processes, Step(p)
      PROVE  intents' = intents \/ WriteIntent(p) \/ CommitRefused(p) \/ RemoveIntent(p) \/ (\E t \in intents : Resolve(p, t))
  BY <1>1 DEF Step, BeginRender, RenderRefused, StrandBarrier, StartOperation, Settle, LowerBarrier, LowerFails,
              PublishReceipt, RenderFails, Scan, FindEvents,
              RecoverActivation, ReadReceipt, ReadFails, Evaluate, Commit, WriteEvent,
              PublishOutput, PublishDelivery, CallFails, files
<1> QED BY <1>1, OthersKeep

(* Outputs are published by readers and renders only. *)
LEMMA PublishedChange ==
  ASSUME [Next]_vars
  PROVE  \/ published' = published
         \/ \E p \in Processes : ReadReceipt(p) \/ PublishOutput(p)
<1>1. ASSUME NEW p \in Processes, Step(p)
      PROVE  published' = published \/ ReadReceipt(p) \/ PublishOutput(p)
  BY <1>1 DEF Step, BeginRender, RenderRefused, StrandBarrier, StartOperation, Settle, LowerBarrier, LowerFails,
              PublishReceipt, RenderFails, Scan, Resolve, FindEvents,
              RecoverActivation, ReadFails, Evaluate, WriteIntent, Commit, CommitRefused,
              WriteEvent, RemoveIntent, PublishDelivery, CallFails, files
<1> QED BY <1>1, OthersKeep

(* Delivery records are written by readers and deliveries only. *)
LEMMA DeliveryChange ==
  ASSUME [Next]_vars
  PROVE  \/ delivery' = delivery
         \/ \E p \in Processes : ReadReceipt(p) \/ PublishDelivery(p)
<1>1. ASSUME NEW p \in Processes, Step(p)
      PROVE  delivery' = delivery \/ ReadReceipt(p) \/ PublishDelivery(p)
  BY <1>1 DEF Step, BeginRender, RenderRefused, StrandBarrier, StartOperation, Settle, LowerBarrier, LowerFails,
              PublishReceipt, RenderFails, Scan, Resolve, FindEvents,
              RecoverActivation, ReadFails, Evaluate, WriteIntent, Commit, CommitRefused,
              WriteEvent, RemoveIntent, PublishOutput, CallFails, files
<1> QED BY <1>1, OthersKeep

(* A race is noticed at a commit or in a recovery. *)
LEMMA RacedChange ==
  ASSUME [Next]_vars
  PROVE  \/ raced' = raced
         \/ \E p \in Processes : Commit(p) \/ RecoverActivation(p) \/ (\E t \in intents : Resolve(p, t))
<1>1. ASSUME NEW p \in Processes, Step(p)
      PROVE  raced' = raced \/ Commit(p) \/ RecoverActivation(p) \/ (\E t \in intents : Resolve(p, t))
  BY <1>1 DEF Step, BeginRender, RenderRefused, StrandBarrier, StartOperation, Settle, LowerBarrier, LowerFails,
              PublishReceipt, RenderFails, Scan, FindEvents,
              ReadReceipt, ReadFails, Evaluate, WriteIntent, CommitRefused, WriteEvent,
              RemoveIntent, PublishOutput, PublishDelivery, CallFails, observed
<1> QED BY <1>1, OthersKeep

(* A render that leaves its barrier behind is remembered. *)
LEMMA StrandedChange ==
  ASSUME [Next]_vars
  PROVE  \/ stranded' = stranded
         \/ \E p \in Processes : /\ StrandBarrier(p) \/ LowerFails(p)
                                /\ stranded' = stranded \cup {proc[p].output}
<1>1. ASSUME NEW p \in Processes, Step(p)
      PROVE  stranded' = stranded \/ StrandBarrier(p) \/ LowerFails(p)
  BY <1>1 DEF Step, BeginRender, RenderRefused, StartOperation, Settle, LowerBarrier,
              PublishReceipt, RenderFails, Scan, Resolve, FindEvents, RecoverActivation,
              ReadReceipt, ReadFails, Evaluate, WriteIntent, Commit, CommitRefused, WriteEvent,
              RemoveIntent, PublishOutput, PublishDelivery, CallFails, observed
<1>2. ASSUME NEW p \in Processes, StrandBarrier(p) \/ LowerFails(p)
      PROVE  stranded' = stranded \cup {proc[p].output}
  BY <1>2 DEF StrandBarrier, LowerFails
<1> QED BY <1>1, <1>2, OthersKeep

(* Barriers are raised and lowered by renders only. *)
LEMMA BarriersChange ==
  ASSUME [Next]_vars
  PROVE  \/ barriers' = barriers
         \/ \E p \in Processes : BeginRender(p) \/ LowerBarrier(p)
<1>1. ASSUME NEW p \in Processes, Step(p)
      PROVE  barriers' = barriers \/ BeginRender(p) \/ LowerBarrier(p)
  BY <1>1 DEF Step, RenderRefused, StrandBarrier, StartOperation, Settle, LowerFails,
              PublishReceipt, RenderFails, Scan, Resolve, FindEvents,
              RecoverActivation, ReadReceipt, ReadFails, Evaluate, WriteIntent, Commit,
              CommitRefused, WriteEvent, RemoveIntent, PublishOutput, PublishDelivery,
              CallFails, files
<1> QED BY <1>1, OthersKeep

(* Journals are written by renders only. *)
LEMMA JournalChange ==
  ASSUME [Next]_vars
  PROVE  \/ journal' = journal
         \/ \E p \in Processes : \/ \E o \in Outputs : StartRender(p, o)
                                \/ StartOperation(p) \/ PublishReceipt(p) \/ RemoveIntent(p)
                                \/ PublishOutput(p) \/ Settle(p)
<1>1. CASE \E p \in Processes : Request(p)
  BY <1>1 DEF Request, StartRequest, files
<1>2. CASE \E p \in Processes : Step(p)
  BY ZenonT(40), <1>2 DEF Step, BeginRender, RenderRefused, StrandBarrier, LowerBarrier,
              LowerFails, RenderFails, Scan, Resolve, FindEvents, RecoverActivation,
              ReadReceipt, ReadFails, Evaluate, WriteIntent, Commit, CommitRefused,
              WriteEvent, PublishDelivery, CallFails, files
<1>3. CASE \E o \in Outputs : RecordChecklist(o)
  BY <1>3 DEF RecordChecklist, files
<1>4. CASE Edit \/ CheckBarriers \/ Undo \/ Redo \/ MoveFails \/ Crash
  BY <1>4 DEF Edit, CheckBarriers, Undo, Redo, Restore, MoveFails, Crash, files
<1>5. CASE UNCHANGED vars
  BY <1>5 DEF vars, files
<1> QED BY <1>1, <1>2, <1>3, <1>4, <1>5 DEF Next

(* What counts requests, transactions and disturbances. *)
LEMMA CountersChange ==
  ASSUME [Next]_vars
  PROVE  \/ counters' = counters \/ Requests
         \/ \E p \in Processes : WriteIntent(p)
         \/ (\E what \in {"change", "error"} : Disturbance(what)) \/ Crash
<1>1. CASE \E p \in Processes : Request(p)
  BY <1>1 DEF Request, StartRequest, StartRender
<1>2. CASE \E p \in Processes : Step(p)
  BY ZenonT(40), <1>2 DEF Step, BeginRender, RenderRefused, StrandBarrier, StartOperation, Settle, LowerBarrier, LowerFails,
              PublishReceipt, RenderFails, Scan, Resolve, FindEvents,
              RecoverActivation, ReadReceipt, ReadFails, Evaluate, Commit, CommitRefused,
              WriteEvent, RemoveIntent, PublishOutput, PublishDelivery, CallFails,
              FailsBy, files
<1>3. CASE \E o \in Outputs : RecordChecklist(o)
  BY <1>3 DEF RecordChecklist
<1>4. CASE Edit \/ CheckBarriers \/ Undo \/ Redo \/ MoveFails \/ Crash
  BY <1>4 DEF Edit, CheckBarriers, Undo, Redo, Restore, MoveFails
<1>5. CASE UNCHANGED vars
  BY <1>5 DEF vars
<1> QED BY <1>1, <1>2, <1>3, <1>4, <1>5 DEF Next

(* Authority is changed by edits, undo, redo and commits only. *)
LEMMA RevisionsChange ==
  ASSUME [Next]_vars
  PROVE  \/ UNCHANGED <<revisions, history>> \/ Edit \/ Undo \/ Redo
         \/ \E p \in Processes : Commit(p)
<1>1. CASE \E p \in Processes : Request(p)
  BY <1>1 DEF Request, StartRequest, StartRender, authority
<1>2. ASSUME NEW p \in Processes, Step(p)
      PROVE  UNCHANGED <<revisions, history>> \/ Commit(p)
  BY <1>2 DEF Step, BeginRender, RenderRefused, StrandBarrier, StartOperation, Settle, LowerBarrier, LowerFails,
              PublishReceipt, RenderFails, Scan, Resolve, FindEvents,
              RecoverActivation, ReadReceipt, ReadFails, Evaluate, WriteIntent,
              CommitRefused, WriteEvent, RemoveIntent, PublishOutput, PublishDelivery,
              CallFails, authority
<1>3. CASE \E o \in Outputs : RecordChecklist(o)
  BY <1>3 DEF RecordChecklist, authority
<1>4. CASE Edit \/ CheckBarriers \/ Undo \/ Redo \/ MoveFails \/ Crash
  BY <1>4 DEF CheckBarriers, MoveFails, Crash, authority
<1>5. CASE UNCHANGED vars
  BY <1>5 DEF vars, authority
<1> QED BY <1>1, <1>2, <1>3, <1>4, <1>5 DEF Next

(* Checklists are changed by QA and by recording only. *)
LEMMA ChecklistChange ==
  ASSUME [Next]_vars
  PROVE  \/ checklist' = checklist
         \/ \E p \in Processes : Evaluate(p)
         \/ \E o \in Outputs : RecordChecklist(o)
<1>1. CASE \E p \in Processes : Request(p)
  BY <1>1 DEF Request, StartRequest, StartRender, files
<1>2. CASE \E p \in Processes : Step(p)
  BY ZenonT(40), <1>2 DEF Step, BeginRender, RenderRefused, StrandBarrier, StartOperation, Settle, LowerBarrier, LowerFails,
              PublishReceipt, RenderFails, Scan, Resolve, FindEvents,
              RecoverActivation, ReadReceipt, ReadFails, WriteIntent, Commit,
              CommitRefused, WriteEvent, RemoveIntent, PublishOutput, PublishDelivery,
              CallFails, files
<1>3. CASE \E o \in Outputs : RecordChecklist(o)
  BY <1>3 DEF RecordChecklist, files
<1>4. CASE Edit \/ CheckBarriers \/ Undo \/ Redo \/ MoveFails \/ Crash
  BY <1>4 DEF Edit, CheckBarriers, Undo, Redo, Restore, MoveFails, Crash, files
<1>5. CASE UNCHANGED vars
  BY <1>5 DEF vars, files
<1> QED BY <1>1, <1>2, <1>3, <1>4, <1>5 DEF Next

(* Only undo and redo rewind. *)
LEMMA RewoundChange ==
  ASSUME [Next]_vars
  PROVE  rewound' = rewound \/ Undo \/ Redo
<1>1. CASE \E p \in Processes : Request(p)
  BY <1>1 DEF Request, StartRequest, StartRender, observed
<1>2. CASE \E p \in Processes : Step(p)
  BY ZenonT(40), <1>2 DEF Step, BeginRender, RenderRefused, StrandBarrier, StartOperation, Settle, LowerBarrier, LowerFails,
              PublishReceipt, RenderFails, Scan, Resolve, FindEvents,
              RecoverActivation, ReadReceipt, ReadFails, Evaluate, WriteIntent, Commit,
              CommitRefused, WriteEvent, RemoveIntent, PublishOutput, PublishDelivery,
              CallFails, observed
<1>3. CASE \E o \in Outputs : RecordChecklist(o)
  BY <1>3 DEF RecordChecklist, observed
<1>4. CASE Edit \/ CheckBarriers \/ Undo \/ Redo \/ MoveFails \/ Crash
  BY <1>4 DEF Edit, CheckBarriers, MoveFails, Crash, observed
<1>5. CASE UNCHANGED vars
  BY <1>5 DEF vars, observed
<1> QED BY <1>1, <1>2, <1>3, <1>4, <1>5 DEF Next

(* An undo or redo is forgotten, or is of the current revision. *)
LEMMA UndoingChange ==
  ASSUME [Next]_vars
  PROVE  undoing' \in {undoing, 0, Current}
<1>1. CASE \E p \in Processes : Request(p)
  BY <1>1 DEF Request, StartRequest, StartRender
<1>2. CASE \E p \in Processes : Step(p)
  BY ZenonT(40), <1>2 DEF Step, BeginRender, RenderRefused, StrandBarrier, StartOperation, Settle, LowerBarrier, LowerFails,
              PublishReceipt, RenderFails, Scan, Resolve, FindEvents,
              RecoverActivation, ReadReceipt, ReadFails, Evaluate, WriteIntent, Commit,
              CommitRefused, WriteEvent, RemoveIntent, PublishOutput, PublishDelivery,
              CallFails
<1>3. CASE \E o \in Outputs : RecordChecklist(o)
  BY <1>3 DEF RecordChecklist
<1>4. CASE Edit \/ CheckBarriers \/ Undo \/ Redo \/ MoveFails \/ Crash
  BY <1>4 DEF Edit, CheckBarriers, Undo, Redo, Restore, MoveFails, Crash
<1>5. CASE UNCHANGED vars
  BY <1>5 DEF vars
<1> QED BY <1>1, <1>2, <1>3, <1>4, <1>5 DEF Next

-----------------------------------------------------------------------------
(* A stack of revision numbers up to n. *)
Stack(s, n) == s \in Seq(Nat) /\ \A i \in 1..Len(s) : s[i] \in 1..n

(* The history of the current revision speaks of its ancestors only. *)
HistoryBounded ==
  history.content \in 1..Current /\ Stack(history.undo, Current) /\ Stack(history.redo, Current)

(* Numbers refer to what exists: revisions, bases, what a request expects   *)
(* and has seen are not ahead of authority, and transactions are numbered   *)
(* by the counter.  A request that is past its rendering has an output with *)
(* a receipt.                                                               *)
Bounded ==
  /\ \A i \in 1..Current : revisions[i].by <= counters.transactions
  /\ HistoryBounded
  /\ \A o \in Outputs : base[o] <= Current
  /\ undoing <= Current
  /\ \A p \in Processes : proc[p].expected <= Current /\ proc[p].seen <= Current
  /\ \A t \in intents : t.id \in 1..counters.transactions
  /\ \A p \in Processes : proc[p].tx # None => proc[p].tx.id \in 1..counters.transactions
  /\ \A p \in Processes : proc[p].op = "render" => proc[p].expected # 0
  /\ \A p \in Processes : proc[p].step \notin {"idle"} \cup Rendering => base[proc[p].output] # 0

(* A stack stays one when revisions are added, and when one is pushed. *)
LEMMA StackGrows ==
  ASSUME NEW s, NEW n \in Nat, NEW m \in 1..n, Stack(s, n)
  PROVE  Stack(s, n + 1) /\ Stack(Append(s, m), n + 1) /\ Stack(<<>>, n + 1)
BY DEF Stack

(* A stack stays one when popped; what is popped is a revision. *)
LEMMA StackPopped ==
  ASSUME NEW s, NEW n \in Nat, Stack(s, n), s # <<>>
  PROVE  Stack(Front(s), n + 1) /\ Last(s) \in 1..n
<1>1. Len(s) \in Nat /\ Len(s) >= 1 /\ s \in Seq(Nat)
  BY EmptySeq, LenProperties DEF Stack
<1>2. Front(s) = SubSeq(s, 1, Len(s) - 1)
  BY DEF Front
<1> DEFINE n1 == Len(s) - 1
<1>3. n1 \in Int /\ 1 \in Int /\ n1 >= 0 /\ \A i \in 1..n1 : s[i] \in Nat
  BY <1>1, ElementOfSeq
<1> HIDE DEF n1
<1>4. /\ SubSeq(s, 1, n1) \in Seq(Nat)
      /\ Len(SubSeq(s, 1, n1)) = IF 1 <= n1 THEN n1 - 1 + 1 ELSE 0
      /\ \A i \in 1..(n1 - 1 + 1) : SubSeq(s, 1, n1)[i] = s[1 + i - 1]
  BY <1>3, SubSeqProperties
<1>5. Front(s) = SubSeq(s, 1, n1) /\ n1 - 1 + 1 = n1 /\ \A i \in 1..n1 : 1 + i - 1 = i
  BY <1>2, <1>3 DEF n1
<1>6. (IF 1 <= n1 THEN n1 - 1 + 1 ELSE 0) = n1
  BY <1>3
<1>7. Front(s) \in Seq(Nat) /\ Len(Front(s)) = n1
  BY <1>4, <1>5, <1>6
<1>8. ASSUME NEW i \in 1..n1 PROVE Front(s)[i] = s[i]
  BY <1>4, <1>5
<1> QED BY <1>1, <1>7, <1>8 DEF Stack, Last, n1

(* The ancestry gains one entry a and keeps the others. *)
Grows(a) ==
  /\ revisions' \in Seq(Approvals) /\ revisions' # <<>>
  /\ Current' = Current + 1 /\ revisions'[Current + 1] = a
  /\ \A i \in 1..Current : revisions'[i] = revisions[i]

(* Entry a repeats the approval state of an ancestor: an edit, undo or      *)
(* redo.                                                                    *)
Copies(a) ==
  /\ a \in Approvals /\ a.by = 0
  /\ \E k \in 1..Current : a.state = revisions[k].state /\ a.output = revisions[k].output

(* Entry a is the transition that process p commits. *)
CommitsOf(p, a) ==
  /\ Commit(p) /\ a \in Approvals
  /\ a.state = proc[p].to /\ a.output = proc[p].output /\ a.by = proc[p].tx.id

(* Appending an entry keeps the others (Grow). *)
LEMMA GrowGrows ==
  ASSUME Typed, NEW a \in Approvals, Grow(a)
  PROVE  Grows(a)
<1>1. revisions \in Seq(Approvals) /\ revisions' = Append(revisions, a)
  BY DEF Typed, Grow
<1> QED BY <1>1 DEF Grows, Current

(* An entry with its transaction forgotten is a copy (Edit, Restore). *)
LEMMA CopyOf ==
  ASSUME Typed, NEW k \in 1..Current
  PROVE  Copies([revisions[k] EXCEPT !.by = 0])
<1> DEFINE a == [revisions[k] EXCEPT !.by = 0]
<1>1. revisions[k] \in Approvals
  BY DEF Typed, Current
<1>2. a \in Approvals /\ a.by = 0 /\ a.state = revisions[k].state /\ a.output = revisions[k].output
  BY <1>1 DEF Approvals
<1> QED BY <1>2 DEF Copies

(* A history built from stacks of ancestors speaks of ancestors only. *)
LEMMA NewHistory ==
  ASSUME NEW content \in 1..(Current + 1), NEW undo, NEW redo, Current \in Nat,
         Stack(undo, Current + 1), Stack(redo, Current + 1), Current' = Current + 1,
         history' = [content |-> content, undo |-> undo, redo |-> redo]
  PROVE  HistoryBounded' /\ history' \in [content : Nat, undo : Seq(Nat), redo : Seq(Nat)]
<1>1. history'.content = content /\ history'.undo = undo /\ history'.redo = redo
  OBVIOUS
<1>2. undo \in Seq(Nat) /\ redo \in Seq(Nat) /\ content \in Nat
  BY DEF Stack
<1>3. /\ history'.content \in 1..Current'
      /\ Stack(history'.undo, Current') /\ Stack(history'.redo, Current')
  BY <1>1
<1>4. HistoryBounded'
  BY <1>3 DEF HistoryBounded, Stack
<1> QED BY <1>2, <1>4

(* Authority only grows: by a copy of an ancestor, or by the transition     *)
(* that a process commits; and the history follows (Edit, Undo, Redo,       *)
(* Commit).                                                                 *)
LEMMA RevisionsGrow ==
  ASSUME Typed, Shapes, Bounded, [Next]_vars
  PROVE  \/ UNCHANGED <<revisions, history>>
         \/ /\ \E a : Grows(a) /\ (Copies(a) \/ \E p \in Processes : CommitsOf(p, a))
            /\ HistoryBounded' /\ history' \in [content : Nat, undo : Seq(Nat), redo : Seq(Nat)]
<1>1. /\ Current \in Nat /\ Current >= 1 /\ HistoryBounded
      /\ history \in [content : Nat, undo : Seq(Nat), redo : Seq(Nat)]
  BY CurrentApproval DEF Bounded, Typed
<1>2. ASSUME Current' = Current + 1, Record
      PROVE  HistoryBounded' /\ history' \in [content : Nat, undo : Seq(Nat), redo : Seq(Nat)]
  <2>1. /\ Stack(Append(history.undo, history.content), Current + 1)
        /\ Stack(<<>>, Current + 1)
    BY <1>1, StackGrows DEF HistoryBounded
  <2>2. history' = [content |-> Current + 1, undo |-> Append(history.undo, history.content),
                    redo |-> <<>>]
    BY <1>2 DEF Record
  <2>3. Current + 1 \in 1..(Current + 1)
    BY <1>1
  <2> QED BY <1>1, <1>2, <2>1, <2>2, <2>3, NewHistory, Zenon
<1>3. CASE Edit
  <2>1. Copies([revisions[Current] EXCEPT !.by = 0])
    <3>1. Current \in 1..Current
      BY <1>1
    <3> QED BY <3>1, CopyOf, Zenon
  <2>2. Grow([revisions[Current] EXCEPT !.by = 0]) /\ Record
    BY <1>3 DEF Edit, Approval
  <2>3. Grows([revisions[Current] EXCEPT !.by = 0])
    BY <2>1, <2>2, GrowGrows DEF Copies
  <2> QED BY <1>2, <2>1, <2>2, <2>3 DEF Grows
<1>4. ASSUME NEW p \in Processes, Commit(p)
      PROVE  /\ \E a : Grows(a) /\ CommitsOf(p, a)
             /\ HistoryBounded' /\ history' \in [content : Nat, undo : Seq(Nat), redo : Seq(Nat)]
  <2> DEFINE a == [state |-> proc[p].to, output |-> proc[p].output, by |-> proc[p].tx.id]
  <2>1. proc[p] \in RequestRecord /\ proc[p].tx # None
    BY <1>4 DEF Typed, Commit, At, Shapes, Shape, Transacting
  <2>2. proc[p].tx.id \in Nat
    BY <2>1 DEF RequestRecord, Transaction
  <2>3. a \in Approvals
    BY <2>1, <2>2 DEF Approvals, RequestRecord
  <2>4. Grow(a) /\ Record
    BY <1>4 DEF Commit
  <2>5. Grows(a) /\ CommitsOf(p, a)
    BY <1>4, <2>3, <2>4, GrowGrows DEF CommitsOf
  <2> HIDE DEF a
  <2> QED BY <1>2, <2>4, <2>5 DEF Grows
<1>5. CASE Undo
  <2> DEFINE target == Last(history.undo)
  <2>1. target \in 1..Current /\ Stack(Front(history.undo), Current + 1)
    BY <1>1, <1>5, StackPopped DEF Undo, HistoryBounded
  <2>2. Stack(Append(history.redo, history.content), Current + 1)
    BY <1>1, StackGrows DEF HistoryBounded
  <2>3. /\ Grow([revisions[target] EXCEPT !.by = 0])
        /\ history' = [content |-> target, undo |-> Front(history.undo),
                       redo |-> Append(history.redo, history.content)]
    BY <1>5 DEF Undo, Restore
  <2> HIDE DEF target
  <2>4. Copies([revisions[target] EXCEPT !.by = 0])
    BY <2>1, CopyOf, Zenon
  <2>5. Grows([revisions[target] EXCEPT !.by = 0])
    BY <2>3, <2>4, GrowGrows DEF Copies
  <2>6. HistoryBounded' /\ history' \in [content : Nat, undo : Seq(Nat), redo : Seq(Nat)]
    <3>1. target \in 1..(Current + 1) /\ Current' = Current + 1
      BY <1>1, <2>1, <2>5 DEF Grows
    <3> QED BY <1>1, <2>1, <2>2, <2>3, <3>1, NewHistory, Zenon
  <2> QED BY <2>4, <2>5, <2>6
<1>6. CASE Redo
  <2> DEFINE target == Last(history.redo)
  <2>1. target \in 1..Current /\ Stack(Front(history.redo), Current + 1)
    BY <1>1, <1>6, StackPopped DEF Redo, HistoryBounded
  <2>2. Stack(Append(history.undo, history.content), Current + 1)
    BY <1>1, StackGrows DEF HistoryBounded
  <2>3. /\ Grow([revisions[target] EXCEPT !.by = 0])
        /\ history' = [content |-> target, undo |-> Append(history.undo, history.content),
                       redo |-> Front(history.redo)]
    BY <1>6 DEF Redo, Restore
  <2> HIDE DEF target
  <2>4. Copies([revisions[target] EXCEPT !.by = 0])
    BY <2>1, CopyOf, Zenon
  <2>5. Grows([revisions[target] EXCEPT !.by = 0])
    BY <2>3, <2>4, GrowGrows DEF Copies
  <2>6. HistoryBounded' /\ history' \in [content : Nat, undo : Seq(Nat), redo : Seq(Nat)]
    <3>1. target \in 1..(Current + 1) /\ Current' = Current + 1
      BY <1>1, <2>1, <2>5 DEF Grows
    <3> QED BY <1>1, <2>1, <2>2, <2>3, <3>1, NewHistory, Zenon
  <2> QED BY <2>4, <2>5, <2>6
<1> QED BY <1>3, <1>4, <1>5, <1>6, RevisionsChange

(* A request past its intent holds a transaction. *)
LEMMA EventTyped ==
  ASSUME Typed, Shapes, NEW p \in Processes, proc[p].step \in Transacting
  PROVE  proc[p].tx \in Transaction /\ proc[p].output \in Outputs
BY DEF Typed, RequestRecord, Shapes, Shape, Transacting, Committed, Rendering

(* The event a reader makes up for an output whose activation it has found. *)
RecoveredEvent(o) ==
  [id |-> 0, output |-> o, source |-> base[o], from |-> revisions[base[o]].state,
   to |-> "rendered_unchecked"]

(* A recovered event is a typed one. *)
LEMMA RecoveredTyped ==
  ASSUME Typed, Bounded, NEW o \in Outputs, base[o] # 0
  PROVE  RecoveredEvent(o) \in Transaction
<1>1. base[o] \in 1..Current
  BY DEF Typed, Bounded, Current
<1>2. revisions[base[o]] \in Approvals
  BY <1>1 DEF Typed, Current
<1> QED BY <1>1, <1>2 DEF RecoveredEvent, Transaction, Approvals, States

(* Journals stay journals under the updates the renders make. *)
LEMMA JournalTyped ==
  ASSUME NEW j \in [Outputs -> [stage : Stages, status : Statuses]], NEW o,
         NEW stage \in Stages, NEW status \in Statuses
  PROVE  /\ [j EXCEPT ![o] = [stage |-> stage, status |-> status]]
              \in [Outputs -> [stage : Stages, status : Statuses]]
         /\ [j EXCEPT ![o].stage = stage] \in [Outputs -> [stage : Stages, status : Statuses]]
         /\ [j EXCEPT ![o].status = status] \in [Outputs -> [stage : Stages, status : Statuses]]
OBVIOUS

(* A nonempty set of events has one that no other follows. *)
HasLast(es) == es # {} => \E e \in es : \A d \in es : d.source <= e.source

(* The events of an output, and those before any revision, have a last one: *)
(* Latest always names an event.                                            *)
Ranked ==
  \A o \in Outputs :
    /\ HasLast(EventsOf(o))
    /\ \A n \in Nat : HasLast({e \in EventsOf(o) : e.source < n})

(* Latest is a last event when there is one. *)
LEMMA LatestIsLast ==
  ASSUME NEW es, HasLast(es), es # {}
  PROVE  Latest(es) \in es /\ \A d \in es : d.source <= Latest(es).source
BY DEF HasLast, Latest

(* Every step keeps the types. *)
LEMMA TypedStep ==
  ASSUME Typed, Shapes, Bounded, Ranked, [Next]_vars
  PROVE  Typed'
<1>1. /\ revisions' \in Seq(Approvals) /\ revisions' # <<>>
      /\ history' \in [content : Nat, undo : Seq(Nat), redo : Seq(Nat)]
  BY RevisionsGrow DEF Typed, Grows
<1>2. intents' \subseteq Transaction
  <2>1. ASSUME NEW p \in Processes, WriteIntent(p) PROVE intents' \subseteq Transaction
    <3>1. proc[p].output \in Outputs
      BY <2>1 DEF WriteIntent, Resolved, At, Shapes, Shape
    <3> QED BY <2>1, <3>1, NewIntentTyped DEF WriteIntent, NewIntent, Typed
  <2> QED BY <2>1, IntentsChange DEF Typed, CommitRefused, RemoveIntent, Resolve
<1>3. events' \subseteq Transaction
  <2>1. ASSUME NEW p \in Processes, WriteEvent(p) PROVE events' \subseteq Transaction
    BY <2>1, EventTyped DEF WriteEvent, At, Transacting, Committed, Typed
  <2>2. ASSUME NEW p \in Processes, RecoverActivation(p) PROVE events' \subseteq Transaction
    <3>1. proc[p].output \in Outputs /\ base[proc[p].output] # 0
      BY <2>2 DEF RecoverActivation, At, Shapes, Shape, Bounded, Rendering
    <3>2. events' \subseteq events \cup {RecoveredEvent(proc[p].output)}
      BY <2>2 DEF RecoverActivation, RecoveredEvent
    <3> QED BY <3>1, <3>2, RecoveredTyped DEF Typed
  <2>3. ASSUME NEW p \in Processes, NEW t \in intents, Resolve(p, t)
        PROVE  events' \subseteq Transaction
    BY <2>3 DEF Resolve, Typed
  <2> QED BY <2>1, <2>2, <2>3, EventsChange DEF Typed
<1>4. base' \in [Outputs -> Nat]
  BY ZenonT(40), BaseChange DEF Typed, PublishReceipt, RequestRecord
<1>5. published' \subseteq Outputs
  <2>1. ASSUME NEW p \in Processes, ReadReceipt(p) \/ PublishOutput(p)
        PROVE  published' \subseteq Outputs
    <3>1. published' = published \cup {proc[p].output}
      BY <2>1 DEF ReadReceipt, PublishOutput
    <3>2. proc[p].output \in Outputs
      BY <2>1 DEF ReadReceipt, Resolved, PublishOutput, At, Shapes, Shape
    <3> QED BY <3>1, <3>2 DEF Typed
  <2> QED BY <2>1, PublishedChange DEF Typed
<1>6. delivery' \in [Outputs -> Nat \cup {None}]
  <2>1. ASSUME NEW p \in Processes, ReadReceipt(p)
        PROVE  delivery' \in [Outputs -> Nat \cup {None}]
    <3> DEFINE es == EventsOf(proc[p].output)
    <3>1. es # {} /\ proc[p].output \in Outputs
      BY <2>1 DEF ReadReceipt, ValidChain, Resolved, At, Shapes, Shape
    <3>2. Latest(es) \in es
      BY <3>1, LatestIsLast DEF Ranked
    <3>3. Latest(es).id \in Nat
      BY <3>2 DEF EventsOf, Typed, Transaction
    <3>4. delivery' = delivery \/ delivery' = [delivery EXCEPT ![proc[p].output] = Latest(es).id]
      BY <2>1 DEF ReadReceipt
    <3> HIDE DEF es
    <3> QED BY <3>3, <3>4 DEF Typed
  <2>2. ASSUME NEW p \in Processes, PublishDelivery(p)
        PROVE  delivery' \in [Outputs -> Nat \cup {None}]
    <3>1. proc[p].tx \in Transaction
      BY <2>2, EventTyped DEF PublishDelivery, At, Transacting, Committed
    <3> QED BY <2>2, <3>1 DEF PublishDelivery, Typed, Transaction
  <2> QED BY <2>1, <2>2, DeliveryChange DEF Typed
<1>7. checklist' \in [Outputs -> {"none", "open", "complete"}]
  <2>1. ASSUME NEW o, NEW c \in {"none", "open", "complete"},
               checklist' = [checklist EXCEPT ![o] = c]
        PROVE  checklist' \in [Outputs -> {"none", "open", "complete"}]
    BY <2>1 DEF Typed
  <2>2. ASSUME NEW p \in Processes, Evaluate(p)
        PROVE  checklist' \in [Outputs -> {"none", "open", "complete"}]
    BY <2>1, <2>2 DEF Evaluate
  <2>3. ASSUME NEW o \in Outputs, RecordChecklist(o)
        PROVE  checklist' \in [Outputs -> {"none", "open", "complete"}]
    BY <2>1, <2>3 DEF RecordChecklist
  <2> QED BY <2>2, <2>3, ChecklistChange DEF Typed
<1>8. journal' \in [Outputs -> [stage : Stages, status : Statuses]]
  <2>1. ASSUME NEW p \in Processes, NEW o \in Outputs, StartRender(p, o)
        PROVE  journal' \in [Outputs -> [stage : Stages, status : Statuses]]
    BY <2>1, JournalTyped DEF StartRender, Typed, Stages, Statuses
  <2>2. ASSUME NEW p \in Processes, StartOperation(p) \/ PublishOutput(p)
        PROVE  journal' \in [Outputs -> [stage : Stages, status : Statuses]]
    <3>1. ASSUME NEW o, NEW stage \in Stages, NEW status \in Statuses,
                 journal' = [journal EXCEPT ![o] = [stage |-> stage, status |-> status]]
          PROVE  journal' \in [Outputs -> [stage : Stages, status : Statuses]]
      BY <3>1, JournalTyped DEF Typed
    <3>2. /\ {"operation-started", "output-published"} \subseteq Stages
          /\ {"running", "completed"} \subseteq Statuses
      BY DEF Stages, Statuses
    <3>3. CASE StartOperation(p)
      BY <3>1, <3>2, <3>3 DEF StartOperation
    <3>4. CASE PublishOutput(p)
      BY <3>1, <3>2, <3>4 DEF PublishOutput
    <3> QED BY <2>2, <3>3, <3>4
  <2>3. ASSUME NEW p \in Processes, PublishReceipt(p) \/ RemoveIntent(p) \/ Settle(p)
        PROVE  journal' \in [Outputs -> [stage : Stages, status : Statuses]]
    <3>1. ASSUME NEW o, NEW stage \in Stages, journal' = [journal EXCEPT ![o].stage = stage]
          PROVE  journal' \in [Outputs -> [stage : Stages, status : Statuses]]
      BY ZenonT(40), <3>1 DEF Typed
    <3>2. ASSUME NEW o, NEW status \in Statuses, journal' = [journal EXCEPT ![o].status = status]
          PROVE  journal' \in [Outputs -> [stage : Stages, status : Statuses]]
      BY ZenonT(40), <3>2 DEF Typed
    <3>3. CASE PublishReceipt(p) \/ RemoveIntent(p)
      BY <3>1, <3>3 DEF PublishReceipt, RemoveIntent, Stages, Typed
    <3>4. CASE Settle(p)
      BY <3>2, <3>4 DEF Settle, Statuses, Typed
    <3> QED BY <2>3, <3>3, <3>4
  <2> QED BY <2>1, <2>2, <2>3, JournalChange DEF Typed
<1>9. barriers' \subseteq Outputs
  <2>1. ASSUME NEW p \in Processes, BeginRender(p) PROVE barriers' \subseteq Outputs
    BY <2>1 DEF BeginRender, At, Shapes, Shape, Typed
  <2> QED BY <2>1, BarriersChange DEF Typed, LowerBarrier
<1>10. raced' \subseteq Outputs
  <2>1. ASSUME NEW p \in Processes, Commit(p) \/ RecoverActivation(p)
        PROVE  raced' \subseteq Outputs
    <3>1. proc[p].output \in Outputs
      BY <2>1 DEF Commit, RecoverActivation, At, Shapes, Shape
    <3> QED BY <2>1, <3>1 DEF Commit, RecoverActivation, Typed
  <2>2. ASSUME NEW p \in Processes, NEW t \in intents, Resolve(p, t)
        PROVE  raced' \subseteq Outputs
    BY <2>2 DEF Resolve, Typed, Transaction
  <2> QED BY <2>1, <2>2, RacedChange DEF Typed
<1>11. rewound' \in BOOLEAN
  BY RewoundChange DEF Typed, Undo, Redo, Restore
<1>12. undoing' \in Nat
  BY UndoingChange, CurrentApproval DEF Typed
<1>13. counters' \in [requests : Nat, transactions : Nat, disturbances : Nat, crashed : BOOLEAN]
  <2>1. counters \in [requests : Nat, transactions : Nat, disturbances : Nat, crashed : BOOLEAN]
    BY DEF Typed
  <2>2. ASSUME NEW what, Disturbance(what)
        PROVE  counters' \in [requests : Nat, transactions : Nat, disturbances : Nat,
                              crashed : BOOLEAN]
    <3> DEFINE n == counters.disturbances + 1
               c == counters.crashed \/ what = "crash"
    <3>1. counters' = [counters EXCEPT !.disturbances = n, !.crashed = c]
      BY <2>2 DEF Disturbance
    <3>2. n \in Nat /\ c \in BOOLEAN
      BY <2>1
    <3> HIDE DEF n, c
    <3> QED BY <2>1, <3>1, <3>2
  <2>3. ASSUME NEW n \in Nat, \/ counters' = [counters EXCEPT !.requests = n]
                             \/ counters' = [counters EXCEPT !.transactions = n]
        PROVE  counters' \in [requests : Nat, transactions : Nat, disturbances : Nat,
                              crashed : BOOLEAN]
    BY <2>1, <2>3
  <2>4. CASE Requests
    BY <2>1, <2>3, <2>4 DEF Requests
  <2>5. ASSUME NEW p \in Processes, WriteIntent(p)
        PROVE  counters' \in [requests : Nat, transactions : Nat, disturbances : Nat,
                              crashed : BOOLEAN]
    BY <2>1, <2>3, <2>5 DEF WriteIntent
  <2> QED BY <2>1, <2>2, <2>4, <2>5, CountersChange DEF Crash
<1>14. proc' \in [Processes -> RequestRecord]
  BY ProcChange
<1>15. stranded' \subseteq Outputs
  <2>1. ASSUME NEW p \in Processes, StrandBarrier(p) \/ LowerFails(p)
        PROVE  proc[p].output \in Outputs
    <3>1. Shape(proc[p]) /\ proc[p].step # "idle"
      BY <2>1 DEF StrandBarrier, LowerFails, At, Shapes
    <3> QED BY <3>1 DEF Shape
  <2>2. stranded \subseteq Outputs
    BY DEF Typed
  <2>3. \/ stranded' = stranded
        \/ \E p \in Processes : /\ StrandBarrier(p) \/ LowerFails(p)
                               /\ stranded' = stranded \cup {proc[p].output}
    BY StrandedChange
  <2> QED BY <2>1, <2>2, <2>3
<1> QED
  BY <1>1, <1>2, <1>3, <1>4, <1>5, <1>6, <1>7, <1>8, <1>9, <1>10, <1>11, <1>12, <1>13, <1>14,
     <1>15
     DEF Typed

-----------------------------------------------------------------------------
(* A process begins a request, other than a render, on an output with a     *)
(* receipt.                                                                 *)
Opens(p, s) ==
  \E op \in Requested, o \in Outputs :
    /\ StartRequest(p, op, o) /\ proc[p].step = "idle" /\ base[o] # 0
    /\ s.op = op /\ s.output = o /\ s.step = "scan" /\ s.tx = None
    /\ s.expected = proc[p].expected /\ s.seen = proc[p].seen

(* A process begins a render that nobody has requested before. *)
OpensRender(p, s) ==
  \E o \in Outputs :
    /\ StartRender(p, o) /\ proc[p].step = "idle" /\ journal[o].stage = "none"
    /\ s.op = "render" /\ s.output = o /\ s.step = "begin" /\ s.tx = None
    /\ s.expected = Current /\ s.seen = proc[p].seen

(* A render raises its barrier, or begins to execute. *)
Executes(p, s) ==
  /\ SameButStep(proc[p], s)
  /\ \/ BeginRender(p) /\ proc[p].step = "begin" /\ s.step = "raised"
     \/ StartOperation(p) /\ proc[p].step = "raised" /\ s.step = "execute"

(* A render is over, but has to settle or to lower its barrier. *)
WindsUp(p, s) ==
  /\ proc[p].op = "render" /\ proc[p].step # "idle"
  /\ s.step \in {"settle", "lower"} /\ s.op = "render" /\ s.output = proc[p].output
  /\ s.tx = None /\ s.expected = proc[p].expected /\ s.seen = proc[p].seen

(* A render publishes its receipt. *)
Publishes(p, s) ==
  /\ PublishReceipt(p) /\ proc[p].step = "execute" /\ s.step = "scan" /\ SameRequest(proc[p], s)
  /\ s.expected = proc[p].expected /\ s.seen = proc[p].seen

(* A request recovers intents, reads or evaluates. *)
Prepares(p, s) ==
  /\ proc[p].step \in Preparing /\ s.step \in Preparing /\ SameRequest(proc[p], s)
  /\ s.expected \in {proc[p].expected, Current} /\ s.seen \in {proc[p].seen, Current}
  /\ proc[p].op = "render" => s.expected = proc[p].expected

(* A request writes its intent. *)
Intends(p, s) ==
  /\ WriteIntent(p) /\ proc[p].step = "resolve" /\ s.step = "commit" /\ s.tx = NewIntent(p)
  /\ s.op = proc[p].op /\ s.output = proc[p].output
  /\ s.expected = proc[p].expected /\ s.seen = proc[p].seen

(* A request goes on after its intent: commit, event, intent removed. *)
Follows(p, s) ==
  /\ SameButStep(proc[p], s)
  /\ \/ Commit(p) /\ proc[p].step = "commit" /\ s.step = "event"
     \/ WriteEvent(p) /\ proc[p].step = "event" /\ s.step = "tidy"
     \/ RemoveIntent(p) /\ proc[p].step = "tidy" /\ s.step = "publish"

(* The ways a process can move, with what each does to its request: the     *)
(* case distinction that the proofs below share.                            *)
LEMMA Kinds ==
  ASSUME Typed, Shapes, [Next]_vars, NEW p \in Processes
  PROVE  \/ proc'[p] = proc[p] \/ proc'[p] = Idle
         \/ Opens(p, proc'[p]) \/ OpensRender(p, proc'[p]) \/ Executes(p, proc'[p])
         \/ Publishes(p, proc'[p]) \/ Prepares(p, proc'[p]) \/ Intends(p, proc'[p])
         \/ Follows(p, proc'[p]) \/ WindsUp(p, proc'[p])
<1> DEFINE Goal == \/ proc'[p] = proc[p] \/ proc'[p] = Idle
                   \/ Opens(p, proc'[p]) \/ OpensRender(p, proc'[p]) \/ Executes(p, proc'[p])
                   \/ Publishes(p, proc'[p]) \/ Prepares(p, proc'[p]) \/ Intends(p, proc'[p])
                   \/ Follows(p, proc'[p]) \/ WindsUp(p, proc'[p])
<1>1. Shape(proc[p])
  BY DEF Shapes
<1>2. CASE proc'[p] = proc[p] \/ proc'[p] = Idle
  BY <1>2
<1>3. ASSUME Ends(p) PROVE proc'[p] = Idle
  BY <1>3, EndsBecomes DEF Becomes
<1>4. ASSUME NEW op \in Requested, NEW o \in Outputs, StartRequest(p, op, o)
      PROVE  Opens(p, proc'[p])
  <2>1. op \in Ops /\ proc[p].step = "idle" /\ base[o] # 0
    BY <1>4 DEF Requested, Ops, StartRequest, At
  <2>2. proc[p].tx = None
    BY <1>1, <2>1 DEF Shape, Transacting, Committed
  <2> QED BY <1>4, <2>1, <2>2, StartRequestBecomes DEF Becomes, Opens
<1>5. ASSUME NEW o \in Outputs, StartRender(p, o) PROVE OpensRender(p, proc'[p])
  <2>1. proc[p].step = "idle" /\ journal[o].stage = "none"
    BY <1>5 DEF StartRender, At
  <2>2. proc[p].tx = None
    BY <1>1, <2>1 DEF Shape, Transacting, Committed
  <2> QED BY <1>5, <2>1, <2>2, StartRenderBecomes DEF Becomes, OpensRender
<1>6. CASE BeginRender(p) \/ StartOperation(p)
  <2>1. /\ BeginRender(p) => proc[p].step = "begin"
        /\ StartOperation(p) => proc[p].step = "raised"
    BY DEF BeginRender, StartOperation, At
  <2> QED
    BY <1>6, <2>1, BeginRenderBecomes, StartOperationBecomes DEF Advances, Becomes, Executes
<1>16. CASE Winds(p)
  BY <1>16, WindsBecomes DEF Becomes, WindsUp
<1>7. CASE PublishReceipt(p)
  <2>1. proc[p].step = "execute"
    BY <1>7 DEF PublishReceipt, At
  <2> QED BY <1>7, <2>1, PublishReceiptBecomes DEF Becomes, Publishes
<1>8. ASSUME NEW r, Becomes(p, r), SameRequest(proc[p], r), r.step \in Preparing,
             r.expected = proc[p].expected, r.seen \in {proc[p].seen, Current},
             proc[p].step \in Preparing
      PROVE  Prepares(p, proc'[p])
  BY <1>8 DEF Becomes, Prepares
<1>9. CASE Scan(p)
  <2>1. proc[p].step \in Preparing /\ "resolve" \in Preparing
    BY <1>9 DEF Scan, At, Preparing
  <2> QED BY <1>8, <1>9, <2>1, ScanBecomes
<1>10. ASSUME NEW t \in intents, Resolve(p, t) PROVE Prepares(p, proc'[p])
  <2>1. proc[p].step \in Preparing
    BY <1>10 DEF Resolve, At, Preparing
  <2> QED BY <1>8, <1>10, <2>1, ResolveBecomes
<1>11. ASSUME FindEvents(p) \/ RecoverActivation(p)
       PROVE  proc'[p] = Idle \/ Prepares(p, proc'[p])
  <2>1. proc[p].step \in Preparing /\ {"activation", "scan"} \subseteq Preparing
    BY <1>11 DEF FindEvents, RecoverActivation, Resolved, At, Preparing
  <2>2. ASSUME Advances(p, "activation") PROVE Prepares(p, proc'[p])
    BY <1>8, <2>1, <2>2 DEF Advances, SameButStep
  <2> QED BY <1>3, <1>8, <1>11, <2>1, <2>2, FindEventsBecomes, RecoverActivationBecomes
<1>12. CASE ReadReceipt(p)
  <2>1. /\ proc[p].step \in Preparing /\ {"evaluate", "scan"} \subseteq Preparing
        /\ proc[p].op # "render"
    BY <1>1, <1>12 DEF ReadReceipt, Resolved, At, Preparing, Rendering, Shape
  <2> QED BY <1>3, <1>12, <2>1, ReadReceiptBecomes DEF Becomes, Prepares
<1>13. CASE Evaluate(p)
  <2>1. proc[p].step \in Preparing /\ "scan" \in Preparing
    BY <1>13 DEF Evaluate, At, Preparing
  <2> QED BY <1>8, <1>13, <2>1, EvaluateBecomes
<1>14. CASE WriteIntent(p)
  <2>1. proc[p].output \in Outputs /\ proc[p].step = "resolve"
    BY <1>1, <1>14 DEF WriteIntent, Resolved, At, Shape
  <2> QED BY <1>14, <2>1, WriteIntentBecomes DEF Becomes, Intends
<1>15. CASE Commit(p) \/ WriteEvent(p) \/ RemoveIntent(p)
  <2>1. /\ Commit(p) => proc[p].step = "commit"
        /\ WriteEvent(p) => proc[p].step = "event"
        /\ RemoveIntent(p) => proc[p].step = "tidy"
    BY DEF Commit, WriteEvent, RemoveIntent, At
  <2> QED
    BY <1>3, <1>15, <2>1, CommitBecomes, WriteEventBecomes, RemoveIntentBecomes
       DEF Advances, Becomes, Follows
<1> QED
  BY <1>2, <1>4, <1>5, <1>6, <1>7, <1>9, <1>10, <1>11, <1>12, <1>13, <1>14, <1>15,
     <1>16, ProcChange
     DEF Moves

(* Events are only ever added, one at a time. *)
LEMMA EventsGrow ==
  ASSUME Typed, Shapes, Bounded, [Next]_vars
  PROVE  events' = events \/ \E t \in Transaction : events' = events \cup {t}
<1>1. ASSUME NEW p \in Processes, WriteEvent(p)
      PROVE  \E t \in Transaction : events' = events \cup {t}
  <2>1. proc[p].tx \in Transaction
    BY <1>1, EventTyped DEF WriteEvent, At, Transacting, Committed
  <2> QED BY <1>1, <2>1 DEF WriteEvent
<1>2. ASSUME NEW p \in Processes, RecoverActivation(p)
      PROVE  events' = events \/ \E t \in Transaction : events' = events \cup {t}
  <2>1. proc[p].output \in Outputs /\ base[proc[p].output] # 0
    BY <1>2 DEF RecoverActivation, At, Shapes, Shape, Bounded, Rendering
  <2>2. RecoveredEvent(proc[p].output) \in Transaction
    BY <2>1, RecoveredTyped
  <2>3. events' = events \/ events' = events \cup {RecoveredEvent(proc[p].output)}
    BY <1>2 DEF RecoverActivation, RecoveredEvent
  <2> QED BY <2>2, <2>3
<1>3. ASSUME NEW p \in Processes, NEW t \in intents, Resolve(p, t)
      PROVE  events' = events \/ events' = events \cup {t}
  BY <1>3 DEF Resolve
<1> QED BY <1>1, <1>2, <1>3, EventsChange DEF Typed

(* A set of events that has a last one still has one when an event is       *)
(* added.                                                                   *)
LEMMA LastAdded ==
  ASSUME NEW es \in SUBSET Transaction, NEW t \in Transaction, HasLast(es)
  PROVE  HasLast(es \cup {t})
<1>1. \A e \in es \cup {t} : e.source \in Nat
  BY DEF Transaction
<1>2. CASE es = {}
  BY <1>1, <1>2 DEF HasLast
<1>3. CASE es # {}
  <2>1. PICK e \in es : \A d \in es : d.source <= e.source
    BY <1>3 DEF HasLast
  <2>2. CASE e.source <= t.source
    <3>1. \A d \in es \cup {t} : d.source <= t.source
      BY <1>1, <2>1, <2>2
    <3> QED BY <3>1 DEF HasLast
  <2>3. CASE ~(e.source <= t.source)
    <3>1. \A d \in es \cup {t} : d.source <= e.source
      BY <1>1, <2>1, <2>3
    <3> QED BY <3>1 DEF HasLast
  <2> QED BY <2>2, <2>3
<1> QED BY <1>2, <1>3

(* Every step keeps the events ranked. *)
LEMMA RankedStep ==
  ASSUME Typed, Shapes, Bounded, Ranked, [Next]_vars
  PROVE  Ranked'
<1>1. CASE events' = events
  BY <1>1 DEF Ranked, EventsOf, HasLast
<1>2. ASSUME NEW t \in Transaction, events' = events \cup {t} PROVE Ranked'
  <2>1. ASSUME NEW o \in Outputs PROVE HasLast(EventsOf(o)')
    <3>1. EventsOf(o) \in SUBSET Transaction /\ HasLast(EventsOf(o))
      BY DEF EventsOf, Typed, Ranked
    <3>2. EventsOf(o)' = EventsOf(o) \/ EventsOf(o)' = EventsOf(o) \cup {t}
      BY <1>2 DEF EventsOf
    <3>3. HasLast(EventsOf(o) \cup {t})
      BY <3>1, LastAdded
    <3> QED BY <3>1, <3>2, <3>3
  <2>2. ASSUME NEW o \in Outputs, NEW n \in Nat
        PROVE  HasLast({e \in EventsOf(o)' : e.source < n})
    <3> DEFINE es == {e \in EventsOf(o) : e.source < n}
               es2 == {e \in EventsOf(o)' : e.source < n}
    <3>1. es \in SUBSET Transaction /\ HasLast(es)
      BY DEF EventsOf, Typed, Ranked
    <3>2. es2 = es \/ es2 = es \cup {t}
      BY <1>2 DEF EventsOf
    <3> HIDE DEF es, es2
    <3>3. HasLast(es \cup {t})
      BY <3>1, LastAdded
    <3>4. HasLast(es2)
      BY <3>1, <3>2, <3>3
    <3> QED BY <3>4 DEF es2
  <2> QED BY <2>1, <2>2 DEF Ranked, HasLast
<1> QED BY <1>1, <1>2, EventsGrow

(* The transaction counter counts intents. *)
LEMMA TransactionsGrow ==
  ASSUME Typed, [Next]_vars
  PROVE  /\ counters'.transactions \in Nat /\ counters'.transactions >= counters.transactions
         /\ \/ counters'.transactions = counters.transactions
            \/ /\ counters'.transactions = counters.transactions + 1
               /\ \E p \in Processes : WriteIntent(p)
<1>1. counters \in [requests : Nat, transactions : Nat, disturbances : Nat, crashed : BOOLEAN]
  BY DEF Typed
<1>2. ASSUME NEW what, Disturbance(what) PROVE counters'.transactions = counters.transactions
  <2> DEFINE n == counters.disturbances + 1
             c == counters.crashed \/ what = "crash"
  <2>1. counters' = [counters EXCEPT !.disturbances = n, !.crashed = c]
    BY <1>2 DEF Disturbance
  <2> HIDE DEF n, c
  <2> QED BY <1>1, <2>1
<1>3. CASE Requests
  BY <1>1, <1>3 DEF Requests
<1>4. ASSUME NEW p \in Processes, WriteIntent(p)
      PROVE  counters'.transactions = counters.transactions + 1
  BY <1>1, <1>4 DEF WriteIntent
<1>5. \/ counters'.transactions = counters.transactions
      \/ /\ counters'.transactions = counters.transactions + 1
         /\ \E p \in Processes : WriteIntent(p)
  BY <1>2, <1>3, <1>4, CountersChange DEF Crash
<1>6. counters.transactions \in Nat
  BY <1>1
<1> QED BY <1>5, <1>6

(* No step changes or removes a revision of the ancestry. *)
LEMMA CurrentGrows ==
  ASSUME Typed, Shapes, Bounded, [Next]_vars
  PROVE  /\ Current' \in Nat /\ Current' >= Current
         /\ \A i \in 1..Current : revisions'[i] = revisions[i]
<1>1. Current \in Nat
  BY CurrentApproval
<1>2. CASE UNCHANGED revisions
  BY <1>1, <1>2 DEF Current
<1>3. CASE \E a : Grows(a)
  BY <1>1, <1>3 DEF Grows
<1> QED BY <1>2, <1>3, RevisionsGrow

(* A new intent is one that a process has just written. *)
LEMMA IntentsGrow ==
  ASSUME Typed, Shapes, [Next]_vars, NEW t \in intents'
  PROVE  t \in intents \/ \E p \in Processes : WriteIntent(p) /\ t = NewIntent(p)
<1>1. ASSUME NEW p \in Processes, WriteIntent(p) PROVE intents' = intents \cup {NewIntent(p)}
  BY <1>1 DEF WriteIntent, NewIntent
<1> QED BY <1>1, IntentsChange DEF CommitRefused, RemoveIntent, Resolve

(* A process that holds a transaction has just written its intent, or held  *)
(* it before and has moved on along commit, event, intent.                  *)
LEMMA TransactionMoves ==
  ASSUME Typed, Shapes, [Next]_vars, NEW p \in Processes, proc'[p].tx # None
  PROVE  \/ proc'[p].tx = proc[p].tx /\ (proc'[p] = proc[p] \/ Follows(p, proc'[p]))
         \/ Intends(p, proc'[p])
<1>1. Shape(proc[p]) /\ Shape(proc'[p])
  BY ShapesStep DEF Shapes
<1>2. Idle.tx = None
  BY DEF Idle
<1>3. proc'[p].step \notin Preparing \cup Rendering
  BY <1>1 DEF Shape, Preparing, Rendering, Transacting, Committed
<1>4. ~Opens(p, proc'[p]) /\ ~OpensRender(p, proc'[p]) /\ ~Executes(p, proc'[p])
  BY <1>3 DEF Opens, OpensRender, Executes, Preparing, Rendering
<1>5. ~Publishes(p, proc'[p]) /\ ~Prepares(p, proc'[p]) /\ ~WindsUp(p, proc'[p])
  BY <1>3 DEF Publishes, Prepares, Preparing, WindsUp, Rendering
<1>6. Follows(p, proc'[p]) => proc'[p].tx = proc[p].tx
  BY DEF Follows, SameButStep, SameRequest
<1> QED BY <1>2, <1>4, <1>5, <1>6, Kinds

(* How a render moves: it is requested, executes, publishes its receipt and *)
(* then keeps its output and its revision, to the end of its winding up.    *)
LEMMA RenderMoves ==
  ASSUME Typed, Shapes, [Next]_vars, NEW p \in Processes, proc'[p].op = "render"
  PROVE  \/ proc'[p] = proc[p] \/ OpensRender(p, proc'[p])
         \/ Executes(p, proc'[p]) /\ proc[p].op = "render"
         \/ Publishes(p, proc'[p]) /\ proc[p].op = "render"
         \/ WindsUp(p, proc'[p])
         \/ /\ proc[p].op = "render" /\ proc'[p].output = proc[p].output
            /\ proc'[p].expected = proc[p].expected
            /\ proc[p].step \notin Rendering /\ proc'[p].step \notin Rendering
<1> DEFINE s == proc'[p]
<1>1. Idle.op # "render"
  BY DEF Idle
<1>2. ~Opens(p, s)
  BY DEF Opens, Requested
<1>3. Executes(p, s) \/ Publishes(p, s) => proc[p].op = "render"
  BY DEF Executes, Publishes, SameButStep, SameRequest
<1>4. CASE Prepares(p, s)
  BY <1>4 DEF Prepares, SameRequest, Preparing, Rendering
<1>5. CASE Intends(p, s)
  BY <1>5 DEF Intends, Rendering
<1>6. CASE Follows(p, s)
  BY <1>6 DEF Follows, SameButStep, SameRequest, Rendering
<1> QED BY <1>1, <1>2, <1>3, <1>4, <1>5, <1>6, Kinds

(* What a request expects and has seen is never ahead of authority. *)
LEMMA RevisionsSeen ==
  ASSUME Typed, Shapes, Bounded, [Next]_vars, NEW p \in Processes
  PROVE  proc'[p].expected <= Current' /\ proc'[p].seen <= Current'
<1> DEFINE s == proc'[p]
<1>1. /\ Current \in Nat /\ Current' \in Nat /\ Current' >= Current
      /\ proc[p].expected <= Current /\ proc[p].seen <= Current
      /\ proc[p].expected \in Nat /\ proc[p].seen \in Nat
  BY CurrentApproval, CurrentGrows DEF Bounded, Typed, RequestRecord
<1>2. s.expected \in {0, Current, proc[p].expected} /\ s.seen \in {0, Current, proc[p].seen}
  <2>1. Idle.expected = 0 /\ Idle.seen = 0
    BY DEF Idle
  <2>2. CASE Opens(p, s) \/ OpensRender(p, s)
    BY <2>2 DEF Opens, OpensRender
  <2>3. CASE Executes(p, s) \/ Follows(p, s)
    BY <2>3 DEF Executes, Follows, SameButStep
  <2>4. CASE Publishes(p, s) \/ Prepares(p, s) \/ Intends(p, s)
    BY <2>4 DEF Publishes, Prepares, Intends
  <2>5. CASE WindsUp(p, s)
    BY <2>5 DEF WindsUp
  <2> QED BY <2>1, <2>2, <2>3, <2>4, <2>5, Kinds
<1> QED BY <1>1, <1>2

(* An output that has a receipt keeps one. *)
LEMMA BaseStays ==
  ASSUME Typed, Shapes, Bounded, [Next]_vars, NEW o \in Outputs, base[o] # 0
  PROVE  base'[o] # 0
<1>1. ASSUME NEW p \in Processes, PublishReceipt(p) PROVE base'[o] # 0
  <2>1. proc[p].op = "render" /\ proc[p].expected # 0
    BY <1>1 DEF PublishReceipt, At, Shapes, Shape, Rendering, Bounded
  <2> QED BY <1>1, <2>1 DEF PublishReceipt, Typed
<1> QED BY <1>1, BaseChange

(* A request that reads or transitions is about an output with a receipt. *)
LEMMA BaseSet ==
  ASSUME Typed, Shapes, Bounded, [Next]_vars, NEW p \in Processes,
         proc'[p].step \notin {"idle"} \cup Rendering
  PROVE  base'[proc'[p].output] # 0
<1> DEFINE s == proc'[p]
<1>1. Shape(s) /\ Shape(proc[p])
  BY ShapesStep DEF Shapes
<1>2. s.output \in Outputs
  BY <1>1 DEF Shape
<1>3. CASE base[s.output] # 0
  BY <1>2, <1>3, BaseStays
<1>4. CASE Publishes(p, s)
  <2>1. /\ PublishReceipt(p) /\ proc[p].step = "execute" /\ s.output = proc[p].output
    BY <1>4 DEF Publishes, SameRequest
  <2>2. proc[p].op = "render" /\ proc[p].expected # 0
    BY <1>1, <2>1 DEF Shape, Rendering, Bounded
  <2> QED BY <1>2, <2>1, <2>2 DEF PublishReceipt, Typed
<1>5. CASE Opens(p, s)
  BY <1>3, <1>5 DEF Opens
<1>6. ASSUME proc[p].step \notin {"idle"} \cup Rendering, s.output = proc[p].output
      PROVE  base[s.output] # 0
  BY <1>6 DEF Bounded
<1>7. CASE Prepares(p, s) \/ Intends(p, s) \/ Follows(p, s)
  <2>1. proc[p].step \notin {"idle"} \cup Rendering /\ s.output = proc[p].output
    BY <1>7 DEF Prepares, Intends, Follows, SameButStep, SameRequest, Preparing, Rendering
  <2> QED BY <1>3, <1>6, <2>1
<1>8. ~OpensRender(p, s) /\ ~Executes(p, s) /\ ~WindsUp(p, s) /\ s # Idle
  BY DEF OpensRender, Executes, WindsUp, Rendering, Idle
<1>9. CASE s = proc[p]
  BY <1>3, <1>6, <1>9
<1> QED BY <1>4, <1>5, <1>7, <1>8, <1>9, Kinds

(* Every step keeps the bounds. *)
LEMMA BoundedStep ==
  ASSUME Typed, Shapes, Bounded, [Next]_vars
  PROVE  Bounded'
<1>1. /\ Current \in Nat /\ Current' \in Nat /\ Current' >= Current
      /\ \A i \in 1..Current : revisions'[i] = revisions[i]
  BY CurrentApproval, CurrentGrows
<1>2. /\ counters.transactions \in Nat /\ counters'.transactions \in Nat
      /\ counters'.transactions >= counters.transactions
  BY TransactionsGrow DEF Typed
<1>3. ASSUME NEW t, t.id \in 1..counters.transactions
      PROVE  t.id \in 1..counters'.transactions
  BY <1>2, <1>3
<1>4. ASSUME NEW i \in 1..Current' PROVE revisions'[i].by <= counters'.transactions
  <2>1. CASE i \in 1..Current
    <3>1. revisions'[i] = revisions[i] /\ revisions[i].by <= counters.transactions
      BY <1>1, <2>1 DEF Bounded
    <3>2. revisions[i] \in Approvals
      BY <2>1 DEF Typed, Current
    <3> QED BY <1>2, <3>1, <3>2 DEF Approvals
  <2>2. CASE i \notin 1..Current
    <3>1. PICK a : Grows(a) /\ (Copies(a) \/ \E p \in Processes : CommitsOf(p, a))
      BY <1>1, <2>2, RevisionsGrow DEF Current
    <3>2. i = Current + 1 /\ revisions'[i] = a
      BY <1>1, <2>2, <3>1 DEF Grows
    <3>3. a.by = 0 \/ a.by \in 1..counters.transactions
      <4>1. ASSUME NEW p \in Processes, CommitsOf(p, a) PROVE a.by \in 1..counters.transactions
        <5>1. proc[p].tx # None
          BY <4>1 DEF CommitsOf, Commit, At, Shapes, Shape, Transacting
        <5> QED BY <4>1, <5>1 DEF CommitsOf, Bounded
      <4> QED BY <3>1, <4>1 DEF Copies
    <3> QED BY <1>2, <3>2, <3>3
  <2> QED BY <2>1, <2>2
<1>5. HistoryBounded'
  <2>1. CASE UNCHANGED <<revisions, history>>
    BY <2>1 DEF Bounded, HistoryBounded, Stack, Current
  <2> QED BY <2>1, RevisionsGrow
<1>6. ASSUME NEW o \in Outputs PROVE base'[o] <= Current'
  <2>1. base[o] \in Nat /\ base[o] <= Current
    BY DEF Typed, Bounded
  <2>2. ASSUME NEW p \in Processes, PublishReceipt(p)
        PROVE  base'[o] = base[o] \/ base'[o] = proc[p].expected
    BY <2>2 DEF PublishReceipt, Typed
  <2>3. \A p \in Processes : proc[p].expected \in Nat /\ proc[p].expected <= Current
    BY DEF Typed, RequestRecord, Bounded
  <2>4. base'[o] \in Nat /\ base'[o] <= Current
    BY <2>1, <2>2, <2>3, BaseChange
  <2> QED BY <1>1, <2>4
<1>7. undoing' <= Current'
  BY <1>1, UndoingChange DEF Bounded, Typed
<1>8. \A p \in Processes : proc'[p].expected <= Current' /\ proc'[p].seen <= Current'
  BY RevisionsSeen
<1>9. ASSUME NEW p \in Processes, WriteIntent(p)
      PROVE  NewIntent(p).id \in 1..counters'.transactions
  <2>1. counters'.transactions = counters.transactions + 1
    BY <1>9 DEF WriteIntent, Typed
  <2> QED BY <1>2, <2>1 DEF NewIntent
<1>10. ASSUME NEW t \in intents' PROVE t.id \in 1..counters'.transactions
  BY <1>3, <1>9, IntentsGrow DEF Bounded
<1>11. ASSUME NEW p \in Processes, proc'[p].tx # None
       PROVE  proc'[p].tx.id \in 1..counters'.transactions
  BY <1>3, <1>9, <1>11, TransactionMoves DEF Bounded, Intends
<1>12. ASSUME NEW p \in Processes, proc'[p].op = "render" PROVE proc'[p].expected # 0
  <2>1. Current # 0
    BY CurrentApproval
  <2> QED
    BY <1>12, <2>1, RenderMoves
       DEF Bounded, OpensRender, Executes, Publishes, WindsUp, SameButStep
<1>13. \A p \in Processes : proc'[p].step \notin {"idle"} \cup Rendering =>
                              base'[proc'[p].output] # 0
  BY BaseSet
<1> QED
  BY <1>4, <1>5, <1>6, <1>7, <1>8, <1>10, <1>11, <1>12, <1>13 DEF Bounded, HistoryBounded, Stack

-----------------------------------------------------------------------------
(* One render per output: a render has a journal that keeps anyone else     *)
(* from requesting the output again; its receipt is published by it alone,  *)
(* for the revision it was requested on, and it alone holds its barrier.    *)
Renders ==
  /\ \A o \in Outputs : base[o] # 0 \/ o \in barriers => journal[o].stage # "none"
  /\ \A p \in Processes : proc[p].op = "render" =>
       /\ journal[proc[p].output].stage # "none"
       /\ proc[p].step \in Fresh => base[proc[p].output] = 0
       /\ proc[p].step \notin Rendering => base[proc[p].output] = proc[p].expected
       /\ proc[p].step = "begin" => proc[p].output \notin barriers
  /\ \A p, q \in Processes :
       /\ proc[p].op = "render" /\ proc[q].op = "render"
       /\ proc[p].output = proc[q].output
       => p = q

(* A journal never goes back to saying nothing. *)
LEMMA StageStays ==
  ASSUME Typed, Shapes, [Next]_vars, NEW o \in Outputs, journal[o].stage # "none"
  PROVE  journal'[o].stage # "none"
<1> DEFINE J == [Outputs -> [stage : Stages, status : Statuses]]
<1>1. journal \in J
  BY DEF Typed
<1>2. ASSUME NEW u, NEW stage, NEW status,
             \/ journal' = [journal EXCEPT ![u] = [stage |-> stage, status |-> status]]
             \/ journal' = [journal EXCEPT ![u].stage = stage],
             stage # "none"
      PROVE  journal'[o].stage # "none"
  BY <1>1, <1>2
<1>3. ASSUME NEW u, NEW status, journal' = [journal EXCEPT ![u].status = status]
      PROVE  journal'[o].stage # "none"
  BY <1>1, <1>3
<1>4. ASSUME NEW p \in Processes, NEW u \in Outputs, StartRender(p, u)
      PROVE  journal'[o].stage # "none"
  BY <1>2, <1>4 DEF StartRender
<1>5. ASSUME NEW p \in Processes, StartOperation(p) \/ PublishOutput(p)
      PROVE  journal'[o].stage # "none"
  <2>1. \E stage \in {"operation-started", "output-published"}, status \in Statuses :
          journal' = [journal EXCEPT ![proc[p].output] = [stage |-> stage, status |-> status]]
    BY <1>5 DEF StartOperation, PublishOutput, Statuses
  <2>2. ASSUME NEW stage \in {"operation-started", "output-published"}, NEW status \in Statuses,
               journal' = [journal EXCEPT ![proc[p].output] = [stage |-> stage, status |-> status]]
        PROVE  journal'[o].stage # "none"
    BY <1>2, <2>2
  <2> QED BY <2>1, <2>2
<1>6. ASSUME NEW p \in Processes, PublishReceipt(p) \/ RemoveIntent(p)
      PROVE  journal'[o].stage # "none"
  <2>1. \/ journal' = journal
        \/ journal' = [journal EXCEPT ![proc[p].output].stage = "receipt-published"]
        \/ journal' = [journal EXCEPT ![proc[p].output].stage = "approval-transitioned"]
    BY <1>6 DEF PublishReceipt, RemoveIntent
  <2> QED BY <1>2, <2>1
<1>7. ASSUME NEW p \in Processes, Settle(p) PROVE journal'[o].stage # "none"
  BY <1>3, <1>7 DEF Settle
<1> QED BY <1>4, <1>5, <1>6, <1>7, JournalChange

(* A barrier is raised by the beginning of its render. *)
LEMMA BarrierRaised ==
  ASSUME [Next]_vars, NEW o \in barriers', o \notin barriers
  PROVE  \E p \in Processes : /\ BeginRender(p) /\ o = proc[p].output
                              /\ proc[p].expected = Current
BY BarriersChange DEF BeginRender, LowerBarrier

(* A requested render has a journal, and no receipt and no barrier yet. *)
LEMMA StartedStage ==
  ASSUME Typed, NEW p \in Processes, NEW o \in Outputs, StartRender(p, o)
  PROVE  journal'[o].stage = "request-persisted" /\ base' = base /\ barriers' = barriers
BY DEF Typed, StartRender

(* A published receipt names the revision the render was requested on, and  *)
(* says so in the journal.                                                  *)
LEMMA PublishedBase ==
  ASSUME Typed, Shapes, NEW p \in Processes, PublishReceipt(p)
  PROVE  /\ base'[proc[p].output] = proc[p].expected
         /\ \A o \in Outputs : o # proc[p].output => base'[o] = base[o]
         /\ journal'[proc[p].output].stage = "receipt-published"
         /\ proc[p].op = "render" /\ proc[p].step = "execute" /\ proc[p].output \in Outputs
<1>1. proc[p].step = "execute"
  BY DEF PublishReceipt, At
<1>2. proc[p].op = "render" /\ proc[p].output \in Outputs
  BY <1>1 DEF Shapes, Shape, Rendering
<1> QED BY <1>1, <1>2 DEF Typed, PublishReceipt

(* Every step keeps to one render per output. *)
LEMMA RendersStep ==
  ASSUME Typed, Shapes, Bounded, Renders, [Next]_vars
  PROVE  Renders'
<1>1. ASSUME NEW o \in Outputs, base'[o] # 0 \/ o \in barriers'
      PROVE  journal'[o].stage # "none"
  <2>1. CASE base[o] # 0 \/ o \in barriers
    BY <2>1, StageStays DEF Renders
  <2>2. CASE o \in barriers' /\ o \notin barriers
    <3>1. PICK p \in Processes : BeginRender(p) /\ o = proc[p].output
      BY <2>2, BarrierRaised
    <3>2. proc[p].op = "render" /\ o \in Outputs
      BY <3>1 DEF BeginRender, At, Shapes, Shape, Rendering
    <3> QED BY <3>1, <3>2, StageStays DEF Renders
  <2>3. CASE base'[o] # 0 /\ base[o] = 0
    BY <2>3, BaseChange, PublishedBase
  <2> QED BY <1>1, <2>1, <2>2, <2>3
<1>2. ASSUME NEW p \in Processes, proc[p].op = "render", ~PublishReceipt(p)
      PROVE  base'[proc[p].output] = base[proc[p].output]
  <2>1. proc[p].output \in Outputs
    BY <1>2 DEF Shapes, Shape
  <2>2. ASSUME NEW q \in Processes, PublishReceipt(q), proc[q].output = proc[p].output
        PROVE  FALSE
    BY <1>2, <2>2, PublishedBase DEF Renders
  <2> QED BY <2>1, <2>2, BaseChange, PublishedBase
<1>3. ASSUME NEW p \in Processes, proc'[p].op = "render"
      PROVE  /\ journal'[proc'[p].output].stage # "none"
             /\ proc'[p].step \in Fresh => base'[proc'[p].output] = 0
             /\ proc'[p].step \notin Rendering => base'[proc'[p].output] = proc'[p].expected
             /\ proc'[p].step = "begin" => proc'[p].output \notin barriers'
  <2> DEFINE s == proc'[p]
  <2>1. CASE OpensRender(p, s)
    <3>1. PICK o \in Outputs : /\ StartRender(p, o) /\ journal[o].stage = "none"
                               /\ s.output = o /\ s.step = "begin"
      BY <2>1 DEF OpensRender
    <3>2. base[o] = 0 /\ o \notin barriers
      BY <3>1 DEF Renders
    <3> QED BY <3>1, <3>2, StartedStage DEF Rendering, Fresh
  <2>2. ASSUME proc[p].op = "render", s.output = proc[p].output
        PROVE  journal'[s.output].stage # "none"
    BY <2>2, StageStays DEF Renders, Shapes, Shape
  <2>3. CASE s = proc[p] /\ proc[p].op = "render"
    <3>1. ASSUME PublishReceipt(p) PROVE FALSE
      <4>1. proc[p].step = "execute"
        BY <3>1 DEF PublishReceipt, At
      <4>2. proc'[p].step = "scan"
        BY <3>1, PublishReceiptBecomes DEF Becomes
      <4> QED BY <2>3, <4>1, <4>2
    <3>2. /\ s.step \in Fresh => base'[s.output] = 0
          /\ s.step \notin Rendering => base'[s.output] = s.expected
      BY <1>2, <2>3, <3>1 DEF Renders
    <3>3. ASSUME s.step = "begin", s.output \in barriers' PROVE FALSE
      <4>1. PICK q \in Processes : /\ BeginRender(q) /\ s.output = proc[q].output
                                   /\ proc[q].expected = Current
        BY <2>3, <3>3, BarrierRaised DEF Renders
      <4>2. proc[q].op = "render" /\ proc[q].step = "begin"
        BY <4>1 DEF BeginRender, At, Shapes, Shape, Rendering
      <4>3. q = p
        BY <2>3, <4>1, <4>2 DEF Renders
      <4>4. proc'[p].step = "raised"
        BY <4>1, <4>3, BeginRenderBecomes DEF Advances, Becomes
      <4> QED BY <2>3, <3>3, <4>4
    <3> QED BY <2>2, <2>3, <3>2, <3>3
  <2>4. CASE Executes(p, s) /\ proc[p].op = "render"
    <3>1. /\ s.output = proc[p].output /\ s.step \in {"raised", "execute"}
          /\ proc[p].step \in {"begin", "raised"} /\ ~PublishReceipt(p)
      BY <2>4 DEF Executes, SameButStep, SameRequest, PublishReceipt, At
    <3>2. base'[s.output] = 0
      BY <1>2, <2>4, <3>1 DEF Renders, Fresh
    <3> QED BY <2>2, <2>4, <3>1, <3>2 DEF Rendering
  <2>5. CASE Publishes(p, s) /\ proc[p].op = "render"
    <3>1. /\ PublishReceipt(p) /\ s.output = proc[p].output /\ s.step = "scan"
          /\ s.expected = proc[p].expected
      BY <2>5 DEF Publishes, SameRequest
    <3> QED BY <2>2, <2>5, <3>1, PublishedBase DEF Rendering, Fresh
  <2>6. CASE /\ proc[p].op = "render" /\ s.output = proc[p].output
             /\ s.expected = proc[p].expected
             /\ proc[p].step \notin Rendering /\ s.step \notin Rendering
    <3>1. ~PublishReceipt(p)
      BY <2>6 DEF PublishReceipt, At, Rendering
    <3>2. base'[s.output] = s.expected /\ s.step \notin Fresh
      BY <1>2, <2>6, <3>1 DEF Renders, Rendering, Fresh
    <3> QED BY <2>2, <2>6, <3>2 DEF Fresh
  <2>7. s = proc[p] => proc[p].op = "render"
    BY <1>3
  <2>8. CASE WindsUp(p, s)
    <3>1. /\ proc[p].op = "render" /\ s.output = proc[p].output
          /\ s.step \in {"settle", "lower"}
      BY <2>8 DEF WindsUp
    <3> QED BY <2>2, <3>1 DEF Rendering, Fresh
  <2> QED BY <1>3, <2>1, <2>3, <2>4, <2>5, <2>6, <2>7, <2>8, RenderMoves
<1>4. ASSUME NEW p \in Processes, proc'[p].op = "render"
      PROVE  \/ proc[p].op = "render" /\ proc'[p].output = proc[p].output
             \/ OpensRender(p, proc'[p])
  BY <1>4, RenderMoves DEF Executes, Publishes, WindsUp, SameButStep, SameRequest
<1>5. ASSUME NEW p \in Processes, OpensRender(p, proc'[p])
      PROVE  /\ \A q \in Processes : q # p => proc'[q] = proc[q]
             /\ journal[proc'[p].output].stage = "none"
  BY <1>5, StartRenderBecomes DEF OpensRender, Becomes
<1>6. ASSUME NEW p \in Processes, NEW q \in Processes, OpensRender(p, proc'[p]), p # q,
             proc'[q].op = "render", proc'[p].output = proc'[q].output
      PROVE  FALSE
  <2>1. proc'[q] = proc[q] /\ journal[proc[q].output].stage = "none"
    BY <1>5, <1>6
  <2> QED BY <1>6, <2>1 DEF Renders
<1>7. ASSUME NEW p \in Processes, NEW q \in Processes,
             proc'[p].op = "render", proc'[q].op = "render", proc'[p].output = proc'[q].output
      PROVE  p = q
  <2>1. CASE OpensRender(p, proc'[p]) \/ OpensRender(q, proc'[q])
    BY <1>6, <1>7, <2>1
  <2>2. CASE ~OpensRender(p, proc'[p]) /\ ~OpensRender(q, proc'[q])
    <3>1. /\ proc[p].op = "render" /\ proc[q].op = "render"
          /\ proc[p].output = proc[q].output
      BY <1>4, <1>7, <2>2
    <3> QED BY <3>1 DEF Renders
  <2> QED BY <2>1, <2>2
<1> QED BY <1>1, <1>3, <1>7 DEF Renders

(* How a render comes to an end. *)
LEMMA WhyIdle ==
  ASSUME Typed, Shapes, Next, NEW p \in Processes, proc'[p] = Idle, proc[p].op = "render"
  PROVE  \/ Crash \/ RenderRefused(p) \/ StrandBarrier(p)
         \/ LowerBarrier(p) \/ LowerFails(p)
<1>1. proc'[p] # proc[p]
  BY DEF Idle
<1>2. ASSUME NEW q \in Processes, q # p, Ends(q) \/ Moves(q) PROVE proc'[p] = proc[p]
  BY <1>2, MovesBecomes DEF Becomes
<1>3. CASE \E q \in Processes : Request(q)
  <2>1. PICK q \in Processes : Request(q)
    BY <1>3
  <2>2. Moves(q)
    BY <2>1 DEF Request, Moves, Requested
  <2>3. Shape(proc[p]) /\ (q = p => proc[p].step = "idle")
    BY <2>1 DEF Shapes, Request, StartRequest, StartRender, At
  <2> QED BY <1>1, <1>2, <2>2, <2>3 DEF Shape
<1>4. ASSUME NEW q \in Processes, Step(q), q # p PROVE FALSE
  <2>1. Ends(q) \/ Moves(q)
    BY <1>4, StepMoves
  <2> QED BY <1>1, <1>2, <1>4, <2>1
<1>5. ASSUME Step(p)
      PROVE  RenderRefused(p) \/ StrandBarrier(p) \/ LowerBarrier(p) \/ LowerFails(p)
  <2>1. Shape(proc[p]) /\ proc'[p].step = "idle"
    BY DEF Shapes, Idle
  <2>2. ~ReadReceipt(p) /\ ~ReadFails(p) /\ ~FindEvents(p) /\ ~RecoverActivation(p) /\ ~Evaluate(p)
    BY <2>1 DEF ReadReceipt, ReadFails, FindEvents, RecoverActivation, Evaluate, Resolved, At,
                Shape, Rendering
  <2>3. ~PublishReceipt(p) /\ ~Scan(p) /\ ~WriteIntent(p) /\ ~Commit(p) /\ ~WriteEvent(p)
    <3>1. WriteIntent(p) => proc[p].output \in Outputs
      BY <2>1 DEF WriteIntent, Resolved, At, Shape
    <3> QED
      BY <2>1, <3>1, PublishReceiptBecomes, ScanBecomes, WriteIntentBecomes, CommitBecomes,
         WriteEventBecomes DEF Advances, Becomes
  <2>4. ASSUME NEW t \in intents PROVE ~Resolve(p, t)
    BY <2>1, ResolveBecomes DEF Becomes, Resolve, At
  <2>5. ~RemoveIntent(p) /\ ~PublishDelivery(p) /\ ~BeginRender(p) /\ ~StartOperation(p)
    BY <2>1, RemoveIntentBecomes, BeginRenderBecomes, StartOperationBecomes
       DEF Advances, Becomes, PublishDelivery
  <2>6. ~Winds(p)
    BY <2>1, WindsBecomes DEF Becomes
  <2>7. ASSUME NEW c, FailsBy(p, c) PROVE FALSE
    BY <2>6, <2>7 DEF FailsBy, Fails, Winds
  <2>8. ~RenderFails(p) /\ ~CommitRefused(p) /\ ~CallFails(p)
    BY <2>7 DEF RenderFails, CommitRefused, CallFails
  <2>9. ~Settle(p) /\ ~PublishOutput(p)
    BY <2>6 DEF Settle, PublishOutput, Winds, At
  <2> QED BY <1>5, <2>2, <2>3, <2>4, <2>5, <2>8, <2>9 DEF Step
<1>6. CASE \E o \in Outputs : RecordChecklist(o)
  BY <1>1, <1>6 DEF RecordChecklist
<1>7. CASE Edit \/ CheckBarriers \/ Undo \/ Redo \/ MoveFails
  BY <1>1, <1>7 DEF Edit, CheckBarriers, Undo, Redo, Restore, MoveFails
<1> QED BY <1>3, <1>4, <1>5, <1>6, <1>7 DEF Next

(* A crash is never forgotten. *)
LEMMA CrashLeavesMark ==
  ASSUME Typed, [Next]_vars, ~counters'.crashed
  PROVE  ~counters.crashed /\ ~Crash
<1>1. counters \in [requests : Nat, transactions : Nat, disturbances : Nat, crashed : BOOLEAN]
  BY DEF Typed
<1>2. ASSUME NEW what, Disturbance(what)
      PROVE  counters'.crashed = (counters.crashed \/ what = "crash")
  <2> DEFINE n == counters.disturbances + 1
             c == counters.crashed \/ what = "crash"
  <2>1. counters' = [counters EXCEPT !.disturbances = n, !.crashed = c]
    BY <1>2 DEF Disturbance
  <2> HIDE DEF n, c
  <2>2. counters'.crashed = c
    BY <1>1, <2>1
  <2> QED BY <2>2 DEF c
<1>3. ASSUME NEW what, Disturbance(what) PROVE ~counters.crashed
  BY <1>2, <1>3, Zenon
<1>4. ~Crash
  BY <1>2, Zenon DEF Crash
<1>5. ASSUME Requests \/ \E p \in Processes : WriteIntent(p)
      PROVE  counters'.crashed = counters.crashed
  BY <1>1, <1>5 DEF Requests, WriteIntent
<1> QED BY <1>3, <1>4, <1>5, CountersChange, Zenon

(* A render whose barrier stays raised goes on, short of a crash and of an  *)
(* error that strands the barrier.                                          *)
LEMMA RenderHolds ==
  ASSUME Typed, Shapes, Bounded, Renders, [Next]_vars, ~Crash,
         NEW p \in Processes, proc[p].op = "render",
         proc[p].output \in barriers', proc[p].output \notin stranded'
  PROVE  proc'[p].op = "render" /\ proc'[p].output = proc[p].output
<1> DEFINE s == proc'[p]
           o == proc[p].output
<1>1. Shape(proc[p]) /\ proc[p].step # "idle"
  BY DEF Shapes, Shape
<1>2. CASE s = Idle
  <2>1. proc[p] # Idle
    BY <1>1 DEF Idle
  <2>2. Next
    BY <1>2, <2>1 DEF vars
  <2>3. ~StrandBarrier(p) /\ ~LowerFails(p) /\ ~LowerBarrier(p)
    BY DEF StrandBarrier, LowerFails, LowerBarrier
  <2>4. RenderRefused(p)
    BY <1>2, <2>2, <2>3, WhyIdle
  <2>5. o \notin barriers /\ barriers' = barriers
    BY <2>4 DEF RenderRefused, At, Renders, files
  <2> QED BY <2>5
<1>3. CASE \/ Executes(p, s) \/ Publishes(p, s) \/ Prepares(p, s) \/ Intends(p, s)
           \/ Follows(p, s) \/ WindsUp(p, s)
  BY <1>3 DEF Executes, Publishes, Prepares, Intends, Follows, WindsUp, SameButStep, SameRequest
<1>4. ~Opens(p, s) /\ ~OpensRender(p, s)
  BY <1>1 DEF Opens, OpensRender
<1> QED BY <1>2, <1>3, <1>4, Kinds

(* What is stranded stays so. *)
LEMMA StrandedStays ==
  ASSUME [Next]_vars
  PROVE  stranded \subseteq stranded'
BY StrandedChange

(* Every step leaves barriers with owners, short of a crash and of errors   *)
(* that strand them.                                                        *)
LEMMA BarriersStep ==
  ASSUME Typed, Shapes, Bounded, Renders, BarriersHaveOwners, [Next]_vars
  PROVE  BarriersHaveOwners'
<1> SUFFICES ASSUME ~counters'.crashed, NEW o \in barriers', o \notin stranded'
             PROVE  \E p \in Processes : proc'[p].op = "render" /\ proc'[p].output = o
  BY DEF BarriersHaveOwners
<1>1. ~counters.crashed /\ ~Crash /\ o \notin stranded
  BY CrashLeavesMark, StrandedStays
<1>2. CASE o \in barriers
  <2>1. PICK p \in Processes : proc[p].op = "render" /\ proc[p].output = o
    BY <1>1, <1>2 DEF BarriersHaveOwners
  <2> QED BY <1>1, <2>1, RenderHolds
<1>3. CASE o \notin barriers
  <2>1. PICK p \in Processes : BeginRender(p) /\ o = proc[p].output
    BY <1>3, BarrierRaised
  <2>2. proc[p].op = "render"
    BY <2>1 DEF BeginRender, At, Shapes, Shape, Rendering
  <2> QED BY <1>1, <2>1, <2>2, RenderHolds
<1> QED BY <1>2, <1>3

-----------------------------------------------------------------------------
(* An output becomes known to authority only after the revision it was      *)
(* rendered from, and the entry right after that revision speaks of it only *)
(* if a transaction committed it.                                           *)
Lineage ==
  \A i \in 1..Current : revisions[i].output # None =>
    /\ base[revisions[i].output] # 0 /\ i > base[revisions[i].output]
    /\ revisions[i].by = 0 => i > base[revisions[i].output] + 1

(* The receipt of an output is published once, and names one revision       *)
(* forever.                                                                 *)
LEMMA BaseFixed ==
  ASSUME Typed, Shapes, Renders, [Next]_vars, NEW o \in Outputs, base[o] # 0
  PROVE  base'[o] = base[o]
<1>1. ASSUME NEW p \in Processes, PublishReceipt(p) PROVE base'[o] = base[o]
  <2>1. base[proc[p].output] = 0
    BY <1>1, PublishedBase DEF Renders, Fresh
  <2> QED BY <1>1, <2>1, PublishedBase
<1> QED BY <1>1, BaseChange

(* What a process about to commit holds (Commit). *)
LEMMA Committing ==
  ASSUME Typed, Shapes, Bounded, NEW p \in Processes, Commit(p)
  PROVE  /\ proc[p].step = "commit" /\ proc[p].output \in Outputs /\ proc[p].tx \in Transaction
         /\ proc[p].tx # None /\ proc[p].tx.id \in Nat \ {0} /\ proc[p].tx.source = Current
         /\ proc[p].tx.to = proc[p].to /\ proc[p].tx.output = proc[p].output
         /\ base[proc[p].output] # 0 /\ base[proc[p].output] <= Current
<1>1. proc[p].step = "commit" /\ proc[p].expected = Current
  BY DEF Commit, At
<1>2. Shape(proc[p]) /\ proc[p].step \in Transacting
  BY <1>1 DEF Shapes, Transacting
<1>3. proc[p].tx \in Transaction /\ proc[p].output \in Outputs
  BY <1>2, EventTyped
<1>4. /\ proc[p].tx # None /\ proc[p].tx.source = Current
      /\ proc[p].tx.to = proc[p].to /\ proc[p].tx.output = proc[p].output
  BY <1>1, <1>2 DEF Shape
<1>5. proc[p].tx.id \in 1..counters.transactions /\ counters.transactions \in Nat
  BY <1>4 DEF Bounded, Typed
<1>6. base[proc[p].output] # 0 /\ base[proc[p].output] <= Current
  BY <1>1, <1>3 DEF Bounded, Rendering
<1> QED BY <1>1, <1>3, <1>4, <1>5, <1>6

(* Every step keeps the lineage of the outputs. *)
LEMMA LineageStep ==
  ASSUME Typed, Shapes, Bounded, Renders, Lineage, [Next]_vars
  PROVE  Lineage'
<1> SUFFICES ASSUME NEW i \in 1..Current', revisions'[i].output # None
             PROVE  /\ base'[revisions'[i].output] # 0 /\ i > base'[revisions'[i].output]
                    /\ revisions'[i].by = 0 => i > base'[revisions'[i].output] + 1
  BY DEF Lineage
<1> DEFINE o == revisions'[i].output
<1>1. Current \in Nat /\ Current' \in Nat /\ base \in [Outputs -> Nat]
  BY CurrentApproval, CurrentGrows DEF Typed
<1>2. CASE i \in 1..Current
  <2>1. revisions'[i] = revisions[i] /\ revisions[i] \in Approvals
    BY <1>2, CurrentGrows DEF Typed, Current
  <2>2. o \in Outputs
    BY <2>1 DEF Approvals
  <2>3. base[o] # 0 /\ i > base[o] /\ (revisions[i].by = 0 => i > base[o] + 1)
    BY <1>2, <2>1 DEF Lineage
  <2> QED BY <2>1, <2>2, <2>3, BaseFixed
<1>3. CASE i \notin 1..Current
  <2>1. PICK a : Grows(a) /\ (Copies(a) \/ \E p \in Processes : CommitsOf(p, a))
    BY <1>1, <1>3, RevisionsGrow DEF Current
  <2>2. i = Current + 1 /\ revisions'[i] = a
    BY <1>1, <1>3, <2>1 DEF Grows
  <2>3. a \in Approvals
    BY <2>1 DEF Copies, CommitsOf
  <2>4. a.output \in Outputs
    BY <2>2, <2>3 DEF Approvals
  <2>5. CASE Copies(a)
    <3>1. PICK k \in 1..Current : a.output = revisions[k].output
      BY <2>5 DEF Copies
    <3>2. base[a.output] # 0 /\ k > base[a.output]
      BY <2>2, <3>1 DEF Lineage
    <3>3. base'[a.output] = base[a.output] /\ base[a.output] \in Nat
      BY <1>1, <2>4, <3>2, BaseFixed
    <3> QED BY <1>1, <2>2, <3>2, <3>3
  <2>6. ASSUME NEW p \in Processes, CommitsOf(p, a)
        PROVE  /\ base'[a.output] # 0 /\ i > base'[a.output] /\ a.by # 0
    <3>1. /\ base[a.output] # 0 /\ base[a.output] <= Current /\ a.by # 0
      BY <2>6, Committing DEF CommitsOf
    <3>2. base'[a.output] = base[a.output] /\ base[a.output] \in Nat
      BY <1>1, <2>4, <3>1, BaseFixed
    <3> QED BY <1>1, <2>2, <3>1, <3>2
  <2> QED BY <2>1, <2>2, <2>5, <2>6
<1> QED BY <1>2, <1>3

-----------------------------------------------------------------------------
(* A transaction that may still be committed or recovered. *)
Pending(t) == t \in intents \/ \E p \in Processes : proc[p].tx # None /\ proc[p].tx = t

(* What a transaction says of its source is so, and a revision it committed *)
(* is the one right after the source and records just this transition.      *)
Sound(t) ==
  /\ t.source \in 1..Current /\ t.from = revisions[t.source].state
  /\ \A i \in 1..Current : revisions[i].by = t.id =>
       i = t.source + 1 /\ revisions[i].state = t.to /\ revisions[i].output = t.output

(* The revision of a transaction is in authority. *)
Stands(t) ==  t.source + 1 \in 1..Current /\ revisions[t.source + 1].by = t.id

(* How far a request has come with its transaction: not committed,          *)
(* committed, event written.                                                *)
Progressed(r) ==
  /\ r.step = "commit" => \A i \in 1..Current : revisions[i].by # r.tx.id
  /\ r.step \in Committed => Stands(r.tx)
  /\ r.step \in {"tidy", "publish"} => r.tx \in events

(* Pending transactions are sound, their numbers are unique, no two         *)
(* requests share one, and requests have done what their step says.         *)
TransactionsSound ==
  /\ \A t \in Transaction : Pending(t) => Sound(t)
  /\ \A t, u \in Transaction : Pending(t) /\ Pending(u) /\ t.id = u.id => t = u
  /\ \A p, q \in Processes : proc[p].tx # None /\ proc[p].tx = proc[q].tx => p = q
  /\ \A p \in Processes : Progressed(proc[p])

(* A pending transaction has a number that has been given out. *)
LEMMA PendingId ==
  ASSUME Typed, Bounded, NEW t, Pending(t)
  PROVE  t \in Transaction /\ t.id \in 1..counters.transactions
BY DEF Typed, Bounded, Pending, RequestRecord

(* A transaction is pending because it was, or because its intent was just  *)
(* written.                                                                 *)
LEMMA Pends ==
  ASSUME Typed, Shapes, Bounded, [Next]_vars, NEW t, Pending(t)'
  PROVE  Pending(t) \/ \E p \in Processes : WriteIntent(p) /\ t = NewIntent(p)
<1>1. CASE t \in intents'
  BY <1>1, IntentsGrow DEF Pending
<1>2. ASSUME NEW p \in Processes, proc'[p].tx # None, proc'[p].tx = t
      PROVE  Pending(t) \/ \E q \in Processes : WriteIntent(q) /\ t = NewIntent(q)
  BY <1>2, TransactionMoves DEF Pending, Intends
<1> QED BY <1>1, <1>2 DEF Pending

(* A step writes the intent of one process. *)
LEMMA OneWriter ==
  ASSUME Typed, Shapes, NEW p \in Processes, NEW q \in Processes, WriteIntent(p), WriteIntent(q)
  PROVE  p = q
<1>1. /\ proc[p].step = "resolve" /\ proc[q].step = "resolve"
      /\ proc[p].output \in Outputs /\ proc[q].output \in Outputs
  BY DEF WriteIntent, Resolved, At, Shapes, Shape
<1>2. proc'[q].step = "commit" /\ (p # q => proc'[q] = proc[q])
  BY <1>1, WriteIntentBecomes DEF Becomes
<1> QED BY <1>1, <1>2

(* The number of a new intent is a new one. *)
LEMMA NewId ==
  ASSUME Typed, Bounded, NEW p \in Processes
  PROVE  /\ \A t : Pending(t) => t.id # NewIntent(p).id
         /\ \A i \in 1..Current : revisions[i].by # NewIntent(p).id
         /\ NewIntent(p).id \in Nat \ {0}
<1>1. counters.transactions \in Nat /\ NewIntent(p).id = counters.transactions + 1
  BY DEF Typed, NewIntent
<1>2. ASSUME NEW i \in 1..Current
      PROVE  revisions[i].by \in Nat /\ revisions[i].by <= counters.transactions
  <2>1. revisions[i] \in Approvals
    BY DEF Typed, Current
  <2> QED BY <2>1 DEF Bounded, Approvals
<1>3. ASSUME NEW t, Pending(t) PROVE t.id # NewIntent(p).id
  BY <1>1, <1>3, PendingId
<1> QED BY <1>1, <1>2, <1>3

(* A new intent is sound, and not committed yet. *)
LEMMA NewSound ==
  ASSUME Typed, Shapes, Bounded, NEW p \in Processes, WriteIntent(p), NEW t, t = NewIntent(p)
  PROVE  /\ t \in Transaction /\ Sound(t)'
         /\ \A i \in 1..Current' : revisions'[i].by # t.id
<1>1. t \in Transaction
  BY NewIntentTyped DEF WriteIntent, Resolved, At, Shapes, Shape
<1>2. revisions' = revisions /\ Current' = Current /\ Current \in 1..Current
  BY CurrentApproval DEF WriteIntent, authority, Current
<1>3. t.source = Current /\ t.from = revisions[Current].state
  BY DEF NewIntent, Approval
<1>4. \A i \in 1..Current : revisions[i].by # t.id
  BY NewId
<1> QED BY <1>1, <1>2, <1>3, <1>4 DEF Sound

(* A pending transaction stays sound: its source is never changed, and only *)
(* its holder commits it, right after the source and only once.             *)
LEMMA SoundStays ==
  ASSUME Typed, Shapes, Bounded, TransactionsSound, [Next]_vars,
         NEW t, Pending(t)
  PROVE  Sound(t)'
<1>1. t \in Transaction /\ t.id \in Nat \ {0} /\ Sound(t)
  BY PendingId DEF TransactionsSound, Typed
<1>2. /\ Current \in Nat /\ Current' \in Nat /\ Current' >= Current
      /\ \A i \in 1..Current : revisions'[i] = revisions[i]
  BY CurrentApproval, CurrentGrows
<1>3. t.source \in 1..Current' /\ t.from = revisions'[t.source].state
  BY <1>1, <1>2 DEF Sound
<1>4. ASSUME NEW i \in 1..Current', revisions'[i].by = t.id
      PROVE  i = t.source + 1 /\ revisions'[i].state = t.to /\ revisions'[i].output = t.output
  <2>1. CASE i \in 1..Current
    BY <1>1, <1>2, <1>4, <2>1 DEF Sound
  <2>2. CASE i \notin 1..Current
    <3>1. PICK a : Grows(a) /\ (Copies(a) \/ \E p \in Processes : CommitsOf(p, a))
      BY <1>2, <2>2, RevisionsGrow DEF Current
    <3>2. i = Current + 1 /\ revisions'[i] = a
      BY <1>2, <2>2, <3>1 DEF Grows
    <3>3. ~Copies(a)
      BY <1>1, <1>4, <3>2 DEF Copies
    <3>4. PICK p \in Processes : CommitsOf(p, a)
      BY <3>1, <3>3
    <3>5. /\ proc[p].tx \in Transaction /\ proc[p].tx # None /\ proc[p].tx.source = Current
          /\ proc[p].tx.to = proc[p].to /\ proc[p].tx.output = proc[p].output
      BY <3>4, Committing DEF CommitsOf
    <3>6. a.by = proc[p].tx.id /\ a.state = proc[p].to /\ a.output = proc[p].output
      BY <3>4 DEF CommitsOf
    <3>7. t = proc[p].tx
      <4>1. Pending(proc[p].tx) /\ proc[p].tx.id = t.id
        BY <1>4, <3>2, <3>5, <3>6 DEF Pending
      <4> QED BY <1>1, <3>5, <4>1 DEF TransactionsSound
    <3> QED BY <3>2, <3>5, <3>6, <3>7
  <2> QED BY <2>1, <2>2
<1> QED BY <1>3, <1>4 DEF Sound

(* What is committed stays so. *)
LEMMA StandsStays ==
  ASSUME Typed, Shapes, Bounded, [Next]_vars, NEW t, Stands(t)
  PROVE  Stands(t)'
BY CurrentApproval, CurrentGrows DEF Stands

(* Events are never removed. *)
LEMMA EventsStay ==
  ASSUME Typed, Shapes, Bounded, [Next]_vars
  PROVE  events \subseteq events'
BY EventsGrow

(* Every step of a request is the progress that its step says. *)
LEMMA ProgressedStep ==
  ASSUME Typed, Shapes, Bounded, TransactionsSound, [Next]_vars, NEW p \in Processes
  PROVE  Progressed(proc[p])'
<1> DEFINE s == proc'[p]
<1>1. Shape(s) /\ Shape(proc[p]) /\ Progressed(proc[p])
  BY ShapesStep DEF Shapes, TransactionsSound
<1>2. CASE s.tx = None
  BY <1>1, <1>2 DEF Shape, Progressed, Transacting, Committed
<1>3. CASE Intends(p, s)
  <2>1. s.step = "commit" /\ WriteIntent(p) /\ s.tx = NewIntent(p)
    BY <1>3 DEF Intends
  <2> QED BY <2>1, NewSound DEF Progressed, Committed
<1>4. CASE s.tx = proc[p].tx /\ s.tx # None /\ (s = proc[p] \/ Follows(p, s))
  <2>1. Pending(s.tx) /\ s.tx \in Transaction /\ s.tx.id \in Nat \ {0}
    <3>1. Pending(proc[p].tx)
      BY <1>4 DEF Pending
    <3> QED BY <1>4, <3>1, PendingId DEF Typed
  <2>2. ASSUME s.step = "commit", NEW i \in 1..Current' PROVE revisions'[i].by # s.tx.id
    <3>1. s = proc[p]
      BY <1>4, <2>2 DEF Follows
    <3>2. CASE i \in 1..Current
      BY <1>1, <2>2, <3>1, <3>2, CurrentGrows DEF Progressed
    <3>3. CASE i \notin 1..Current
      <4>1. PICK a : Grows(a) /\ (Copies(a) \/ \E q \in Processes : CommitsOf(q, a))
        BY <2>2, <3>3, RevisionsGrow DEF Current
      <4>2. revisions'[i] = a
        BY <2>2, <3>3, <4>1, CurrentApproval DEF Grows
      <4>3. Copies(a) => a.by # s.tx.id
        BY <2>1 DEF Copies
      <4>4. ASSUME NEW q \in Processes, CommitsOf(q, a), a.by = s.tx.id PROVE FALSE
        <5>1. proc[q].tx \in Transaction /\ proc[q].tx # None /\ proc[q].tx.id = s.tx.id
          BY <4>4, Committing DEF CommitsOf
        <5>2. Pending(proc[q].tx)
          BY <5>1 DEF Pending
        <5>3. proc[q].tx = s.tx
          BY <2>1, <5>1, <5>2 DEF TransactionsSound
        <5>4. q = p
          BY <1>4, <5>1, <5>3 DEF TransactionsSound
        <5>5. s.step = "event"
          BY <4>4, <5>4, CommitBecomes DEF CommitsOf, Advances, Becomes
        <5> QED BY <2>2, <5>5
      <4> QED BY <4>1, <4>2, <4>3, <4>4
    <3> QED BY <3>2, <3>3
  <2> PICK t : t = s.tx
    OBVIOUS
  <2>3. ASSUME s.step \in Committed PROVE Stands(t)'
    <3>1. CASE proc[p].step \in Committed
      <4>1. Stands(proc[p].tx)
        BY <1>1, <3>1 DEF Progressed
      <4>2. Stands(t)
        BY <1>4, <4>1
      <4> QED BY <4>2, StandsStays
    <3>2. CASE Commit(p)
      <4>1. proc[p].tx.source = Current /\ proc[p].tx.id \in Nat \ {0} /\ proc[p].tx \in Transaction
        BY <3>2, Committing
      <4>2. Grow([state |-> proc[p].to, output |-> proc[p].output, by |-> proc[p].tx.id])
        BY <3>2 DEF Commit
      <4>3. Current' = Current + 1 /\ revisions'[Current + 1].by = proc[p].tx.id
        BY <4>2 DEF Grow, Current, Typed
      <4>4. Current \in Nat /\ t = proc[p].tx
        BY <1>4, CurrentApproval
      <4> QED BY <4>1, <4>3, <4>4 DEF Stands
    <3> QED BY <1>4, <2>3, <3>1, <3>2 DEF Follows, Committed
  <2>4. ASSUME s.step \in {"tidy", "publish"} PROVE s.tx \in events'
    <3>1. CASE proc[p].step \in {"tidy", "publish"}
      BY <1>1, <1>4, <3>1, EventsStay DEF Progressed
    <3>2. CASE WriteEvent(p)
      BY <1>4, <3>2 DEF WriteEvent
    <3> QED BY <1>4, <2>4, <3>1, <3>2 DEF Follows
  <2> QED BY <2>2, <2>3, <2>4 DEF Progressed, Stands
<1> QED BY <1>2, <1>3, <1>4, TransactionMoves

(* Every step keeps pending transactions sound. *)
LEMMA TransactionsSoundStep ==
  ASSUME Typed, Shapes, Bounded, TransactionsSound, [Next]_vars
  PROVE  TransactionsSound'
<1>1. ASSUME NEW t \in Transaction, Pending(t)' PROVE Sound(t)'
  BY <1>1, Pends, SoundStays, NewSound
<1>2. ASSUME NEW t \in Transaction, NEW u \in Transaction, Pending(t)', Pending(u)', t.id = u.id
      PROVE  t = u
  <2>1. CASE Pending(t) /\ Pending(u)
    BY <1>2, <2>1 DEF TransactionsSound
  <2>2. ASSUME NEW p \in Processes, WriteIntent(p), t = NewIntent(p) PROVE t = u
    <3>1. ~Pending(u)
      BY <1>2, <2>2, NewId
    <3>2. PICK q \in Processes : WriteIntent(q) /\ u = NewIntent(q)
      BY <1>2, <3>1, Pends
    <3> QED BY <2>2, <3>2, OneWriter
  <2>3. ASSUME NEW p \in Processes, WriteIntent(p), u = NewIntent(p) PROVE t = u
    <3>1. ~Pending(t)
      BY <1>2, <2>3, NewId
    <3>2. PICK q \in Processes : WriteIntent(q) /\ t = NewIntent(q)
      BY <1>2, <3>1, Pends
    <3> QED BY <2>3, <3>2, OneWriter
  <2> QED BY <1>2, <2>1, <2>2, <2>3, Pends
<1>3. ASSUME NEW p \in Processes, NEW q \in Processes, proc'[p].tx # None,
             proc'[p].tx = proc'[q].tx
      PROVE  p = q
  <2> DEFINE From(r) == \/ proc'[r].tx = proc[r].tx
                        \/ WriteIntent(r) /\ proc'[r].tx = NewIntent(r)
  <2>0. ASSUME NEW r \in Processes, proc'[r].tx # None PROVE From(r)
    <3>1. CASE Intends(r, proc'[r])
      BY <3>1 DEF Intends
    <3> QED BY <2>0, <3>1, TransactionMoves
  <2>1. From(p) /\ From(q)
    BY <1>3, <2>0
  <2>3. CASE proc'[p].tx = proc[p].tx /\ proc'[q].tx = proc[q].tx
    BY <1>3, <2>3 DEF TransactionsSound
  <2>4. ASSUME NEW r \in Processes, proc'[r].tx = proc[r].tx, proc'[r].tx # None,
               NEW w \in Processes, WriteIntent(w), proc'[r].tx = NewIntent(w)
        PROVE  FALSE
    <3>1. Pending(proc[r].tx)
      BY <2>4 DEF Pending
    <3> QED BY <2>4, <3>1, NewId
  <2> QED BY <1>3, <2>1, <2>3, <2>4, OneWriter
<1>4. \A p \in Processes : Progressed(proc[p])'
  BY ProgressedStep
<1> QED BY <1>1, <1>2, <1>3, <1>4 DEF TransactionsSound

-----------------------------------------------------------------------------
(* An event that authority bears out: EventsAreCommitted, event by event. *)
True(e) ==
  /\ e.source \in 1..Current /\ e.source + 1 \in 1..Current
  /\ revisions[e.source + 1].by # 0 /\ e.id \in {0, revisions[e.source + 1].by}
  /\ revisions[e.source].state = e.from
  /\ revisions[e.source + 1].state = e.to /\ revisions[e.source + 1].output = e.output

(* Every event is borne out by authority. *)
EventsTrue == \A e \in events : True(e)

(* A pending transaction that is committed makes a true event. *)
LEMMA StandsTrue ==
  ASSUME Typed, Bounded, TransactionsSound, NEW t, Pending(t), Stands(t)
  PROVE  True(t)
<1>1. t \in Transaction /\ t.id \in 1..counters.transactions /\ Sound(t)
  BY PendingId DEF TransactionsSound
<1>2. t.source + 1 \in 1..Current /\ revisions[t.source + 1].by = t.id
  BY DEF Stands
<1>3. /\ t.source \in 1..Current /\ t.from = revisions[t.source].state
      /\ revisions[t.source + 1].state = t.to /\ revisions[t.source + 1].output = t.output
  BY <1>1, <1>2, Zenon DEF Sound
<1>4. t.id # 0
  BY <1>1 DEF Typed
<1> QED BY <1>2, <1>3, <1>4 DEF True

(* What a writer is about to write, or has written, is true (WriteEvent). *)
LEMMA WrittenTrue ==
  ASSUME Typed, Shapes, Bounded, TransactionsSound, NEW p \in Processes,
         proc[p].step \in Committed
  PROVE  /\ proc[p].tx \in Transaction /\ proc[p].tx # None /\ True(proc[p].tx)
         /\ proc[p].tx.output = proc[p].output /\ proc[p].tx.to = proc[p].to
         /\ proc[p].tx.source = proc[p].expected
<1>1. /\ proc[p].tx # None
      /\ proc[p].tx.output = proc[p].output /\ proc[p].tx.to = proc[p].to
      /\ proc[p].tx.source = proc[p].expected
  BY DEF Shapes, Shape, Transacting
<1>2. proc[p].tx \in Transaction /\ Pending(proc[p].tx) /\ Stands(proc[p].tx)
  BY <1>1, PendingId DEF Pending, TransactionsSound, Progressed
<1> QED BY <1>1, <1>2, StandsTrue

(* What a reader finds reachable is committed (Resolve). *)
LEMMA ReachableStands ==
  ASSUME Typed, Bounded, TransactionsSound, NEW p \in Processes, NEW t, Pending(t),
         Reachable(t, proc[p].seen)
  PROVE  Stands(t)
<1>1. PICK i \in 1..proc[p].seen : revisions[i].by = t.id
  BY DEF Reachable
<1>2. i \in 1..Current
  BY CurrentApproval DEF Bounded, Typed, RequestRecord
<1>3. Sound(t)
  BY PendingId DEF TransactionsSound
<1> QED BY <1>1, <1>2, <1>3 DEF Sound, Stands

(* The event a reader makes up for an activation is true                    *)
(* (RecoverActivation).                                                     *)
LEMMA ActivationTrue ==
  ASSUME Typed, Bounded, Lineage, NEW o \in Outputs, base[o] # 0,
         NEW i \in 1..Current, IsActivation(i, o)
  PROVE  True(RecoveredEvent(o))
<1>1. /\ i = base[o] + 1 /\ revisions[i].output = o /\ revisions[i].state = "rendered_unchecked"
      /\ base[o] \in Nat /\ o # None
  BY LifecycleAssumption DEF IsActivation, Typed
<1>2. revisions[i].by # 0
  BY <1>1 DEF Lineage
<1>3. base[o] \in 1..Current /\ base[o] + 1 \in 1..Current
  BY <1>1, CurrentApproval
<1> QED BY <1>1, <1>2, <1>3 DEF True, RecoveredEvent

(* A true event stays true: authority only grows. *)
LEMMA TrueStays ==
  ASSUME Typed, Shapes, Bounded, [Next]_vars, NEW e, True(e)
  PROVE  True(e)'
BY CurrentApproval, CurrentGrows DEF True

(* Every event that is written is true. *)
LEMMA NewEvent ==
  ASSUME Typed, Shapes, Bounded, Lineage, TransactionsSound, [Next]_vars, NEW e \in events'
  PROVE  e \in events \/ True(e)
<1>1. ASSUME NEW p \in Processes, WriteEvent(p) PROVE e \in events \/ True(e)
  <2>1. events' = events \cup {proc[p].tx} /\ proc[p].step \in Committed
    BY <1>1 DEF WriteEvent, At, Committed
  <2> QED BY <2>1, WrittenTrue
<1>2. ASSUME NEW p \in Processes, NEW t \in intents, Resolve(p, t)
      PROVE  e \in events \/ True(e)
  <2>1. events' = events \/ (events' = events \cup {t} /\ Reachable(t, proc[p].seen))
    BY <1>2 DEF Resolve
  <2> QED BY <2>1, ReachableStands, StandsTrue DEF Pending
<1>3. ASSUME NEW p \in Processes, RecoverActivation(p) PROVE e \in events \/ True(e)
  <2> DEFINE o == proc[p].output
  <2>1. o \in Outputs /\ base[o] # 0
    BY <1>3 DEF RecoverActivation, At, Shapes, Shape, Bounded, Rendering
  <2>2. \/ events' = events
        \/ /\ events' = events \cup {RecoveredEvent(o)}
           /\ \E i \in 1..Current : IsActivation(i, o)
    BY <1>3 DEF RecoverActivation, RecoveredEvent
  <2> QED BY <2>1, <2>2, ActivationTrue
<1> QED BY <1>1, <1>2, <1>3, EventsChange

(* Every step keeps the events true. *)
LEMMA EventsTrueStep ==
  ASSUME Typed, Shapes, Bounded, Lineage, TransactionsSound, EventsTrue, [Next]_vars
  PROVE  EventsTrue'
<1> SUFFICES ASSUME NEW e \in events' PROVE True(e)'
  BY DEF EventsTrue
<1> QED BY NewEvent, TrueStays DEF EventsTrue

(* The activation of output o is in authority. *)
Activated(o) == \E i \in 1..Current : IsActivation(i, o)

(* What is activated stays so. *)
LEMMA ActivatedStays ==
  ASSUME Typed, Shapes, Bounded, Renders, Lineage, [Next]_vars, NEW o \in Outputs, Activated(o)
  PROVE  Activated(o)'
<1>1. PICK i \in 1..Current : IsActivation(i, o)
  BY DEF Activated
<1>2. base[o] # 0
  BY <1>1, LifecycleAssumption DEF IsActivation, Lineage
<1>3. base'[o] = base[o] /\ i \in 1..Current' /\ revisions'[i] = revisions[i]
  BY <1>2, BaseFixed, CurrentApproval, CurrentGrows
<1> QED BY <1>1, <1>3 DEF IsActivation, Activated

(* A render past its commit has activated its output. *)
LEMMA RenderActivated ==
  ASSUME Typed, Shapes, Bounded, Renders, TransactionsSound, NEW p \in Processes,
         proc[p].op = "render", proc[p].step \in Committed
  PROVE  Activated(proc[p].output)
<1> DEFINE t == proc[p].tx
<1>1. True(t) /\ t.output = proc[p].output /\ t.to = proc[p].to /\ t.source = proc[p].expected
  BY WrittenTrue
<1>2. proc[p].to = "rendered_unchecked" /\ base[proc[p].output] = proc[p].expected
  BY DEF Shapes, Shape, Renders, Committed, Rendering
<1> QED BY <1>1, <1>2 DEF True, Activated, IsActivation

(* What a change of a journal can say, and who makes it. *)
LEMMA JournalAdvances ==
  ASSUME Typed, Shapes, [Next]_vars, NEW o \in Outputs, journal'[o] # journal[o]
  PROVE  \/ /\ journal'[o].stage \notin {"approval-transitioned", "output-published"}
            /\ journal'[o].status # "completed"
         \/ \E p \in Processes : /\ RemoveIntent(p) /\ proc[p].op = "render" /\ o = proc[p].output
                                 /\ journal'[o].status = journal[o].status
         \/ \E p \in Processes : PublishOutput(p) /\ o = proc[p].output
         \/ journal'[o].stage = journal[o].stage /\ journal'[o].status # "completed"
         \/ \E p \in Processes : /\ PublishReceipt(p) /\ journal'[o].stage = "receipt-published"
                                 /\ journal'[o].status = journal[o].status
<1> DEFINE J == [Outputs -> [stage : Stages, status : Statuses]]
<1>1. journal \in J
  BY DEF Typed
<1>2. ASSUME NEW p \in Processes, NEW u \in Outputs, StartRender(p, u)
      PROVE  /\ journal'[o].stage \notin {"approval-transitioned", "output-published"}
             /\ journal'[o].status # "completed"
  BY <1>1, <1>2 DEF StartRender
<1>3. ASSUME NEW p \in Processes, StartOperation(p)
      PROVE  /\ journal'[o].stage \notin {"approval-transitioned", "output-published"}
             /\ journal'[o].status # "completed"
  <2>1. journal' = [journal EXCEPT ![proc[p].output] =
                      [stage |-> "operation-started", status |-> "running"]]
    BY <1>3 DEF StartOperation
  <2> QED BY <1>1, <2>1
<1>4. ASSUME NEW p \in Processes, PublishReceipt(p)
      PROVE  journal'[o].stage = "receipt-published" /\ journal'[o].status = journal[o].status
  <2>1. journal' = [journal EXCEPT ![proc[p].output].stage = "receipt-published"]
    BY <1>4 DEF PublishReceipt
  <2> QED BY <1>1, <2>1
<1>5. ASSUME NEW p \in Processes, RemoveIntent(p)
      PROVE  /\ proc[p].op = "render" /\ o = proc[p].output
             /\ journal'[o].status = journal[o].status
  <2>1. /\ journal' = [journal EXCEPT ![proc[p].output].stage = "approval-transitioned"]
        /\ proc[p].op = "render"
    BY <1>5 DEF RemoveIntent
  <2> QED BY <1>1, <2>1
<1>6. ASSUME NEW p \in Processes, PublishOutput(p) PROVE o = proc[p].output
  BY <1>1, <1>6 DEF PublishOutput
<1>7. ASSUME NEW p \in Processes, Settle(p)
      PROVE  journal'[o].stage = journal[o].stage /\ journal'[o].status # "completed"
  <2>1. PICK status \in {"failed", "cancelled"} :
          journal' = [journal EXCEPT ![proc[p].output].status = status]
    BY <1>7 DEF Settle
  <2> QED BY <1>1, <2>1
<1> QED BY <1>2, <1>3, <1>4, <1>5, <1>6, <1>7, JournalChange

(* Every step keeps the journals behind the truth. *)
LEMMA JournalStep ==
  ASSUME Typed, Shapes, Bounded, Renders, Lineage, TransactionsSound, JournalNeverAhead,
         [Next]_vars
  PROVE  JournalNeverAhead'
<1> SUFFICES ASSUME NEW o \in Outputs
             PROVE  /\ journal'[o].stage \in {"approval-transitioned", "output-published"} =>
                         Activated(o)'
                    /\ journal'[o].status = "completed" => o \in published'
  BY DEF JournalNeverAhead, Activated
<1>1. /\ journal[o].stage \in {"approval-transitioned", "output-published"} => Activated(o)
      /\ journal[o].status = "completed" => o \in published
  BY DEF JournalNeverAhead, Activated
<1>2. published \subseteq published'
  BY PublishedChange DEF ReadReceipt, PublishOutput
<1>3. ASSUME NEW p \in Processes, proc[p].op = "render", proc[p].step \in Committed
      PROVE  Activated(proc[p].output)
  BY <1>3, RenderActivated
<1>4. CASE journal'[o] = journal[o]
  BY <1>1, <1>2, <1>4, ActivatedStays
<1>5. ASSUME NEW p \in Processes, RemoveIntent(p), proc[p].op = "render", o = proc[p].output
      PROVE  Activated(o)'
  <2>1. Activated(o)
    BY <1>3, <1>5 DEF RemoveIntent, At, Committed
  <2> QED BY <2>1, ActivatedStays
<1>6. ASSUME NEW p \in Processes, PublishOutput(p), o = proc[p].output
      PROVE  Activated(o)' /\ o \in published'
  <2>1. Activated(o)
    BY <1>3, <1>6 DEF PublishOutput, At, Committed
  <2> QED BY <1>6, <2>1, ActivatedStays DEF PublishOutput
<1>7. CASE journal'[o] # journal[o]
  BY <1>1, <1>2, <1>5, <1>6, <1>7, ActivatedStays, JournalAdvances
<1> QED BY <1>4, <1>7

-----------------------------------------------------------------------------
(* Every committed transition has an event, or an intent that carries its   *)
(* number, or its output has been raced.                                    *)
Recorded ==
  \A i \in 1..Current : revisions[i].by # 0 =>
    \/ \E e \in events : e.source = i - 1 /\ e.output = revisions[i].output
    \/ \E t \in intents : t.id = revisions[i].by
    \/ revisions[i].output \in raced

(* An intent is removed by its own request or by a reader that resolves it. *)
LEMMA IntentRemoved ==
  ASSUME [Next]_vars, NEW t \in intents, t \notin intents'
  PROVE  \E p \in Processes : \/ CommitRefused(p) /\ t = proc[p].tx
                              \/ RemoveIntent(p) /\ t = proc[p].tx
                              \/ Resolve(p, t)
BY ZenonT(40), IntentsChange DEF WriteIntent, CommitRefused, RemoveIntent, Resolve

(* A race is never forgotten. *)
LEMMA RacedStays ==
  ASSUME [Next]_vars
  PROVE  raced \subseteq raced'
BY RacedChange DEF Commit, RecoverActivation, Resolve

(* An intent that carries the number of a revision is one for the           *)
(* transition that revision records.                                        *)
LEMMA IntentNames ==
  ASSUME Typed, Bounded, TransactionsSound,
         NEW i \in 1..Current, NEW t \in intents, t.id = revisions[i].by
  PROVE  t.source = i - 1 /\ t.output = revisions[i].output
<1>1. Pending(t) /\ t \in Transaction /\ Sound(t)
  BY PendingId DEF Pending, TransactionsSound
<1> QED BY <1>1 DEF Sound, Transaction

(* The intent of a committed transition stays, unless its event has been    *)
(* written or its output has been raced.                                    *)
LEMMA IntentKept ==
  ASSUME Typed, Shapes, Bounded, TransactionsSound, [Next]_vars,
         NEW i \in 1..Current, NEW t \in intents, t.id = revisions[i].by
  PROVE  \/ t \in intents'
         \/ \E e \in events' : e.source = i - 1 /\ e.output = revisions[i].output
         \/ revisions[i].output \in raced'
<1>1. t.source = i - 1 /\ t.output = revisions[i].output
  BY IntentNames
<1>2. ASSUME NEW p \in Processes, CommitRefused(p), t = proc[p].tx PROVE FALSE
  BY <1>2 DEF CommitRefused, At, TransactionsSound, Progressed
<1>3. ASSUME NEW p \in Processes, RemoveIntent(p), t = proc[p].tx
      PROVE  t \in events'
  BY <1>3, EventsStay DEF RemoveIntent, At, TransactionsSound, Progressed
<1>4. ASSUME NEW p \in Processes, Resolve(p, t)
      PROVE  t \in events' \/ t.output \in raced'
  <2>1. Reachable(t, Current)
    BY DEF Reachable
  <2> QED BY <1>4, <2>1 DEF Resolve
<1> QED BY <1>1, <1>2, <1>3, <1>4, IntentRemoved

(* Every step leaves committed transitions recorded: a commit finds its     *)
(* intent or notes a race; an intent is removed after its event, or before  *)
(* a commit that will not happen, or by a reader that has written the event *)
(* or notes a race.                                                         *)
LEMMA RecordedStep ==
  ASSUME Typed, Shapes, Bounded, TransactionsSound, Recorded, [Next]_vars
  PROVE  Recorded'
<1> DEFINE Event(i, r) == \E e \in events' : e.source = i - 1 /\ e.output = r.output
           Intent(r) == \E t \in intents' : t.id = r.by
<1> SUFFICES ASSUME NEW i \in 1..Current', revisions'[i].by # 0
             PROVE  \/ Event(i, revisions'[i]) \/ Intent(revisions'[i])
                    \/ revisions'[i].output \in raced'
  BY DEF Recorded
<1>1. CASE i \in 1..Current
  <2>1. revisions'[i] = revisions[i]
    BY <1>1, CurrentGrows
  <2>2. CASE \E e \in events : e.source = i - 1 /\ e.output = revisions[i].output
    BY <2>1, <2>2, EventsStay
  <2>3. CASE revisions[i].output \in raced
    BY <2>1, <2>3, RacedStays
  <2>4. ASSUME NEW t \in intents, t.id = revisions[i].by
        PROVE  \/ Event(i, revisions[i]) \/ Intent(revisions[i]) \/ revisions[i].output \in raced'
    BY <1>1, <2>4, IntentKept
  <2> QED BY <1>1, <2>1, <2>2, <2>3, <2>4 DEF Recorded
<1>2. CASE i \notin 1..Current
  <2>1. PICK a : Grows(a) /\ (Copies(a) \/ \E p \in Processes : CommitsOf(p, a))
    BY <1>2, RevisionsGrow DEF Current
  <2>2. revisions'[i] = a
    BY <1>2, <2>1, CurrentApproval DEF Grows
  <2>3. PICK p \in Processes : CommitsOf(p, a)
    BY <2>1, <2>2 DEF Copies
  <2>4. a.by = proc[p].tx.id /\ a.output = proc[p].output /\ Commit(p)
    BY <2>3 DEF CommitsOf
  <2>5. intents' = intents /\ (proc[p].tx \in intents \/ proc[p].output \in raced')
    BY <2>4 DEF Commit, files
  <2> QED BY <2>2, <2>4, <2>5
<1> QED BY <1>1, <1>2

-----------------------------------------------------------------------------
(* The inductive invariant. *)
IInv ==
  /\ Typed /\ Shapes /\ Bounded /\ Ranked /\ Renders /\ Lineage
  /\ TransactionsSound /\ EventsTrue /\ JournalNeverAhead /\ Recorded /\ BarriersHaveOwners

(* The invariant holds of a new project. *)
LEMMA InitCorrect == Init => IInv
<1> SUFFICES ASSUME Init PROVE IInv
  OBVIOUS
<1>1. /\ revisions = <<[state |-> "none", output |-> None, by |-> 0]>> /\ Current = 1
      /\ history = [content |-> 1, undo |-> <<>>, redo |-> <<>>]
  BY DEF Init, Current
<1>2. /\ intents = {} /\ events = {} /\ published = {} /\ barriers = {} /\ raced = {}
      /\ rewound = FALSE /\ stranded = {} /\ undoing = 0
      /\ base = [o \in Outputs |-> 0] /\ delivery = [o \in Outputs |-> None]
      /\ checklist = [o \in Outputs |-> "none"]
      /\ journal = [o \in Outputs |-> [stage |-> "none", status |-> "none"]]
      /\ counters = [requests |-> 0, transactions |-> 0, disturbances |-> 0, crashed |-> FALSE]
      /\ proc = [p \in Processes |-> Idle]
  BY DEF Init
<1>3. Typed
  <2>1. revisions \in Seq(Approvals) /\ revisions # <<>>
    BY <1>1 DEF Approvals, States
  <2>2. history \in [content : Nat, undo : Seq(Nat), redo : Seq(Nat)]
    BY <1>1
  <2>3. journal \in [Outputs -> [stage : Stages, status : Statuses]]
    BY <1>2 DEF Stages, Statuses
  <2>4. proc \in [Processes -> RequestRecord]
    BY <1>2, IdleTyped
  <2>5. counters \in [requests : Nat, transactions : Nat, disturbances : Nat, crashed : BOOLEAN]
    BY <1>2
  <2> QED BY <1>2, <2>1, <2>2, <2>3, <2>4, <2>5 DEF Typed
<1>4. ASSUME NEW p \in Processes PROVE proc[p] = Idle
  BY <1>2
<1>5. Shapes
  BY <1>4 DEF Shapes, Shape, Idle, Rendering, Transacting, Committed
<1>6. revisions[1] = [state |-> "none", output |-> None, by |-> 0]
  BY <1>1
<1>7. Bounded
  <2>1. HistoryBounded
    BY <1>1 DEF HistoryBounded, Stack
  <2>2. \A i \in 1..Current : revisions[i].by <= counters.transactions
    BY <1>1, <1>2, <1>6
  <2> QED BY <1>1, <1>2, <1>4, <2>1, <2>2 DEF Bounded, Idle
<1>8. Ranked
  BY <1>2 DEF Ranked, HasLast, EventsOf
<1>9. Renders
  BY <1>2, <1>4 DEF Renders, Idle
<1>10. Lineage
  BY <1>1, <1>6 DEF Lineage
<1>11. \A t : ~Pending(t)
  BY <1>2, <1>4 DEF Pending, Idle
<1>12. TransactionsSound
  BY <1>4, <1>11 DEF TransactionsSound, Progressed, Committed, Idle
<1>13. EventsTrue /\ JournalNeverAhead /\ BarriersHaveOwners
  BY <1>2 DEF EventsTrue, JournalNeverAhead, BarriersHaveOwners
<1>14. Recorded
  BY <1>1, <1>6 DEF Recorded
<1> QED BY <1>3, <1>5, <1>7, <1>8, <1>9, <1>10, <1>12, <1>13, <1>14 DEF IInv

(* The invariant is kept by every step. *)
LEMMA StepCorrect == IInv /\ [Next]_vars => IInv'
<1> SUFFICES ASSUME IInv, [Next]_vars PROVE IInv'
  OBVIOUS
<1>1. /\ Typed /\ Shapes /\ Bounded /\ Ranked /\ Renders /\ Lineage
      /\ TransactionsSound /\ EventsTrue /\ JournalNeverAhead /\ Recorded /\ BarriersHaveOwners
  BY DEF IInv
<1>2. Typed' /\ Shapes' /\ Bounded' /\ Ranked'
  BY <1>1, TypedStep, ShapesStep, BoundedStep, RankedStep
<1>3. Renders' /\ Lineage' /\ BarriersHaveOwners'
  BY <1>1, RendersStep, LineageStep, BarriersStep
<1>4. TransactionsSound' /\ EventsTrue' /\ Recorded'
  BY <1>1, TransactionsSoundStep, EventsTrueStep, RecordedStep
<1>5. JournalNeverAhead'
  BY <1>1, JournalStep
<1> QED BY <1>2, <1>3, <1>4, <1>5 DEF IInv

(* The render lifecycle keeps its inductive invariant, for any outputs,     *)
(* processes and bounds.                                                    *)
THEOREM InvCorrect == Spec => []IInv
BY InitCorrect, StepCorrect, PTL DEF Spec

(* A barrier without a running render is one that a crash left behind, or   *)
(* an error outside the clean-up of its own render: every other end of a    *)
(* render, failed, refused or cancelled, takes the barrier with it          *)
(* (operation barriers of #runRender).                                      *)
THEOREM BarriersOwned == Spec => []BarriersHaveOwners
<1>1. IInv => BarriersHaveOwners
  BY DEF IInv
<1> QED BY <1>1, InvCorrect, PTL

(* A typed request of the right shape is as TypeOK says. *)
LEMMA RequestTyped ==
  ASSUME Typed, Shapes, Bounded, NEW p \in Processes
  PROVE  /\ proc[p].output \in Outputs \cup {None} /\ proc[p].to \in States
         /\ {proc[p].expected, proc[p].seen} \subseteq 0..Current
         /\ (proc[p].tx # None) = (proc[p].step \in {"commit", "event", "tidy"}
                                    \/ proc[p].step = "publish")
         /\ proc[p].tx # None => proc[p].tx.output = proc[p].output
<1>1. proc[p] \in RequestRecord /\ Shape(proc[p])
  BY DEF Typed, Shapes
<1>2. proc[p].expected <= Current /\ proc[p].seen <= Current /\ Current \in Nat
  BY CurrentApproval DEF Bounded
<1>3. /\ proc[p].output \in Outputs \cup {None} /\ proc[p].to \in States
      /\ proc[p].expected \in Nat /\ proc[p].seen \in Nat
  BY <1>1 DEF RequestRecord
<1>4. /\ proc[p].tx # None <=> proc[p].step \in Transacting
      /\ proc[p].tx # None => proc[p].tx.output = proc[p].output
  BY <1>1 DEF Shape
<1>5. (proc[p].tx # None) = (proc[p].step \in {"commit", "event", "tidy"}
                              \/ proc[p].step = "publish")
  BY <1>4 DEF Transacting, Committed
<1>6. {proc[p].expected, proc[p].seen} \subseteq 0..Current
  BY <1>2, <1>3
<1> QED BY <1>3, <1>4, <1>5, <1>6

(* The parts of the invariant imply the type invariant. *)
LEMMA Types ==
  ASSUME Typed, Shapes, Bounded
  PROVE  TypeOK
<1>1. ASSUME NEW i \in 1..Current
      PROVE  revisions[i] \in
               [state : States, output : Outputs \cup {None}, by : 0..counters.transactions]
  <2>1. revisions[i] \in Approvals
    BY DEF Typed, Current
  <2>2. revisions[i].by \in 0..counters.transactions
    BY <2>1 DEF Approvals, Bounded, Typed
  <2> QED BY <2>1, <2>2 DEF Approvals
<1>2. Current \in Nat
  BY CurrentApproval
<1>3. base \in [Outputs -> 0..Current] /\ undoing \in 0..Current
  BY <1>2 DEF Typed, Bounded
<1>4. /\ history.content \in 1..Current
      /\ intents \cup events \subseteq Transaction
      /\ published \subseteq Outputs /\ delivery \in [Outputs -> Nat \cup {None}]
      /\ checklist \in [Outputs -> {"none", "open", "complete"}]
      /\ journal \in [Outputs -> [stage : Stages, status : Statuses]]
      /\ barriers \subseteq Outputs /\ raced \cup stranded \subseteq Outputs /\ rewound \in BOOLEAN
  BY DEF Typed, Bounded, HistoryBounded
<1> QED BY <1>1, <1>3, <1>4, RequestTyped DEF TypeOK

(* True events are events of committed revisions. *)
LEMMA EventsCommitted ==
  ASSUME Typed, EventsTrue
  PROVE  EventsAreCommitted
<1> SUFFICES ASSUME NEW e \in events
             PROVE  /\ e.source < Current /\ revisions[e.source + 1].by # 0
                    /\ e.id \in {0, revisions[e.source + 1].by}
                    /\ revisions[e.source].state = e.from
                    /\ revisions[e.source + 1].state = e.to
                    /\ revisions[e.source + 1].output = e.output
  BY DEF EventsAreCommitted
<1>1. True(e)
  BY DEF EventsTrue
<1>2. e.source < Current
  BY <1>1, CurrentApproval DEF True
<1> QED BY <1>1, <1>2 DEF True

(* Authority, events and journal agree: no event file without its revision, *)
(* and no journal ahead of what it speaks of, through any interleaving of   *)
(* requests, recoveries, undos, failures and crashes.                       *)
THEOREM RecordsInAgreement == Spec => []RecordsAgree
<1>1. IInv => RecordsAgree
  BY Types, EventsCommitted DEF IInv, RecordsAgree
<1> QED BY <1>1, InvCorrect, PTL

(* An intent that carries the number of a revision is one for its output    *)
(* and its source.                                                          *)
LEMMA CommitsAreRecorded ==
  ASSUME Typed, Bounded, TransactionsSound, Recorded
  PROVE  CommitIsRecorded
<1> SUFFICES ASSUME NEW i \in 2..Current, revisions[i].by # 0
             PROVE  \/ \E t \in events \cup intents :
                         t.source = i - 1 /\ t.output = revisions[i].output
                    \/ \E p \in Processes : At(p, "event") /\ proc[p].tx.id = revisions[i].by
                    \/ revisions[i].output \in raced
  BY DEF CommitIsRecorded
<1>1. i \in 1..Current /\ Current \in Nat
  BY CurrentApproval
<1>2. ASSUME NEW t \in intents, t.id = revisions[i].by
      PROVE  t.source = i - 1 /\ t.output = revisions[i].output
  BY <1>1, <1>2, IntentNames
<1> QED BY <1>1, <1>2 DEF Recorded

(* No committed transition loses its record: it has its event, an intent    *)
(* from which a reader will write it, or a live writer, unless a reader     *)
(* that had looked at authority before the commit discarded the intent.     *)
THEOREM CommitsRecorded == Spec => []CommitIsRecorded
<1>1. IInv => CommitIsRecorded
  BY CommitsAreRecorded DEF IInv
<1> QED BY <1>1, InvCorrect, PTL

-----------------------------------------------------------------------------
(* What a request aims at: only a render activates an output, only a        *)
(* delivery delivers, and QA alone evaluates.                               *)
Aims(r) ==
  /\ r.step \in Transacting => r.goal = "transition"
  /\ r.step = "evaluate" => r.op = "qa"
  /\ r.goal = "transition" /\ r.op # "render" => r.to # "rendered_unchecked"
  /\ r.goal = "transition" /\ r.op = "deliver" => r.to = "delivered"

Aimed == \A p \in Processes : Aims(proc[p])

(* Every step keeps the aims of the requests. *)
LEMMA AimedStep ==
  ASSUME Typed, Shapes, Aimed, [Next]_vars
  PROVE  Aimed'
<1> SUFFICES ASSUME NEW p \in Processes PROVE Aims(proc'[p])
  BY DEF Aimed
<1>1. Aims(proc[p]) /\ Shape(proc[p])
  BY DEF Aimed, Shapes
<1>2. CASE proc'[p] = proc[p]
  BY <1>1, <1>2
<1>3. Aims(Idle)
  BY DEF Aims, Idle, Transacting, Committed
<1>4. ASSUME Ends(p) PROVE Aims(proc'[p])
  BY <1>3, <1>4, EndsBecomes DEF Becomes
<1>5. ASSUME NEW op \in Requested, NEW o \in Outputs, StartRequest(p, op, o)
      PROVE  Aims(proc'[p])
  <2>1. op \in Ops
    BY DEF Requested, Ops
  <2>2. PICK r : r = proc'[p] /\ r.step = "scan" /\ r.goal \in {"receipt", "output"}
    BY <1>5, <2>1, StartRequestBecomes DEF Becomes
  <2>3. Aims(r)
    BY <2>2 DEF Aims, Transacting, Committed
  <2> QED BY <2>2, <2>3
<1>6. ASSUME NEW o \in Outputs, StartRender(p, o) PROVE Aims(proc'[p])
  <2>1. PICK r : r = proc'[p] /\ r.op = "render" /\ r.step = "begin"
    BY <1>6, StartRenderBecomes DEF Becomes
  <2>2. Aims(r)
    BY <2>1 DEF Aims, Transacting, Committed
  <2> QED BY <2>1, <2>2
<1>7. ASSUME NEW to \in Steps, Advances(p, to), to # "evaluate", proc[p].step # "evaluate",
             to \in Transacting => proc[p].step \in Transacting
      PROVE  Aims(proc'[p])
  <2>1. PICK r : r = proc'[p] /\ r.step = to /\ SameButStep(proc[p], r)
    BY <1>7 DEF Advances, Becomes
  <2>2. Aims(r)
    BY <1>1, <1>7, <2>1 DEF Aims, SameButStep, SameRequest
  <2> QED BY <2>1, <2>2
<1>8. ASSUME NEW r, r = proc'[p], SameRequest(proc[p], r), r.step = "scan", r.goal = "receipt"
      PROVE  Aims(proc'[p])
  BY <1>8 DEF Aims, Transacting, Committed
<1>9. CASE BeginRender(p) \/ StartOperation(p)
  BY <1>7, <1>9, BeginRenderBecomes, StartOperationBecomes
     DEF BeginRender, StartOperation, At, Steps, Rendering, Transacting, Committed
<1>18. CASE Winds(p)
  <2>1. PICK r : r = proc'[p] /\ r.step \in {"settle", "lower"} /\ r.op = "render"
    BY <1>18, WindsBecomes DEF Becomes
  <2>2. Aims(r)
    BY <2>1 DEF Aims, Transacting, Committed
  <2> QED BY <2>1, <2>2
<1>10. CASE PublishReceipt(p)
  <2>1. PICK r : r = proc'[p] /\ SameRequest(proc[p], r) /\ r.step = "scan"
    BY <1>10, PublishReceiptBecomes DEF Becomes
  <2>2. proc[p].op = "render"
    BY <1>10, PublishedBase
  <2>3. Aims(r)
    BY <2>1, <2>2 DEF Aims, SameRequest, Transacting, Committed
  <2> QED BY <2>1, <2>3
<1>11. ASSUME Scan(p) \/ \E t \in intents : Resolve(p, t) PROVE Aims(proc'[p])
  <2>1. ASSUME NEW r, SameRequest(proc[p], r), r.step = "resolve",
               r.goal = proc[p].goal, r.to = proc[p].to
        PROVE  Aims(r)
    BY <1>1, <2>1 DEF Aims, SameRequest, Transacting, Committed
  <2>2. CASE Scan(p)
    BY <2>1, <2>2, ScanBecomes DEF Becomes
  <2>3. ASSUME NEW t, Resolve(p, t) PROVE Aims(proc'[p])
    <3>1. PICK r : /\ Becomes(p, r) /\ SameRequest(proc[p], r) /\ r.step = proc[p].step
                   /\ r.goal = proc[p].goal /\ r.to = proc[p].to
      BY <2>3, ResolveBecomes
    <3>2. r.step = "resolve" /\ proc'[p] = r
      BY <2>3, <3>1 DEF Becomes, Resolve, At
    <3> QED BY <2>1, <3>1, <3>2
  <2> QED BY <1>11, <2>2, <2>3
<1>12. CASE FindEvents(p)
  BY <1>7, <1>8, <1>12, FindEventsBecomes
     DEF Becomes, FindEvents, Resolved, At, Steps, Preparing, Transacting, Committed
<1>13. CASE RecoverActivation(p)
  BY <1>4, <1>8, <1>13, RecoverActivationBecomes DEF Becomes
<1>14. CASE ReadReceipt(p)
  <2>1. ASSUME NEW r, r = proc'[p], SameRequest(proc[p], r), proc[p].op \in Ops,
               r.step = IF proc[p].op = "qa" THEN "evaluate" ELSE "scan",
               r.to = IF proc[p].op = "approve" THEN "approved" ELSE "delivered"
        PROVE  Aims(r)
    BY <2>1 DEF Aims, SameRequest, Transacting, Committed
  <2>2. proc[p].op \in Ops
    BY DEF Typed, RequestRecord
  <2> QED BY <1>4, <1>14, <2>1, <2>2, ReadReceiptBecomes DEF Becomes
<1>15. CASE Evaluate(p)
  <2>1. PICK r : r = proc'[p] /\ SameRequest(proc[p], r) /\ r.step = "scan" /\ r.to \in Verdict
    BY <1>15, EvaluateBecomes DEF Becomes
  <2>2. proc[p].op = "qa"
    BY <1>1, <1>15 DEF Evaluate, At, Aims
  <2>3. Aims(r)
    BY <2>1, <2>2 DEF Aims, SameRequest, Verdict, Transacting, Committed
  <2> QED BY <2>1, <2>3
<1>16. CASE WriteIntent(p)
  <2>1. proc[p].output \in Outputs /\ proc[p].goal = "transition"
    BY <1>1, <1>16 DEF WriteIntent, Resolved, At, Shape
  <2>2. PICK r : /\ r = proc'[p] /\ r.step = "commit" /\ r.op = proc[p].op
                 /\ r.goal = proc[p].goal /\ r.to = proc[p].to
    BY <1>16, <2>1, WriteIntentBecomes DEF Becomes
  <2>3. Aims(r)
    BY <1>1, <2>1, <2>2 DEF Aims, Transacting, Committed
  <2> QED BY <2>2, <2>3
<1>17. CASE Commit(p) \/ WriteEvent(p) \/ RemoveIntent(p)
  BY <1>4, <1>7, <1>17, CommitBecomes, WriteEventBecomes, RemoveIntentBecomes
     DEF Commit, WriteEvent, RemoveIntent, At, Steps, Transacting, Committed
<1> QED
  BY <1>2, <1>3, <1>5, <1>6, <1>9, <1>10, <1>11, <1>12, <1>13, <1>14, <1>15, <1>16, <1>17,
     <1>18, ProcChange DEF Moves


-----------------------------------------------------------------------------
(* Every committed transition follows its predecessor in authority by the   *)
(* rules of the lifecycle, and an output is activated once, right after the *)
(* revision it was rendered from.                                           *)
Ordered ==
  /\ \A i \in 1..Current : revisions[i].by # 0 => revisions[i].output \in Outputs
  /\ \A i \in 2..Current : revisions[i].by # 0 =>
       TransitionAllowed(revisions[i - 1], revisions[i].state, revisions[i].output)
  /\ \A i \in 1..Current : revisions[i].by # 0 /\ revisions[i].state = "rendered_unchecked" =>
       i = base[revisions[i].output] + 1

(* A new entry that names a transaction is that of a process that commits. *)
LEMMA CommitGrows ==
  ASSUME Typed, Shapes, Bounded, [Next]_vars,
         NEW i \in 1..Current', i \notin 1..Current, revisions'[i].by # 0
  PROVE  /\ i = Current + 1
         /\ \E p \in Processes : /\ Commit(p) /\ revisions'[i].state = proc[p].to
                                 /\ revisions'[i].output = proc[p].output
<1>1. PICK a : Grows(a) /\ (Copies(a) \/ \E p \in Processes : CommitsOf(p, a))
  BY RevisionsGrow DEF Current
<1>2. i = Current + 1 /\ revisions'[i] = a
  BY <1>1, CurrentApproval DEF Grows
<1> QED BY <1>1, <1>2 DEF Copies, CommitsOf

(* An activation is committed on the revision the render was requested for. *)
LEMMA ActivationBase ==
  ASSUME Typed, Shapes, Renders, Aimed, NEW p \in Processes, Commit(p),
         proc[p].to = "rendered_unchecked"
  PROVE  base[proc[p].output] = Current
<1>1. proc[p].step = "commit" /\ proc[p].expected = Current
  BY DEF Commit, At
<1>2. proc[p].op = "render"
  BY <1>1 DEF Aimed, Aims, Transacting
<1> QED BY <1>1, <1>2 DEF Renders, Rendering

(* Every step keeps the transitions ordered. *)
LEMMA OrderedStep ==
  ASSUME Typed, Shapes, Bounded, Renders, Lineage, Aimed, Ordered, [Next]_vars
  PROVE  Ordered'
<1>1. Current \in Nat /\ Current >= 1 /\ \A i \in 1..Current : revisions'[i] = revisions[i]
  BY CurrentApproval, CurrentGrows
<1>2. ASSUME NEW i \in 2..Current', revisions'[i].by # 0
      PROVE  TransitionAllowed(revisions'[i - 1], revisions'[i].state, revisions'[i].output)
  <2>1. CASE i \in 1..Current
    <3>1. i \in 2..Current /\ i - 1 \in 1..Current
      BY <1>1, <2>1
    <3> QED BY <1>1, <1>2, <2>1, <3>1 DEF Ordered
  <2>2. CASE i \notin 1..Current
    <3>1. i \in 1..Current'
      OBVIOUS
    <3>2. i = Current + 1
      BY <1>2, <2>2, <3>1, CommitGrows
    <3>3. PICK p \in Processes : /\ Commit(p) /\ revisions'[i].state = proc[p].to
                                 /\ revisions'[i].output = proc[p].output
      BY <1>2, <2>2, <3>1, CommitGrows
    <3>4. i - 1 = Current /\ Current \in 1..Current
      BY <1>1, <3>2
    <3>5. revisions'[i - 1] = Approval
      BY <1>1, <3>4 DEF Approval
    <3> QED BY <3>3, <3>5 DEF Commit
  <2> QED BY <2>1, <2>2
<1>3. ASSUME NEW i \in 1..Current', revisions'[i].by # 0,
             revisions'[i].state = "rendered_unchecked"
      PROVE  i = base'[revisions'[i].output] + 1
  <2>1. CASE i \in 1..Current
    <3>1. revisions'[i] = revisions[i] /\ revisions[i] \in Approvals
      BY <1>1, <2>1 DEF Typed, Current
    <3>2. i = base[revisions[i].output] + 1
      BY <1>3, <2>1, <3>1 DEF Ordered
    <3>3. revisions[i].output \in Outputs
      BY <1>3, <2>1, <3>1 DEF Ordered
    <3>4. base[revisions[i].output] # 0
      BY <2>1, <3>3, LifecycleAssumption DEF Lineage
    <3> QED BY <3>1, <3>2, <3>3, <3>4, BaseFixed
  <2>2. CASE i \notin 1..Current
    <3>1. i = Current + 1
      BY <1>3, <2>2, CommitGrows
    <3>2. PICK p \in Processes : /\ Commit(p) /\ revisions'[i].state = proc[p].to
                                 /\ revisions'[i].output = proc[p].output
      BY <1>3, <2>2, CommitGrows
    <3>3. base[proc[p].output] = Current /\ proc[p].output \in Outputs
      BY <1>3, <3>2, ActivationBase, Committing
    <3> QED BY <1>1, <3>1, <3>2, <3>3, BaseFixed
  <2> QED BY <2>1, <2>2
<1>4. ASSUME NEW i \in 1..Current', revisions'[i].by # 0 PROVE revisions'[i].output \in Outputs
  <2>1. CASE i \in 1..Current
    BY <1>1, <1>4, <2>1 DEF Ordered
  <2>2. CASE i \notin 1..Current
    BY <1>4, <2>2, CommitGrows, Committing
  <2> QED BY <2>1, <2>2
<1> QED BY <1>2, <1>3, <1>4 DEF Ordered


-----------------------------------------------------------------------------
(* From entry i to entry j of the ancestry: an output that is the approved  *)
(* one at j has been so since its activation; without a transition in       *)
(* between the state is the same; and a delivered output stays so, with no  *)
(* further transition.                                                      *)
Held(i, j) ==
  /\ revisions[j].output # None /\ i > base[revisions[j].output] =>
       revisions[i].output = revisions[j].output
  /\ (\A k \in 1..j : i < k => revisions[k].by = 0) => revisions[i].state = revisions[j].state
  /\ revisions[i].output = revisions[j].output /\ revisions[i].state = "delivered" =>
       revisions[j].state = "delivered" /\ (i < j => revisions[j].by = 0)

(* While no undo or redo has changed the approval state, it changes by      *)
(* transitions only.                                                        *)
Steady == ~rewound => \A i, j \in 1..Current : i <= j => Held(i, j)

(* Entry a repeats the current approval state. *)
Repeats(a) == a.by = 0 /\ a.state = Approval.state /\ a.output = Approval.output

(* A copy of an entry that equals the current one repeats it. *)
LEMMA Repeating ==
  ASSUME Typed, NEW k \in 1..Current, Grow([revisions[k] EXCEPT !.by = 0]),
         revisions[k].state = Approval.state, revisions[k].output = Approval.output
  PROVE  \E a : Grows(a) /\ Repeats(a)
<1> DEFINE a == [revisions[k] EXCEPT !.by = 0]
<1>1. revisions[k] \in Approvals
  BY DEF Typed, Current
<1>2. a \in Approvals /\ a.by = 0 /\ a.state = revisions[k].state /\ a.output = revisions[k].output
  BY <1>1 DEF Approvals
<1>3. Grow(a)
  OBVIOUS
<1> HIDE DEF a
<1>4. Grows(a) /\ Repeats(a)
  BY <1>2, <1>3, GrowGrows DEF Repeats
<1> QED BY <1>4

(* Unless it rewinds, a step of authority repeats the current approval      *)
(* state or is a commit (Edit, Undo, Redo, Commit).                         *)
LEMMA StaysPut ==
  ASSUME Typed, Shapes, Bounded, [Next]_vars, ~rewound'
  PROVE  /\ ~rewound
         /\ \/ revisions' = revisions
            \/ \E a : Grows(a) /\ (Repeats(a) \/ \E p \in Processes : CommitsOf(p, a))
<1>1. /\ Current \in Nat /\ Current >= 1 /\ HistoryBounded
      /\ history \in [content : Nat, undo : Seq(Nat), redo : Seq(Nat)]
  BY CurrentApproval DEF Bounded, Typed
<1>2. ~rewound
  BY RewoundChange DEF Typed, Undo, Redo, Restore
<1>3. CASE Edit
  <2>1. Grow([revisions[Current] EXCEPT !.by = 0])
    BY <1>3 DEF Edit, Approval
  <2>2. Current \in 1..Current
    BY <1>1
  <2> QED BY <1>2, <2>1, <2>2, Repeating DEF Approval
<1>4. ASSUME NEW k \in 1..Current, NEW h, Restore(k, h) 
      PROVE  \E a : Grows(a) /\ Repeats(a)
  <2>1. /\ Grow([revisions[k] EXCEPT !.by = 0])
        /\ revisions[k].state = Approval.state /\ revisions[k].output = Approval.output
    BY <1>4 DEF Restore, Typed
  <2> QED BY <2>1, Repeating
<1>5. CASE Undo
  <2>1. Last(history.undo) \in 1..Current
    BY <1>1, <1>5, StackPopped DEF Undo, HistoryBounded
  <2> QED BY <1>2, <1>4, <1>5, <2>1 DEF Undo
<1>6. CASE Redo
  <2>1. Last(history.redo) \in 1..Current
    BY <1>1, <1>6, StackPopped DEF Redo, HistoryBounded
  <2> QED BY <1>2, <1>4, <1>6, <2>1 DEF Redo
<1>7. ASSUME NEW p \in Processes, Commit(p)
      PROVE  \E a : Grows(a) /\ \E q \in Processes : CommitsOf(q, a)
  <2>1. Current' # Current
    <3>1. \E a : Grow(a)
      BY <1>7 DEF Commit
    <3> QED BY <1>1, <3>1 DEF Grow, Current, Typed
  <2>2. PICK a : Grows(a) /\ (Copies(a) \/ \E q \in Processes : CommitsOf(q, a))
    BY <2>1, RevisionsGrow DEF Current
  <2>3. CASE Copies(a)
    <3>1. revisions'[Current + 1].by = 0
      BY <2>2, <2>3 DEF Grows, Copies
    <3>2. revisions'[Current + 1].by = proc[p].tx.id
      BY <1>1, <1>7 DEF Commit, Grow, Current, Typed
    <3> QED BY <1>7, <3>1, <3>2, Committing
  <2> QED BY <2>2, <2>3
<1> QED BY <1>2, <1>3, <1>5, <1>6, <1>7, RevisionsChange

(* What the rules say of the state a transition follows: an activation      *)
(* follows another output, and nothing follows a delivery.                  *)
LEMMA AllowedAfter ==
  ASSUME NEW approval, NEW to, NEW o, TransitionAllowed(approval, to, o)
  PROVE  \/ approval.output # o /\ to = "rendered_unchecked"
         \/ approval.output = o /\ approval.state # "delivered"
BY DEF TransitionAllowed

(* Every step keeps the approval state steady. *)
LEMMA SteadyStep ==
  ASSUME Typed, Shapes, Bounded, Renders, Lineage, Aimed, Steady, [Next]_vars
  PROVE  Steady'
<1> SUFFICES ASSUME ~rewound', NEW i \in 1..Current', NEW j \in 1..Current', i <= j
             PROVE  Held(i, j)'
  BY DEF Steady
<1>1. Current \in Nat /\ Current >= 1 /\ \A k \in 1..Current : revisions'[k] = revisions[k]
  BY CurrentApproval, CurrentGrows
<1>2. \A k, l \in 1..Current : k <= l => Held(k, l)
  BY StaysPut DEF Steady
<1>3. ASSUME NEW k \in 1..Current, revisions[k].output # None
      PROVE  base'[revisions[k].output] = base[revisions[k].output]
  <2>1. revisions[k].output \in Outputs
    <3>1. revisions[k] \in Approvals
      BY DEF Typed, Current
    <3> QED BY <1>3, <3>1 DEF Approvals
  <2> QED BY <1>3, <2>1, BaseFixed DEF Lineage
<1>4. CASE j \in 1..Current
  <2>1. i \in 1..Current /\ \A k \in 1..j : k \in 1..Current
    BY <1>1, <1>4
  <2>2. revisions'[i] = revisions[i] /\ \A k \in 1..j : revisions'[k] = revisions[k]
    BY <1>1, <2>1
  <2>3. revisions'[j] = revisions[j]
    BY <1>1, <1>4
  <2>4. Held(i, j)
    BY <1>2, <1>4, <2>1
  <2> QED BY <1>3, <1>4, <2>2, <2>3, <2>4 DEF Held
<1>5. CASE i = j
  BY <1>5, <1>1 DEF Held
<1>6. CASE j \notin 1..Current /\ i # j
  <2>1. PICK a : Grows(a) /\ (Repeats(a) \/ \E p \in Processes : CommitsOf(p, a))
    BY <1>6, StaysPut DEF Current
  <2>2. /\ j = Current + 1 /\ revisions'[j] = a /\ i \in 1..Current
        /\ Current \in 1..Current /\ i <= Current /\ i < j
    BY <1>1, <1>6, <2>1 DEF Grows
  <2>3. revisions'[i] = revisions[i] /\ Held(i, Current) /\ Approval = revisions[Current]
    BY <1>1, <1>2, <2>2 DEF Approval
  <2>4. CASE Repeats(a)
    <3>1. a.state = revisions[Current].state /\ a.output = revisions[Current].output /\ a.by = 0
      BY <2>3, <2>4 DEF Repeats
    <3>2. ASSUME \A k \in 1..j : i < k => revisions'[k].by = 0
          PROVE  revisions[i].state = a.state
      <4>1. ASSUME NEW k \in 1..Current, i < k PROVE revisions[k].by = 0
        BY <1>1, <2>2, <3>2, <4>1
      <4> QED BY <2>3, <3>1, <4>1 DEF Held
    <3>3. a.output # None => base'[a.output] = base[a.output]
      BY <1>3, <2>2, <3>1
    <3> QED BY <2>2, <2>3, <3>1, <3>2, <3>3 DEF Held
  <2>5. ASSUME NEW p \in Processes, CommitsOf(p, a) PROVE Held(i, j)'
    <3>1. /\ Commit(p) /\ a.state = proc[p].to /\ a.output = proc[p].output /\ a.by # 0
          /\ a.output \in Outputs /\ base[a.output] # 0
      BY <2>5, Committing DEF CommitsOf
    <3>2. base'[a.output] = base[a.output] /\ a.output # None
      BY <3>1, BaseFixed, LifecycleAssumption
    <3>3. TransitionAllowed(revisions[Current], a.state, a.output)
      BY <2>3, <3>1 DEF Commit
    <3>4. ~ \A k \in 1..j : i < k => revisions'[k].by = 0
      BY <2>2, <3>1
    <3>5. CASE revisions[Current].output = a.output /\ revisions[Current].state # "delivered"
      BY <2>2, <2>3, <3>2, <3>4, <3>5 DEF Held
    <3>6. CASE revisions[Current].output # a.output /\ a.state = "rendered_unchecked"
      <4>1. base[a.output] = Current
        BY <3>1, <3>6, ActivationBase
      <4>2. ~(i > base[a.output])
        BY <1>1, <2>2, <4>1
      <4>3. revisions[i].output # a.output
        BY <2>2, <3>2, <4>2 DEF Lineage
      <4> QED BY <2>2, <2>3, <3>2, <3>4, <4>2, <4>3 DEF Held
    <3> QED BY <3>3, <3>5, <3>6, AllowedAfter
  <2> QED BY <2>1, <2>4, <2>5
<1> QED BY <1>4, <1>5, <1>6


-----------------------------------------------------------------------------
(* Entry i is a transition of output o, and an event records it. *)
Commits(i, o) == revisions[i].by # 0 /\ revisions[i].output = o
Witnessed(i, o) == \E e \in events : e.source = i - 1 /\ e.output = o

(* A process that is recovering the intents of its output has seen what it  *)
(* expects; every transition of the output that it has seen has an event,   *)
(* is still among the intents it is to resolve, or the output has been      *)
(* raced.                                                                   *)
Sweeps(p) ==
  proc[p].step = "resolve" =>
    /\ proc[p].goal = "transition" => proc[p].expected <= proc[p].seen
    /\ \A i \in 1..proc[p].seen : Commits(i, proc[p].output) =>
         \/ Witnessed(i, proc[p].output)
         \/ \E t \in proc[p].todo \cap intents : t.id = revisions[i].by
         \/ proc[p].output \in raced

(* A process that is about to commit a transition has the earlier ones of   *)
(* its output recorded as events.                                           *)
Prepared(p) ==
  proc[p].step = "commit" =>
    \A i \in 1..proc[p].expected : Commits(i, proc[p].output) =>
      Witnessed(i, proc[p].output) \/ proc[p].output \in raced

(* Recovery before a transition leaves no gap behind. *)
Swept == \A p \in Processes : Sweeps(p) /\ Prepared(p)

(* Only the last transition of an output may still lack its event. *)
Complete ==
  \A i, j \in 1..Current :
    /\ revisions[i].by # 0 /\ revisions[j].by # 0 /\ i < j
    /\ revisions[i].output = revisions[j].output
    => Witnessed(i, revisions[i].output) \/ revisions[i].output \in raced

(* How a process comes to be recovering intents: by a scan. *)
LEMMA Resolving ==
  ASSUME Typed, Shapes, [Next]_vars, NEW p \in Processes, proc'[p].step = "resolve"
  PROVE  proc'[p] = proc[p] \/ Scan(p) \/ \E t \in intents : Resolve(p, t)
<1>1. proc'[p] # Idle
  BY DEF Idle
<1>2. CASE \E op \in Requested, o \in Outputs : StartRequest(p, op, o)
  BY <1>2, StartRequestBecomes DEF Becomes, Requested, Ops
<1>3. CASE \E o \in Outputs : StartRender(p, o)
  BY <1>3, StartRenderBecomes DEF Becomes
<1>4. CASE BeginRender(p) \/ StartOperation(p) \/ Commit(p) \/ WriteEvent(p) \/ RemoveIntent(p)
  BY <1>1, <1>4, EndsBecomes, BeginRenderBecomes, StartOperationBecomes, CommitBecomes,
     WriteEventBecomes, RemoveIntentBecomes DEF Advances, Becomes
<1>9. CASE Winds(p)
  BY <1>9, WindsBecomes DEF Becomes
<1>5. CASE PublishReceipt(p) \/ Evaluate(p)
  BY <1>5, PublishReceiptBecomes, EvaluateBecomes DEF Becomes
<1>6. CASE FindEvents(p) \/ RecoverActivation(p)
  BY <1>1, <1>6, EndsBecomes, FindEventsBecomes, RecoverActivationBecomes DEF Advances, Becomes
<1>7. CASE ReadReceipt(p)
  BY <1>1, <1>7, EndsBecomes, ReadReceiptBecomes DEF Becomes
<1>8. CASE WriteIntent(p)
  <2>1. proc[p].output \in Outputs
    BY <1>8 DEF WriteIntent, Resolved, At, Shapes, Shape
  <2> QED BY <1>8, <2>1, WriteIntentBecomes DEF Becomes
<1> QED BY <1>1, <1>2, <1>3, <1>4, <1>5, <1>6, <1>7, <1>8, <1>9, ProcChange DEF Moves

(* What an event records stays recorded. *)
LEMMA WitnessStays ==
  ASSUME Typed, Shapes, Bounded, [Next]_vars, NEW i, NEW o, Witnessed(i, o)
  PROVE  Witnessed(i, o)'
BY EventsStay DEF Witnessed

(* Every step of anyone leaves a recovery with what it has seen resolved or *)
(* still to be resolved (Scan, Resolve).                                    *)
LEMMA SweepsStep ==
  ASSUME Typed, Shapes, Bounded, TransactionsSound, Recorded, Swept, [Next]_vars,
         NEW p \in Processes
  PROVE  Sweeps(p)'
<1> SUFFICES ASSUME proc'[p].step = "resolve" PROVE Sweeps(p)'
  BY DEF Sweeps
<1>0. PICK o : o = proc[p].output
  OBVIOUS
<1>1. /\ Current \in Nat /\ Current >= 1 /\ \A i \in 1..Current : revisions'[i] = revisions[i]
      /\ proc[p].seen \in Nat /\ proc[p].seen <= Current /\ proc[p].expected <= Current
  BY CurrentApproval, CurrentGrows DEF Typed, RequestRecord, Bounded
<1>2. CASE proc'[p] = proc[p]
  <2>1. Sweeps(p) /\ proc[p].step = "resolve"
    BY <1>2 DEF Swept
  <2>2. ASSUME NEW i \in 1..proc[p].seen, revisions[i].by # 0,
               revisions[i].output = o
        PROVE  \/ Witnessed(i, o)'
               \/ \E t \in proc[p].todo \cap intents' : t.id = revisions[i].by
               \/ o \in raced'
    <3>1. i \in 1..Current
      BY <1>1
    <3>2. ASSUME NEW t \in proc[p].todo \cap intents, t.id = revisions[i].by
          PROVE  \/ t \in intents' \/ Witnessed(i, o)' \/ o \in raced'
      BY <2>2, <3>1, <3>2, IntentKept DEF Witnessed
    <3> QED BY <2>1, <2>2, <3>2, <1>0, WitnessStays, RacedStays DEF Sweeps, Commits
  <2>3. \A i \in 1..proc[p].seen : revisions'[i] = revisions[i]
    BY <1>1
  <2> QED BY <1>2, <2>1, <2>2, <2>3, <1>0 DEF Sweeps, Commits
<1>3. CASE Scan(p)
  <2>1. PICK r : /\ Becomes(p, r) /\ SameRequest(proc[p], r) /\ r.seen = Current
                 /\ r.todo = IntentsOf(o) /\ r.expected = proc[p].expected
    BY <1>0, <1>3, ScanBecomes
  <2>2. /\ proc'[p].seen = Current /\ proc'[p].todo = IntentsOf(o)
        /\ proc'[p].expected = proc[p].expected /\ proc'[p].output = o
    BY <1>0, <2>1 DEF Becomes, SameRequest
  <2>3. revisions' = revisions /\ events' = events /\ intents' = intents /\ raced' = raced
    BY <1>3 DEF Scan, authority, files, observed
  <2>4. ASSUME NEW i \in 1..Current, revisions[i].by # 0, revisions[i].output = o
        PROVE  \/ Witnessed(i, o)
               \/ \E t \in IntentsOf(o) \cap intents : t.id = revisions[i].by
               \/ o \in raced
    <3>1. ASSUME NEW t \in intents, t.id = revisions[i].by PROVE t.output = o
      BY <2>4, <3>1, IntentNames
    <3> QED BY <2>4, <3>1 DEF Recorded, Witnessed, IntentsOf
  <2> QED BY <1>0, <1>1, <2>2, <2>3, <2>4 DEF Sweeps, Commits, Witnessed
<1>4. ASSUME NEW u \in intents, Resolve(p, u) PROVE Sweeps(p)'
  <2>1. PICK r : /\ Becomes(p, r) /\ SameRequest(proc[p], r) /\ r.seen = proc[p].seen
                 /\ r.todo = proc[p].todo \ {u} /\ r.expected = proc[p].expected
                 /\ r.goal = proc[p].goal
    BY <1>0, <1>4, ResolveBecomes
  <2>2. /\ proc'[p].seen = proc[p].seen /\ proc'[p].todo = proc[p].todo \ {u}
        /\ proc'[p].expected = proc[p].expected /\ proc'[p].output = o
        /\ proc'[p].goal = proc[p].goal
    BY <1>0, <2>1 DEF Becomes, SameRequest
  <2>3. /\ proc[p].step = "resolve" /\ revisions' = revisions /\ intents' = intents \ {u}
        /\ Reachable(u, proc[p].seen) => u \in events'
        /\ Sweeps(p)
    BY <1>4 DEF Resolve, At, authority, Swept
  <2>4. ASSUME NEW i \in 1..proc[p].seen, revisions[i].by # 0,
               revisions[i].output = o
        PROVE  \/ Witnessed(i, o)'
               \/ \E t \in (proc[p].todo \ {u}) \cap intents' : t.id = revisions[i].by
               \/ o \in raced'
    <3>1. i \in 1..Current
      BY <1>1
    <3>2. ASSUME u.id = revisions[i].by PROVE Witnessed(i, o)'
      <4>1. u.source = i - 1 /\ u.output = o
        BY <2>4, <3>1, <3>2, IntentNames
      <4>2. u \in events'
        BY <2>3, <3>2 DEF Reachable
      <4> QED BY <4>1, <4>2 DEF Witnessed
    <3> QED BY <2>3, <2>4, <3>2, <1>0, WitnessStays, RacedStays DEF Sweeps, Commits
  <2> QED BY <1>0, <2>2, <2>3, <2>4 DEF Sweeps, Commits
<1> QED BY <1>2, <1>3, <1>4, Resolving

(* An intent is written only after the recovery of the earlier ones         *)
(* (WriteIntent).                                                           *)
LEMMA PreparedStep ==
  ASSUME Typed, Shapes, Bounded, Swept, [Next]_vars, NEW p \in Processes
  PROVE  Prepared(p)'
<1> SUFFICES ASSUME proc'[p].step = "commit" PROVE Prepared(p)'
  BY DEF Prepared
<1>1. /\ Current \in Nat /\ \A i \in 1..Current : revisions'[i] = revisions[i]
      /\ proc[p].seen \in Nat /\ proc[p].seen <= Current
      /\ proc[p].expected \in Nat /\ proc[p].expected <= Current
  BY CurrentApproval, CurrentGrows DEF Typed, RequestRecord, Bounded
<1>2. \A i \in 1..proc[p].expected : revisions'[i] = revisions[i]
  BY <1>1
<1>3. CASE proc'[p] = proc[p]
  <2>1. Prepared(p)
    BY DEF Swept
  <2> QED BY <1>2, <1>3, <2>1, WitnessStays, RacedStays DEF Prepared, Commits
<1>4. CASE Intends(p, proc'[p])
  <2>1. /\ proc[p].step = "resolve" /\ proc[p].todo = {} /\ proc[p].goal = "transition"
        /\ proc'[p].output = proc[p].output /\ proc'[p].expected = proc[p].expected
    BY <1>4 DEF Intends, WriteIntent, Resolved, At
  <2>2. Sweeps(p)
    BY DEF Swept
  <2>3. \A i \in 1..proc[p].expected : i \in 1..proc[p].seen
    BY <1>1, <2>1, <2>2 DEF Sweeps
  <2>4. \A i \in 1..proc[p].expected : Commits(i, proc[p].output) =>
          Witnessed(i, proc[p].output) \/ proc[p].output \in raced
    BY <2>1, <2>2, <2>3 DEF Sweeps
  <2> QED BY <1>2, <2>1, <2>4, WitnessStays, RacedStays DEF Prepared, Commits
<1> QED
  BY <1>3, <1>4, Kinds DEF Idle, Opens, OpensRender, Executes, Publishes, Prepares, Preparing,
                           Follows, WindsUp

(* A commit leaves no gap before it. *)
LEMMA CompleteStep ==
  ASSUME Typed, Shapes, Bounded, Swept, Complete, [Next]_vars
  PROVE  Complete'
<1> SUFFICES ASSUME NEW i \in 1..Current', NEW j \in 1..Current', revisions'[i].by # 0,
                    revisions'[j].by # 0, i < j, revisions'[i].output = revisions'[j].output
             PROVE  \/ \E e \in events' : e.source = i - 1 /\ e.output = revisions'[i].output
                    \/ revisions'[i].output \in raced'
  BY DEF Complete, Witnessed
<1>1. Current \in Nat /\ \A k \in 1..Current : revisions'[k] = revisions[k]
  BY CurrentApproval, CurrentGrows
<1> PICK o : o = revisions'[i].output
  OBVIOUS
<1>2. SUFFICES Witnessed(i, o) \/ o \in raced
  BY WitnessStays, RacedStays DEF Witnessed
<1>3. CASE j \in 1..Current
  <2>1. i \in 1..Current
    BY <1>1, <1>3
  <2> QED BY <1>1, <1>3, <2>1 DEF Complete
<1>4. CASE j \notin 1..Current
  <2>1. j = Current + 1
    BY <1>4, CommitGrows
  <2>2. PICK p \in Processes : Commit(p) /\ revisions'[j].output = proc[p].output
    BY <1>4, CommitGrows
  <2>3. i \in 1..Current /\ proc[p].step = "commit" /\ proc[p].expected = Current
    BY <1>1, <2>1, <2>2 DEF Commit, At
  <2>4. Prepared(p)
    BY DEF Swept
  <2> QED BY <1>1, <2>2, <2>3, <2>4 DEF Prepared, Commits
<1> QED BY <1>3, <1>4


-----------------------------------------------------------------------------
(* Event e is the only kind of its source that is, or will be, written. *)
SoleEvent(e) ==
  /\ \A d \in events : d.output = e.output /\ d.source = e.source => d.id = 0
  /\ \A t \in intents : t.output = e.output => t.source # e.source
  /\ \A p \in Processes :
       /\ proc[p].step = "event" /\ proc[p].output = e.output
       => proc[p].tx.source # e.source

(* An event that a reader has made up for an activation is not written once *)
(* more by the request that lost it, unless the reader got in the way of    *)
(* somebody.                                                                *)
Sole == \A e \in events : e.id = 0 /\ e.output \notin raced => SoleEvent(e)

(* A new event is that of an intent, of its writer, or a made up one. *)
LEMMA EventWritten ==
  ASSUME Typed, Shapes, Bounded, [Next]_vars, NEW d \in events', d \notin events
  PROVE  \/ d \in intents \/ d.id = 0
         \/ \E p \in Processes : /\ proc[p].step = "event" /\ d = proc[p].tx
                                 /\ d.output = proc[p].output
<1>1. ASSUME NEW p \in Processes, WriteEvent(p)
      PROVE  proc[p].step = "event" /\ d = proc[p].tx /\ d.output = proc[p].output
  BY <1>1 DEF WriteEvent, At, Shapes, Shape, Transacting, Committed
<1>2. ASSUME NEW p \in Processes, RecoverActivation(p) PROVE d.id = 0
  BY <1>2 DEF RecoverActivation
<1>3. ASSUME NEW p \in Processes, NEW t \in intents, Resolve(p, t) PROVE d \in intents
  BY <1>3 DEF Resolve
<1> QED BY <1>1, <1>2, <1>3, EventsChange

(* An event that is the only one for its source remains so: later           *)
(* transactions have later sources.                                         *)
LEMMA SoleStays ==
  ASSUME Typed, Shapes, Bounded, EventsTrue, [Next]_vars, NEW e \in events, SoleEvent(e)
  PROVE  SoleEvent(e)'
<1>1. e.source < Current
  BY CurrentApproval DEF EventsTrue, True
<1>2. ASSUME NEW d \in events', d.output = e.output, d.source = e.source PROVE d.id = 0
  BY <1>2, EventWritten DEF SoleEvent
<1>3. ASSUME NEW t \in intents', t.output = e.output PROVE t.source # e.source
  <2>1. CASE t \in intents
    BY <1>3, <2>1 DEF SoleEvent
  <2>2. CASE t \notin intents
    <3>1. t.source = Current
      BY <2>2, IntentsGrow DEF NewIntent
    <3> QED BY <1>1, <3>1, CurrentApproval
  <2> QED BY <2>1, <2>2
<1>4. ASSUME NEW p \in Processes, proc'[p].step = "event", proc'[p].output = e.output
      PROVE  proc'[p].tx.source # e.source
  <2>1. CASE proc'[p] = proc[p]
    BY <1>4, <2>1 DEF SoleEvent
  <2>2. CASE Follows(p, proc'[p])
    <3>1. Commit(p) /\ proc'[p].tx = proc[p].tx
      BY <1>4, <2>2 DEF Follows, SameButStep, SameRequest
    <3>2. proc'[p].tx.source = Current
      BY <3>1, Committing
    <3> QED BY <1>1, <3>2, CurrentApproval
  <2> QED
    BY <1>4, <2>1, <2>2, Kinds DEF Idle, Opens, OpensRender, Executes, Publishes, Prepares,
                                   Preparing, Intends, WindsUp
<1> QED BY <1>2, <1>3, <1>4 DEF SoleEvent

(* A made up event finds no event, no intent and no writer of its output    *)
(* (RecoverActivation).                                                     *)
LEMMA RecoveredSole ==
  ASSUME Typed, Shapes, NEW p \in Processes, RecoverActivation(p),
         NEW e \in events', e \notin events, e.output \notin raced'
  PROVE  SoleEvent(e)'
<1> PICK o : o = proc[p].output
  OBVIOUS
<1>1. /\ proc[p].step = "activation" /\ events' = events \cup {e} /\ e.output = o /\ e.id = 0
      /\ intents' = intents
  BY DEF RecoverActivation, At
<1>2. o \notin Transitioning /\ EventsOf(o) = {} /\ IntentsOf(o) = {}
  BY <1>1 DEF RecoverActivation
<1>3. \A d \in events' : d.output = o => d = e
  BY <1>1, <1>2 DEF EventsOf
<1>4. \A t \in intents' : t.output # o
  BY <1>1, <1>2 DEF IntentsOf
<1>5. proc'[p].step # "event" /\ \A q \in Processes : q # p => proc'[q] = proc[q]
  <2>1. Ends(p) => proc'[p].step # "event" /\ \A q \in Processes : q # p => proc'[q] = proc[q]
    BY EndsBecomes DEF Becomes, Idle
  <2> QED BY <2>1, RecoverActivationBecomes DEF Becomes
<1>6. \A q \in Processes : proc'[q].step = "event" => proc'[q].output # o
  BY <1>2, <1>5 DEF Transitioning
<1> QED BY <1>1, <1>3, <1>4, <1>6 DEF SoleEvent

(* Every step keeps made up events the only ones. *)
LEMMA SoleStep ==
  ASSUME Typed, Shapes, Bounded, EventsTrue, Sole, [Next]_vars
  PROVE  Sole'
<1> SUFFICES ASSUME NEW e \in events', e.id = 0, e.output \notin raced'
             PROVE  SoleEvent(e)'
  BY DEF Sole
<1>1. CASE e \in events
  BY <1>1, SoleStays, RacedStays DEF Sole
<1>2. CASE e \notin events
  <2>1. ASSUME NEW p \in Processes, WriteEvent(p) PROVE FALSE
    <3>1. proc[p].step = "event" /\ e = proc[p].tx
      BY <1>2, <2>1 DEF WriteEvent, At
    <3>2. Pending(e)
      BY <3>1 DEF Pending, Shapes, Shape, Transacting, Committed
    <3> QED BY <3>2, PendingId
  <2>2. ASSUME NEW p \in Processes, NEW t \in intents, Resolve(p, t) PROVE FALSE
    <3>1. e \in intents
      BY <1>2, <2>2 DEF Resolve
    <3> QED BY <3>1, PendingId DEF Pending
  <2> QED BY <1>2, <2>1, <2>2, RecoveredSole, EventsChange
<1> QED BY <1>1, <1>2

-----------------------------------------------------------------------------
(* A delivery record names the event of a delivery. *)
DeliveryHeld ==
  \A o \in Outputs : delivery[o] # None =>
    \E e \in events : e.output = o /\ e.to = "delivered" /\ e.id = delivery[o]

(* Every step keeps delivery records with their events (ReadReceipt,        *)
(* PublishDelivery).                                                        *)
LEMMA DeliveryHeldStep ==
  ASSUME Typed, Shapes, Bounded, Ranked, TransactionsSound, Aimed, DeliveryHeld, [Next]_vars
  PROVE  DeliveryHeld'
<1> SUFFICES ASSUME NEW o \in Outputs, delivery'[o] # None
             PROVE  \E e \in events' : e.output = o /\ e.to = "delivered" /\ e.id = delivery'[o]
  BY DEF DeliveryHeld
<1>1. CASE delivery'[o] = delivery[o]
  BY <1>1, EventsStay DEF DeliveryHeld
<1>2. ASSUME NEW p \in Processes, ReadReceipt(p), delivery'[o] # delivery[o]
      PROVE  \E e \in events' : e.output = o /\ e.to = "delivered" /\ e.id = delivery'[o]
  <2>1. /\ o = proc[p].output /\ EventsOf(o) # {}
        /\ Latest(EventsOf(o)).to = "delivered" /\ delivery'[o] = Latest(EventsOf(o)).id
    BY <1>2 DEF ReadReceipt, ValidChain, Typed
  <2>2. Latest(EventsOf(o)) \in EventsOf(o)
    BY <2>1, LatestIsLast DEF Ranked
  <2> QED BY <2>1, <2>2, EventsStay DEF EventsOf
<1>3. ASSUME NEW p \in Processes, PublishDelivery(p), delivery'[o] # delivery[o]
      PROVE  \E e \in events' : e.output = o /\ e.to = "delivered" /\ e.id = delivery'[o]
  <2>1. /\ proc[p].step = "publish" /\ proc[p].op = "deliver" /\ o = proc[p].output
        /\ delivery'[o] = proc[p].tx.id
    BY <1>3 DEF PublishDelivery, At, Typed
  <2>2. proc[p].tx.output = o /\ proc[p].tx.to = "delivered"
    BY <2>1 DEF Shapes, Shape, Aimed, Aims, Transacting, Committed
  <2>3. proc[p].tx \in events
    BY <2>1 DEF TransactionsSound, Progressed
  <2> QED BY <2>1, <2>2, <2>3, EventsStay
<1> QED BY <1>1, <1>2, <1>3, DeliveryChange


-----------------------------------------------------------------------------
(* What receipts rest on, inductive together with IInv. *)
ReceiptInv == Aimed /\ Ordered /\ Steady /\ Swept /\ Complete /\ Sole /\ DeliveryHeld

(* It holds of a new project. *)
LEMMA ReceiptInit == Init => ReceiptInv
<1> SUFFICES ASSUME Init PROVE ReceiptInv
  OBVIOUS
<1>1. /\ revisions = <<[state |-> "none", output |-> None, by |-> 0]>> /\ Current = 1
      /\ revisions[1] = [state |-> "none", output |-> None, by |-> 0]
  BY DEF Init, Current
<1>2. events = {} /\ delivery = [o \in Outputs |-> None] /\ \A p \in Processes : proc[p] = Idle
  BY DEF Init
<1>3. Aimed /\ Swept
  BY <1>2 DEF Aimed, Aims, Swept, Sweeps, Prepared, Idle, Transacting, Committed
<1>4. Ordered /\ Steady /\ Complete
  BY <1>1 DEF Ordered, Steady, Held, Complete
<1>5. Sole /\ DeliveryHeld
  BY <1>2 DEF Sole, DeliveryHeld
<1> QED BY <1>3, <1>4, <1>5 DEF ReceiptInv

(* It is kept by every step. *)
LEMMA ReceiptStep == IInv /\ ReceiptInv /\ [Next]_vars => ReceiptInv'
<1> SUFFICES ASSUME IInv, ReceiptInv, [Next]_vars PROVE ReceiptInv'
  OBVIOUS
<1>1. /\ Typed /\ Shapes /\ Bounded /\ Ranked /\ Renders /\ Lineage
      /\ TransactionsSound /\ EventsTrue /\ Recorded
  BY DEF IInv
<1>2. Aimed /\ Ordered /\ Steady /\ Swept /\ Complete /\ Sole /\ DeliveryHeld
  BY DEF ReceiptInv
<1>3. Aimed' /\ Ordered' /\ Steady'
  BY <1>1, <1>2, AimedStep, OrderedStep, SteadyStep
<1>4. Swept' /\ Complete'
  BY <1>1, <1>2, SweepsStep, PreparedStep, CompleteStep DEF Swept
<1>5. Sole' /\ DeliveryHeld'
  BY <1>1, <1>2, SoleStep, DeliveryHeldStep
<1> QED BY <1>3, <1>4, <1>5 DEF ReceiptInv

(* What authority says of the event of an output. *)
LEMMA EventFacts ==
  ASSUME Typed, Bounded, Lineage, EventsTrue, NEW o \in Outputs, NEW e \in EventsOf(o)
  PROVE  /\ e \in Transaction /\ e.output = o /\ e.source \in 1..Current
         /\ e.source + 1 \in 1..Current /\ revisions[e.source + 1].by # 0
         /\ e.id \in {0, revisions[e.source + 1].by}
         /\ revisions[e.source].state = e.from /\ revisions[e.source + 1].state = e.to
         /\ revisions[e.source + 1].output = o
         /\ base[o] \in 1..Current /\ base[o] <= e.source
<1>1. e \in events /\ e.output = o /\ e \in Transaction
  BY DEF EventsOf, Typed
<1>2. True(e)
  BY <1>1 DEF EventsTrue
<1>3. revisions[e.source + 1].output = o /\ o # None /\ e.source + 1 \in 1..Current
  BY <1>1, <1>2, LifecycleAssumption DEF True
<1>4. base[o] # 0 /\ e.source + 1 > base[o]
  BY <1>3 DEF Lineage
<1>5. base[o] \in 1..Current /\ base[o] <= e.source
  BY SMTT(30), <1>1, <1>4, CurrentApproval DEF Typed, Bounded, Transaction
<1> QED BY <1>1, <1>2, <1>3, <1>5 DEF True

(* An output has one event for each source. *)
LEMMA OneEvent ==
  ASSUME Typed, Bounded, Lineage, EventsTrue, Sole, NEW o \in Outputs, o \notin raced,
         NEW d \in EventsOf(o), NEW e \in EventsOf(o), d.source = e.source
  PROVE  d = e
<1>1. /\ d \in events /\ d \in Transaction /\ d.output = o /\ d.from = e.from /\ d.to = e.to
      /\ e \in events /\ e \in Transaction /\ e.output = o
      /\ {d.id, e.id} \subseteq {0, revisions[e.source + 1].by}
  BY EventFacts DEF EventsOf
<1>2. d.id = 0 <=> e.id = 0
  BY <1>1 DEF Sole, SoleEvent
<1>3. d.id = e.id
  BY <1>1, <1>2
<1> QED BY <1>1, <1>3 DEF Transaction

(* An output that is the approved one somewhere was activated by a commit   *)
(* right after its base.                                                    *)
LEMMA ActivationCommit ==
  ASSUME Typed, Bounded, Lineage, Ordered, Steady, ~rewound, NEW o \in Outputs,
         NEW i \in 1..Current, revisions[i].output = o
  PROVE  /\ base[o] + 1 \in 1..i
         /\ revisions[base[o] + 1].by # 0 /\ revisions[base[o] + 1].output = o
         /\ revisions[base[o] + 1].state = "rendered_unchecked"
<1> PICK b : b = base[o] + 1
  OBVIOUS
<1>1. o # None /\ base[o] \in Nat \ {0} /\ i > base[o] /\ Current \in Nat
  BY LifecycleAssumption, CurrentApproval DEF Lineage, Typed
<1>2. b \in 1..i /\ b \in 2..Current /\ b - 1 = base[o] /\ b - 1 \in 1..Current /\ b > base[o]
  BY <1>1
<1>3. Held(b, i)
  BY <1>1, <1>2 DEF Steady
<1>4. revisions[b].output = o
  BY <1>1, <1>2, <1>3 DEF Held
<1>5. revisions[b].by # 0
  <2>1. revisions[b].by = 0 => b > base[o] + 1
    BY <1>1, <1>2, <1>4 DEF Lineage
  <2> QED BY <1>1, <2>1
<1>6. TransitionAllowed(revisions[b - 1], revisions[b].state, o)
  BY <1>2, <1>4, <1>5 DEF Ordered
<1>7. revisions[b - 1].output # o
  <2>1. revisions[b - 1].output = o => b - 1 > base[o]
    BY <1>1, <1>2 DEF Lineage
  <2> QED BY <1>1, <2>1
<1> QED BY <1>2, <1>4, <1>5, <1>6, <1>7, AllowedAfter

(* The events of an output that was neither raced nor rewound form a valid  *)
(* chain.                                                                   *)
LEMMA ChainValid ==
  ASSUME Typed, Bounded, Ranked, Lineage, EventsTrue, Sole, Ordered, Steady, Complete,
         ~rewound, NEW o \in Outputs, o \notin raced, EventsOf(o) # {}
  PROVE  ValidChain(o, EventsOf(o))
<1> SUFFICES ASSUME NEW e \in EventsOf(o)
             PROVE  IF Earlier(EventsOf(o), e) = {}
                      THEN e.to = "rendered_unchecked" /\ e.source = base[o]
                    ELSE /\ e.from = Latest(Earlier(EventsOf(o), e)).to
                         /\ TransitionAllowed([state |-> e.from, output |-> o], e.to, o)
  BY OneEvent DEF ValidChain
<1> PICK i : i = e.source + 1
  OBVIOUS
<1>1. /\ i \in 1..Current /\ e.source \in 1..Current /\ revisions[i].by # 0
      /\ revisions[i].output = o /\ revisions[i].state = e.to
      /\ revisions[e.source].state = e.from
      /\ base[o] \in 1..Current /\ base[o] <= e.source /\ Current \in Nat /\ o # None
  BY EventFacts, CurrentApproval, LifecycleAssumption
<1>2. ASSUME NEW k \in 1..Current, k < i, revisions[k].by # 0, k > base[o]
      PROVE  \E d \in EventsOf(o) : d.source = k - 1
  <2>1. revisions[k].output = o
    BY <1>1, <1>2 DEF Steady, Held
  <2> QED BY <1>1, <1>2, <2>1 DEF Complete, Witnessed, EventsOf
<1>3. CASE Earlier(EventsOf(o), e) = {}
  <2> PICK b : b = base[o] + 1
    OBVIOUS
  <2>1. b \in 1..i /\ revisions[b].by # 0 /\ revisions[b].state = "rendered_unchecked"
    BY <1>1, ActivationCommit
  <2>2. ~(b < i)
    <3>1. b \in 1..Current /\ b > base[o] /\ b - 1 = base[o]
      BY <1>1, <2>1
    <3>2. \A d \in EventsOf(o) : ~(d.source < e.source)
      BY <1>3 DEF Earlier
    <3>3. b < i => base[o] < e.source
      BY <1>1
    <3> QED BY <1>2, <2>1, <3>1, <3>2, <3>3
  <2>3. b = i /\ e.source = base[o]
    BY <1>1, <2>1, <2>2
  <2> QED BY <1>1, <1>3, <2>1, <2>3
<1>4. CASE Earlier(EventsOf(o), e) # {}
  <2>1. HasLast(Earlier(EventsOf(o), e))
    BY <1>1 DEF Ranked, Earlier
  <2> PICK l : l = Latest(Earlier(EventsOf(o), e))
    OBVIOUS
  <2>2. /\ l \in EventsOf(o) /\ l.source < e.source
        /\ \A d \in EventsOf(o) : d.source < e.source => d.source <= l.source
    <3>1. /\ l \in Earlier(EventsOf(o), e)
          /\ \A d \in Earlier(EventsOf(o), e) : d.source <= l.source
      BY <1>4, <2>1, LatestIsLast
    <3> QED BY <3>1 DEF Earlier
  <2> PICK h : h = l.source + 1
    OBVIOUS
  <2>3. h \in 1..Current /\ revisions[h].state = l.to /\ base[o] < h /\ l.source \in Nat
    BY <1>1, <2>2, EventFacts
  <2>4. h <= e.source /\ e.source < i /\ e.source > base[o]
    BY <1>1, <2>2, <2>3
  <2>5. ASSUME NEW k \in 1..e.source, h < k PROVE revisions[k].by = 0
    <3>1. k \in 1..Current /\ k < i /\ k > base[o]
      BY <1>1, <2>3, <2>4, <2>5
    <3>2. ASSUME NEW d \in EventsOf(o), d.source = k - 1 PROVE FALSE
      BY <1>1, <2>2, <2>3, <2>5, <3>2
    <3> QED BY <1>2, <3>1, <3>2
  <2>6. e.from = l.to
    <3>1. Held(h, e.source)
      BY <1>1, <2>3, <2>4 DEF Steady
    <3> QED BY <1>1, <2>3, <2>5, <3>1 DEF Held
  <2>7. revisions[e.source].output = o
    <3>1. Held(e.source, i)
      BY <1>1, <2>4 DEF Steady
    <3> QED BY <1>1, <2>4, <3>1 DEF Held
  <2>8. TransitionAllowed(revisions[e.source], e.to, o)
    <3>1. i \in 2..Current /\ i - 1 = e.source
      BY <1>1
    <3> QED BY <1>1, <3>1 DEF Ordered
  <2>9. TransitionAllowed([state |-> e.from, output |-> o], e.to, o)
    BY <1>1, <2>7, <2>8 DEF TransitionAllowed
  <2> QED BY <1>4, <2>6, <2>9
<1> QED BY <1>3, <1>4

(* Its delivery record names the last of them. *)
LEMMA DeliveryValid ==
  ASSUME Typed, Bounded, Ranked, Lineage, EventsTrue, Sole, Steady, DeliveryHeld,
         ~rewound, NEW o \in Outputs, o \notin raced, delivery[o] # None
  PROVE  Latest(EventsOf(o)).to = "delivered" /\ delivery[o] = Latest(EventsOf(o)).id
<1>1. PICK e \in EventsOf(o) : e.to = "delivered" /\ e.id = delivery[o]
  BY DEF DeliveryHeld, EventsOf
<1> PICK l : l = Latest(EventsOf(o))
  OBVIOUS
<1>2. l \in EventsOf(o) /\ e.source <= l.source
  BY <1>1, LatestIsLast DEF Ranked
<1>3. e.source \in Nat /\ l.source \in Nat
  BY <1>1, <1>2, EventFacts
<1>4. ~(e.source < l.source)
  <2> PICK h, k : h = e.source + 1 /\ k = l.source + 1
    OBVIOUS
  <2>1. /\ h \in 1..Current /\ k \in 1..Current
        /\ revisions[h].state = "delivered" /\ revisions[h].output = o
        /\ revisions[k].by # 0 /\ revisions[k].output = o
    BY <1>1, <1>2, EventFacts
  <2>2. e.source < l.source => h < k /\ h <= k
    BY <1>3
  <2> QED BY <2>1, <2>2 DEF Steady, Held
<1>5. e = l
  BY <1>1, <1>2, <1>3, <1>4, OneEvent
<1> QED BY <1>1, <1>5

(* Receipts stay readable: the events of an output form one valid chain, in *)
(* step with its delivery record, unless a reader's recovery collided with  *)
(* a transition or an undo took the approval state back (output, receipt).  *)
THEOREM Readable == Spec => []ReceiptsReadable
<1>1. IInv /\ ReceiptInv => ReceiptsReadable
  BY ChainValid, DeliveryValid DEF IInv, ReceiptInv, ReceiptsReadable, Unreadable
<1> QED BY <1>1, InvCorrect, ReceiptInit, ReceiptStep, PTL DEF Spec
============================================================================
