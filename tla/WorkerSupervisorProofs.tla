----------------------- MODULE WorkerSupervisorProofs -----------------------
(***************************************************************************)
(* Theorems about the worker supervisor, for any number of workers,        *)
(* restarts, requests and heartbeats.                                      *)
(***************************************************************************)
EXTENDS WorkerSupervisor, TLAPS

(***************************************************************************)
(* Why an undisturbed supervisor has one worker: it has one chain in       *)
(* flight or one worker attached, never both; and no ping of an earlier    *)
(* worker is left to be handled when a transport is being created.         *)
(***************************************************************************)
OneLife ==
  /\ \A s, t \in InFlight : s = t
  /\ transport # None => InFlight = {}
  /\ \A w \in Workers : worker[w] = "live" => w = transport
  /\ \A c \in Calls : call[c] = "pending" => sentTo[c] = transport
  /\ \A h \in Pings : call[h] = "failed" /\ transport # None => sentTo[h] = transport
  /\ (\E s \in Chains : chain[s] = "creating") /\ ~stopping => Idle

LifeInv == disturbed \/ OneLife

IInv == TypeOK /\ StopHolds /\ HealthyIsSupervised /\ LifeInv

-----------------------------------------------------------------------------
(* A supervisor that was never started is in order. *)
LEMMA InvInit == Init => IInv
<1> SUFFICES ASSUME Init PROVE IInv
  OBVIOUS
<1> USE SupervisorAssumption DEF Init, supervisor
<1>1. TypeOK
  <2>1. \A r \in Requests : r \in Calls
    BY DEF Calls
  <2>2. restarts \in 0..MaxRestarts
    OBVIOUS
  <2> QED
    BY <2>1, <2>2 DEF TypeOK
<1>2. StopHolds /\ HealthyIsSupervised
  BY DEF StopHolds, HealthyIsSupervised
<1>3. OneLife
  <2>1. InFlight = {}
    BY DEF InFlight
  <2>2. \A h \in Pings : h \in Calls
    BY DEF Calls
  <2> QED
    BY <2>1, <2>2 DEF OneLife
<1> QED
  BY <1>1, <1>2, <1>3 DEF IInv, LifeInv

(* A chain that schedules a restart waits, gives up or ends. *)
LEMMA RestartTyped ==
  ASSUME TypeOK, NEW s \in Chains, ScheduleRestart(s)
  PROVE  /\ chain' \in [Chains -> {"none", "creating", "delay"}]
         /\ restarts' \in 0..MaxRestarts
         /\ timer' \in Chains \cup {None}
         /\ chain[s] # "delay" => (timer' # None => chain'[timer'] = "delay")
         /\ status' \in {"failed", "restarting"} \/ (stopping /\ status' = status)
         /\ \A t \in Chains : t # s => chain'[t] = chain[t]
         /\ chain'[s] # "creating"
BY SupervisorAssumption DEF TypeOK, ScheduleRestart, Proceed

(* Every step leaves every variable in its type. *)
LEMMA TypeStep == TypeOK /\ StopHolds /\ HealthyIsSupervised /\ [Next]_vars => TypeOK'
<1> SUFFICES ASSUME TypeOK, StopHolds, HealthyIsSupervised, [Next]_vars PROVE TypeOK'
  OBVIOUS
<1> USE SupervisorAssumption DEF TypeOK, supervisor, Proceed
<1>1. ASSUME NEW s \in Chains, Start(s) PROVE TypeOK'
  <2>1. timer # None => timer # s
    BY <1>1 DEF Start
  <2>2. timer' # None => chain'[timer'] = "delay"
    BY <1>1, <2>1 DEF Start
  <2>3. disturbed' \in BOOLEAN
    BY <1>1 DEF Start
  <2> HIDE DEF Proceed
  <2>4. chain' \in [Chains -> {"none", "creating", "delay"}]
    BY <1>1 DEF Start, Proceed
  <2>5. /\ UNCHANGED <<transport, listening, beating, timer, worker, call, sentTo>>
        /\ stopping' = FALSE /\ restarts' = 0 /\ status' = "starting"
    BY <1>1 DEF Start
  <2>6. restarts' \in 0..MaxRestarts
    BY <2>5
  <2> QED
    BY <2>2, <2>3, <2>4, <2>5, <2>6
<1>2. ASSUME NEW s \in Chains, CreateSettles(s) PROVE TypeOK'
  <2>1. CASE CreateFails(s)
    BY <2>1, RestartTyped DEF CreateFails, StopHolds
  <2>2. ASSUME NEW w \in Fresh, Discard(s, w) PROVE TypeOK'
    BY <2>2 DEF Discard, Fresh
  <2>3. ASSUME NEW w \in Fresh, Attach(s, w) PROVE TypeOK'
    BY <2>3 DEF Attach, Fresh
  <2> QED
    BY <1>2, <2>1, <2>2, <2>3 DEF CreateSettles
<1>3. ASSUME NEW s \in Chains, RestartDue(s) PROVE TypeOK'
  BY <1>3 DEF RestartDue
<1>4. CASE Stop
  BY <1>4 DEF Stop, RejectAll, Rejected, Calls
<1>5. ASSUME NEW c \in Calls, Call(c) PROVE TypeOK'
  BY <1>5 DEF Call, Rejected, Calls
<1>6. ASSUME NEW c \in Calls, Answer(c) \/ TimeOut(c) PROVE TypeOK'
  BY <1>6 DEF Answer, TimeOut, Settle, Rejected, Calls
<1>7. ASSUME NEW c \in Requests, Abort(c) PROVE TypeOK'
  BY <1>7 DEF Abort, Settle, Rejected, Calls
<1>8. ASSUME NEW h \in Pings, PingFailed(h) PROVE TypeOK'
  BY <1>8 DEF PingFailed, Settle, Calls
<1>9. ASSUME NEW w \in Workers, Exit(w) PROVE TypeOK'
  <2>1. CASE w \in listening
    <3>1. PICK s \in Chains \ InFlight : ScheduleRestart(s)
      BY <1>9, <2>1 DEF Exit
    <3>2. chain[s] # "delay"
      BY <3>1 DEF InFlight
    <3>3. /\ call' \in [Calls -> {"free", "pending", "failed"}]
          /\ sentTo' \in [Calls -> Workers \cup {None}]
          /\ \A c \in Calls : call'[c] = "free" <=> sentTo'[c] = None
          /\ \A r \in Requests : call'[r] # "failed"
      BY <1>9, <2>1 DEF Exit, RejectAll, Rejected, Calls
    <3> QED
      BY <1>9, <2>1, <3>1, <3>2, <3>3, RestartTyped DEF Exit
  <2>2. CASE w \notin listening
    BY <1>9, <2>2 DEF Exit
  <2> QED
    BY <2>1, <2>2
<1>10. CASE UNCHANGED vars
  BY <1>10 DEF vars
<1> QED
  BY <1>1, <1>2, <1>3, <1>4, <1>5, <1>6, <1>7, <1>8, <1>9, <1>10 DEF Next, Crash, Die

(* What rejecting every call leaves: nothing waits, failed pings stay or   *)
(* come from calls that waited, and they keep the worker they were sent to.*)
LEMMA RejectAllLeaves ==
  ASSUME TypeOK, RejectAll, NEW c \in Calls
  PROVE  /\ call'[c] # "pending"
         /\ call'[c] = "failed" => call[c] # "free" /\ sentTo'[c] = sentTo[c]
BY DEF TypeOK, RejectAll, Rejected

(* Every step keeps a stopped supervisor stopped. *)
LEMMA StopStep == TypeOK /\ StopHolds /\ [Next]_vars => StopHolds'
<1> SUFFICES ASSUME TypeOK, StopHolds, [Next]_vars PROVE StopHolds'
  OBVIOUS
<1> USE SupervisorAssumption DEF StopHolds, supervisor
<1>1. ASSUME NEW s \in Chains, Start(s) PROVE StopHolds'
  BY <1>1 DEF Start
<1>2. ASSUME NEW s \in Chains, CreateSettles(s) PROVE StopHolds'
  <2>1. CASE CreateFails(s)
    BY <2>1 DEF CreateFails, ScheduleRestart
  <2>2. ASSUME NEW w \in Fresh, Discard(s, w) PROVE StopHolds'
    BY <2>2 DEF Discard
  <2>3. ASSUME NEW w \in Fresh, Attach(s, w) PROVE StopHolds'
    BY <2>3 DEF Attach
  <2> QED
    BY <1>2, <2>1, <2>2, <2>3 DEF CreateSettles
<1>3. ASSUME NEW s \in Chains, RestartDue(s) PROVE StopHolds'
  BY <1>3 DEF RestartDue
<1>4. CASE Stop
  BY <1>4, RejectAllLeaves DEF Stop
<1>5. ASSUME NEW c \in Calls, Call(c) PROVE StopHolds'
  BY <1>5 DEF Call
<1>6. ASSUME NEW c \in Calls, Answer(c) \/ TimeOut(c) PROVE StopHolds'
  BY <1>6 DEF Answer, TimeOut
<1>7. ASSUME NEW c \in Requests, Abort(c) PROVE StopHolds'
  BY <1>7 DEF Abort, Calls
<1>8. ASSUME NEW h \in Pings, PingFailed(h) PROVE StopHolds'
  <2>1. \A c \in Calls : call'[c] = "pending" => call[c] = "pending"
    BY <1>8 DEF PingFailed, Settle, TypeOK
  <2> QED
    BY <1>8, <2>1 DEF PingFailed
<1>9. ASSUME NEW w \in Workers, Exit(w) PROVE StopHolds'
  <2>1. stopping => w \notin listening
    BY DEF TypeOK
  <2> QED
    BY <1>9, <2>1 DEF Exit
<1>10. CASE UNCHANGED vars
  BY <1>10 DEF vars
<1> QED
  BY <1>1, <1>2, <1>3, <1>4, <1>5, <1>6, <1>7, <1>8, <1>9, <1>10 DEF Next, Crash, Die

(* Every step keeps a healthy supervisor supervised: only Attach makes one *)
(* healthy, and the steps that end its worker take that back.              *)
LEMMA HealthyStep ==
  TypeOK /\ StopHolds /\ HealthyIsSupervised /\ [Next]_vars => HealthyIsSupervised'
<1> SUFFICES ASSUME TypeOK, StopHolds, HealthyIsSupervised, [Next]_vars
             PROVE  HealthyIsSupervised'
  OBVIOUS
<1> USE SupervisorAssumption DEF HealthyIsSupervised, supervisor
<1>1. ASSUME NEW s \in Chains, Start(s) PROVE HealthyIsSupervised'
  BY <1>1 DEF Start
<1>2. ASSUME NEW s \in Chains, CreateSettles(s) PROVE HealthyIsSupervised'
  <2>1. CASE CreateFails(s)
    BY <2>1 DEF CreateFails, ScheduleRestart
  <2>2. ASSUME NEW w \in Fresh, Discard(s, w) PROVE HealthyIsSupervised'
    BY <2>2 DEF Discard, StopHolds
  <2>3. ASSUME NEW w \in Fresh, Attach(s, w) PROVE HealthyIsSupervised'
    BY <2>3 DEF Attach, Fresh, TypeOK
  <2> QED
    BY <1>2, <2>1, <2>2, <2>3 DEF CreateSettles
<1>3. ASSUME NEW s \in Chains, RestartDue(s) PROVE HealthyIsSupervised'
  BY <1>3 DEF RestartDue
<1>4. CASE Stop
  BY <1>4 DEF Stop
<1>5. ASSUME NEW c \in Calls, Call(c) PROVE HealthyIsSupervised'
  BY <1>5 DEF Call
<1>6. ASSUME NEW c \in Calls, Answer(c) \/ TimeOut(c) PROVE HealthyIsSupervised'
  BY <1>6 DEF Answer, TimeOut
<1>7. ASSUME NEW c \in Requests, Abort(c) PROVE HealthyIsSupervised'
  BY <1>7 DEF Abort
<1>8. ASSUME NEW h \in Pings, PingFailed(h) PROVE HealthyIsSupervised'
  BY <1>8 DEF PingFailed
<1>9. ASSUME NEW w \in Workers, Exit(w) PROVE HealthyIsSupervised'
  <2>1. CASE w \in listening
    <3>1. ~stopping
      BY <2>1 DEF TypeOK, StopHolds
    <3> QED
      BY <1>9, <2>1, <3>1 DEF Exit, ScheduleRestart
  <2>2. CASE w \notin listening
    <3>1. transport # None => w # transport
      BY <2>2 DEF TypeOK
    <3> QED
      BY <1>9, <2>2, <3>1 DEF Exit, TypeOK
  <2> QED
    BY <2>1, <2>2
<1>10. CASE UNCHANGED vars
  BY <1>10 DEF vars
<1> QED
  BY <1>1, <1>2, <1>3, <1>4, <1>5, <1>6, <1>7, <1>8, <1>9, <1>10 DEF Next, Crash, Die

(* Calls that settle leave one life as it was. *)
LEMMA SettleKeepsLife ==
  ASSUME TypeOK, OneLife, NEW c \in Calls, NEW outcome,
         outcome = "free" \/ outcome = Rejected(c),
         call[c] = "pending", Settle(c, outcome),
         UNCHANGED <<supervisor, chain, worker>>
  PROVE  OneLife'
<1> USE SupervisorAssumption DEF supervisor
<1>1. transport # None /\ sentTo[c] = transport
  BY DEF TypeOK, OneLife
<1>2. InFlight = {} /\ InFlight' = {}
  BY <1>1 DEF OneLife, InFlight
<1>3. outcome # "pending"
  BY DEF Rejected
<1>4. \A d \in Calls : call'[d] = "pending" => call[d] = "pending" /\ sentTo'[d] = sentTo[d]
  BY <1>3 DEF Settle, TypeOK
<1>5. ASSUME NEW h \in Pings, call'[h] = "failed" PROVE sentTo'[h] = transport
  <2>1. h \in Calls
    BY DEF Calls
  <2>2. CASE h = c
    <3>1. outcome = "failed"
      BY <1>5, <2>1, <2>2 DEF Settle, TypeOK
    <3> QED
      BY <1>1, <2>1, <2>2, <3>1 DEF Settle, TypeOK
  <2>3. CASE h # c
    BY <1>1, <1>5, <2>1, <2>3 DEF Settle, TypeOK, OneLife
  <2> QED
    BY <2>2, <2>3
<1>6. \A s \in Chains : chain'[s] # "creating"
  BY <1>2 DEF InFlight
<1>7. \A d \in Calls : call'[d] = "pending" => sentTo'[d] = transport'
  BY <1>4 DEF OneLife
<1>8. \A w \in Workers : worker'[w] = "live" => w = transport'
  BY DEF OneLife
<1> QED
  BY <1>2, <1>5, <1>6, <1>7, <1>8 DEF OneLife

(* Every step keeps one life one life, or disturbs it. *)
LEMMA LifeStep ==
  TypeOK /\ StopHolds /\ HealthyIsSupervised /\ LifeInv /\ [Next]_vars => LifeInv'
<1> SUFFICES ASSUME TypeOK, StopHolds, HealthyIsSupervised, LifeInv, [Next]_vars
             PROVE  LifeInv'
  OBVIOUS
<1>a. CASE disturbed
  BY <1>a DEF LifeInv, Next, vars, supervisor, Start, CreateSettles, CreateFails, Discard,
              Attach, RestartDue, Stop, Call, Answer, TimeOut, Abort, PingFailed, Crash,
              Die, Exit
<1>b. CASE OneLife
  <2> USE SupervisorAssumption DEF supervisor
  <2>1. ASSUME NEW s \in Chains, Start(s), ~disturbed' PROVE OneLife'
    <3>1. InFlight = {} /\ transport = None /\ Idle
      BY <2>1 DEF Start
    <3>2. \A t \in InFlight' : t = s
      BY <2>1, <3>1 DEF Start, Proceed, InFlight, TypeOK
    <3>3. Idle'
      BY <2>1, <3>1 DEF Start, Idle
    <3> QED
      BY <1>b, <2>1, <3>1, <3>2, <3>3 DEF OneLife, Start
  <2>2. ASSUME NEW s \in Chains, chain[s] = "creating" PROVE
          /\ transport = None
          /\ \A t \in Chains : t # s => chain[t] = "none"
          /\ \A w \in Workers : worker[w] # "live"
          /\ \A c \in Calls : call[c] # "pending"
    <3>1. s \in InFlight
      BY <2>2 DEF InFlight
    <3>2. transport = None
      BY <1>b, <3>1 DEF OneLife
    <3>3. \A t \in Chains : t # s => t \notin InFlight
      BY <1>b, <3>1 DEF OneLife
    <3>4. \A w \in Workers : worker[w] # "live"
      BY <1>b, <3>2 DEF OneLife
    <3>5. \A c \in Calls : call[c] # "pending"
      BY <1>b, <3>2 DEF OneLife, TypeOK
    <3> QED
      BY <3>2, <3>3, <3>4, <3>5 DEF InFlight
  <2>3. ASSUME NEW s \in Chains, CreateFails(s) PROVE OneLife'
    <3>1. chain[s] = "creating"
      BY <2>3 DEF CreateFails
    <3>2. \A t \in Chains : chain'[t] # "creating" /\ (t # s => chain'[t] = "none")
      BY <2>2, <2>3, <3>1, RestartTyped DEF CreateFails
    <3>3. transport' = None /\ worker' = worker /\ call' = call /\ sentTo' = sentTo
      BY <2>2, <2>3, <3>1 DEF CreateFails
    <3> QED
      BY <2>2, <3>1, <3>2, <3>3 DEF OneLife, InFlight
  <2>4. ASSUME NEW s \in Chains, NEW w \in Fresh, Discard(s, w) PROVE OneLife'
    <3>1. chain[s] = "creating" /\ w \in Workers
      BY <2>4 DEF Discard, Fresh
    <3>2. \A t \in Chains : chain'[t] = "none"
      BY <2>2, <2>4, <3>1 DEF Discard, Proceed, TypeOK
    <3>3. transport' = None /\ call' = call /\ sentTo' = sentTo
      BY <2>2, <2>4, <3>1 DEF Discard
    <3>4. \A v \in Workers : worker'[v] # "live"
      BY <2>2, <2>4, <3>1 DEF Discard, TypeOK
    <3> QED
      BY <2>2, <3>1, <3>2, <3>3, <3>4 DEF OneLife, InFlight
  <2>5. ASSUME NEW s \in Chains, NEW w \in Fresh, Attach(s, w) PROVE OneLife'
    <3>1. chain[s] = "creating" /\ ~stopping /\ w \in Workers
      BY <2>5 DEF Attach, Fresh
    <3>2. \A t \in Chains : chain'[t] = "none"
      BY <2>2, <2>5, <3>1 DEF Attach, Proceed, TypeOK
    <3>3. transport' = w /\ call' = call
      BY <2>5 DEF Attach
    <3>4. \A v \in Workers : worker'[v] = "live" => v = w
      BY <2>2, <2>5, <3>1 DEF Attach, TypeOK
    <3>5. Idle
      BY <1>b, <3>1 DEF OneLife
    <3> QED
      BY <2>2, <3>1, <3>2, <3>3, <3>4, <3>5 DEF OneLife, InFlight, Idle
  <2>6. ASSUME NEW s \in Chains, RestartDue(s) PROVE OneLife'
    <3>1. s \in InFlight /\ transport = None
      BY <1>b, <2>6 DEF RestartDue, InFlight, OneLife
    <3>2. InFlight' \subseteq InFlight
      BY <2>6, <3>1 DEF RestartDue, Proceed, InFlight, TypeOK
    <3>3. Idle'
      BY <2>6 DEF RestartDue, Idle
    <3>4. UNCHANGED <<transport, worker, call, sentTo>>
      BY <2>6 DEF RestartDue
    <3> QED
      BY <1>b, <3>1, <3>2, <3>3, <3>4 DEF OneLife
  <2>7. CASE Stop
    <3>1. transport' = None /\ stopping'
      BY <2>7 DEF Stop
    <3>2. InFlight' \subseteq InFlight
      BY <2>7 DEF Stop, InFlight
    <3>3. \A w \in Workers : worker'[w] # "live"
      BY <1>b, <2>7 DEF Stop, OneLife
    <3>4. \A c \in Calls : call'[c] # "pending"
      BY <2>7, RejectAllLeaves DEF Stop
    <3> QED
      BY <1>b, <3>1, <3>2, <3>3, <3>4 DEF OneLife, LifeInv
  <2>8. ASSUME NEW c \in Calls, Call(c) PROVE OneLife'
    <3>1. transport # None /\ UNCHANGED <<transport, chain, worker, stopping>>
      BY <2>8 DEF Call
    <3>2. InFlight = {} /\ InFlight' = {}
      BY <1>b, <3>1 DEF OneLife, InFlight
    <3>3. \A d \in Calls : call'[d] # "free" =>
            IF d = c THEN sentTo'[d] = transport
                     ELSE sentTo'[d] = sentTo[d] /\ call'[d] = call[d]
      BY <2>8 DEF Call, TypeOK, Rejected
    <3>4. \A d \in Calls : call'[d] = "pending" => sentTo'[d] = transport'
      BY <1>b, <3>1, <3>3 DEF OneLife
    <3>5. \A h \in Pings : call'[h] = "failed" => sentTo'[h] = transport'
      BY <1>b, <3>1, <3>3 DEF OneLife, Calls
    <3>6. \A s \in Chains : chain'[s] # "creating"
      BY <3>2 DEF InFlight
    <3>7. \A w \in Workers : worker'[w] = "live" => w = transport'
      BY <1>b, <3>1 DEF OneLife
    <3> QED
      BY <3>2, <3>4, <3>5, <3>6, <3>7 DEF OneLife
  <2>9. ASSUME NEW c \in Calls, Answer(c) \/ TimeOut(c) PROVE OneLife'
    BY <1>b, <2>9, SettleKeepsLife DEF Answer, TimeOut
  <2>10. ASSUME NEW c \in Requests, Abort(c) PROVE OneLife'
    BY <1>b, <2>10, SettleKeepsLife DEF Abort, Calls
  <2>11. ASSUME NEW h \in Pings, PingFailed(h) PROVE OneLife'
    <3>1. UNCHANGED <<transport, chain, stopping>> /\ InFlight' = InFlight
      BY <2>11 DEF PingFailed, InFlight
    <3>2. \A c \in Calls : call'[c] # "free" => call'[c] = call[c] /\ sentTo'[c] = sentTo[c]
      BY <2>11 DEF PingFailed, Settle, TypeOK, Calls
    <3>3. \A w \in Workers : worker'[w] = "live" => worker[w] = "live"
      BY <2>11 DEF PingFailed, TypeOK
    <3>4. Idle => Idle'
      BY <3>2 DEF Idle, Calls
    <3>5. \A h1 \in Pings : h1 \in Calls
      BY DEF Calls
    <3> QED
      BY <1>b, <3>1, <3>2, <3>3, <3>4, <3>5 DEF OneLife
  <2>12. ASSUME NEW w \in Workers, Exit(w) PROVE OneLife'
    <3>1. CASE w \in listening
      <4>1. w = transport /\ transport # None
        BY <3>1 DEF TypeOK
      <4>2. PICK s \in Chains \ InFlight : ScheduleRestart(s)
        BY <2>12, <3>1 DEF Exit
      <4>3. \A t \in Chains : chain[t] = "none"
        BY <1>b, <4>1 DEF OneLife, InFlight
      <4>4. \A t \in Chains : chain'[t] # "creating" /\ (t # s => chain'[t] = "none")
        BY <4>2, <4>3, RestartTyped
      <4>5. \A v \in Workers : worker'[v] # "live"
        BY <1>b, <2>12, <4>1 DEF Exit, OneLife, TypeOK
      <4>6. \A c \in Calls : call'[c] # "pending"
        BY <2>12, <3>1, RejectAllLeaves DEF Exit
      <4>7. transport' = None
        BY <2>12, <3>1 DEF Exit
      <4> QED
        BY <4>4, <4>5, <4>6, <4>7 DEF OneLife, InFlight
    <3>2. CASE w \notin listening
      <4>1. UNCHANGED <<transport, chain, stopping, call, sentTo>>
        BY <2>12, <3>2 DEF Exit
      <4>2. \A v \in Workers : worker'[v] = "live" => worker[v] = "live"
        BY <2>12 DEF Exit, TypeOK
      <4> QED
        BY <1>b, <4>1, <4>2 DEF OneLife, InFlight, Idle
    <3> QED
      BY <3>1, <3>2
  <2>13. CASE UNCHANGED vars
    BY <1>b, <2>13 DEF OneLife, LifeInv, InFlight, Idle, vars
  <2>14. ASSUME NEW s \in Chains, CreateSettles(s) PROVE OneLife'
    BY <2>3, <2>4, <2>5, <2>14 DEF CreateSettles
  <2> QED
    BY <2>1, <2>6, <2>7, <2>8, <2>9, <2>10, <2>11, <2>12, <2>13, <2>14
       DEF LifeInv, Next, Crash, Die
<1> QED
  BY <1>a, <1>b DEF LifeInv
-----------------------------------------------------------------------------
(* The four parts hold together of every reachable state. *)
LEMMA InvCorrect == Spec => []IInv
<1>1. IInv /\ [Next]_vars => IInv'
  BY TypeStep, StopStep, HealthyStep, LifeStep DEF IInv
<1> QED
  BY InvInit, <1>1, PTL DEF Spec

(* Type correctness, with the link between the timer's handle and a chain. *)
THEOREM TypeCorrect == Spec => []TypeOK
<1>1. IInv => TypeOK
  BY DEF IInv
<1> QED
  BY InvCorrect, <1>1, PTL

(* A stopped supervisor stays stopped, whatever was under way. *)
THEOREM StopCorrect == Spec => []StopHolds
<1>1. IInv => StopHolds
  BY DEF IInv
<1> QED
  BY InvCorrect, <1>1, PTL

(* A healthy supervisor has a running, watched worker. *)
THEOREM HealthyCorrect == Spec => []HealthyIsSupervised
<1>1. IInv => HealthyIsSupervised
  BY DEF IInv
<1> QED
  BY InvCorrect, <1>1, PTL

(* Undisturbed, no worker runs unattended. *)
THEOREM NoStrayCorrect == Spec => []NoStrayWorker
<1>1. IInv => NoStrayWorker
  BY DEF IInv, LifeInv, OneLife, NoStrayWorker
<1> QED
  BY InvCorrect, <1>1, PTL

(* Undisturbed, every call that waits, waits for the attached worker. *)
THEOREM CallsFollowCorrect == Spec => []CallsFollowWorker
<1>1. IInv => CallsFollowWorker
  BY DEF IInv, LifeInv, OneLife, CallsFollowWorker
<1> QED
  BY InvCorrect, <1>1, PTL

(* Undisturbed, a failed ping gets no other worker terminated than the one *)
(* that did not answer it.                                                 *)
THEOREM PingsJudgeCorrect == Spec => PingsJudgeOwnWorker
<1> DEFINE Judges == \A h \in Pings :
      status = "healthy" /\ status' = "degraded" /\ call[h] # call'[h]
        => sentTo[h] = transport \/ disturbed
<1>1. ASSUME IInv, [Next]_vars PROVE Judges
  <2> SUFFICES ASSUME NEW h \in Pings, status = "healthy", status' = "degraded",
                      call[h] # call'[h]
               PROVE  sentTo[h] = transport \/ disturbed
    OBVIOUS
  <2>1. PICK g \in Pings : PingFailed(g)
    BY <1>1 DEF Next, vars, supervisor, Start, CreateSettles, CreateFails, ScheduleRestart,
                Discard, Attach, RestartDue, Stop, Call, Answer, TimeOut, Abort, Crash,
                Die, Exit
  <2>2. call[g] = "failed" /\ call' = [call EXCEPT ![g] = "free"]
    BY <2>1 DEF PingFailed, Settle
  <2>3. h = g
    BY <1>1, <2>2 DEF IInv, TypeOK, Calls
  <2>4. transport # None
    BY <1>1 DEF IInv, HealthyIsSupervised
  <2> QED
    BY <1>1, <2>2, <2>3, <2>4 DEF IInv, LifeInv, OneLife
<1> HIDE DEF Judges
<1>2. IInv /\ [Next]_vars => [Judges]_vars
  BY <1>1
<1>3. PingsJudgeOwnWorker <=> [][Judges]_vars
  BY DEF PingsJudgeOwnWorker, Judges
<1> QED
  BY InvCorrect, <1>2, <1>3, PTL DEF Spec
=============================================================================
