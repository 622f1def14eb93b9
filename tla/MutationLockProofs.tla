-------------------------- MODULE MutationLockProofs --------------------------
(***************************************************************************)
(* Theorems about the project mutation lock, for any number of processes,  *)
(* repairers, tokens and crashes.                                          *)
(***************************************************************************)
EXTENDS MutationLock, TLAPS

(***************************************************************************)
(* Why the lock excludes: while the lease discipline holds, a holder's     *)
(* file is unexpired, so whoever set out to quarantine an expired file,    *)
(* alone in the gate, moves a file that has no holder.                     *)
(***************************************************************************)
LeaseInv ==
  Broken \/
    /\ \A p, q \in Holders : p = q
    /\ \A p \in Holders :
         lockFile # None /\ lockFile.token = token[p] /\ ~lockFile.expired
    /\ \A p \in Processes : pc[p] = "quarantine" => Stale(lockFile)

IInv == TypeOK /\ GateExclusive /\ LeaseInv

-----------------------------------------------------------------------------
(* Documents are documents, and distinguishable from the absent file. *)
LEMMA DocumentFacts ==
  ASSUME NEW t \in Tokens
  PROVE  /\ EmptyDocument(t) \in Documents /\ FreshDocument(t) \in Documents
         /\ EmptyDocument(t) # None /\ FreshDocument(t) # None
<1>1. EmptyDocument(t) \in Documents /\ FreshDocument(t) \in Documents
  BY DEF EmptyDocument, FreshDocument, Documents
<1> QED
  BY <1>1, LockAssumption

(* TypeOK holds initially, and every step preserves it. *)
LEMMA TypeInit == Init => TypeOK
<1> SUFFICES ASSUME Init PROVE TypeOK
  OBVIOUS
<1>1. /\ pc \in [Processes -> Steps]
      /\ repair \in [Repairers -> {"idle", "clearing"}]
  BY DEF Init, Steps
<1>2. \A p \in Processes : token[p] = None /\ pc[p] \notin HolderSteps
  BY DEF Init, HolderSteps
<1>3. /\ token \in [Processes -> Tokens \cup {None}]
      /\ observed \in [Processes -> Tokens \cup {None}]
  BY DEF Init
<1>4. crashes \in 0..MaxCrashes
  BY LockAssumption DEF Init
<1> QED
  BY <1>1, <1>2, <1>3, <1>4 DEF Init, TypeOK

(* Each call leaves every variable in its type. *)
LEMMA TypeStep == TypeOK /\ [Next]_vars => TypeOK'
<1> SUFFICES ASSUME TypeOK, [Next]_vars PROVE TypeOK'
  OBVIOUS
<1> USE LockAssumption DEF TypeOK, Steps, GateSteps, HolderSteps, Goto, Leave, OtherActors
<1>1. ASSUME NEW p \in Processes, AcquireStep(p) PROVE TypeOK'
  <2>1. CASE AlreadyLocked(p)
    BY <2>1 DEF AlreadyLocked
  <2>2. CASE Create(p)
    BY <2>2, DocumentFacts DEF Create, CreateFile
  <2>3. CASE Write(p)
    BY <2>3, DocumentFacts DEF Write, FillFile
  <2>4. CASE ReadExisting(p)
    BY <2>4 DEF ReadExisting, Stale, Readable, Documents
  <2>5. CASE EnterGate(p)
    BY <2>5 DEF EnterGate
  <2>6. CASE Recheck(p)
    BY <2>6 DEF Recheck
  <2>7. CASE Quarantine(p)
    BY <2>7 DEF Quarantine
  <2>8. CASE Recreate(p)
    BY <2>8, DocumentFacts DEF Recreate, CreateFile
  <2>9. CASE Rewrite(p)
    BY <2>9, DocumentFacts DEF Rewrite, FillFile
  <2>10. CASE RemoveGate(p)
    BY <2>10 DEF RemoveGate
  <2> QED
    BY <1>1, <2>1, <2>2, <2>3, <2>4, <2>5, <2>6, <2>7, <2>8, <2>9, <2>10 DEF AcquireStep
<1>2. ASSUME NEW p \in Processes, HoldStep(p) PROVE TypeOK'
  <2>1. CASE CheckHeartbeat(p)
    BY <2>1 DEF CheckHeartbeat
  <2>2. CASE Heartbeat(p)
    BY <2>2, DocumentFacts DEF Heartbeat
  <2>3. CASE FinishWork(p)
    BY <2>3 DEF FinishWork
  <2>4. CASE CheckRelease(p)
    BY <2>4 DEF CheckRelease
  <2>5. CASE Unlink(p)
    BY <2>5 DEF Unlink
  <2> QED
    BY <1>2, <2>1, <2>2, <2>3, <2>4, <2>5 DEF HoldStep
<1>3. ASSUME NEW p \in Processes, Failure(p) PROVE TypeOK'
  BY <1>3 DEF Failure, WriteFails, RewriteFails, Crash
<1>4. ASSUME NEW r \in Repairers, CheckStaleLock(r) \/ ClearStaleLock(r) PROVE TypeOK'
  BY <1>4 DEF CheckStaleLock, ClearStaleLock
<1>5. CASE Expire
  BY <1>5 DEF Expire, Readable, Documents
<1>6. CASE UNCHANGED vars
  BY <1>6 DEF vars
<1> QED
  BY <1>1, <1>2, <1>3, <1>4, <1>5, <1>6 DEF Next

(* Every variable has its type, and a process has a token just while it    *)
(* believes it holds the lock.                                             *)
THEOREM TypeCorrect == Spec => []TypeOK
BY TypeInit, TypeStep, PTL DEF Spec

-----------------------------------------------------------------------------
(* The gate admits one process: only its owner, or its owner's death,      *)
(* takes a process out of the steps behind it.                             *)
LEMMA GateStep == TypeOK /\ GateExclusive /\ [Next]_vars => GateExclusive'
<1> SUFFICES ASSUME TypeOK, GateExclusive, [Next]_vars PROVE GateExclusive'
  OBVIOUS
<1> USE LockAssumption DEF GateExclusive, GateSteps, Goto, Leave, OtherActors
<1>1. pc \in [Processes -> Steps] /\ gate \in Processes \cup {None} /\ crashes \in Nat
  BY DEF TypeOK
<1>2. ASSUME NEW p \in Processes, AcquireStep(p) PROVE GateExclusive'
  <2>1. CASE AlreadyLocked(p) \/ Create(p) \/ Write(p) \/ ReadExisting(p)
    BY <1>1, <2>1 DEF AlreadyLocked, Create, CreateFile, Write, ReadExisting
  <2>2. CASE EnterGate(p)
    BY <1>1, <2>2 DEF EnterGate
  <2>3. CASE Recheck(p) \/ Quarantine(p) \/ Recreate(p) \/ Rewrite(p)
    BY <1>1, <2>3 DEF Recheck, Quarantine, Recreate, CreateFile, Rewrite
  <2>4. CASE RemoveGate(p)
    BY <1>1, <2>4 DEF RemoveGate
  <2> QED
    BY <1>2, <2>1, <2>2, <2>3, <2>4 DEF AcquireStep
<1>3. ASSUME NEW p \in Processes, HoldStep(p) PROVE GateExclusive'
  BY <1>1, <1>3
     DEF HoldStep, CheckHeartbeat, Heartbeat, FinishWork, CheckRelease, Unlink
<1>4. ASSUME NEW p \in Processes, Failure(p) PROVE GateExclusive'
  <2>1. CASE WriteFails(p) \/ RewriteFails(p)
    BY <1>1, <2>1 DEF WriteFails, RewriteFails
  <2>2. CASE Crash(p)
    BY <1>1, <2>2 DEF Crash
  <2> QED
    BY <1>4, <2>1, <2>2 DEF Failure
<1>5. ASSUME NEW r \in Repairers, CheckStaleLock(r) \/ ClearStaleLock(r)
      PROVE GateExclusive'
  BY <1>5 DEF CheckStaleLock, ClearStaleLock
<1>6. CASE Expire \/ UNCHANGED vars
  BY <1>6 DEF Expire, vars
<1> QED
  BY <1>2, <1>3, <1>4, <1>5, <1>6 DEF Next

(* One process at a time recovers a stale lock, and while no process has   *)
(* died the recovery gate is not left behind.                              *)
THEOREM GateCorrect == Spec => []GateExclusive
<1>1. Init => GateExclusive
  BY LockAssumption DEF Init, GateExclusive, GateSteps
<1> QED
  BY <1>1, GateStep, TypeCorrect, PTL DEF Spec

-----------------------------------------------------------------------------
(* Each step preserves the strengthening, or breaks the lease discipline.  *)
LEMMA LeaseStep ==
  TypeOK /\ GateExclusive /\ LeaseInv /\ [Next]_vars => LeaseInv'
<1> SUFFICES ASSUME TypeOK, GateExclusive, LeaseInv, [Next]_vars, ~Broken'
             PROVE LeaseInv'
  BY DEF LeaseInv
<1>1. ~Broken
  BY DEF Next, AcquireStep, HoldStep, Failure, AlreadyLocked, Create, Write,
         ReadExisting, EnterGate, Recheck, Quarantine, Recreate, Rewrite,
         RemoveGate, CheckHeartbeat, Heartbeat, FinishWork, CheckRelease, Unlink,
         WriteFails, RewriteFails, Crash, CheckStaleLock, ClearStaleLock, Expire,
         OtherActors, Broken, vars, TypeOK
<1>2. /\ \A p, q \in Holders : p = q
      /\ \A p \in Holders :
           lockFile # None /\ lockFile.token = token[p] /\ ~lockFile.expired
      /\ \A p \in Processes : pc[p] = "quarantine" => Stale(lockFile)
  BY <1>1 DEF LeaseInv
<1>3. /\ pc \in [Processes -> Steps]
      /\ token \in [Processes -> Tokens \cup {None}]
      /\ lockFile \in Documents \cup {None}
  BY DEF TypeOK
(* Behind the gate a process is alone. *)
<1>4. \A p, q \in Processes : pc[p] \in GateSteps /\ pc[q] \in GateSteps => p = q
  BY DEF GateExclusive
<1> USE LockAssumption DEF LeaseInv, Holders, HolderSteps, Goto, Leave, OtherActors
(* Where there is no file there is no holder: its creator is the first. *)
<1>5. ASSUME NEW p \in Processes, lockFile = None,
             CreateFile(p, "write") \/ CreateFile(p, "rewrite")
      PROVE  LeaseInv'
  <2>1. PICK t \in Tokens : lockFile' = EmptyDocument(t) /\ token' = [token EXCEPT ![p] = t]
    BY <1>5 DEF CreateFile
  <2>2. /\ Holders = {} /\ \A q \in Processes : pc[q] # "quarantine"
    BY <1>2, <1>5 DEF Stale, Readable
  <2>3. Holders' = {p} /\ \A q \in Processes : pc'[q] # "quarantine"
    BY <1>3, <1>5, <2>2 DEF CreateFile
  <2>4. lockFile' # None /\ lockFile'.token = token'[p] /\ ~lockFile'.expired
    BY <1>3, <2>1, DocumentFacts DEF EmptyDocument
  <2> QED
    BY <2>3, <2>4
<1>6. ASSUME NEW p \in Processes, AcquireStep(p) PROVE LeaseInv'
  <2>1. CASE AlreadyLocked(p)
    BY <1>2, <1>3, <2>1 DEF AlreadyLocked
  <2>2. CASE Create(p)
    BY <1>5, <2>2 DEF Create
  <2>3. CASE Write(p)
    <3>1. /\ lockFile' = FreshDocument(token[p])
          /\ FreshDocument(token[p]) # None
      BY <1>2, <1>3, <2>3, DocumentFacts DEF Write, FillFile, Documents
    <3> QED
      BY <1>2, <1>3, <2>3, <3>1 DEF Write, FreshDocument, Stale, Readable
  <2>4. CASE ReadExisting(p)
    BY <1>2, <1>3, <2>4 DEF ReadExisting
  <2>5. CASE EnterGate(p)
    BY <1>2, <1>3, <2>5 DEF EnterGate
  <2>6. CASE Recheck(p)
    BY <1>2, <1>3, <2>6 DEF Recheck, Stale, Readable
  <2>7. CASE Quarantine(p)
    BY <1>2, <1>3, <1>4, <2>7 DEF Quarantine, GateSteps, Stale, Readable
  <2>8. CASE Recreate(p)
    <3>1. CASE lockFile # None
      BY <1>2, <1>3, <2>8, <3>1 DEF Recreate
    <3>2. CASE lockFile = None
      BY <1>5, <2>8, <3>2 DEF Recreate
    <3> QED
      BY <3>1, <3>2
  <2>9. CASE Rewrite(p)
    <3>1. /\ lockFile' = FreshDocument(token[p])
          /\ FreshDocument(token[p]) # None
      BY <1>2, <1>3, <2>9, DocumentFacts DEF Rewrite, FillFile, Documents
    <3> QED
      BY <1>2, <1>3, <2>9, <3>1 DEF Rewrite, FreshDocument, Stale, Readable
  <2>10. CASE RemoveGate(p)
    BY <1>2, <1>3, <2>10 DEF RemoveGate
  <2> QED
    BY <1>6, <2>1, <2>2, <2>3, <2>4, <2>5, <2>6, <2>7, <2>8, <2>9, <2>10 DEF AcquireStep
<1>7. ASSUME NEW p \in Processes, HoldStep(p) PROVE LeaseInv'
  <2>1. CASE CheckHeartbeat(p) \/ FinishWork(p)
    BY <1>2, <1>3, <2>1 DEF CheckHeartbeat, FinishWork, Stale, Readable
  <2>2. CASE Heartbeat(p)
    BY <1>2, <1>3, <2>2, DocumentFacts, TypeStep
       DEF Heartbeat, FreshDocument, Stale, Readable, TypeOK
  <2>3. CASE CheckRelease(p)
    BY <1>2, <1>3, <2>3 DEF CheckRelease
  <2>4. CASE Unlink(p)
    BY <1>2, <1>3, <2>4 DEF Unlink, Stale, Readable
  <2> QED
    BY <1>7, <2>1, <2>2, <2>3, <2>4 DEF HoldStep
<1>8. ASSUME NEW p \in Processes, Failure(p) PROVE LeaseInv'
  BY <1>2, <1>3, <1>8 DEF Failure, WriteFails, RewriteFails, Crash
<1>9. ASSUME NEW r \in Repairers, CheckStaleLock(r) \/ ClearStaleLock(r)
      PROVE LeaseInv'
  BY <1>2, <1>9 DEF CheckStaleLock, ClearStaleLock, Broken
<1>10. CASE Expire
  BY <1>2, <1>3, <1>10 DEF Expire, Broken, Readable, Stale, Documents
<1>11. CASE UNCHANGED vars
  BY <1>2, <1>11 DEF vars
<1> QED
  BY <1>6, <1>7, <1>8, <1>9, <1>10, <1>11 DEF Next

(* The inductive invariant holds of every behaviour. *)
THEOREM LeaseCorrect == Spec => []LeaseInv
<1>1. Init => LeaseInv
  BY LockAssumption DEF Init, LeaseInv, Holders, HolderSteps
<1> QED
  BY <1>1, LeaseStep, TypeCorrect, GateCorrect, PTL DEF Spec

(* Types, the gate and the lease together: the inductive invariant holds. *)
LEMMA InvCorrect == Spec => []IInv
BY TypeCorrect, GateCorrect, LeaseCorrect, PTL DEF IInv

(* Until the lease discipline is broken, at most one process believes it   *)
(* holds the lock.                                                         *)
THEOREM MutualExclusionCorrect == Spec => []MutualExclusion
<1>1. LeaseInv => MutualExclusion
  BY DEF LeaseInv, MutualExclusion
<1> QED
  BY <1>1, LeaseCorrect, PTL

(* Until then, the file on disk is the holder's own document. *)
THEOREM HolderOwnsFileCorrect == Spec => []HolderOwnsFile
<1>1. LeaseInv => HolderOwnsFile
  BY DEF LeaseInv, HolderOwnsFile
<1> QED
  BY <1>1, LeaseCorrect, PTL

-----------------------------------------------------------------------------
(* Every step of the protocol acquires or drops the abstract lease, breaks *)
(* it, or leaves it alone.                                                 *)
LEMMA LeaseRefined ==
  IInv /\ [Next]_vars => [Lease!Next]_(Lease!leaseVars)
<1> SUFFICES ASSUME TypeOK, LeaseInv, [Next]_vars
             PROVE [Lease!Next]_(Lease!leaseVars)
  BY DEF IInv
<1> DEFINE Same == Holders' = Holders /\ Broken' = Broken
<1>1. pc \in [Processes -> Steps] /\ overrun \in BOOLEAN /\ cleared \in BOOLEAN
  BY DEF TypeOK
<1>2. Same => [Lease!Next]_(Lease!leaseVars)
  BY DEF Lease!leaseVars
<1>3. ASSUME NEW p \in Processes, p \notin Holders, Holders = {} \/ Broken,
             Holders' = Holders \cup {p}, Broken' = Broken
      PROVE  Lease!Next
  BY <1>3 DEF Lease!Next, Lease!Acquire
<1>4. ASSUME NEW p \in Processes, Holders' = Holders \ {p}, Broken' = Broken
      PROVE  [Lease!Next]_(Lease!leaseVars)
  <2>1. CASE p \in Holders
    BY <1>4, <2>1 DEF Lease!Next, Lease!Drop
  <2>2. CASE p \notin Holders
    BY <1>2, <1>4, <2>2
  <2> QED
    BY <2>1, <2>2
<1>5. ASSUME Holders' = Holders, Broken' = TRUE
      PROVE  [Lease!Next]_(Lease!leaseVars)
  BY <1>5 DEF Lease!Next, Lease!Break
<1> HIDE DEF Same
<1> USE DEF Goto, Leave, OtherActors
<1>6. ASSUME NEW p \in Processes, AcquireStep(p)
      PROVE [Lease!Next]_(Lease!leaseVars)
  <2>1. CASE Create(p) \/ (Recreate(p) /\ lockFile = None)
    <3>1. Holders = {} \/ Broken
      BY <2>1 DEF LeaseInv, Create
    <3>2. p \notin Holders /\ Holders' = Holders \cup {p} /\ Broken' = Broken
      BY <1>1, <2>1 DEF Create, Recreate, CreateFile, Holders, HolderSteps, Broken
    <3> QED
      BY <1>3, <3>1, <3>2
  <2>2. CASE \/ AlreadyLocked(p) \/ Write(p) \/ ReadExisting(p) \/ EnterGate(p)
             \/ Recheck(p) \/ Quarantine(p) \/ Rewrite(p) \/ RemoveGate(p)
             \/ (Recreate(p) /\ lockFile # None)
    <3>1. Same
      BY <1>1, <2>2
         DEF Same, AlreadyLocked, Write, ReadExisting, EnterGate, Recheck,
             Quarantine, Rewrite, RemoveGate, Recreate, Holders, HolderSteps, Broken
    <3> QED
      BY <1>2, <3>1
  <2> QED
    BY <1>6, <2>1, <2>2 DEF AcquireStep
<1>7. ASSUME NEW p \in Processes, HoldStep(p)
      PROVE [Lease!Next]_(Lease!leaseVars)
  <2>1. CASE CheckHeartbeat(p) \/ Heartbeat(p) \/ FinishWork(p)
    <3>1. Same
      BY <1>1, <2>1
         DEF Same, CheckHeartbeat, Heartbeat, FinishWork, Holders, HolderSteps, Broken
    <3> QED
      BY <1>2, <3>1
  <2>2. CASE CheckRelease(p) \/ Unlink(p)
    <3>1. Broken' = Broken /\ (Holders' = Holders \/ Holders' = Holders \ {p})
      BY <1>1, <2>2 DEF CheckRelease, Unlink, Holders, HolderSteps, Broken
    <3> QED
      BY <1>2, <1>4, <3>1 DEF Same
  <2> QED
    BY <1>7, <2>1, <2>2 DEF HoldStep
<1>8. ASSUME NEW p \in Processes, Failure(p)
      PROVE [Lease!Next]_(Lease!leaseVars)
  <2>1. Broken' = Broken /\ Holders' = Holders \ {p}
    BY <1>1, <1>8 DEF Failure, WriteFails, RewriteFails, Crash, Holders, HolderSteps, Broken
  <2> QED
    BY <1>4, <2>1
<1>9. ASSUME \/ \E r \in Repairers : CheckStaleLock(r) \/ ClearStaleLock(r)
             \/ Expire \/ UNCHANGED vars
      PROVE [Lease!Next]_(Lease!leaseVars)
  <2>1. Holders' = Holders /\ (Broken' = Broken \/ Broken' = TRUE)
    BY <1>1, <1>9 DEF CheckStaleLock, ClearStaleLock, Expire, vars, Holders, Broken
  <2> QED
    BY <1>2, <1>5, <2>1 DEF Same
<1> QED
  BY <1>6, <1>7, <1>8, <1>9 DEF Next

(* The lock file and its recovery protocol implement the abstract lease    *)
(* that CommandEngine is built on.                                         *)
THEOREM Refinement == Spec => ImplementsLease
<1>1. Init => Lease!Init
  BY DEF Init, Lease!Init, Holders, HolderSteps, Broken
<1> QED
  BY <1>1, LeaseRefined, InvCorrect, PTL DEF Spec, ImplementsLease, Lease!Spec

-----------------------------------------------------------------------------
(* A holder's token stays until it forgets the lock. *)
LEMMA HolderStep ==
  ASSUME TypeOK, [Next]_vars, NEW p \in Holders
  PROVE  \/ p \in Holders' /\ token'[p] = token[p]
         \/ pc'[p] = "idle"
         \/ lockFile' = lockFile
<1>1. /\ p \in Processes /\ pc[p] \in HolderSteps
      /\ pc \in [Processes -> Steps]
      /\ token \in [Processes -> Tokens \cup {None}]
  BY DEF Holders, TypeOK
<1> USE DEF Holders, HolderSteps, Goto, Leave
<1>2. ASSUME NEW q \in Processes, AcquireStep(q) PROVE p \in Holders' /\ token'[p] = token[p]
  BY <1>1, <1>2
     DEF AcquireStep, AlreadyLocked, Create, CreateFile, Write, ReadExisting, EnterGate,
         Recheck, Quarantine, Recreate, Rewrite, RemoveGate
<1>3. ASSUME NEW q \in Processes, HoldStep(q)
      PROVE  (p \in Holders' /\ token'[p] = token[p]) \/ pc'[p] = "idle"
  BY <1>1, <1>3
     DEF HoldStep, CheckHeartbeat, Heartbeat, FinishWork, CheckRelease, Unlink
<1>4. ASSUME NEW q \in Processes, Failure(q) PROVE lockFile' = lockFile
  BY <1>4 DEF Failure, WriteFails, RewriteFails, Crash
<1>5. ASSUME \/ \E r \in Repairers : CheckStaleLock(r) \/ ClearStaleLock(r)
             \/ Expire \/ UNCHANGED vars
      PROVE  p \in Holders' /\ token'[p] = token[p]
  BY <1>1, <1>5 DEF CheckStaleLock, ClearStaleLock, Expire, vars
<1> QED
  BY <1>2, <1>3, <1>4, <1>5 DEF Next

(* A holder keeps its unexpired lock file against every other process. *)
THEOREM LiveLockKept == Spec => LiveLockNotDisplaced
<1> DEFINE Kept == \A p \in Holders :
      /\ lockFile # None /\ lockFile.token = token[p] /\ ~lockFile.expired
      /\ lockFile' = None \/ lockFile'.token # token[p]
      => pc'[p] = "idle" \/ Broken'
<1>1. IInv /\ IInv' /\ [Next]_vars => Kept
  BY HolderStep DEF IInv, LeaseInv
<1>2. IInv /\ IInv' /\ [Next]_vars => [Kept]_vars
  BY <1>1
<1> QED
  BY <1>2, InvCorrect, PTL DEF Spec, LiveLockNotDisplaced
=============================================================================
