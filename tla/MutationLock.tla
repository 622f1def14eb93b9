---------------------------- MODULE MutationLock ----------------------------
(***************************************************************************)
(* The project mutation lock: packages/schema/src/project-lock.ts, and the *)
(* "clear-stale-lock" repair of the studio server, which moves the same    *)
(* file away.                                                              *)
(*                                                                         *)
(* The lock is a file.  Several processes (server sessions, CLI, agents)   *)
(* work on it with file system calls that are atomic one by one, so there  *)
(* is one action per call; "pc" says which call a process does next.  Time *)
(* is abstracted to a flag of the document in the file: its expiry has     *)
(* passed.  A document that is expired stays so, and a fresh one may       *)
(* expire at any moment, so any clock and any TTL is covered.              *)
(***************************************************************************)
EXTENDS Naturals

CONSTANTS
  Processes,   \* users of the lock
  Repairers,   \* operators that may run the clear-stale-lock repair
  Tokens,      \* random lock tokens; one is fresh when nothing refers to it
  None,
  MaxCrashes   \* bound on the processes that die while using the lock

(* A document is created empty and filled by a second call: until then it  *)
(* is not readable as JSON.                                                *)
Documents == [token : Tokens, written : BOOLEAN, expired : BOOLEAN]

ASSUME LockAssumption ==
  /\ None \notin Processes /\ None \notin Tokens /\ None \notin Documents
  /\ MaxCrashes \in Nat

VARIABLES
  pc,          \* the next call of each process
  token,       \* the token of the document a process wrote or will write
  observed,    \* the stale token an acquirer set out to recover
  lockFile,    \* .chai-lock.json: None or a document
  gate,        \* .chai-lock-recovery: None or the process that made it
  repair,      \* progress of each clear-stale-lock repair
  overrun,     \* history: a lease ran out under a process still using it
  cleared,     \* history: a repair moved the lock file away
  crashes      \* how many processes have died so far

vars ==
  <<pc, token, observed, lockFile, gate, repair, overrun, cleared, crashes>>

-----------------------------------------------------------------------------
EmptyDocument(t) == [token |-> t, written |-> FALSE, expired |-> FALSE]
FreshDocument(t) == [token |-> t, written |-> TRUE, expired |-> FALSE]

Readable(file) == file # None /\ file.written
Stale(file) == Readable(file) /\ file.expired

(* The calls between winning the lock and giving it up. *)
HolderSteps ==
  {"write", "rewrite", "ungate", "held", "beat", "release", "unlink"}

(* The calls made between making the recovery gate and removing it. *)
GateSteps == {"recheck", "quarantine", "recreate", "rewrite", "ungate", "giveUp"}

Steps == {"idle", "read", "gate"} \cup HolderSteps \cup GateSteps

Holders == {p \in Processes : pc[p] \in HolderSteps}

Broken == overrun \/ cleared

InUse ==
  {token[p] : p \in Processes} \cup {observed[p] : p \in Processes}
    \cup (IF lockFile = None THEN {} ELSE {lockFile.token})

-----------------------------------------------------------------------------
Init ==
  /\ pc = [p \in Processes |-> "idle"]
  /\ token = [p \in Processes |-> None]
  /\ observed = [p \in Processes |-> None]
  /\ lockFile = None
  /\ gate = None
  /\ repair = [r \in Repairers |-> "idle"]
  /\ overrun = FALSE
  /\ cleared = FALSE
  /\ crashes = 0

Goto(p, step) == pc' = [pc EXCEPT ![p] = step]

(* The process forgets the lock: it failed to get it, gave it up, or died. *)
Leave(p) ==
  /\ Goto(p, "idle")
  /\ token' = [token EXCEPT ![p] = None]
  /\ observed' = [observed EXCEPT ![p] = None]

OtherActors == <<repair, overrun, cleared, crashes>>

(* Creates the lock file, exclusively, under a token of the process's own. *)
CreateFile(p, next) ==
  \E t \in Tokens \ InUse :
    /\ lockFile' = EmptyDocument(t)
    /\ token' = [token EXCEPT ![p] = t]
    /\ Goto(p, next)

(* Fills the file the process created, unless the name was taken from it. *)
FillFile(p) ==
  lockFile' = IF lockFile # None /\ lockFile.token = token[p]
                THEN FreshDocument(token[p])
                ELSE lockFile

-----------------------------------------------------------------------------
(* Faulty: the lock file is opened without the exclusive flag. *)
Create_Overwrites(p) ==
  /\ pc[p] = "idle"
  /\ CreateFile(p, "write")
  /\ UNCHANGED <<observed, gate, OtherActors>>

(* acquireProjectMutationLock: create the file, or look at the one there. *)
Create(p) ==
  /\ pc[p] = "idle"
  /\ lockFile = None
  /\ CreateFile(p, "write")
  /\ UNCHANGED <<observed, gate, OtherActors>>

AlreadyLocked(p) ==
  /\ pc[p] = "idle"
  /\ lockFile # None
  /\ Goto(p, "read")
  /\ UNCHANGED <<token, observed, lockFile, gate, OtherActors>>

Write(p) ==
  /\ pc[p] = "write"
  /\ FillFile(p)
  /\ Goto(p, "held")
  /\ UNCHANGED <<token, observed, gate, OtherActors>>

(* The write or its sync fails: the caller gets the error, the file stays. *)
WriteFails(p) ==
  /\ pc[p] = "write"
  /\ Leave(p)
  /\ UNCHANGED <<lockFile, gate, OtherActors>>

(* Missing, unreadable or live: refused.  Stale: try to recover it. *)
ReadExisting(p) ==
  /\ pc[p] = "read"
  /\ IF Stale(lockFile)
       THEN /\ observed' = [observed EXCEPT ![p] = lockFile.token]
            /\ Goto(p, "gate")
            /\ UNCHANGED token
       ELSE Leave(p)
  /\ UNCHANGED <<lockFile, gate, OtherActors>>

(* Faulty: the process waits until the gate is gone. *)
EnterGate_Waits(p) ==
  /\ pc[p] = "gate" /\ gate = None
  /\ gate' = p
  /\ Goto(p, "recheck")
  /\ UNCHANGED <<token, observed, lockFile, OtherActors>>

(* recoverStaleLock: at most one process gets past mkdir of the gate. *)
EnterGate(p) ==
  /\ pc[p] = "gate"
  /\ IF gate = None
       THEN gate' = p /\ Goto(p, "recheck") /\ UNCHANGED <<token, observed>>
       ELSE Leave(p) /\ UNCHANGED gate
  /\ UNCHANGED <<lockFile, OtherActors>>

(* Faulty: the lock seen before the gate was made is taken for granted. *)
Recheck_Skipped(p) ==
  /\ pc[p] = "recheck"
  /\ Goto(p, "quarantine")
  /\ UNCHANGED <<token, observed, lockFile, gate, OtherActors>>

Recheck(p) ==
  /\ pc[p] = "recheck"
  /\ Goto(p, IF Stale(lockFile) /\ lockFile.token = observed[p]
               THEN "quarantine" ELSE "giveUp")
  /\ UNCHANGED <<token, observed, lockFile, gate, OtherActors>>

(* Moves whatever the name refers to by now into the gate directory. *)
Quarantine(p) ==
  /\ pc[p] = "quarantine"
  /\ Goto(p, IF lockFile = None THEN "giveUp" ELSE "recreate")
  /\ lockFile' = None
  /\ UNCHANGED <<token, observed, gate, OtherActors>>

Recreate(p) ==
  /\ pc[p] = "recreate"
  /\ IF lockFile = None
       THEN CreateFile(p, "rewrite")
       ELSE Goto(p, "giveUp") /\ UNCHANGED <<token, lockFile>>
  /\ UNCHANGED <<observed, gate, OtherActors>>

Rewrite(p) ==
  /\ pc[p] = "rewrite"
  /\ FillFile(p)
  /\ Goto(p, "ungate")
  /\ UNCHANGED <<token, observed, gate, OtherActors>>

RewriteFails(p) ==
  /\ pc[p] = "rewrite"
  /\ Goto(p, "giveUp")
  /\ token' = [token EXCEPT ![p] = None]
  /\ UNCHANGED <<observed, lockFile, gate, OtherActors>>

(* The finally clause of recoverStaleLock. *)
RemoveGate(p) ==
  /\ gate' = None
  /\ \/ /\ pc[p] = "ungate"
        /\ Goto(p, "held")
        /\ observed' = [observed EXCEPT ![p] = None]
        /\ UNCHANGED token
     \/ pc[p] = "giveUp" /\ Leave(p)
  /\ UNCHANGED <<lockFile, OtherActors>>

-----------------------------------------------------------------------------
(* assertLockOwnership *)
Owns(p) == Readable(lockFile) /\ lockFile.token = token[p]

(* heartbeat(): check ownership, then rename a fresh document over the     *)
(* file.  When the check throws, the caller goes on to its release.        *)
CheckHeartbeat(p) ==
  /\ pc[p] = "held"
  /\ Goto(p, IF Owns(p) THEN "beat" ELSE "release")
  /\ UNCHANGED <<token, observed, lockFile, gate, OtherActors>>

Heartbeat(p) ==
  /\ pc[p] = "beat"
  /\ lockFile' = FreshDocument(token[p])
  /\ Goto(p, "held")
  /\ UNCHANGED <<token, observed, gate, OtherActors>>

FinishWork(p) ==
  /\ pc[p] = "held"
  /\ Goto(p, "release")
  /\ UNCHANGED <<token, observed, lockFile, gate, OtherActors>>

(* release(): check ownership, then unlink the name. *)
CheckRelease(p) ==
  /\ pc[p] = "release"
  /\ IF Owns(p)
       THEN Goto(p, "unlink") /\ UNCHANGED <<token, observed>>
       ELSE Leave(p)
  /\ UNCHANGED <<lockFile, gate, OtherActors>>

Unlink(p) ==
  /\ pc[p] = "unlink"
  /\ lockFile' = None
  /\ Leave(p)
  /\ UNCHANGED <<gate, OtherActors>>

-----------------------------------------------------------------------------
(* Time passes the document's expiry.  The lease is overrun when the       *)
(* process it was granted to has not given it up.                          *)
Expire ==
  /\ Readable(lockFile)
  /\ lockFile' = [lockFile EXCEPT !.expired = TRUE]
  /\ overrun' = (overrun \/ \E p \in Holders : token[p] = lockFile.token)
  /\ UNCHANGED <<pc, token, observed, gate, repair, cleared, crashes>>

(* A process dies between two calls; what it left on disk stays there. *)
Crash(p) ==
  /\ pc[p] # "idle"
  /\ crashes < MaxCrashes
  /\ crashes' = crashes + 1
  /\ Leave(p)
  /\ UNCHANGED <<lockFile, gate, repair, overrun, cleared>>

(* ReliabilityService.repair, clear-stale-lock: check the expiry, hash the *)
(* file for evidence, then move it into the repair quarantine.             *)
CheckStaleLock(r) ==
  /\ repair[r] = "idle"
  /\ Stale(lockFile)
  /\ repair' = [repair EXCEPT ![r] = "clearing"]
  /\ UNCHANGED <<pc, token, observed, lockFile, gate, overrun, cleared, crashes>>

ClearStaleLock(r) ==
  /\ repair[r] = "clearing"
  /\ repair' = [repair EXCEPT ![r] = "idle"]
  /\ lockFile' = None
  /\ cleared' = (cleared \/ lockFile # None)
  /\ UNCHANGED <<pc, token, observed, gate, overrun, crashes>>

-----------------------------------------------------------------------------
AcquireStep(p) ==
  \/ AlreadyLocked(p) \/ Create(p) \/ Write(p) \/ ReadExisting(p)
  \/ EnterGate(p) \/ Recheck(p) \/ Quarantine(p) \/ Recreate(p)
  \/ Rewrite(p) \/ RemoveGate(p)

HoldStep(p) ==
  CheckHeartbeat(p) \/ Heartbeat(p) \/ FinishWork(p) \/ CheckRelease(p) \/ Unlink(p)

Failure(p) == WriteFails(p) \/ RewriteFails(p) \/ Crash(p)

Next ==
  \/ \E p \in Processes : AcquireStep(p) \/ HoldStep(p) \/ Failure(p)
  \/ \E r \in Repairers : CheckStaleLock(r) \/ ClearStaleLock(r)
  \/ Expire

Spec == Init /\ [][Next]_vars

(***************************************************************************)
(* Each call a process has started on returns, so its next step happens;   *)
(* holders finish their work, and clocks move.  Callers retry: an          *)
(* acquisition that was refused is tried again.  Nothing obliges a process *)
(* to crash, an error to occur or an operator to run a repair.             *)
(***************************************************************************)
FairSpec ==
  /\ Spec
  /\ WF_vars(Expire)
  /\ \A p \in Processes : WF_vars(AcquireStep(p)) /\ WF_vars(HoldStep(p))
                            /\ SF_vars(FinishWork(p))
-----------------------------------------------------------------------------
(* Every variable has its type, and a process has a token just while it    *)
(* believes it holds the lock: a handle that failed, was released or whose *)
(* release threw is never used again (project-lock.ts, "released").        *)
TypeOK ==
  /\ pc \in [Processes -> Steps]
  /\ token \in [Processes -> Tokens \cup {None}]
  /\ observed \in [Processes -> Tokens \cup {None}]
  /\ lockFile \in Documents \cup {None}
  /\ gate \in Processes \cup {None}
  /\ repair \in [Repairers -> {"idle", "clearing"}]
  /\ overrun \in BOOLEAN /\ cleared \in BOOLEAN
  /\ crashes \in 0..MaxCrashes
  /\ \A p \in Processes : token[p] # None <=> pc[p] \in HolderSteps

(* While no holder outlives its lease and no repair has moved the file, at *)
(* most one process believes it holds the lock, however acquisitions,      *)
(* recoveries of dead holders' locks, crashes and I/O errors interleave.   *)
MutualExclusion ==
  Broken \/ \A p, q \in Holders : p = q

(* Under the same proviso the file on disk is the holder's own document,   *)
(* so its ownership checks succeed and its release removes its own lock.   *)
HolderOwnsFile ==
  Broken \/ \A p \in Holders : lockFile # None /\ lockFile.token = token[p]

(* Whatever else happens, overruns and repairs included, one process at a  *)
(* time recovers a stale lock; and while no process has died the gate is   *)
(* never left behind by one that finished, failed or was refused.          *)
GateExclusive ==
  /\ \A p \in Processes : pc[p] \in GateSteps => gate = p
  /\ gate # None /\ crashes = 0 => pc[gate] \in GateSteps

(* A process that holds an unexpired lock keeps it: no step of another     *)
(* process takes the document away, unless the lease discipline is broken. *)
LiveLockNotDisplaced ==
  [][\A p \in Holders :
       /\ lockFile # None /\ lockFile.token = token[p] /\ ~lockFile.expired
       /\ lockFile' = None \/ lockFile'.token # token[p]
       => pc'[p] = "idle" \/ Broken']_vars

(* The lock file and recovery protocol implement the abstract lease.       *)
Lease == INSTANCE LeaseLock WITH holders <- Holders, broken <- Broken
ImplementsLease == Lease!Spec

(* Every acquisition and every release comes to an end: no caller waits in *)
(* the lock code for another one, not even behind an abandoned gate.       *)
CallsReturn ==
  \A p \in Processes : pc[p] # "idle" ~> pc[p] \in {"idle", "held"}
=============================================================================
