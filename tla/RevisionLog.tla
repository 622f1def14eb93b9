----------------------------- MODULE RevisionLog -----------------------------
(***************************************************************************)
(* What project authority promises to its clients (ADR 0005): the accepted *)
(* commands form one sequence.  A command is accepted at the end of it, or *)
(* not at all, and never twice.  Only when the lease discipline of the     *)
(* lock is broken may a commit replace what was accepted since its base.   *)
(***************************************************************************)
EXTENDS Naturals, Sequences, SequencesExt

CONSTANT Commands

VARIABLES
  log,     \* the commands of the authoritative revision's ancestry, in order
  broken

logVars == <<log, broken>>

LogTypeOK == log \in Seq(Commands) /\ broken \in BOOLEAN

Init == log = <<>> /\ broken = FALSE

Accept(c) ==
  /\ c \notin ToSet(log)
  /\ log' = Append(log, c)
  /\ UNCHANGED broken

(* A late commit brings back the history it was based on. *)
Replace ==
  /\ broken
  /\ log' \in Seq(Commands) /\ IsInjective(log')
  /\ UNCHANGED broken

Break == broken' = TRUE /\ UNCHANGED log

Next == Break \/ Replace \/ \E c \in Commands : Accept(c)

Spec == Init /\ [][Next]_logVars
=============================================================================
