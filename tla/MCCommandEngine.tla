--------------------------- MODULE MCCommandEngine ---------------------------
(* Instances of CommandEngine for TLC. *)
EXTENDS CommandEngine, TLC

(* Every command under an idempotency key of its own. *)
OwnKeys == [c \in Commands |-> c]

Do(kind, steps) == [kind |-> kind, steps |-> steps]

EditsAndChecks == {Do("edit", 1), Do("validate", 1), Do("foreign", 1)}
History == {Do("undo", 1), Do("undo", 2), Do("redo", 1), Do("redo", 2),
            Do("source", 1)}
Sources == {Do("source", 1), Do("undo", 1)}

Symmetric == Permutations(Processes) \cup Permutations(Commands)
=============================================================================
