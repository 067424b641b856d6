-------------------------- MODULE MCTaskExecution --------------------------
(* Instances of TaskExecution for TLC.                                     *)
EXTENDS TaskExecution, TLC

\* Ids and command slots are interchangeable.
ExecSymmetry == Permutations(Tasks) \cup Permutations(Delegations)
                \cup Permutations(Attempts) \cup Permutations(Commands)
=============================================================================
