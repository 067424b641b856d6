---------------------------- MODULE MCTaskStore ----------------------------
(* Instances of TaskStore for TLC.                                         *)
EXTENDS TaskStore, TLC

\* Ids are interchangeable: no definition of TaskStore orders or names one.
StoreSymmetry == Permutations(Tasks) \cup Permutations(Delegations)
                 \cup Permutations(Attempts)
=============================================================================
