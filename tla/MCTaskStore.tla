---------------------------- MODULE MCTaskStore -----------------------------
(* Instances of TaskStore for TLC.                                         *)
EXTENDS TaskStore, TLC

(* Every native turn runs on the same receiver thread.                     *)
MCReceiver == [x \in NativeTurns |-> CHOOSE w \in Workspace : TRUE]
=============================================================================
