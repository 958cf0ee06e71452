------------------------ MODULE MCDatabaseWorkerPool ------------------------
(* Instances of DatabaseWorkerPool for TLC.                                *)
EXTENDS DatabaseWorkerPool, TLC

CONSTANTS op1, op2, op3
=============================================================================
