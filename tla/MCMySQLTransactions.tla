------------------------ MODULE MCMySQLTransactions -------------------------
(* Instances of MySQLTransactions for TLC.                                 *)
EXTENDS MySQLTransactions, TLC

CONSTANTS w1, w2, k1, t1, t2

TwoTransactions == t1 :> 2 @@ t2 :> 1
OneTransaction == t1 :> 2
=============================================================================
