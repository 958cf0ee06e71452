-------------------------- MODULE MCWorldSessions --------------------------
(* Instances of WorldSessions for TLC.  In one of them account a1 connects *)
(* twice, and replaces its session while it waits, plays or loads.         *)
EXTENDS WorldSessions

CONSTANTS s1, s2, s3, a1, a2, a3

TwoAccounts == s1 :> a1 @@ s2 :> a1 @@ s3 :> a2
ThreeSingles == s1 :> a1 @@ s2 :> a2 @@ s3 :> a3

(* Sessions may change places if their accounts do too.                    *)
Symmetry ==
    {[x \in Session \union Account |->
        IF x \in Session THEN p[x]
        ELSE AccountOf[p[CHOOSE s \in Session : AccountOf[s] = x]]] :
     p \in {q \in Permutations(Session) :
             \A s, t \in Session :
                 AccountOf[s] = AccountOf[t] => AccountOf[q[s]] = AccountOf[q[t]]}}
=============================================================================
