-------------------------- MODULE MCBattlegrounds ---------------------------
(* Battlegrounds for TLC: the players of a team are interchangeable.       *)
EXTENDS Battlegrounds, TLC

CONSTANTS a1, a2, h1

Interchangeable == Permutations(Alliance) \cup Permutations(Horde)
=============================================================================
