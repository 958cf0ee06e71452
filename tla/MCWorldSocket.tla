---------------------------- MODULE MCWorldSocket ----------------------------
(* Instances of WorldSocket for TLC.                                       *)
EXTENDS WorldSocket, TLC

CONSTANTS world, mapWorker
=============================================================================
