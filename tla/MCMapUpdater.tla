---------------------------- MODULE MCMapUpdater -----------------------------
(* Instances of MapUpdater for TLC.                                        *)
EXTENDS MapUpdater, TLC

CONSTANTS b1, b2, i1, i2, i3, w1, w2, w3

(* Two dungeons, of two instances and of one.  Without a loaded instance a *)
(* base map behaves like a continent.                                      *)
Dungeons == i1 :> b1 @@ i2 :> b1 @@ i3 :> b2
=============================================================================
