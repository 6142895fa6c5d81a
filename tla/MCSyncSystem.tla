---------------------------- MODULE MCSyncSystem ----------------------------
(* SyncSystem with two clients.                                            *)
EXTENDS SyncSystem
CONSTANTS c1, c2
MCClient == {c1, c2}
MCSymmetry == {[c \in MCClient |-> c], [c \in MCClient |-> IF c = c1 THEN c2 ELSE c1]}
=============================================================================
