---------------------------- MODULE MCHybridSearch ----------------------------
(* Three ids of which two versions are around, one of them broken, and a    *)
(* point without an id; up to three points match a query; pages of two, of   *)
(* the default and of an illegal number of items.                           *)
EXTENDS HybridSearch

CONSTANTS a, b, c, new, old

MCBroken == {[id |-> c, payload |-> old]}
=============================================================================
