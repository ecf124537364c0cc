-------------------------- MODULE MCDatabaseStores --------------------------
(* Two coroutines, two users, a session, and three examples of which the     *)
(* oldest matches best.                                                     *)
EXTENDS DatabaseStores, TLC

CONSTANTS u1, u2

MCUserOf == (1 :> u1) @@ (2 :> u2) @@ (3 :> u1)

MCMatches == (1 :> 2) @@ (2 :> 1) @@ (3 :> 1)
=============================================================================
