----------------------------- MODULE MCHarness -----------------------------
(***************************************************************************)
(* Two requests in one session, and a third in another session of the same  *)
(* user, which is how a replay runs.                                        *)
(***************************************************************************)
EXTENDS Harness, TLC

CONSTANTS r1, r2, r3, s1, s2, u1

MCSessionOf == r1 :> s1 @@ r2 :> s1 @@ r3 :> s2
MCUserOf == [r \in Runs |-> u1]
=============================================================================
