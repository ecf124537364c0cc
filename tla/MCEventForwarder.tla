-------------------------- MODULE MCEventForwarder --------------------------
(* Two boards with four events between them, a subscriber besides the     *)
(* forwarder, and a queue of two places.                                 *)
EXTENDS EventForwarder, TLC

CONSTANTS b1, b2, audit

MCVisibility == (b1 :> <<2, 0>>) @@ (b2 :> <<1, 2>>)

MCMinRank == (audit :> 0) @@ (Forwarder :> 1)
=============================================================================
