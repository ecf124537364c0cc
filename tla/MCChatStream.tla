---------------------------- MODULE MCChatStream ----------------------------
(***************************************************************************)
(* Requests of one user: all but the last one come with the user's token.   *)
(* The first one shows a milestone.                                         *)
(***************************************************************************)
EXTENDS ChatStream, TLC

CONSTANTS s1, s2, s3, s4, u1, mine, other

MCUserOf == [s \in Streams |-> u1]
MCMaxMilestones == [s \in Streams |-> IF s = s1 THEN 1 ELSE 0]
MCTokenOf == [s \in Streams |-> IF s = s4 THEN other ELSE mine]
=============================================================================
