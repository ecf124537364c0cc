----------------------------- MODULE MCTaskBoard -----------------------------
(***************************************************************************)
(* A small board for TLC: a specialist and a generalist agent, three        *)
(* deduplication keys, a capability nobody has.                             *)
(***************************************************************************)
EXTENDS TaskBoard, TLC

CONSTANTS specialist, generalist

MCAgents == {specialist, generalist}
MCCapabilities == {"x", "y", "z"}
MCCapabilitiesOf == (specialist :> {"x"}) @@ (generalist :> {"x", "y"})
MCNeeds == {{"x"}, {"y"}, {"z"}}
MCTwoNeeds == {{"x"}, {"y"}}
MCRootNeeds == {"x"}
=============================================================================
