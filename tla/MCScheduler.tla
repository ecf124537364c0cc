---------------------------- MODULE MCScheduler -----------------------------
(***************************************************************************)
(* The scheduler and one other agent with a model, and one without.         *)
(***************************************************************************)
EXTENDS Scheduler, TLC

MCOutputCap == "scheduler" :> 1 @@ "analysis" :> 2

MCRefLists == {<<1>>, <<2, 1>>}
=============================================================================
