----------------------------- MODULE MCToolCalls -----------------------------
(* Three boards search at the same time. *)
EXTENDS ToolCalls

MCTools == <<"search_cases", "search_statutes", "fetch_case_evidence">>

MCIntents == <<"search_statutes", "search_cases">>
=============================================================================
