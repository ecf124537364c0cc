--------------------------- MODULE MCEvidenceChain ---------------------------
(* A law and a case.  The law has a version for the second of three days, or *)
(* one whose status is not known.                                           *)
EXTENDS EvidenceChain

MCPayloads ==
  {[confirmed |-> TRUE, from |-> 1, to |-> 2], [confirmed |-> FALSE, from |-> 0, to |-> NoDate]}
=============================================================================
