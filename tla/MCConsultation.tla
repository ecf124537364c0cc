--------------------------- MODULE MCConsultation ---------------------------
(***************************************************************************)
(* Three required facts, asked for two at a time, and the messages that     *)
(* make a difference: an answer to some, all or none of the questions, "I   *)
(* do not know", an intent option, and the two kinds of danger.             *)
(***************************************************************************)
EXTENDS Consultation

Says(known, dontknow, danger) ==
  [facts |-> known, dontknow |-> dontknow, danger |-> danger, picks |-> FALSE]

MCMessages ==
  { Says({}, FALSE, "none"), Says({2}, FALSE, "none"), Says({1, 2, 3}, FALSE, "none"),
    Says({}, TRUE, "none"), Says({}, FALSE, "high"), Says({}, FALSE, "critical"),
    [facts |-> {}, dontknow |-> FALSE, danger |-> "none", picks |-> TRUE] }
=============================================================================
