------------------------------ MODULE PccModes ------------------------------
(***************************************************************************)
(* The modes of a PCC sender and what they allow (src/pcc/pcc_sender.h,    *)
(* src/pcc/pcc_sender.cpp, src/pcc/pcc_vivace_sender.cpp).                 *)
(***************************************************************************)
EXTENDS Integers

SenderModes == {"STARTING", "PROBING", "DECISION_MADE"}

\* The modes OnUtilityAvailable may leave the sender in.
NextModes(mode) ==
  CASE mode = "STARTING"      -> {"STARTING", "PROBING"}
    [] mode = "PROBING"       -> {"STARTING", "PROBING", "DECISION_MADE"}
    [] mode = "DECISION_MADE" -> {"PROBING", "DECISION_MADE"}

\* The number of useful intervals CreateUsefulInterval allows, when PROBING
\* compares groups of two intervals.
MaxUseful(mode, groups) == IF mode = "PROBING" THEN 2 * groups ELSE 1
=============================================================================
