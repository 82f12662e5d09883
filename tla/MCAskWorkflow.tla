---------------------------- MODULE MCAskWorkflow ----------------------------
(***************************************************************************)
(* Instances of AskWorkflow for TLC.                                       *)
(***************************************************************************)
EXTENDS AskWorkflow, TLC
=============================================================================
