------------------------ MODULE MCConversationMemory ------------------------
(***************************************************************************)
(* Instances of ConversationMemory for TLC.                                *)
(***************************************************************************)
EXTENDS ConversationMemory, TLC

WorkerSymmetry == Permutations(Workers)
=============================================================================
