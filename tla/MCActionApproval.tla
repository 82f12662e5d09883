-------------------------- MODULE MCActionApproval --------------------------
(***************************************************************************)
(* Instances of ActionApproval for TLC: every claim belongs to alice.      *)
(***************************************************************************)
EXTENDS ActionApproval

CONSTANTS alice, bob

AliceOwns == [c \in Claims |-> alice]
=============================================================================
