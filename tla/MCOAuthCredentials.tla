------------------------- MODULE MCOAuthCredentials -------------------------
(***************************************************************************)
(* Instances of OAuthCredentials for TLC.                                  *)
(***************************************************************************)
EXTENDS OAuthCredentials, TLC

Symmetry == Permutations(Workers) \cup Permutations(Users)
=============================================================================
