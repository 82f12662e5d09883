--------------------------- MODULE MCClaimService ---------------------------
(***************************************************************************)
(* Instances of ClaimService for TLC.                                      *)
(***************************************************************************)
EXTENDS ClaimService, TLC

\* The two documents a household claim requires, and one still being read.
Form     == [type |-> "claim_form",   completed |-> TRUE]
Photo    == [type |-> "damage_photo", completed |-> TRUE]
PhotoRaw == [type |-> "damage_photo", completed |-> FALSE]

SomeUploads == {Form, Photo, PhotoRaw}

RequestSymmetry == Permutations(Requests)
=============================================================================
