-------------------------- MODULE MCMcpIdempotency --------------------------
(***************************************************************************)
(* Instances of McpIdempotency for TLC.                                    *)
(***************************************************************************)
EXTENDS McpIdempotency, TLC

CallSymmetry == Permutations(Requests) \cup Permutations(Keys)
=============================================================================
