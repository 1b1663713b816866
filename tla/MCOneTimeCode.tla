---------------------------- MODULE MCOneTimeCode ----------------------------
(***************************************************************************)
(* Three requests of two addresses that race for two codes over a failing  *)
(* database, under a limit they can reach.                                 *)
(***************************************************************************)
EXTENDS OneTimeCode, TLC

Symmetry == Permutations(Request) \cup Permutations(Code) \cup Permutations(Ip)

=============================================================================
