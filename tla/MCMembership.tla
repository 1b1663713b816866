----------------------------- MODULE MCMembership -----------------------------
(***************************************************************************)
(* Two codes, one of a single use and one without a bound, and two users   *)
(* that sign up and validate (MCMembership.cfg); what the API documents of *)
(* maxUses (MCMemberMax.cfg).                                              *)
(***************************************************************************)
EXTENDS Membership, TLC

CONSTANTS single, open

MCMaxUses == [c \in Code |-> IF c = single THEN 1 ELSE 0]
Symmetry == Permutations(User) \cup Permutations(Validation) \cup Permutations(Signup)
=============================================================================
