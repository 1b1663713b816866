-------------------------- MODULE MCAccountBalance --------------------------
(***************************************************************************)
(* One agent, known to its reports by part of its runtime id as well, and  *)
(* to queries by its id; portfolios of USDC alone, or with a second token, *)
(* whose price moves once.                                                 *)
(***************************************************************************)
EXTENDS AccountBalance, TLC

CONSTANTS a1, full, part, id, eth

Matching(ns) == [n \in Name |-> IF n \in ns THEN {a1} ELSE {}]
MCExact == Matching({full})
MCContains == Matching({full, part})
MCPrefix == Matching({full})
MCById == Matching({id})
Symmetry == Permutations(Report) \cup Permutations(Query)
MCListings == [t \in Token |-> 1]
MCPortfolio == {[t \in {USDC} |-> 1], [t \in {USDC, eth} |-> 1]}
=============================================================================
