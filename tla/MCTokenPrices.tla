---------------------------- MODULE MCTokenPrices ----------------------------
(***************************************************************************)
(* Three tokens of two symbols, one symbol on two chains of DexScreener    *)
(* and the other on Paradex, two runs of the sync and an edit.             *)
(***************************************************************************)
EXTENDS TokenPrices, TLC

CONSTANTS onSolana, onEthereum, onParadex

MCChainOf == [t \in Token |-> CASE t = onSolana   -> "solana"
                                [] t = onEthereum -> "ethereum"
                                [] OTHER          -> "paradex"]
Symmetry == Permutations(Sync) \cup Permutations(Symbol)
=============================================================================
