---------------------------- MODULE MCMarketData ----------------------------
(***************************************************************************)
(* A trade, a fork, a run of the sync task and a snapshot write the rows   *)
(* of two agents, one of them not running, while their PnL changes.        *)
(***************************************************************************)
EXTENDS MarketData
=============================================================================
