--------------------------- MODULE MCScheduledTasks ---------------------------
(***************************************************************************)
(* Two creators, one of them with two agents, and plans that let the tasks *)
(* that share something meet. The tickers are as in the file: in capitals, *)
(* one with a space behind it; by hand, one in small letters is asked for. *)
(***************************************************************************)
EXTENDS ScheduledTasks

CONSTANTS a1, a2, a3, c1, c2

MCCreatorOf == (a1 :> c1) @@ (a2 :> c1) @@ (a3 :> c2)

MCAtFirst == {{a1, a3}}

Asset(name) == [name |-> name, capital |-> TRUE, padded |-> FALSE, market |-> FALSE]
Padded(name) == [Asset(name) EXCEPT !.padded = TRUE]
Small(name) == [Asset(name) EXCEPT !.capital = FALSE]
Market(name) == [Asset(name) EXCEPT !.market = TRUE]
MCTradableFile == <<Asset("BTC"), Padded("BNB")>>
MCFallbackList == <<Asset("ETH")>>
MCByHand == {[list |-> <<Asset("BTC")>>, platform |-> "paradex"],
             [list |-> <<Small("ETH"), Padded("BNB"), Asset("BTC")>>, platform |-> "avnu"]}
MCExchange == {{Market("BTC"), Market("BNB"), Market("ETH")}, {Market("BTC"), Market("BNB")}}
MCAvnuTokens == {Asset("ETH")}
MCSelection == (a1 :> <<Asset("BTC"), Asset("BNB")>>) @@ (a2 :> <<>>) @@ (a3 :> <<Asset("ETH"), Asset("BTC")>>)
MCPreference == (a3 :> 0)

Only(f) == [h \in Happening |-> IF h \in DOMAIN f THEN f[h] ELSE 0]
MCPlan == {Only(f) : f \in {
  [trade |-> 1, portfolio |-> 1, status |-> 1],
  [pair |-> 2],
  [analysis |-> 1, byhand |-> 1],
  [analysis |-> 1, markets |-> 1],
  [byhand |-> 1, markets |-> 1],
  [snapshots |-> 2],
  [snapshots |-> 1, cleanup |-> 1, hour |-> 5],
  [leaderboard |-> 2, creation |-> 1, pnl |-> 1],
  [leaderboard |-> 1, pages |-> 2, pnl |-> 1, creation |-> 1],
  [full |-> 1],
  [performance |-> 1, hour |-> 1]}}
=============================================================================
