---------------------------- MODULE AccountBalance ----------------------------
(***************************************************************************)
(* KPIService.createAccountBalanceData and PnLCalculationService: agents   *)
(* report their portfolios, each in an interactive transaction that looks  *)
(* prices up over other connections of the same pool, while queries        *)
(* compute the PnL of an agent from its first and its latest balance,      *)
(* cache it under the name asked for, and write it to latest_market_data.  *)
(* SyncPerformanceMetricsTask has queries of all running agents made, and  *)
(* writes their answers to the rows a second time.  Of a row, pnlCycle is  *)
(* kept, as the query it is from.                                          *)
(* Prices are numbers; the rows token_master has for one symbol agree.     *)
(***************************************************************************)
EXTENDS Integers, FiniteSets, FiniteSetsExt

CONSTANTS
  Agent,
  Name,          \* what callers name agents by
  Exact,         \* the agents whose runtimeAgentId is the name,
  Prefix,        \* starts with it, or
  Contains,      \* contains it; none for names shorter than six letters
  ById,          \* the agents whose id it is
  Token, USDC,
  Listings,      \* how many rows of token_master each symbol has
  Price,         \* 0 stands for none
  Portfolio,     \* what agents may hold: functions from tokens to amounts
  Report,        \* the reports that will ever be made
  Query,         \* the queries that will ever be made
  Sync,          \* the runs of the sync task that will ever be made
  Connections,   \* the size of the connection pool
  MaxMoves,      \* bound: how often prices move
  DbFaults       \* "failed": a statement may fail

ASSUME TokensAssumption == USDC \in Token /\ Listings \in [Token -> Nat]
ASSUME PricesAssumption == Price \subseteq Nat /\ 0 \in Price
ASSUME PortfolioAssumption ==
  \A h \in Portfolio : h \in [DOMAIN h -> Nat] /\ DOMAIN h \subseteq Token
ASSUME NamesAssumption ==
  {Exact, Prefix, Contains, ById} \subseteq [Name -> SUBSET Agent]
ASSUME NobodyAssumption == "none" \notin Agent \cup Report \cup Query \cup Sync
ASSUME PoolAssumption == Connections \in Nat \ {0} /\ MaxMoves \in Nat

\* USDC is always worth one dollar, and not looked up.
Coin == Token \ {USDC}

VARIABLES
  price,     \* the prices of token_master
  moves,     \* how often they have moved
  clock,     \* createdAt of the last balance inserted
  report,    \* the reports, with the rows they insert
  query,     \* the queries, with their answers
  cache,     \* pnlCache: the query whose answer each name has
  fresh,     \* names whose entry is younger than the TTL
  sync,      \* the runs of the sync task
  lmd,       \* the query whose PnL latest_market_data has of each agent
  quoted,    \* history: the prices of each token while a report was open
  overlap    \* history: reports, and queries, of one agent that overlapped;
             \* a query is not over while a run of the sync has its answer

vars == <<price, moves, clock, report, query, cache, fresh, sync, lmd, quoted, overlap>>

\* born: createdAt; todo: tokens without a row yet; at: priceUsd of the rows;
\* missed: tokens whose price could not be read; stored: balanceInUSD.
NoReport == [pc |-> "idle", of |-> "none", holds |-> <<>>, born |-> 0, todo |-> {},
             at |-> [t \in Token |-> 0], missed |-> {}, stored |-> 0]
\* by: the run of the sync task that asks.
NoQuery == [pc |-> "idle", of |-> "none", name |-> "none", by |-> "none", first |-> "none",
            latest |-> "none", pnl |-> 0, balance |-> 0]
\* todo: the agents whose rows are still to be written; none once it is over.
NewSync == [pc |-> "asks", todo |-> Agent]

Init ==
  /\ price = [t \in Coin |-> 0] /\ moves = 0
  /\ clock = 0
  /\ report = [r \in Report |-> NoReport]
  /\ query = [q \in Query |-> NoQuery]
  /\ cache = [n \in Name |-> "none"] /\ fresh = {}
  /\ sync = [s \in Sync |-> NewSync]
  /\ lmd = [a \in Agent |-> "none"]
  /\ quoted = [r \in Report |-> [t \in Coin |-> {}]]
  /\ overlap = {}
-----------------------------------------------------------------------------
Open == {r \in Report : report[r].pc \in {"open", "ready"}}
Committed == {r \in Report : report[r].pc = "committed"}
Balances(a) == {r \in Committed : report[r].of = a}

\* Every open transaction keeps a connection.
Free == Cardinality(Open) < Connections
Fails == DbFaults # {} \/ ~Free

UsdPrice(t) == IF Listings[t] = 0 THEN 0 ELSE price[t]
LivePrice(t) == IF t \in Coin THEN UsdPrice(t) ELSE 1

\* getAccountBalanceWithPrices: the join counts a token once for each row of
\* its symbol, and once if there is none.
Joined(t) == IF Listings[t] = 0 THEN 1 ELSE Listings[t]
Value(holds) == MapThenSumSet(LAMBDA t : holds[t] * LivePrice(t) * Joined(t), DOMAIN holds)

\* KPIService.findAgentByRuntimeId.
Reporter(n) ==
  CASE Exact[n] # {}                     -> Exact[n]
    [] Exact[n] = {} /\ Prefix[n] # {}   -> Prefix[n]
    [] OTHER                             -> Contains[n]

\* PnLCalculationService, without partial names but with ids.
Queried(n) == IF Exact[n] # {} THEN Exact[n] ELSE ById[n]
-----------------------------------------------------------------------------
OnlyReport == UNCHANGED <<price, moves, clock, query, cache, fresh, sync, lmd, quoted, overlap>>

\* The transaction inserts the balance with a stored value of 0, and starts on
\* all tokens at once.
Begin(r, a, holds) ==
  /\ report[r].pc = "idle" /\ Free
  /\ clock' = clock + 1
  /\ report' = [report EXCEPT ![r] = [@ EXCEPT !.pc = "open", !.of = a, !.holds = holds,
       !.born = clock + 1, !.todo = DOMAIN holds \cap Coin,
       !.at = [t \in Token |-> IF t \in Coin THEN 0 ELSE 1]]]
  /\ quoted' = [quoted EXCEPT ![r] = [t \in Coin |-> {UsdPrice(t)}]]
  /\ overlap' = overlap \cup {{r, x} : x \in {y \in Open : report[y].of = a}}
  /\ UNCHANGED <<price, moves, query, cache, fresh, sync, lmd>>

\* No such agent, or no connection for the transaction within maxWait.
Refuse(r) ==
  /\ report[r].pc = "idle"
  /\ Fails \/ \E n \in Name : Reporter(n) = {}
  /\ report' = [report EXCEPT ![r].pc = "failed"]
  /\ OnlyReport

\* The price of a token is read outside the transaction and its row inserted;
\* if it cannot be read the row has 0.
Place(r, t) ==
  /\ report[r].pc = "open" /\ t \in report[r].todo
  /\ \/ /\ Free
        /\ report' = [report EXCEPT ![r] = [@ EXCEPT
             !.todo = report[r].todo \ {t}, !.at = [report[r].at EXCEPT ![t] = UsdPrice(t)]]]
     \/ /\ DbFaults # {}
        /\ report' = [report EXCEPT ![r] = [@ EXCEPT
             !.todo = report[r].todo \ {t}, !.missed = report[r].missed \cup {t}]]
  /\ OnlyReport

\* Faulty variant: the rows are not awaited.
CalculateAtOnce(r) ==
  /\ report[r].pc = "open" /\ Free
  /\ report' = [report EXCEPT ![r].pc = "ready"]
  /\ OnlyReport

\* The balance is valued outside the transaction, which finds it only if it
\* is committed; otherwise the stored value stays what it is.
Calculate(r) ==
  /\ report[r].pc = "open" /\ report[r].todo = {} /\ Free
  /\ report' = [report EXCEPT ![r] = [@ EXCEPT !.pc = "ready",
       !.stored = IF r \in Committed THEN Value(report[r].holds) ELSE report[r].stored]]
  /\ OnlyReport

Commit(r) ==
  /\ report[r].pc = "ready"
  /\ report' = [report EXCEPT ![r].pc = "committed"]
  /\ OnlyReport

\* Faulty variant: the transaction times out only once it has its prices.
AbortLate(r) ==
  /\ report[r].pc = "ready"
  /\ report' = [report EXCEPT ![r] = [NoReport EXCEPT !.pc = "failed"]]
  /\ OnlyReport

\* An error, or the five seconds of the transaction are over.
Abort(r) ==
  /\ r \in Open
  /\ report' = [report EXCEPT ![r] = [NoReport EXCEPT !.pc = "failed"]]
  /\ OnlyReport

CreateAccountBalanceData(r) ==
  \/ \E n \in Name, holds \in Portfolio : \E a \in Reporter(n) : Begin(r, a, holds)
  \/ Refuse(r)
  \/ \E t \in Coin : Place(r, t)
  \/ Calculate(r) \/ Commit(r)

\* Prices of token_master change.
Move(t, p) ==
  /\ moves < MaxMoves /\ p # price[t]
  /\ moves' = moves + 1
  /\ price' = [price EXCEPT ![t] = p]
  /\ quoted' = [r \in Report |-> IF r \notin Open \/ Listings[t] = 0 THEN quoted[r]
                                 ELSE [quoted[r] EXCEPT ![t] = @ \cup {p}]]
  /\ UNCHANGED <<clock, report, query, cache, fresh, sync, lmd, overlap>>
-----------------------------------------------------------------------------
\* Faulty variant: the balances are sorted the other way round.
FirstDescending(a) ==
  IF Balances(a) = {} THEN "none"
  ELSE CHOOSE r \in Balances(a) : \A x \in Balances(a) : report[x].born <= report[r].born

First(a) ==
  IF Balances(a) = {} THEN "none"
  ELSE CHOOSE r \in Balances(a) : \A x \in Balances(a) : report[r].born <= report[x].born

\* Faulty variant: the balances come in no order.
LatestUnordered(a) ==
  IF Balances(a) = {} THEN "none" ELSE CHOOSE r \in Balances(a) : TRUE

Latest(a) ==
  IF Balances(a) = {} THEN "none"
  ELSE CHOOSE r \in Balances(a) : \A x \in Balances(a) : report[x].born <= report[r].born

\* The answer of q is still to be written, by itself or by the sync.
Carried(q) == query[q].by \in Sync /\ query[q].of \in sync[query[q].by].todo
AtWork(q) == query[q].pc \in {"value", "write"} \/ Carried(q)

Busy(a) == {q \in Query : query[q].of = a /\ AtWork(q)}
Over(q, pc) == [query EXCEPT ![q].pc = pc]
OnlyQuery == UNCHANGED <<price, moves, clock, report, sync, quoted>>

\* Answered from the cache, or with an error.
Answer(q, n) ==
  /\ query[q].pc = "idle"
  /\ n \in fresh \/ Queried(n) = {} \/ Fails
  /\ query' = Over(q, "over")
  /\ OnlyQuery /\ UNCHANGED <<cache, fresh, lmd, overlap>>

\* A miss, or a forced refresh, reads the agent's balances.
ReadBalances(q, n, a, by) ==
  /\ query[q].pc = "idle" /\ Free
  /\ query' = [query EXCEPT ![q] = [@ EXCEPT !.pc = "value", !.of = a, !.name = n, !.by = by,
       !.first = First(a), !.latest = Latest(a)]]
  /\ overlap' = overlap \cup {{q, x} : x \in Busy(a)}
  /\ OnlyQuery /\ UNCHANGED <<cache, fresh, lmd>>

\* The first and the latest balance are one token, USDC, and the same of it.
Untraded(first, latest) ==
  /\ DOMAIN report[first].holds = {USDC} /\ DOMAIN report[latest].holds = {USDC}
  /\ report[first].holds[USDC] = report[latest].holds[USDC]

\* Faulty variant: the initial investment is taken for a gain.
StoredBaseline(first, latest, value) == report[first].stored

\* What the PnL is counted from: the stored value of the first balance, or
\* the present one when an initial investment has not been stored.
Baseline(first, latest, value) ==
  IF report[first].stored = 0 /\ value > 0 /\ Untraded(first, latest)
  THEN value ELSE report[first].stored

\* The latest balance is valued at the prices of the moment and the answer
\* cached under the name asked for.
Calculation(q) ==
  LET first == query[q].first
      latest == query[q].latest
      value == IF latest = "none" THEN 0 ELSE Value(report[latest].holds)
  IN [query[q] EXCEPT !.pc = "write", !.balance = value,
        !.pnl = IF first = "none" THEN 0 ELSE value - Baseline(first, latest, value)]

CalculatePnL(q) ==
  /\ query[q].pc = "value"
  /\ \/ /\ Free
        /\ query' = [query EXCEPT ![q] = Calculation(q)]
        /\ cache' = [cache EXCEPT ![query[q].name] = q]
        /\ fresh' = fresh \cup {query[q].name}
     \/ Fails /\ query' = Over(q, "failed") /\ UNCHANGED <<cache, fresh>>
  /\ OnlyQuery /\ UNCHANGED <<lmd, overlap>>

\* Errors of the update are swallowed.
UpdateLatestMarketData(q) ==
  /\ query[q].pc = "write"
  /\ query' = Over(q, "over")
  /\ \/ Free /\ lmd' = [lmd EXCEPT ![query[q].of] = q]
     \/ Fails /\ UNCHANGED lmd
  /\ OnlyQuery /\ UNCHANGED <<cache, fresh, overlap>>

\* For a caller, or for a run of the sync: getAllAgentsPnL(true).
Asking == {s \in Sync : sync[s].pc = "asks" /\ sync[s].todo # {}}

GetAgentPnL(q) ==
  \/ \E n \in Name :
       \/ Answer(q, n)
       \/ \E a \in Queried(n), by \in Asking \cup {"none"} : ReadBalances(q, n, a, by)
  \/ CalculatePnL(q) \/ UpdateLatestMarketData(q)

AskedBy(s) == {q \in Query : query[q].by = s}
OnlySync == UNCHANGED <<price, moves, clock, report, query, cache, fresh, quoted, overlap>>

\* All queries of the run are answered.
TakeAnswers(s) ==
  /\ s \in Asking
  /\ \A q \in AskedBy(s) : query[q].pc = "over"
  /\ sync' = [sync EXCEPT ![s].pc = "writes"]
  /\ OnlySync /\ UNCHANGED lmd

\* One of them fails, or the list of the agents: the run ends, while its
\* other queries go on.
GiveUp(s) ==
  /\ s \in Asking
  /\ Fails \/ \E q \in AskedBy(s) : query[q].pc = "failed"
  /\ sync' = [sync EXCEPT ![s].todo = {}]
  /\ OnlySync /\ UNCHANGED lmd

\* The row of an agent gets the PnL its query has answered, or 0 if there was
\* none; an error skips the agent.
WriteMetrics(s, a) ==
  /\ sync[s].pc = "writes" /\ a \in sync[s].todo
  /\ sync' = [sync EXCEPT ![s].todo = @ \ {a}]
  /\ \/ /\ Free
        /\ LET known == {q \in AskedBy(s) : query[q].of = a}
           IN \E q \in IF known = {} THEN {"none"} ELSE known : lmd' = [lmd EXCEPT ![a] = q]
     \/ Fails /\ UNCHANGED lmd
  /\ OnlySync

SyncPerformanceMetrics(s) ==
  TakeAnswers(s) \/ GiveUp(s) \/ \E a \in Agent : WriteMetrics(s, a)

\* The TTL of an entry passes.
Age(n) ==
  /\ n \in fresh
  /\ fresh' = fresh \ {n}
  /\ OnlyQuery /\ UNCHANGED <<query, cache, lmd, overlap>>
-----------------------------------------------------------------------------
Next ==
  \/ \E r \in Report : CreateAccountBalanceData(r) \/ Abort(r)
  \/ \E q \in Query : GetAgentPnL(q)
  \/ \E s \in Sync : SyncPerformanceMetrics(s)
  \/ \E t \in Coin, p \in Price : Move(t, p)
  \/ \E n \in Name : Age(n)

\* The timers of Prisma end transactions.
Fairness == \A r \in Report : WF_vars(Abort(r))

Spec == Init /\ [][Next]_vars
FairSpec == Spec /\ Fairness
-----------------------------------------------------------------------------
ReportState ==
  [pc : {"idle", "open", "ready", "committed", "failed"}, of : Agent \cup {"none"},
   holds : Portfolio \cup {<<>>}, born : Nat, todo : SUBSET Coin, at : [Token -> Nat],
   missed : SUBSET Coin, stored : Nat]

SyncState == [pc : {"asks", "writes"}, todo : SUBSET Agent]

QueryState ==
  [pc : {"idle", "value", "write", "over", "failed"}, of : Agent \cup {"none"},
   name : Name \cup {"none"}, by : Sync \cup {"none"}, first : Committed \cup {"none"},
   latest : Committed \cup {"none"}, pnl : Int, balance : Nat]

\* A balance that is visible has a row for each token reported, at a price
\* token_master had while the report was served, or at 0 if it could not be
\* read: no report leaves part of a portfolio behind.
PricedWhileOpen ==
  \A r \in Committed : \A t \in DOMAIN report[r].holds :
    \/ t = USDC /\ report[r].at[t] = 1
    \/ t # USDC /\ report[r].at[t] \in quoted[r][t]
    \/ t \in report[r].missed /\ report[r].at[t] = 0

\* The balance the PnL of an agent is counted from changes only when a report
\* that overlapped with it commits after it.
BaselineMovesOnlyByRace ==
  [][\A a \in Agent :
       First(a) # "none" /\ First(a)' # First(a) => {First(a), First(a)'} \in overlap']_vars

\* q answers for the agent of p, from an older latest balance.
Born(r) == IF r = "none" THEN 0 ELSE report[r].born
Older(q, p) ==
  /\ {p, q} \subseteq Query /\ query[q].of = query[p].of
  /\ Born(query[q].latest) < Born(query[p].latest)

\* Neither the cache nor the PnL in the row of an agent goes back to an older
\* portfolio, except by queries that overlapped: the newer one read its
\* balances before the other had been cached and written, or while a run of
\* the sync task had its answer and was still to write it once more.
AnswersGoForward ==
  [][/\ \A n \in Name : Older(cache'[n], cache[n]) => {cache[n], cache'[n]} \in overlap'
     /\ \A a \in Agent : Older(lmd'[a], lmd[a]) => {lmd[a], lmd'[a]} \in overlap']_vars

\* An agent that has only ever kept the USDC it started with has no PnL,
\* although the value of its first balance was not stored.
InvestmentIsNoGain ==
  \A q \in Query : query[q].first # "none" /\ Untraded(query[q].first, query[q].latest) =>
    query[q].pnl = 0

\* When transactions hold all connections, each waiting for another one, the
\* pool has a free one again: they do not wait on each other for ever.
PoolRecovers == ~Free ~> Free

=============================================================================
