# LeftCurve backend: specifications, model checks and proofs

TLA+ specifications of the NestJS backend under `src/`: the orchestration
engine and the creation of agents it drives, one-time and gated access codes,
sign-ups with referrals, the market data row of an agent with its
concurrent writers, the synchronisation of token prices, account balances with the
PnL computed from them, the scheduled tasks (messages to agents, analyses of the market, performance
snapshots, the leaderboard of creators), and the technical analysis of an asset. TLC checks them on small instances; TLAPS proves the
theorems listed below for every value of the constants.

All of this code runs on one Node event loop. Between two `await`s nothing
else runs, so **an `await` is the unit of interleaving**: every handler is cut
into one action per awaited call, and what the handler remembers between them
is a record of local variables. The database and the file
system answer an awaited call or fail it; Docker, the chain and an agent's server may also never answer. A call fails either without its
effect (`"rejected"`) or after it (`"ambiguous"`: the connection breaks before
the acknowledgement); the constant `DbFaults` says which of the two a run allows.
Four places put several statements in one transaction: the batch writes of token prices, the
refresh of the markets table, the rebuild of the leaderboard, and the
report of a balance, whose transaction stays open over several awaits.

## Contents

1. [Inventory](#1-inventory)
2. [Modules](#2-modules)
3. [Runs, bounds and fairness](#3-runs-bounds-and-fairness)
4. [Proofs](#4-proofs)
5. [Where the code and what is said of it differ](#5-where-the-code-and-what-is-said-of-it-differ)
6. [What is not modelled](#6-what-is-not-modelled)
7. [Plan](#7-plan)

## 1. Inventory

| component | state it keeps | operations | hard behaviour |
|---|---|---|---|
| orchestration engine (`domains/orchestration`) | a row of `orchestrations`; in memory, a promise per running orchestration | `startOrchestration`, `executeOrchestration`, `getOrchestrationStatus` | work in the background that no request awaits, each write failing, restarts that forget it |
| agent creation (`leftcurve-agent` controller, steps, file upload, Docker service) | `eliza_agents`, containers, ports, profile pictures | `createAgent`; steps create-db-record, create-container, start-container | an effect outside the database and its record in it are two awaits; a port is chosen long before it is recorded; polling |
| agent lifecycle calls | the same agents and containers | `startAgent`, `stopAgent` | a Docker operation and a status write, interleaved with a creation |
| agent messaging (`message`) | none | `sendMessageToAgent`, alone and in rounds | the row is read, then whoever listens on its port is posted to |
| one-time codes (`access-code`) | `OTP`, `FailedAttempt` | `generateCodes`, `verifyCode` | check, then act: the limit and the single use |
| gated access codes (`access-code`) | `access_codes`, `users.usedReferralCode` | generate, validate, disable, expiry | a use limit checked on a row read before; two writes that belong together |
| users and referrals (`user`) | `users`, `referral_codes` | `create` | the user is inserted before its referral is verified |
| trading information | `trading_information`, `latest_market_data.tradeCount` | `createTradingInformation` | lost updates |
| market data of agents (`market-data`, `kpi`, `cron`) | a row of `latest_market_data` per agent | the sync task, snapshots, PnL, fork counts | overlapping runs, ranks written row by row from a stale list |
| account balances and PnL (`kpi`) | balances, token balances, a PnL cache | `createAccountBalanceData`, `getAgentPnL` | a transaction that stays open while it waits for other connections of its pool; a value computed where the open transaction cannot be seen; first and latest balance read before an await and used after it |
| performance history (`kpi`) | `agent_performance_snapshots` | hourly snapshots, daily retention, charts | boundaries of a deletion policy, run at any hour while snapshots are taken |
| token master and price sync | `token_master` | `syncPrices` over two price sources; create, update, remove, price batches | a client that gives up on a write which is then applied; rows keyed by contract, written by symbol |
| creators leaderboard (`creators`) | `creator_leaderboard_data` | rebuild, pages, performance of a creator | overlapping rebuilds; pages cut from queries made anew |
| analysis pipeline (`analysis`) | `analyses`, `paradex_markets` | hourly and requested analyses, latest analyses of an agent | batches through an HTTP client of its own backend, which goes on when the client gives up; runs that overlap |
| scheduled tasks (`cron`, `admin/tasks`) | none | eight tasks of the clock, endpoints that start them, two chains | nothing keeps a task from overlapping with itself; no one awaits what an endpoint starts; one failing send ends a round |
| technical analysis (`analysis/technical`) | none | indicators, pivots, patterns of three series of candles | division by zero, NaN that is smoothed on, thresholds, patterns that contradict each other |
| glue (guards, interceptors, configuration, deployment) | none | | none |

How they interact: `createAgent` starts an orchestration and answers; the engine
awaits the three steps in turn. The steps write the agent's row and its
container, its fork is counted in the source agent's market data row, and the
last step sends messages through `MessageService` and takes a performance
snapshot. A snapshot recomputes the PnL of the agent, which is written to the
market data row, and then ranks every agent. The sync task does the same for
all agents, and also writes their trade counts. The scheduled tasks meet in the rows of the
agents: what one writes there (status, PnL), a snapshot or a rebuild of the leaderboard stores. Users and agents meet only in
foreign keys.

What makes each correct: a poller must be able to trust what an orchestration
row says; nothing is created before it is paid; an agent's recorded port,
container and status tell what Docker runs; limits on codes may be passed only
as far as requests overlap; counters account for what they count; a ranking is
one; a task that fails half way leaves what it promised of the rest, and what is shown (prices, charts,
leaderboards, pages, signals) is of one moment, or off by no more than the overlap. `PROJECT.json` lists, under `hazards`, each place where one of
these can go wrong, and the property that would notice.

## 2. Modules

    OrchestrationLifecycle          what a poller is promised (abstract)
      ^ refined by
    Orchestrator                    the engine, await by await
      ^ EXTENDS, and implements
    AgentCreation                   request + engine + three steps + lifecycle calls
    OneTimeCode                     generateCodes and verifyCode
    Membership                      access codes and referrals over the users table
    MarketData                      the writers of latest_market_data
    TokenPrices                     the price sync and the writers of token_master
    AccountBalance                  reports of balances, and PnL queries over them
    AgentTable                      the rows of agents that the scheduled tasks share
      ^ EXTENDS
    AgentMessages, AnalysisPipeline, PerformanceHistory, CreatorLeaderboard
      ^ EXTENDS
    ScheduledTasks                  the clock, the admin endpoints, the chains
    Ratios                          quotients, infinities, NaN
      ^ EXTENDS
    Candlesticks, Indicators        patterns and indicators, as functions of candles
      ^ EXTENDS
    TechnicalAnalysis               the report of one asset

`Orchestrator`, `AgentCreation`, `OneTimeCode`, `Membership`, `MarketData`, `TokenPrices`, `AccountBalance`,
`ScheduledTasks` and `TechnicalAnalysis` have an `MC` module with the values of the constants, and all of them but
`Orchestrator` a `Proofs` module; the theorems about the engine are in `AgentCreationProofs`. The definitions
marked "Faulty variant" are plausible bugs of the definition that follows them;
no behaviour uses them. They show that a property can fail: put in place of the
definition they resemble, they violate it.

### OrchestrationLifecycle, Orchestrator

`row` is the table and all that survives a restart. `exec[o].pc` is the await at
which the promise of orchestration `o` is suspended: `loading` (the row is read),
`marking` (IN_PROGRESS is written), `stepping` (the head of the loop: the
current step and the progress are written), `running` (the step's executor),
`failing`, `completing`, `catching` (the three last writes). `hung` is the end of an
executor whose step awaits a call that has no timeout and is never answered
(`StepHangs`): the row stays IN_PROGRESS. `Persist` is an
awaited update with its two ways to fail. As in the code, a failing write of
FAILED in the loop goes to the catch block, which writes it again; a failing
write of COMPLETED goes there too, and so COMPLETED can turn into FAILED;
the first write is outside the `try`. `Restart` loses every live executor: no
code resumes one. `Registered` says which steps have an executor (the two
registries). `effects` counts the steps that reported success.

`OrchestrationLifecycle` is the promise without the engine: PENDING,
IN_PROGRESS, COMPLETED only after all steps, FAILED never undone.

### AgentCreation

EXTENDS `Orchestrator` and gives the step of the engine its three bodies. An
orchestration creates at most one agent and one container, so its id names all
three. `frame[o].stage` is the await inside a step; `Succeed` and `Abort`
are the engine's `StepSucceeds` and `StepFails`, taken in the same action. Every
error inside a step is caught by it and returned as a failure. The request is
`Upload`, `Ask`, `Answer`, and `Cleanup` (which deletes the picture when anything
in the handler throws, also after the start of the orchestration). The polls are
bounded by `MaxTries`, as in the code (60 and 5). `findAvailablePort` takes the
smallest port not recorded by an agent that is not STOPPED; nobody writes
STOPPED (`stopAgent` writes STARTING), so the ports of stopped agents stay taken. Docker is
modelled as it is used: starting fails for a container that is up or whose port is
taken, stopping fails for one that is down. A container that runs may also end by itself
(`Exit`; its state is "dead"): it is created without a `RestartPolicy` and no code compares the row with
Docker, so the status stays what it was. A message is posted to `localhost` on the
recorded port and reaches whichever container listens there. `Decide` is the
chain. The calls to the chain, to Docker and to the agent's server have no timeout (`Unbounded`), so each may
never be answered, with its effect or without it (`NeverAnswered`); the fifteen minutes of `waitForLog` are looked at only
between two such calls. `Crash` is the engine's restart together with what it does to requests
and calls: tables, files and containers stay.

History variables: `rivals` (pairs of creations one of which chose its port while the
other had chosen and not recorded one), `heard` (whose message reached whose
container), `blurred` (agents on which two operations overlapped, or one
stopped half way or never heard back).

### OneTimeCode

`verifyCode`, one action per query: count the failed attempts of the address,
find the code unused, mark it by id, forgive the address, or record a failure
and answer. `generateCodes` inserts a batch at once. `Age` moves a failed attempt out
of the window. `left` is the
`attemptsLeft` of the reply. A process that dies leaves its requests where failing
calls would, so no crash action is needed, here and in `Membership`.

### Membership

`validateAccessCode` (read the code, find the user, write the user, count the
use), `disableAccessCode`, generation and expiry, and `UserService.create`. They
meet in `users.usedReferralCode`, in which the first writes the id of an access
code and the last the text a sign-up carries, before it looks the text up; nothing limits that text, so it may be
the id of an access code. `brought` is the history of these texts. `maxUses` null is 0. Nothing under
`src/` inserts a row of `referral_codes`: `Known` is the set of those there are.
`crowd` and `late` are histories: the most validations of a code ever in flight
at once, and the validations that had not begun when their code was closed.

### MarketData

The row of an agent in `latest_market_data`, with the columns that have several writers:
`tradeCount`, `forkCount`, `pnlCycle`, `pnlRank`. A row is inserted with its
agent, so the branches that create a missing one are unreachable.

* A trade report inserts the trade, reads the count, writes it back plus one;
  errors after the insert are swallowed.
* A fork reads the source agent with its row and writes the fork count back plus one.
* A run of the sync task (`Sync`) asks for the PnL of the running agents
  together (`Promise.all`; the run ends at the first error while the other
  computations go on: `adrift`), then goes through all agents one at a time,
  counts trades, and writes count and PnL; then it ranks. Nothing keeps runs
  from overlapping: one is started in the constructor, one every ten
  minutes, others by hand. An agent that is not RUNNING gets PnL 0.
* A snapshot (`Snap`) asks for the PnL of one agent, then ranks all of them.
  A PnL request over HTTP writes the row in the same way and stops before
  the ranking, which is a snapshot whose next call fails.

`crowd` holds the most reports of an agent ever in flight together, `raced` the
agents with overlapping or failed forks, `settled` the ranking pass that nothing has
disturbed since it read its list.

### TokenPrices

A run of the sync is an HTTP client of its own backend. It lists the tokens, asks
DexScreener chain by chain in batches of `BatchSize`, then Paradex token by token, and sends
what it got in one request. `FetchPrices` is one such call: it prices some
of its tokens, or none (an error, an empty answer, a price that is not positive). The
request is written by `BatchUpdatePricesBySymbol`, a transaction over all rows of each symbol, and
answered to a client that may have given up after its ten seconds (`GiveUp`): `job` holds
the requests the backend has yet to serve. A run that lost its process stays where it
is, and so does its job. A price is the moment of its quote (`at`) and the run that wrote it
(`by`); a value given by a client is a quote of nobody. Of the addresses, only whether they have
the form of their chain matters (`Valid`).

`overlap`, `wrote` and `touched` are histories: runs of which one began while the other had not
ended or was still to be served, the symbols each run has written, and the rows a client wrote last.

### AccountBalance

`createAccountBalanceData` opens an interactive transaction and inserts the balance with the stored
value 0 (`Begin`). From then on it keeps one connection of the pool (`Open`, `Free`). The price of each token is read with
`this.prisma`, not with the transaction, hence over *another* connection, all tokens at once and each
followed by the insertion of its row (`Place`); a price that cannot be read is 0. The balance is then valued, again over another connection
(`Calculate`), which finds no uncommitted balance; so the stored value stays 0, and `Commit` makes the whole
visible. `Abort` is any error, and the five seconds after which Prisma ends an interactive transaction; it
undoes everything.

`getAgentPnL` answers from the cache, or reads the balances of the agent (`ReadBalances`: first and latest by
`createdAt`), values the latest at present prices (`CalculatePnL`, which caches the answer under the
*name asked for*), and writes `latest_market_data` (`UpdateLatestMarketData`, errors swallowed). The PnL is counted from the stored value
of the first balance, or from the present one if the first and the latest are the same USDC and nothing was stored. The two services find an agent
differently: a report tries the runtime id as given, then as a prefix, then anywhere in it (`Reporter`), a query the runtime
id and then the id (`Queried`); a name for which several fit is a choice. `Joined` is the
SQL join of the valuation with `token_master` by symbol, which counts a token once for each row of its symbol.
A token listed twice in one report is one token with the sum of its amounts. One price per symbol is
what `SymbolsAgree` of `TokenPrices` shows. `createdAt` is taken to be distinct (`clock`).

The sync task is a second writer of that row. A run asks for the PnL of all running agents together; these queries
carry its name (`by`) and write the row themselves when they are done. When all are answered (`TakeAnswers`; at the first error the run ends,
`GiveUp`), it goes through all agents one at a time and writes the answers again (`WriteMetrics`), so that of each the moment of
writing may be long after the moment of reading; an agent it asked nothing of gets PnL 0. The row's PnL is kept as the query it
is from (`lmd`, "none" for that 0). `MarketData` has the same task with the counts and ranks, and takes the PnL as a number.

`quoted` and `overlap` are histories: the prices token_master had while a report was open, and the pairs of reports,
or of queries, of one agent that were at work together. A query of the sync is at work until the run has written its answer (`Carried`).

### AgentTable, AgentMessages, AnalysisPipeline, PerformanceHistory, CreatorLeaderboard, ScheduledTasks

A run of a task has a number (`Run`), and each of the four modules keeps, for each number, where that run stands:
`round`, `gen`, `snap`, `rebuild`. `agents` are the rows they share; agents are created, started, stopped and given a
PnL by the rest of the program at any time.

* **AgentMessages**: `sendTradeSimulation` and `sendPortfolioBalanceUpdate` list the running agents once and ask one after
  the other; `LookUp` is the row looked up again and again by `sendMessageToAgent`, `Post` the request, which the
  agent may receive though its answer is an error. The first error ends the round.
  `BeginPair` is the pair of requests made by hand.
* **AnalysisPipeline**: a run asks for batches of its list (`NextBatch`), each through the backend's own API; of a batch the assets go on side by side (`Find`,
  `Stamp`, `Store`). A request the client gave up on is not noticed by the server, so the next batch is asked for while it works. `data` is
  when prices were asked for, `time` the row's timestamp. Tickers are records of what matters: capitals, a space behind the name,
  market or asset. `getLatestAnalysisForAgent` picks the row by its timestamp, and the signals by weights.
* **PerformanceHistory**: `hour` is the clock. A snapshot is taken of each running agent in four statements; an error skips the agent. `taken` is
  the history of all snapshots. The retention policy compares timestamps with now minus days: `late` is whether a snapshot of the limiting hour
  lies before or behind that minute. Equal snapshots of one agent and hour are one member of the set.
* **CreatorLeaderboard**: `FindWallets`, `FindAgents` and `StoreEntries` are the three statements of a rebuild; the last is a transaction of upserts.
  `ReadPage` and `ReadCount` are a caller who turns pages: rows that tie come in any order each time. `getCreatorPerformance`
  goes through the agents in turn, as the code does, and is what the rows are compared with.
* **ScheduledTasks** starts all of these, by the clock or by hand, and the chains of `triggerAllPerformanceUpdates` and `triggerFullSystemSync`, in
  which each task begins when the one before has ended, in whatever way. `left` is what a behaviour may still contain.

### Ratios, Candlesticks, Indicators, TechnicalAnalysis

A candle is a record of integers; every figure computed from it is an exact quotient `<<n, d>>`, with `<<1, 0>>`, `<<-1, 0>>` and `<<0, 0>>` for what
JavaScript calls Infinity, -Infinity and NaN, and comparisons that treat them as JavaScript does. Rounding errors are
left out. Standard deviations are compared by their squares. `Candlesticks` has the fourteen patterns in the order the code tries them, `Indicators` the other services, and
`TechnicalAnalysis` the report: three requests for candles awaited together, of which those for hours may be answered before or after the newest hour is there,
what AVNU makes of a line of prices (the whole line it answers; candles of Paradex are cut to the number asked for), and the two thresholds below which a part of the report is left at its defaults. `report` is the last answer, with the candles it was made of.
The properties speak of the patterns, the pivots, the rate of change and the trend strength. The rest of the report (MACD, stochastic, bands, the Ichimoku
lines, volume), and in `AnalysisPipeline` the choice of signals by weight, is translated and run but carries no property of its own.

## 3. Runs, bounds and fairness

| run | instance | states | properties |
|---|---|---|---|
| `orchestrator` | two orchestrations of three steps, one with an unregistered last step; both kinds of failure; steps that never return; restarts | 3,243 | `CompletedMeansAllSteps`, `CursorTracksWork`, `HonestOutcome`, `ImplementsLifecycle`, `StartedIsDecided` |
| `agent_ports` | two creations paid by one transaction, two ports, one start or stop call, containers that exit, calls never answered, crashes, no database faults | 1,863,204 | `PortsSharedOnlyByRace`, `MessagesReachTheirAgent` |
| `agent_faults` | one creation with a picture, two calls, all failures, containers that exit, calls never answered | 266,712 | `PaidBeforeCreated`, `CompletedMeansOperational`, `OrphanedOnlyByFailure`, `StatusTellsContainer`, `PictureLostOnlyByFailure`, `EveryCreationEnds` |
| `one_time_code` | three requests, two addresses, two codes, limit 2, all failures | 38,852 | `GuessesAreLimited`, `OneTime` |
| `membership` | a single-use and an unbounded code, two users, two validations, a sign-up that may carry the id of an access code, a disable request, all failures | 1,316,100 | `UsesAreLimited`, `ClosedStaysClosed`, `CountsAreTrue` |
| `market` | a running agent and one that is not, a trade report, a fork, a sync and a snapshot, PnL 0 or 1 changing at any time, failing calls | 1,390,464 | `TradesNotInvented`, `ForksAreCounted`, `RankedWhenSettled` |
| `token_prices` | one symbol on two chains of DexScreener, another on Paradex, two runs of the sync, one edit by a client, failing writes, prices that move once | 658,080 | `ReportIsHonest`, `SymbolsAgree`, `NoOlderQuote` |
| `account_balance` | one agent with two portfolios, two reports by two names, two queries, a run of the sync, three connections, a price that moves once, failing statements | 2,547,151 | `PricedWhileOpen`, `InvestmentIsNoGain`, `BaselineMovesOnlyByRace`, `AnswersGoForward` |
| `balance_pool` | three reports, and a query by one of two names, on two connections | 287,424 | `PoolRecovers` |
| `scheduled_tasks` | three agents of two creators, eleven plans of up to four runs, failing statements | 338,411 | `RoundsStopAtFailure`, `OvertakenOnlyByOverlap`, `RunsCoverTheirList`, `ChartsKeepTheirData`, `BoardIsOneReading`, `RowsAgreeWithPerformance`, `PagesShowEveryoneOnce`, `ChainsRunThrough` |
| `technical_analysis` | up to three minute candles of fifteen shapes, up to five hour candles of three, scaled-down periods | 72,488 | `PatternsMakeSense`, `SilentSignals`, `TrendUnknownIffQuietStart` |

One further run, `membership_max_uses`, finds a counterexample; see section 5.

What they show, in the terms of the code:

* **A poller may trust the row.** COMPLETED is read only when all steps
  succeeded; the current step and progress are at most one step off; a row
  whose executor ended without a database error tells the truth.
* **Creation.** Nothing exists before the payment is accepted. A completed creation
  has its container, port and runtime id recorded and its three messages
  delivered, whatever calls came in between. A container nobody records
  belongs to a creation that will not complete, or hangs. Two agents share a port, or get
  each other's messages, only when their creations chose ports at the
  same time: the code does not exclude that, and `rivals` is exactly
  the condition. The status tells what was last done to the container, unless operations
  overlapped or one was cut off: STARTING is a container that is down, RUNNING one that was started and has at most
  ended by itself since. That a RUNNING agent is alive is not promised by the code. Without a crash, a creation
  comes to an end or waits for a call that is never answered.
* **Codes.** The failed-attempt limit, the single use and `maxUses` are all
  check-then-act. The properties say by how much they can be overshot: by no more
  than the requests in flight at once, so sequential clients see the limit they were
  promised. Closing a code holds for every validation begun after it.
* **Market data.** The trade count can run ahead of the trades (a sync counts a trade
  whose report then adds it once more), by no more than the reports once in flight
  together. Forks that do not overlap are never lost to a sync or a snapshot, since each
  update names its own columns. A ranking pass that runs undisturbed leaves a ranking.
* **Prices.** An older quote replaces a newer one only between runs that overlap, and a run of
  which the client gave up overlaps with the next until it is served. What a run reports as not updated
  was not, except that a lost answer makes it report all it sent. The rows of one symbol keep one
  price however runs overlap, as the transaction covers all of them.
* **Balances.** A balance is visible only as a whole, with a row for each token at a price of the time its
  transaction was open. Which balance a PnL is counted from changes only when a report commits that was open
  together with the one it replaces; an answer goes back to an older balance only between overlapping queries, or by a run of
  the sync that held an older answer and wrote it late. Reports can take
  every connection and then each wait for one more; the timers of their transactions end that.
* **Messages.** A round that ends early has told everyone before the agent it failed at and nobody after it, each once. There is no
  promise that a round reaches everyone: one agent that does not answer keeps the rest from being asked, and the next round begins anew.
* **Analyses.** An ended run asked for its whole list, whatever became of the batches. What an agent is shown is older than what there is only if
  runs overlapped or a request was given up; a run after another never takes an asset back.
* **History.** Within seven days no snapshot is missing from a chart, within ninety none of midnight.
* **Leaderboard.** Rebuilds may overlap and fail: the board is still of one reading, except for creators the last rebuild did not find (their
  rows are never deleted), and says what the performance page would have said. Turning pages shows everyone once unless rows changed or tied.
* **Chains** of tasks come to their end, each task started, though every statement may fail: tasks swallow their errors.
* **Technical analysis.** Strengths of patterns are grades from 0 to 1, and no candle is read as rising and falling at once, but for a hammer that
  ends an evening star. The two signals of `SilentSignals` never say anything of a market that moves; the trend strength is NaN exactly if the
  first period analysed had no directional movement.

**Bounds.** Two of each racing actor are what every race here needs: each hazard is a pair
of requests, or a request and a task, between whose awaits the other runs. A third
request is there in `one_time_code` since the limit is reached with two. `MaxTries = 1` lets a
poll succeed at once, retry, and be exhausted; the code's 60 and 5 repeat the
middle case. Three steps are what the code registers. Ports are two, so that
they run out with two creations, and a race leaves one unused. Requests, trades
and runs are finite sets made once; what has no bound in the code (crashes,
PnL changes) has none in the modules. Symmetry is used only over sets no action
tells apart, and in no run with a liveness or refinement property (the action property of
`token_prices` treats runs and symbols alike).
`market` has one fork: with a second one it has seven million states, forks taken as alike, in which the three properties hold too; it then takes longer than all other runs. The theorem is about any number of forks.
Batches hold one token in `token_prices`, so a chain is asked in several calls, each of which can fail; the
markets move once and a client writes once, which is what an older quote and a stale list need. In `account_balance` the pool has three
connections, since two open reports on a pool of two only wait for each other; `balance_pool` has two connections and three reports so that
this happens. Prices are 0 (unknown) or 1 and move `MaxMoves` times. In `scheduled_tasks` a plan says how often each thing happens; the eleven plans are the
combinations of tasks that share something: a round, another round and a status that changes; two pairs; the hourly analysis with one by hand, and
either of them with a refresh of the markets; two overlapping snapshot tasks; a snapshot task and a cleanup over five hours; two rebuilds, or one and pages, with creations and changes of
PnL; each of the chains, one of which with an hour passing. Any order and overlap within a plan is a behaviour. A day has two hours, hourly snapshots are kept for one day and daily ones for two, so that
five hours pass both limits; a batch holds two assets and a page one row, so that lists of three and boards of two need several; a row is looked up twice (the code's five repeat the first), and PnLs are
0 and 1. In `technical_analysis` the minute candles are one of each shape the patterns tell apart (three in a row, since no pattern spans more), the hour candles a quiet, a rising and a falling one;
periods are 1 to 4, in the order of the code's 9 to 52, and the price levels are chosen for the shapes to be hit exactly. A run says
`CHECK_DEADLOCK FALSE` because its requests end.

**Fairness.** An executor that can take a step eventually
takes one (`WF` of `EngineStep \/ StepReturns`, of `Executor` in `AgentCreation`). The
event loop resumes every promise whose await has settled. An await on the database settles: the query is answered or its
connection breaks. The awaits inside a step need not: `axios` in `message.service.ts`, `dockerode` in `docker.service.ts` and the provider
of the chain are used without a timeout. So a step may end as `hung` (`StepHangs`, `NeverAnswered`) instead of returning, and
`StartedIsDecided` and `EveryCreationEnds` except just these executors; for all others, polls are bounded, and so is the wait for the log
line as long as Docker answers. Nothing is assumed of the chain, of
requests, or of calls: `EveryCreationEnds` holds though the chain may never decide. `Restart`,
failing calls and hanging ones need no fairness, and both liveness
properties except the executors that a restart ends: no code resumes an orchestration, so one that
lost its executor stays as it is. In `balance_pool`, an open transaction is eventually ended (`WF` of `Abort`): Prisma's timer
does that after five seconds unless it has committed; nothing else is assumed to move. In `scheduled_tasks`, the task a chain waits for
takes a step while it can, and so does the chain (`WF` of each): what the tasks of a chain await are statements, which are answered or fail, and the requests of
the price sync, whose client gives up after ten seconds. Nothing is assumed of
tasks outside a chain. The other modules state safety only.

## 4. Proofs

The assumptions are the named `ASSUME`s of the modules, which TLC evaluates on
each run: finite sets of requests, agents, trades and forks where something is
counted, three steps, positive bounds, lists that are sequences of tickers, and
markers ("none", "yes") that are no agent and no run. Each theorem is about any behaviour of its
module's specification, with every interleaving, fault and crash that the module has.

| module | theorem | what it says, for every value of the constants |
|---|---|---|
| `AgentCreationProofs` | `Invariance` | the inductive invariant below |
| | `TypeCorrect`, `CompletedIsComplete`, `CursorIsTrue`, `OutcomeIsHonest` | `TypeOK`, `CompletedMeansAllSteps`, `CursorTracksWork`, `HonestOutcome` |
| | `TerminalStaysFinal` | `TerminalIsFinal` (an action property) |
| | `EngineImplementsLifecycle` | the engine refines `OrchestrationLifecycle` |
| | `CreationFollowsEngine` | `CreationSpec => Spec`: with the real steps, calls and crashes, the system still is the engine, so the theorems above hold of it |
| | `CreationInheritsEngine` | of the creation of agents: `CompletedMeansAllSteps`, `TerminalIsFinal`, and that it refines `OrchestrationLifecycle` |
| | `PaidFirst` | `PaidBeforeCreated` |
| | `CompletedIsOperational`, `OrphansComeOfFailure` | `CompletedMeansOperational`, `OrphanedOnlyByFailure` |
| | `PortsAreShared`, `MessagesArrive` | `PortsSharedOnlyByRace`, `MessagesReachTheirAgent` |
| | `StatusTracksContainer`, `PictureIsKept` | `StatusTellsContainer`, `PictureLostOnlyByFailure` |
| `OneTimeCodeProofs` | `TakenOnce`, `AttemptsLimited` | `OneTime`, `GuessesAreLimited` |
| `MembershipProofs` | `UsesLimited`, `ClosedForGood`, `HoldersAreCounted` | `UsesAreLimited`, `ClosedStaysClosed`, `CountsAreTrue` |
| `MarketDataProofs` | `RanksInTable`, `CountsAreBounded` | `TypeOK`, `TradesNotInvented` |
| | `ForksAreTrue`, `RanksAreSettled` | `ForksAreCounted`, `RankedWhenSettled` |
| `AccountBalanceProofs` | `CommittedArePriced`, `InvestmentsAreNoGain` | `PricedWhileOpen`, `InvestmentIsNoGain` |
| | `BaselineMovesByRace`, `AnswersDoNotGoBack` | `BaselineMovesOnlyByRace`, `AnswersGoForward` (action properties) |
| `TokenPricesProofs` | `OlderQuotesOverlap`, `ReportsAreHonest`, `SymbolsStayAgreed` | `NoOlderQuote` (an action property), `ReportIsHonest`, `SymbolsAgree` |
| `ScheduledTasksProofs` | `RoundsPassNobodyOver` | `RoundsStopAtFailure` |
| | `OvertakenByOverlap`, `RunsCover` | `OvertakenOnlyByOverlap`, `RunsCoverTheirList` |
| | `ChartsAreKept`, `BoardsAreOneReading` | `ChartsKeepTheirData`, `BoardIsOneReading` |
| | `BoardTellsPerformance`, `PagesAreComplete` | `RowsAgreeWithPerformance`, `PagesShowEveryoneOnce` |
| `TechnicalAnalysisProofs` | `PatternsAgree` | `PatternsMakeSense` |
| | `SignalsAreSilent` | `SilentSignals` |
| | `TrendStrengthKnown` | `TrendUnknownIffQuietStart` |

**The engine.** `CompletedMeansAllSteps` is not inductive: it says nothing of an executor about to
write COMPLETED. `IInv` relates, for each await, the step the executor is at, the row and the
work done: `stepping` at step *n* means *n* - 1 successes, `completing` means all
of them and a row that is IN_PROGRESS, `catching` a row that an ambiguous failure
may have completed. It speaks of one orchestration at a time, so the proof shows
that a step of one preserves its part (one step per action) and leaves the others alone. The refinement maps
`status` to the row's and `effects` to itself; the write of COMPLETED is the abstract `Complete`
because the invariant gives `effects = NumSteps` there.

**Creation.** `CreationFollowsEngine` is step simulation: each action is an engine action or leaves the
engine's variables alone. `PaidFirst` needs `PaidInv`: whoever stands in a stage
after the poll has an accepted transaction, and a lifecycle call past its read acts on
a container that exists, so on one that is paid.

`CompletedMeansOperational` and `OrphanedOnlyByFailure` speak of what has ended; `WorkInv` says the same of every await on the way
there: which step the stage of the frame belongs to (`StandingInv`), what the agent's row records at each stage (`RecordInv`),
and, if a container exists that no row records, where its creation stands: at the await that records it, or on its way to FAILED (`MadeInv`). An executor is in a
stage of a step only while the engine is `running` that step, so `CreationFollowsEngine` supplies the order of the stages.
`PortInv` relates two creations and has three cases, one for each pair of moments that matters: both have chosen and not yet recorded, one has recorded what the other has chosen, both have recorded. In the
first the pair is in `rivals`, in the others it is if the ports are equal. `MessagesReachTheirAgent` joins it because a message goes to
whichever container listens on the recorded port, which is then a container with that same port. `StatusInv` names whoever still owes the agent a status: the executor
between starting the container and marking it, or a call between Docker and its write. There is at most one, what it is going to write is what Docker did,
and when there is none, the status is that of the last operation; an agent of which this cannot be said is in `blurred`. An exit
takes a container only from running to dead, which keeps each part; an executor that hangs after the start leaves its agent in `blurred`. `PictureInv` follows the file: it is moved only
by the executor, deleted only by the request, and recorded only after the move.

**One-time codes.** `OneTimeInv` widens `OneTime` to requests that hold a code (found it
unused and have not yet marked it): a marked code is found by nobody, so two holders
overlapped. `LimitInv` counts: a request in flight has a reserved place, which it
turns into a recorded attempt, or gives up; the sum of both is bounded when a request
enters, and no later step raises it.

**Membership.** `UsesAreLimited` counts as `LimitInv` does: a validation in flight has a reserved use, which it makes or gives up, so that with the types it is
inductive. `ClosedInv`: no step reopens a code, and a validation that was still to begin when its code was closed has not begun or is over without success. For `CountsAreTrue`
the two columns that meet are kept apart: the holders of codes are finitely many (`Holders`: each was enrolled by a validation), and whoever becomes settled
with a code was counted in the same step (`SettledCounted`); a referral is counted in the step that answers its sign-up. A sign-up makes a holder only
of the text it brought, and whoever brought the id of a code is not among those the property counts (`brought`).

**Market data.** `Typed` adds to `TypeOK` that the list of a pass is never longer than the
agents, which is what puts every rank in 1..n. `Bounded` adds to
`TradesNotInvented` what the reports and the syncs remember: a report about to write has seen
a count that leaves room for it and for the other reports in flight, and a sync about to write holds a count
no greater than the trades there are now.
`ForksInv`: for an agent of which no two forks overlapped and none failed, the column counts the forks that are over, and the
one that may be about to write has seen the column as it is. No other writer disturbs this, since each
update names its own columns. `RankInv`: the undisturbed pass is the only one, and the ranks it has written followed by the agents it has left
are one sorting of the present `pnlCycle`s. That a rank is then given to one agent only is the fact that a surjection between finite
sets of one size is injective (`FS_Surjection`).

**Token prices.** `PriceInv` says where the run that wrote a row stands (over and served), that runs active
together are recorded as overlapping, and that a run which does not overlap with the writer of a row has
no older quote: it began after that writer was served, with no quotes at all, and takes new ones
from a clock that has not gone back. `Served` is what one request does to the tables
and to the report; `RunStep` covers the steps that leave the tables alone.

**Account balances.** `BalanceInv` adds what the open transactions and the queries at work know. `Rowed`: a token
of an open balance is either still to be placed, missed, or placed at a price quoted meanwhile, and the present price is
always among those. `Raced`: balances differ in `createdAt`, and an open one older than another of its agent overlapped
with it; so when one commits before the first balance, the two are in `overlap`. The last conjunct says the same of a query that has
read less than another, also while a run of the sync still carries its answer: whatever writes the row next is then known to overlap with
the query the row is from, or to have read no less. `Extremes` (an agent with balances has a first and a latest) is carried as an invariant: each commit preserves it, and no
fact about finite sets is needed. `InvestInv`: no balance ever has a stored value, and a query that has read a balance nobody traded counts from
what the agent has now, so its PnL is 0; for this the value of a portfolio of USDC is unfolded from the sum that defines it (`ValueOfUSDC`).

**Scheduled tasks.** `StepsApart` shows that every step is, for each of the four components, one of its own steps or leaves it
alone; so each invariant is preserved by the steps of its own component, with no look at the others. `HistoryInv`: a snapshot that is gone is one that the policy may
delete at this hour, and stays so as hours pass. `BoardInv`: a committed run has ended, so what it read no longer changes. `MessagesInv`: a message in
an inbox comes from a position its round is past, or failed at, and the list of a round names nobody twice. `PipelineInv` puts the clock into the life of a run: prices are asked for after it
began, the row is stamped later; of a request that was not given up all earlier batches are answered, so when such a run has ended its rows are all in the table
with times no later than its end. A row overtaken by an older one must therefore be of a run that had begun before the other ended. Nothing is assumed of the plan: `left`
occurs in no invariant.

`CoverInv` says of every request that the batches asked for so far are the first parts of its list, each item with the asset
at its place, and that it has ended only with all of them; a refused item was refused for its spelling, or because the markets of that moment, which are one of the
listings of the exchange, lacked it. That parts laid one behind the other are the list
again (`BatchesMakeTheList`) is an induction over their number, with `Batches` as the quotient and remainder of the length
(`BatchesDivide`). `RowsInv` types the rows of agents, which every writer of them must
preserve (`AgentsTyped`), and says that a row of the board is `Entry` of what an ended run has read. What is left is about
one reading: the sums of `Entry` and the loop of the performance page
(`Upto`) go through the same agents, one in any order and one in the order of the list (`TotalIsSum`, `PerformanceAddsUp`). `PagesInv`: until rows move,
page *k* holds the creators at the places (*k* - 1) * `PageSize` + 1 to *k* * `PageSize` of the first
sorting (`PageIsSlice`); without ties each creator has one place (`SortedByPlace`), and each place is on one page (`OnePageEach`).

**Technical analysis.** The candles and the report hardly interact: `CandlesInv` says that what the market printed are candles, `ReportInv` that a report
is `analyzeAsset` of three lists of candles; both hold by the steps alone. The rest is about the functions, for any candles. `Gcd` returns a common divisor that is zero only for two zeros
(`GcdIsDivisor`, by induction on its second number), which gives what a quotient keeps of the one it is made of: its sign, whether it is zero, whether it is finite, and whether it is at most one (`FracByCount`).
`PatternsMakeSense` is then a case for each pattern: its strength is a grade, and its type *means* something of the two last candles (`Sightings`), such as that the last one closes higher, so that two types that mean
opposite things are never seen at one place. `SilentSignals` is arithmetic: a rate that was cut lies within 10 of zero, and the levels of a candle lie around its close by a part of its range.
For `TrendUnknownIffQuietStart` values are sorted into positive ones, zeros, and NaN. Sums and Wilder's average, folds both, move by one value at a time (`SumIsSum`, `SmoothedMoves`), so a kind of
number that such a move keeps is the kind of all further ones (`SumsStay`, `SmoothSeriesStays`): one positive move in the first period makes all averages of it positive, and so those of
the true range, by which they are divided (`MovesHaveRange`); without one, the first strength is 0/0, and every average after that is NaN. It is assumed (`PeriodsAssumption`) that the trend is averaged over more than one
value and that enough candles are asked for; in the code these are 14, and 52 candles.

**Induction.** TLAPS 1.4.5 cannot instantiate the induction theorems of its library, which take an operator. `SetOfNaturals`
stands in for them: a *set* that has 0 and the successor of each of its members has every natural number, since the least
number outside (`WFMin`, `NatLessThanWellFounded`) would be a successor. The recursive functions and the folds of the community modules are `CHOOSE`n
functions; a lemma shows by `SetOfNaturals` that one satisfying their equation exists (`SumsExist`, `ListingsExist`, `JoinedExists`, `FoldExists`), and from then on the equation
is at hand. In this way sums over sets (`SumsAddUp`), the loop over a list and the concatenation of a list of lists are proved about.

**Only model-checked.** Liveness (`StartedIsDecided`, `EveryCreationEnds`, `PoolRecovers`, `ChainsRunThrough`), since
TLAPS 1.4.5 handles neither fairness nor `ENABLED`. All invariants and all other action properties of the
runs are theorems.

## 5. Where the code and what is said of it differ

One has a run that finds the counterexample; the source is quoted in
`PROJECT.json` under `findings`.

* `membership_max_uses`: two validations that overlap both pass the check of the last use
  of a code, though the API documents `maxUses` as the maximum.

Met while modelling, and without a run: a sign-up with an unknown referral code answers an error and leaves its user, with
the unverified code in `usedReferralCode` (`Membership`, after a failing look-up of the code); two overlapping trade reports raise the trade count by one
(`MarketData`: both read the count before either writes it); `startAgent` writes RUNNING for any agent with a container, also one
whose creation has not recorded a runtime id, which the lifecycle analysis
(`agent_lifecycle_analysis.md`) says a RUNNING agent has (`AgentCreation`: one start call between the creation of the container and the last step);
a symbol with several rows in `token_master` multiplies the value of a token (`Joined`); the value of a new balance is computed over a connection that does not
see it, so that 0 stays stored though a comment announces the calculated value (`AccountBalance`), and a PnL is counted from 0 for any portfolio but untouched USDC; the agent of a
container that ended by itself reads RUNNING, and its stop call is refused by Docker, so that the row cannot be put right by stopping (`AgentCreation`: `Exit`); a sign-up that carries
the id of an access code makes its user a holder of that code with no use counted, whatever the state of the code (`Membership`); the sync task puts an
older PnL over a newer one, and 0 over that of an agent that was not running when the run began (`AccountBalance`: `WriteMetrics`).

Of the scheduled tasks:

* nine tickers of `config/crypto/tradable_crypto.json` have a space behind the name (`"BNB "`, `"JTO "`, ...), which no market has: they are asked for each hour and never
  analysed; a ticker in small letters is looked up in small letters among results stored in capitals, and fails (`Found`);
* the comment on the retention policy keeps daily snapshots for 90 days and weekly ones for ever; the code deletes every snapshot older than 90 days, and of a day without a snapshot in its
  midnight hour all of them after seven;
* `pnl24h ||` keeps the old change of a day when the new one is exactly 0 (`ComputePnL`); `bestAgentPnlCycle || undefined` drops a best PnL of 0 from the answer;
* `aggregateSnapshotsByInterval` answers all snapshots whatever the interval (a "temporary override", as its comment says);
* the comment on `sendTradeSimulation` says every four hours, its schedule every six; the endpoints' `catch` blocks are never reached by the tasks of `TasksService`, which swallow their errors;
* the pages of the leaderboard are sorted by a column that ties, so that a row may come on two pages and another on none;
* rows of the leaderboard are never deleted.

Of the technical analysis:

* the trend strength is NaN for a market whose first period is quiet (`TrendUnknownIffQuietStart`); `technical-analysis.dto.ts:88` documents an "ADX value from 0 to 1",
  and `technical.service.spec.ts:180-181` expects a number in that range;
* the change over "4h" is that of one hour, as it is counted in candles of one hour; the volatility is that of the oldest candles given;
* pivots are computed from the last candle and compared with its own close: a breakout means that the candle is flat, which every candle of AVNU is, so each of its assets is `above_r1`;
* the rate of change is cut to [-1, 1] and compared with 10 and -10 (`SilentSignals`);
* a dark cloud cover is always a bearish engulfing too, a piercing line never a bullish one; the volume of AVNU is 0, which counts as significance 1; a price just tested may not count among the
  tests of its level, which is rounded to cents; the Keltner bands are laid around the average of the candle before.

Met while reading, and without a run: `AccessCodeMetricsService` counts all and used codes in separate queries, so
its usage rate can exceed 1; `RequireAccessCodeMiddleware` is applied to no route and
reads a column `users` does not have; `FundingService.recordFunding` writes through a Prisma
model the schema does not declare, and so fails whenever its poll succeeds; one payment transaction is accepted for any number of
creations; `getAgentPnL` with a null runtime id
matches any agent without one.

## 6. What is not modelled

* The wallet steps are not registered in the definition of agent-creation; the engine never runs them.
* Reads without state: agent queries, leaderboards of random figures, the display of trades, contract calls.
* The configuration and `.env` files kept per agent *name*: file contents are not in `AgentCreation`.
* In `MarketData`: the price column (one writer), the balance column and the 24-hour PnL; the rows a snapshot inserts are in `PerformanceHistory`.
* In `MarketData`, also the PnL itself, a number that changes at any time (`worth`); `AccountBalance` is where it comes from.
* In `AccountBalance`: the row's `balanceInUSD`, which a query, the sync task and a snapshot write, the last two from a portfolio read anew; the snapshot's own PnL request is a query like
  any other; and the other endpoints that read and value balances and keep nothing.
* Timing: delays, cache lifetimes and windows are choices of when an action happens.
* In `PerformanceHistory`: the columns a snapshot copies without a rule (balance, price, and the PnL it computes at that moment and stores next to the `pnlCycle` read before).
* In `TechnicalAnalysis`: what is only displayed (distances, the dominant price of the volume profile), functions without a caller (`detectCrossover`, `getBollingerBandPosition`),
  the HTTP of the price sources, and `support-resistance.service.ts`, all of which is commented out. The modules for sentiment, market and agent configuration are empty files.
* The selection of cryptocurrencies for an agent is the answer of an external language model, split at its commas and not checked: the constant `Selection`.
* `UpdateHoldersTask` is registered nowhere; the broadcast of messages has no caller.
* Guards, interceptors, logging, configuration, deployment stacks: no state of their own.
* The components listed as `not_modelled` in `PROJECT.json`, each with its reason: mostly single statements and reads.

## 7. Plan

Every safety property that a run checks is a theorem. What is left, in this order:

1. **TechnicalAnalysis**: bounds of the indicators as properties (the RSI and the stochastic lie from 0 to 100 or are NaN), by the
   lemmas about quotients that are there.
2. **OneTimeCode, Membership**: the types of the tables, which are parts of the invariants, as theorems of their own.
3. Configuration files kept per agent name, as a variable of `AgentCreation`.

To keep the whole suite within an hour, a new property replaces a weaker one or joins a run of the same instance, and each run stays within a few million states.
