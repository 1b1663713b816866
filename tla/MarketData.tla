------------------------------ MODULE MarketData ------------------------------
(***************************************************************************)
(* The row of latest_market_data of each agent and its concurrent writers: *)
(* reported trades (updateTradeCount), forks (create-db-record), runs of   *)
(* SyncPerformanceMetricsTask (at start-up, every ten minutes and by hand, *)
(* with no guard against overlap) and performance snapshots.  A row is     *)
(* created with its agent, so it always exists.  Of its columns, the trade *)
(* count, the fork count, pnlCycle and pnlRank are kept.                   *)
(***************************************************************************)
EXTENDS Integers, FiniteSets, Sequences

CONSTANTS
  Agent,
  Running,     \* the agents whose status is RUNNING
  Worth,       \* values of the PnL of an agent
  Trade,       \* the reports of trades that will ever be made
  Fork,        \* the creations that will ever fork an agent
  Sync,        \* the runs of the sync task that will ever be made
  Snap,        \* the snapshots that will ever be taken
  DbFaults     \* "rejected": a call may fail, without its effect

ASSUME AgentsAssumption == IsFiniteSet(Agent) /\ Agent # {} /\ Running \subseteq Agent
ASSUME WorthAssumption == Worth \subseteq Int /\ 0 \in Worth
ASSUME TradesAssumption == IsFiniteSet(Trade) /\ IsFiniteSet(Fork)
ASSUME RunsAssumption == Sync \cap Snap = {} /\ {"none", "yes"} \cap (Sync \cup Snap) = {}

Run == Sync \cup Snap

VARIABLES
  worth,      \* the PnL the balances of an agent amount to
  trades,     \* rows of trading_information of each agent
  lmd,        \* the latest_market_data rows; rank 0 stands for null
  trade,      \* the trade reports
  fork,       \* the forks
  run,        \* the runs of the sync task and the snapshots
  crowd,      \* history: most trades of an agent ever in flight at once
  raced,      \* history: agents with forks that overlapped or failed
  settled     \* history: the pass undisturbed since it read, or "yes" after it

vars == <<worth, trades, lmd, trade, fork, run, crowd, raced, settled>>

Row == [trades : Nat, forks : Nat, pnl : Worth, rank : 0..Cardinality(Agent)]
Report == [pc : {"idle", "read", "write", "over"}, of : Agent, seen : Nat]
Lineage == [pc : {"idle", "write", "over"}, of : Agent, seen : Nat]

\* pnl: recomputing the PnL of the agents of todo and writing those of due;
\* adrift: the same after an error, with nothing to follow; loop and put: one
\* agent of todo after the other; list and rank: the ranking pass.
RunPc == {"idle", "pnl", "adrift", "loop", "put", "list", "rank", "over"}
RunState == [pc : RunPc, todo : SUBSET Agent, due : SUBSET Agent, got : [Agent -> Worth],
             count : Nat, order : Seq(Agent)]

\* The map of the PnLs before any is known; a run that no longer needs it holds none.
NoPnl == [a \in Agent |-> 0]

Init ==
  /\ worth \in [Agent -> Worth]
  /\ trades = [a \in Agent |-> 0]
  /\ lmd = [a \in Agent |-> [trades |-> 0, forks |-> 0, pnl |-> 0, rank |-> 0]]
  /\ trade \in [Trade -> [pc : {"idle"}, of : Agent, seen : {0}]]
  /\ fork \in [Fork -> [pc : {"idle"}, of : Agent, seen : {0}]]
  /\ run = [p \in Run |-> [pc |-> "idle", todo |-> {}, due |-> {}, got |-> NoPnl,
                           count |-> 0, order |-> <<>>]]
  /\ crowd = [a \in Agent |-> 0]
  /\ raced = {}
  /\ settled = "none"
-----------------------------------------------------------------------------
Fails == DbFaults # {}
Larger(m, n) == IF m < n THEN n ELSE m

\* A trade changes what an agent is worth.
Change(a) ==
  /\ \E w \in Worth \ {worth[a]} : worth' = [worth EXCEPT ![a] = w]
  /\ UNCHANGED <<trades, lmd, trade, fork, run, crowd, raced, settled>>
-----------------------------------------------------------------------------
\* createTradingInformation: insert the trade, then read the count and write
\* it back plus one.  Only a failing insert is answered with an error.
Counting(a) == {t \in Trade : trade[t].of = a /\ trade[t].pc \in {"read", "write"}}

InsertTrade(t) ==
  LET a == trade[t].of IN
  /\ trade[t].pc = "idle"
  /\ \/ /\ trades' = [trades EXCEPT ![a] = @ + 1]
        /\ trade' = [trade EXCEPT ![t].pc = "read"]
        /\ crowd' = [crowd EXCEPT ![a] = Larger(@, Cardinality(Counting(a)) + 1)]
     \/ Fails /\ trade' = [trade EXCEPT ![t].pc = "over"] /\ UNCHANGED <<trades, crowd>>
  /\ UNCHANGED <<worth, lmd, fork, run, raced, settled>>

ReadCount(t) ==
  /\ trade[t].pc = "read"
  /\ \/ trade' = [trade EXCEPT ![t] = [@ EXCEPT !.pc = "write", !.seen = lmd[trade[t].of].trades]]
     \/ Fails /\ trade' = [trade EXCEPT ![t].pc = "over"]
  /\ UNCHANGED <<worth, trades, lmd, fork, run, crowd, raced, settled>>

\* Faulty variant: a write that is not answered in time is made again, with a new count.
WriteCountAgain(t) ==
  /\ trade[t].pc = "write"
  /\ lmd' = [lmd EXCEPT ![trade[t].of].trades = trade[t].seen + 1]
  /\ \E pc \in {"read", "over"} : trade' = [trade EXCEPT ![t].pc = pc]
  /\ UNCHANGED <<worth, trades, fork, run, crowd, raced, settled>>

WriteCount(t) ==
  /\ trade[t].pc = "write"
  /\ \/ lmd' = [lmd EXCEPT ![trade[t].of].trades = trade[t].seen + 1]
     \/ Fails /\ UNCHANGED lmd
  /\ trade' = [trade EXCEPT ![t].pc = "over"]
  /\ UNCHANGED <<worth, trades, fork, run, crowd, raced, settled>>

\* The same for forks: the source agent is read with its row, and its fork
\* count written back plus one; errors are swallowed.
ReadSource(f) ==
  LET a == fork[f].of IN
  /\ fork[f].pc = "idle"
  /\ \/ /\ fork' = [fork EXCEPT ![f] = [@ EXCEPT !.pc = "write", !.seen = lmd[a].forks]]
        /\ raced' = IF \E g \in Fork : fork[g].of = a /\ fork[g].pc = "write"
                    THEN raced \cup {a} ELSE raced
     \/ Fails /\ fork' = [fork EXCEPT ![f].pc = "over"] /\ raced' = raced \cup {a}
  /\ UNCHANGED <<worth, trades, lmd, trade, run, crowd, settled>>

CountFork(f) ==
  LET a == fork[f].of IN
  /\ fork[f].pc = "write"
  /\ \/ lmd' = [lmd EXCEPT ![a].forks = fork[f].seen + 1] /\ UNCHANGED raced
     \/ Fails /\ UNCHANGED lmd /\ raced' = raced \cup {a}
  /\ fork' = [fork EXCEPT ![f].pc = "over"]
  /\ UNCHANGED <<worth, trades, trade, run, crowd, settled>>
-----------------------------------------------------------------------------
OnlyRunAndSettled == UNCHANGED <<worth, trades, lmd, trade, fork, crowd, raced>>
OnlyRow == UNCHANGED <<worth, trades, trade, fork, crowd, raced>>
Pass(p) == run[p].pc = "rank"

\* execute reads the agents, then asks for the PnL of the running ones; a
\* snapshot asks for that of its own agent.
BeginSync(x) ==
  /\ run[x].pc = "idle"
  /\ \/ run' = [run EXCEPT ![x] = [@ EXCEPT !.pc = "pnl", !.todo = Running]]
     \/ Fails /\ run' = [run EXCEPT ![x].pc = "over"]
  /\ UNCHANGED settled /\ OnlyRunAndSettled

BeginSnapshot(s, a) ==
  /\ run[s].pc = "idle"
  /\ \/ run' = [run EXCEPT ![s] = [@ EXCEPT !.pc = "pnl", !.todo = {a}]]
     \/ Fails /\ run' = [run EXCEPT ![s].pc = "over"]
  /\ UNCHANGED settled /\ OnlyRunAndSettled

\* getAgentPnL, for one agent or for all of them at once (Promise.all): an error ends the run,
\* while the other computations go on and write their rows.
Compute(p) ==
  /\ run[p].pc \in {"pnl", "adrift"}
  /\ \E a \in run[p].todo :
       \/ run' = [run EXCEPT ![p] = [@ EXCEPT !.todo = run[p].todo \ {a},
                    !.due = run[p].due \cup {a}, !.got = [run[p].got EXCEPT ![a] = worth[a]]]]
       \/ Fails /\ run' = [run EXCEPT ![p] = [@ EXCEPT !.pc = "adrift", !.todo = run[p].todo \ {a}]]
  /\ UNCHANGED settled /\ OnlyRunAndSettled

\* updateLatestMarketData swallows an error of the update.
WritePnl(p) ==
  /\ run[p].pc \in {"pnl", "adrift"}
  /\ \E a \in run[p].due :
       /\ run' = [run EXCEPT ![p].due = run[p].due \ {a}]
       /\ \/ lmd' = [lmd EXCEPT ![a].pnl = run[p].got[a]] /\ settled' = "none"
          \/ Fails /\ UNCHANGED <<lmd, settled>>
  /\ OnlyRow

GoOn(p) ==
  /\ run[p].pc = "pnl" /\ run[p].todo = {} /\ run[p].due = {}
  /\ run' = [run EXCEPT ![p] = IF p \in Sync THEN [@ EXCEPT !.pc = "loop", !.todo = Agent]
                                             ELSE [@ EXCEPT !.pc = "list", !.got = NoPnl]]
  /\ UNCHANGED settled /\ OnlyRunAndSettled

\* The loop of the sync task over all agents, in the order of the table: the
\* trades are counted, the rest is awaited, and the row is written.  An error
\* skips the agent.
CountTrades(x) ==
  /\ run[x].pc = "loop"
  /\ \E a \in run[x].todo :
       \/ run' = [run EXCEPT ![x] = [@ EXCEPT !.pc = "put", !.order = <<a>>, !.count = trades[a]]]
       \/ Fails /\ run' = [run EXCEPT ![x].todo = run[x].todo \ {a}]
  /\ UNCHANGED settled /\ OnlyRunAndSettled

\* Faulty variant: the row is written whole, as where it is created.
PutWholeRow(x) ==
  LET a == run[x].order[1] IN
  /\ run[x].pc = "put"
  /\ run' = [run EXCEPT ![x] = [@ EXCEPT !.pc = "loop", !.todo = run[x].todo \ {a}]]
  /\ lmd' = [lmd EXCEPT ![a] =
               [lmd[a] EXCEPT !.trades = run[x].count, !.pnl = run[x].got[a], !.forks = 0]]
  /\ settled' = "none"
  /\ OnlyRow

\* An agent that is not running has no PnL in the map, and gets 0.
PutMetrics(x) ==
  LET a == run[x].order[1] IN
  /\ run[x].pc = "put"
  /\ run' = [run EXCEPT ![x] = [@ EXCEPT !.pc = "loop", !.todo = run[x].todo \ {a},
                                                 !.count = 0, !.order = <<>>]]
  /\ \/ /\ lmd' = [lmd EXCEPT ![a] = [lmd[a] EXCEPT !.trades = run[x].count, !.pnl = run[x].got[a]]]
        /\ settled' = "none"
     \/ Fails /\ UNCHANGED <<lmd, settled>>
  /\ OnlyRow

EndLoop(x) ==
  /\ run[x].pc = "loop" /\ run[x].todo = {}
  /\ run' = [run EXCEPT ![x] = [@ EXCEPT !.pc = "list", !.got = NoPnl]]
  /\ UNCHANGED settled /\ OnlyRunAndSettled

\* The agents by descending pnlCycle; ties in any order.
Rankings == {q \in [1..Cardinality(Agent) -> Agent] :
               /\ {q[i] : i \in DOMAIN q} = Agent
               /\ \A i, j \in DOMAIN q : i < j => lmd[q[i]].pnl >= lmd[q[j]].pnl}

\* Faulty variant: ascending, as without the sign of the comparison.
ListAscending(p) ==
  /\ run[p].pc = "list"
  /\ \E q \in [1..Cardinality(Agent) -> Agent] :
       /\ {q[i] : i \in DOMAIN q} = Agent
       /\ \A i, j \in DOMAIN q : i < j => lmd[q[i]].pnl <= lmd[q[j]].pnl
       /\ run' = [run EXCEPT ![p] = [@ EXCEPT !.pc = "rank", !.order = q]]
       /\ settled' = IF \E o \in Run : Pass(o) THEN "none" ELSE p
  /\ OnlyRunAndSettled

List(p) ==
  /\ run[p].pc = "list"
  /\ \/ \E q \in Rankings :
          /\ run' = [run EXCEPT ![p] = [@ EXCEPT !.pc = "rank", !.order = q]]
          /\ settled' = IF \E o \in Run : Pass(o) THEN "none" ELSE p
     \/ Fails /\ run' = [run EXCEPT ![p].pc = "over"] /\ UNCHANGED settled
  /\ OnlyRunAndSettled

\* One rank per call; an error leaves the rest of the pass undone.
WriteRank(p) ==
  LET left == run[p].order
      rank == Cardinality(Agent) - Len(left) + 1
  IN /\ Pass(p)
     /\ \/ /\ lmd' = [lmd EXCEPT ![left[1]].rank = rank]
           /\ run' = [run EXCEPT ![p] =
                [@ EXCEPT !.pc = IF Len(left) = 1 THEN "over" ELSE "rank", !.order = Tail(left)]]
           /\ settled' = IF settled = p /\ Len(left) = 1 THEN "yes" ELSE settled
        \/ /\ Fails
           /\ run' = [run EXCEPT ![p].pc = "over"]
           /\ settled' = IF settled = p THEN "none" ELSE settled
           /\ UNCHANGED lmd
     /\ OnlyRow
-----------------------------------------------------------------------------
CreateTradingInformation(t) == InsertTrade(t) \/ ReadCount(t) \/ WriteCount(t)
ForkAgent(f) == ReadSource(f) \/ CountFork(f)
RunStep(p) == Compute(p) \/ WritePnl(p) \/ GoOn(p) \/ List(p) \/ WriteRank(p)
SyncStep(x) == BeginSync(x) \/ CountTrades(x) \/ PutMetrics(x) \/ EndLoop(x)

Next ==
  \/ \E a \in Agent : Change(a)
  \/ \E t \in Trade : CreateTradingInformation(t)
  \/ \E f \in Fork : ForkAgent(f)
  \/ \E x \in Sync : SyncStep(x)
  \/ \E s \in Snap, a \in Agent : BeginSnapshot(s, a)
  \/ \E p \in Run : RunStep(p)

Spec == Init /\ [][Next]_vars
-----------------------------------------------------------------------------
\* Counts are natural numbers, every rank updateAgentRanks writes lies between
\* 1 and the number of agents, and a pass under way has an agent to rank.
TypeOK ==
  /\ worth \in [Agent -> Worth]
  /\ trades \in [Agent -> Nat]
  /\ lmd \in [Agent -> Row]
  /\ trade \in [Trade -> Report]
  /\ fork \in [Fork -> Lineage]
  /\ run \in [Run -> RunState]
  /\ \A p \in Run : Pass(p) => run[p].order # <<>>
  /\ crowd \in [Agent -> Nat] /\ raced \subseteq Agent
  /\ settled \in Run \cup {"none", "yes"}

\* The trade count of an agent can run ahead of its trades, since a sync may
\* count a trade that is then added once more, but by no more than the trades
\* of the agent ever reported at once; updates lost by overlapping reports
\* and stale counts can only lower it.
TradesNotInvented ==
  \A a \in Agent : lmd[a].trades + Cardinality(Counting(a)) <= trades[a] + crowd[a]

\* Forks of an agent that do not overlap are all counted, whatever else
\* writes the row meanwhile.
ForksAreCounted ==
  \A a \in Agent \ raced :
    lmd[a].forks = Cardinality({f \in Fork : fork[f].of = a /\ fork[f].pc = "over"})

\* Ranks are a ranking by pnlCycle once a pass has run undisturbed, that is
\* with no other pass under way and no pnlCycle written since it read them.
RankedWhenSettled ==
  settled = "yes" =>
    \A a, b \in Agent :
      /\ lmd[a].rank \in 1..Cardinality(Agent)
      /\ a # b => lmd[a].rank # lmd[b].rank
      /\ lmd[a].pnl > lmd[b].pnl => lmd[a].rank < lmd[b].rank
=============================================================================
