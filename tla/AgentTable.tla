------------------------------ MODULE AgentTable ------------------------------
(***************************************************************************)
(* What the scheduled tasks share: the rows of the agents, each with its   *)
(* row of latest_market_data, and the numbers of the tasks started. Agents *)
(* are created, started and stopped elsewhere.                             *)
(***************************************************************************)
EXTENDS Integers, FiniteSets, Sequences

CONSTANTS
  Agent,        \* the agents there may be
  CreatorOf,    \* creatorWallet of each
  AtFirst,      \* the sets of agents there may be when a behaviour begins
  Worth,        \* what a PnL may be
  MaxRuns       \* bound: how many tasks are ever started

ASSUME AgentTableAssumption ==
  /\ IsFiniteSet(Agent) /\ Agent # {}
  /\ DOMAIN CreatorOf = Agent
  /\ AtFirst \subseteq SUBSET Agent
  /\ Worth \subseteq Int /\ 0 \in Worth
  /\ MaxRuns \in Nat \ {0}

Run == 1 .. MaxRuns

\* running: RUNNING, with a runtime id and a port; pnl: pnlCycle; day: pnl24h.
AgentRow == [running : BOOLEAN, pnl : Worth, day : Worth]

VARIABLE agents  \* the agents created so far, a function to their rows

Created == DOMAIN agents
Running == {a \in Created : agents[a].running}

AgentsInit ==
  \E some \in AtFirst : agents \in [some -> {[running |-> TRUE, pnl |-> 0, day |-> 0]}]

\* A creation succeeds; the row of market data is inserted with that of the agent.
CreateAgent(a) ==
  /\ a \notin Created
  /\ agents' = [x \in Created \cup {a} |->
                  IF x = a THEN [running |-> FALSE, pnl |-> 0, day |-> 0] ELSE agents[x]]

\* An agent is started or stopped.
SetStatus(a) == a \in Created /\ agents' = [agents EXCEPT ![a].running = ~@]

\* Another task writes the PnL of an agent.
WritePnL(a, pnl, day) ==
  /\ a \in Created /\ <<pnl, day>> # <<agents[a].pnl, agents[a].day>>
  /\ agents' = [agents EXCEPT ![a] = [@ EXCEPT !.pnl = pnl, !.day = day]]

\* The rows of a set of agents in the order the database returns them, which is any.
Listings(S) == {s \in [1 .. Cardinality(S) -> S] : \A i, j \in DOMAIN s : s[i] = s[j] => i = j}
=============================================================================
