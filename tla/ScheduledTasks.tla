---------------------------- MODULE ScheduledTasks ----------------------------
(***************************************************************************)
(* The tasks of the clock (tasks.service.ts) and the endpoints that start  *)
(* them by hand (admin-tasks.controller.ts), which neither know of a run   *)
(* of the same task that is still under way nor wait for the one they      *)
(* start. Two of the endpoints start tasks one after the other. Price sync *)
(* and metrics sync are modules TokenPrices and MarketData: here each is   *)
(* one step. Errors do not leave a task.                                   *)
(***************************************************************************)
EXTENDS AgentMessages, AnalysisPipeline, PerformanceHistory, CreatorLeaderboard

CONSTANTS
  Plan   \* bound: how often each thing happens, functions from Happening to numbers

Task == {"analysis", "byhand", "trade", "portfolio", "pair", "snapshots", "cleanup",
         "leaderboard", "prices", "metrics"}
Performance == <<"metrics", "snapshots", "leaderboard">>
Chains == [performance |-> Performance, full |-> <<"prices">> \o Performance]
Happening == Task \cup DOMAIN Chains \cup {"hour", "status", "creation", "pnl", "markets", "pages"}

ASSUME PlanAssumption == \A p \in Plan : p \in [Happening -> Nat]

VARIABLES
  task,    \* the task of each run started so far, in their order
  synced,  \* the runs of price or metrics sync that have ended
  chain,   \* the tasks left of each chain started, and the run of the one under way
  left     \* what is left of the plan

tasksVars == <<task, synced, chain, left>>
vars == <<agents, messageVars, analysisVars, historyVars, boardVars, tasksVars>>

TasksInit == task = <<>> /\ synced = {} /\ chain = <<>> /\ left \in Plan
Init == AgentsInit /\ MessagesInit /\ AnalysisInit /\ HistoryInit /\ BoardInit /\ TasksInit

Ended(r) ==
  \/ round[r].stage \in {"done", "failed"}
  \/ gen[r].ended
  \/ snap[r].stage = "ended"
  \/ rebuild[r].stage = "ended"
  \/ r \in synced
-----------------------------------------------------------------------------
NextRun == Len(task) + 1
Happens(what) == left[what] > 0 /\ left' = [left EXCEPT ![what] = @ - 1]

\* The first step of a task.
Begin(t) ==
  LET r == NextRun IN
  /\ NextRun \in Run
  /\ task' = Append(task, t)
  /\ \/ /\ \/ t \in {"trade", "portfolio"} /\ BeginRound(r, t)
           \/ t = "pair" /\ \E a \in Created : BeginPair(r, a)
        /\ UNCHANGED <<agents, analysisVars, historyVars, boardVars, synced>>
     \/ /\ \/ t = "analysis" /\ generateParadexAnalysis(r)
           \/ t = "byhand" /\ \E asked \in ByHand : generateAnalysis(r, asked)
        /\ UNCHANGED <<agents, messageVars, historyVars, boardVars, synced>>
     \/ /\ \/ t = "snapshots" /\ BeginSnapshots(r)
           \/ t = "cleanup" /\ applyDataRetentionPolicy(r)
        /\ UNCHANGED <<messageVars, analysisVars, boardVars, synced>>
     \/ /\ t = "leaderboard" /\ FindWallets(r)
        /\ UNCHANGED <<messageVars, analysisVars, historyVars, synced>>
     \/ /\ t \in {"prices", "metrics"} /\ UNCHANGED synced
        /\ UNCHANGED <<agents, messageVars, analysisVars, historyVars, boardVars>>

\* By the clock, or by an endpoint of its own.
Start(t) == Happens(t) /\ Begin(t) /\ UNCHANGED chain

\* triggerAllPerformanceUpdates, triggerFullSystemSync.
StartChain(c) ==
  /\ Happens(c)
  /\ chain' = Append(chain, [todo |-> Chains[c], run |-> 0])
  /\ UNCHANGED <<agents, messageVars, analysisVars, historyVars, boardVars, task, synced>>

\* The task of a chain that is being waited for.
Waiting(i) == chain[i].run # 0 /\ ~Ended(chain[i].run)

\* The next task starts when the one before has ended, in whatever way.
GoOn(i) ==
  /\ chain[i].todo # <<>> /\ ~Waiting(i)
  /\ Begin(Head(chain[i].todo))
  /\ chain' = [chain EXCEPT ![i] = [todo |-> Tail(chain[i].todo), run |-> NextRun]]
  /\ UNCHANGED left

\* The sync of prices or of metrics goes through; the latter writes the PnL of an agent.
Sync(r) ==
  /\ r \in DOMAIN task /\ task[r] \in {"prices", "metrics"} /\ r \notin synced
  /\ synced' = synced \cup {r}
  /\ \/ task[r] = "metrics" /\ \E a \in Created, pnl, day \in Worth : WritePnL(a, pnl, day)
     \/ UNCHANGED agents
  /\ UNCHANGED <<messageVars, analysisVars, historyVars, boardVars, task, chain, left>>

StepOf(r) ==
  \/ MessageStep(r) /\ UNCHANGED <<agents, analysisVars, historyVars, boardVars, tasksVars>>
  \/ AnalysisStep(r) /\ UNCHANGED <<agents, messageVars, historyVars, boardVars, tasksVars>>
  \/ SnapshotStep(r) /\ UNCHANGED <<messageVars, analysisVars, boardVars, tasksVars>>
  \/ RebuildStep(r) /\ UNCHANGED <<messageVars, analysisVars, historyVars, tasksVars>>
  \/ Sync(r)

\* What happens beside the tasks.
Meanwhile ==
  /\ \/ /\ \/ \E a \in Agent : Happens("status") /\ SetStatus(a)
           \/ \E a \in Agent : Happens("creation") /\ CreateAgent(a)
           \/ \E a \in Agent, pnl \in Worth : Happens("pnl") /\ WritePnL(a, pnl, pnl)
        /\ UNCHANGED <<messageVars, analysisVars, historyVars, boardVars>>
     \/ /\ Happens("hour") /\ Tick
        /\ UNCHANGED <<messageVars, analysisVars, boardVars>>
     \/ /\ Happens("markets") /\ fetchAndUpdateMarkets
        /\ UNCHANGED <<agents, messageVars, historyVars, boardVars>>
     \/ /\ \/ \E of \in Sorts : Happens("pages") /\ ReadPage(of)
           \/ ReadCount /\ UNCHANGED left
        /\ UNCHANGED <<messageVars, analysisVars, historyVars>>
  /\ UNCHANGED <<task, synced, chain>>

Next ==
  \/ \E t \in Task : Start(t)
  \/ \E c \in DOMAIN Chains : StartChain(c)
  \/ \E i \in DOMAIN chain : GoOn(i)
  \/ \E r \in Run : StepOf(r)
  \/ Meanwhile

Spec == Init /\ [][Next]_vars

\* What the task of a chain waits for is answered, with success or an error.
FairSpec ==
  /\ Spec
  /\ WF_vars(\E i \in DOMAIN chain : GoOn(i))
  /\ WF_vars(\E i \in DOMAIN chain : Waiting(i) /\ StepOf(chain[i].run))
-----------------------------------------------------------------------------
\* The tasks of a chain end even if their statements fail, and each is started.
Through(i) == i \in DOMAIN chain /\ chain[i].todo = <<>> /\ ~Waiting(i)
ChainsRunThrough == \A i \in Run : i \in DOMAIN chain ~> Through(i)
=============================================================================
