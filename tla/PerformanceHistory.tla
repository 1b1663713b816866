-------------------------- MODULE PerformanceHistory --------------------------
(***************************************************************************)
(* Performance snapshots (performance-snapshot.service.ts): an hourly task *)
(* takes one of each running agent, one agent after the other, and a daily *)
(* one deletes what the retention policy does not keep. Time is counted in *)
(* hours; both may also be started by hand at any hour, and a run goes on  *)
(* while time passes. The ranking that ends each snapshot is in module     *)
(* MarketData.                                                             *)
(***************************************************************************)
EXTENDS AgentTable

CONSTANTS
  HoursPerDay,           \* 24, hour 0 being midnight
  HourlyDays, DailyDays, \* 7 and 90: how many days hourly and daily snapshots are kept
  SnapshotFaults         \* "failed": a statement may fail

ASSUME RetentionAssumption ==
  /\ HoursPerDay \in Nat \ {0} /\ HourlyDays \in Nat /\ DailyDays \in Nat
  /\ HourlyDays <= DailyDays

VARIABLES
  hour,       \* since the first midnight
  snapshots,  \* the rows of agent_performance_snapshots
  snap,       \* the task of each run
  taken       \* history: all snapshots there ever were

historyVars == <<hour, snapshots, snap, taken>>

Snapshot == [agent : Agent, at : Nat, pnl : Worth, day : Worth]

\* todo: the agents left, the first being worked on; pnl, day: its row as read, then with
\* the change of its balance over the last day.
NoSnap == [stage |-> "idle", todo |-> <<>>, pnl |-> 0, day |-> 0]

HistoryInit ==
  /\ hour = 0
  /\ snapshots = {} /\ taken = {}
  /\ snap = [r \in Run |-> NoSnap]

StatementFails == SnapshotFaults # {}
-----------------------------------------------------------------------------
Tick == hour' = hour + 1 /\ UNCHANGED <<snapshots, snap, taken, agents>>

\* updateAgentPerformanceSnapshots lists the running agents.
BeginSnapshots(r) ==
  /\ snap[r].stage = "idle"
  /\ \/ \E list \in Listings(Running) :
          snap' = [snap EXCEPT ![r] =
            [NoSnap EXCEPT !.todo = list, !.stage = IF list = <<>> THEN "ended" ELSE "read"]]
     \/ StatementFails /\ snap' = [snap EXCEPT ![r].stage = "ended"]
  /\ UNCHANGED <<hour, snapshots, taken, agents>>

\* An error is counted, and the next agent is taken.
NextSnapshot(r) ==
  [snap[r] EXCEPT !.todo = Tail(snap[r].todo), !.pnl = 0, !.day = 0,
     !.stage = IF Len(snap[r].todo) = 1 THEN "ended" ELSE "read"]

\* Faulty variant: an error ends the loop, and the task.
SkipAll(r) ==
  /\ StatementFails
  /\ snap' = [snap EXCEPT ![r].stage = "thrown"]
  /\ UNCHANGED <<snapshots, taken, agents>>

Skip(r) ==
  /\ StatementFails
  /\ snap' = [snap EXCEPT ![r] = NextSnapshot(r)]
  /\ UNCHANGED <<snapshots, taken, agents>>

ReadAgent(r) ==
  LET a == Head(snap[r].todo) IN
  /\ snap[r].stage = "read"
  /\ \/ /\ snap' = [snap EXCEPT ![r] =
               [@ EXCEPT !.stage = "compute", !.pnl = agents[a].pnl, !.day = agents[a].day]]
        /\ UNCHANGED <<snapshots, taken, agents>>
     \/ Skip(r)
  /\ UNCHANGED hour

\* getAgentPnL computes the PnL anew and writes it to the row, which may fail
\* unnoticed, while the snapshot keeps the one read. The change over the last
\* day is computed as well; when it is 0 the value read stands for it.
ComputePnL(r) ==
  LET a == Head(snap[r].todo) IN
  /\ snap[r].stage = "compute"
  /\ \/ /\ \E pnl \in Worth : agents' = [agents EXCEPT ![a].pnl = pnl]
        /\ \E change \in Worth : snap' = [snap EXCEPT ![r] =
             [@ EXCEPT !.stage = "insert", !.day = IF change # 0 THEN change ELSE snap[r].day]]
        /\ UNCHANGED <<snapshots, taken>>
     \/ Skip(r)
  /\ UNCHANGED hour

InsertSnapshot(r) ==
  LET row == [agent |-> Head(snap[r].todo), at |-> hour, pnl |-> snap[r].pnl, day |-> snap[r].day] IN
  /\ snap[r].stage = "insert"
  /\ \/ /\ snapshots' = snapshots \cup {row} /\ taken' = taken \cup {row}
        /\ snap' = [snap EXCEPT ![r].stage = "update"]
        /\ UNCHANGED agents
     \/ Skip(r)
  /\ UNCHANGED hour

\* The change over the last day is written to the row of market data.
UpdateRow(r) ==
  /\ snap[r].stage = "update"
  /\ \/ /\ agents' = [agents EXCEPT ![Head(snap[r].todo)].day = snap[r].day]
        /\ snap' = [snap EXCEPT ![r] = NextSnapshot(r)]
        /\ UNCHANGED <<snapshots, taken>>
     \/ Skip(r)
  /\ UNCHANGED hour

SnapshotStep(r) == ReadAgent(r) \/ ComputePnL(r) \/ InsertSnapshot(r) \/ UpdateRow(r)

IsMidnight(at) == at % HoursPerDay = 0
Ago(days) == hour - days * HoursPerDay

\* Faulty variant: the two ages are mixed up.
ExpiredSwapped(x, late) ==
  \/ x.at + late < Ago(DailyDays) /\ ~IsMidnight(x.at)
  \/ x.at + late < Ago(HourlyDays)

\* Old, and not of midnight, or very old. In the hour the limit falls into it depends on
\* the minute, which is what late is for.
Expired(x, late) ==
  \/ x.at + late < Ago(HourlyDays) /\ ~IsMidnight(x.at)
  \/ x.at + late < Ago(DailyDays)

applyDataRetentionPolicy(r) ==
  /\ snap[r].stage = "idle"
  /\ snap' = [snap EXCEPT ![r].stage = "ended"]
  /\ \/ \E late \in {-1, 0} : snapshots' = {x \in snapshots : ~Expired(x, late)}
     \/ StatementFails /\ UNCHANGED snapshots
  /\ UNCHANGED <<hour, taken, agents>>

\* getAgentPerformanceHistory: whatever the interval, all snapshots between two
\* hours in their order.
getAgentPerformanceHistory(a, from, to) ==
  {x \in snapshots : x.agent = a /\ from <= x.at /\ x.at <= to}
-----------------------------------------------------------------------------
\* Charts of the last seven days show every snapshot taken, and charts of the last ninety
\* days those of midnight, through cleanups at any hour and snapshots taken meanwhile.
ChartsKeepTheirData ==
  \A x \in taken :
    x.at > Ago(HourlyDays) \/ (IsMidnight(x.at) /\ x.at > Ago(DailyDays)) =>
      x \in getAgentPerformanceHistory(x.agent, 0, hour)
=============================================================================
