--------------------------- MODULE MarketDataProofs ---------------------------
(***************************************************************************)
(* For any number of agents, reports, forks, runs of the sync task and     *)
(* snapshots, and any failures: the table of market data is well formed,   *)
(* its ranks included; the trade count of an agent exceeds its trades by   *)
(* no more than its reports once in flight; forks that did not overlap     *)
(* and did not fail are all counted; and a ranking pass that nothing       *)
(* disturbed leaves a ranking by pnlCycle.                                 *)
(***************************************************************************)
EXTENDS MarketData, FiniteSetTheorems, SequenceTheorems, TLAPS

LEMMA AgentsCounted == Cardinality(Agent) \in Nat \ {0}
<1>1. IsFiniteSet(Agent) /\ Cardinality(Agent) \in Nat
  BY AgentsAssumption, FS_CardinalityType
<1> QED BY <1>1, AgentsAssumption, FS_EmptySet

\* What a pass has left to write is no longer than the table.
PassesAreShort ==
  \A p \in Run :
    /\ Pass(p) => Len(run[p].order) <= Cardinality(Agent)
    /\ run[p].pc = "put" => run[p].order # <<>>

Typed == TypeOK /\ PassesAreShort

LEMMA TypedInit == Init => Typed
<1> SUFFICES ASSUME Init PROVE Typed
  OBVIOUS
<1>1. lmd \in [Agent -> Row]
  BY AgentsCounted, WorthAssumption DEF Init, Row
<1>2. trade \in [Trade -> Report] /\ fork \in [Fork -> Lineage]
  BY DEF Init, Report, Lineage
<1>3. run \in [Run -> RunState] /\ \A p \in Run : run[p].pc = "idle"
  BY WorthAssumption, EmptySeq DEF Init, NoPnl, RunState, RunPc
<1> QED BY <1>1, <1>2, <1>3 DEF Init, Typed, TypeOK, PassesAreShort, Pass

\* Setting one state, one row or one report leaves the others alone.
LEMMA SetRun ==
  ASSUME run \in [Run -> RunState], NEW p \in Run, NEW r \in RunState,
         run' = [run EXCEPT ![p] = r]
  PROVE  run' \in [Run -> RunState] /\ run'[p] = r /\ \A q \in Run \ {p} : run'[q] = run[q]
OBVIOUS

LEMMA SetRow ==
  ASSUME lmd \in [Agent -> Row], NEW a \in Agent, NEW r \in Row, lmd' = [lmd EXCEPT ![a] = r]
  PROVE  lmd' \in [Agent -> Row] /\ lmd'[a] = r /\ \A b \in Agent \ {a} : lmd'[b] = lmd[b]
OBVIOUS

\* A run whose state goes to r, well formed, keeps Typed if the rest does.
LEMMA TypedRun ==
  ASSUME Typed, NEW p \in Run, NEW r \in RunState, run' = [run EXCEPT ![p] = r],
         r.pc \in {"rank", "put"} => r.order # <<>>,
         r.pc = "rank" => Len(r.order) <= Cardinality(Agent),
         lmd' \in [Agent -> Row], settled' \in Run \cup {"none", "yes"},
         UNCHANGED <<worth, trades, trade, fork, crowd, raced>>
  PROVE  Typed'
<1>1. run' \in [Run -> RunState] /\ run'[p] = r /\ \A q \in Run \ {p} : run'[q] = run[q]
  BY SetRun DEF Typed, TypeOK
<1> HIDE DEF RunState
<1>2. PassesAreShort' /\ \A q \in Run : Pass(q)' => run'[q].order # <<>>
  BY <1>1 DEF Typed, TypeOK, PassesAreShort, Pass
<1> QED BY <1>1, <1>2 DEF Typed, TypeOK

\* The actions of a run that do not write the table.
LEMMA TypedReading ==
  ASSUME Typed, NEW p \in Run
  PROVE  /\ p \in Sync /\ (BeginSync(p) \/ CountTrades(p) \/ EndLoop(p)) => Typed'
         /\ \A a \in Agent : BeginSnapshot(p, a) => Typed'
         /\ Compute(p) \/ GoOn(p) \/ List(p) => Typed'
<1>1. run[p] \in RunState /\ lmd \in [Agent -> Row] /\ settled \in Run \cup {"none", "yes"}
      /\ trades \in [Agent -> Nat] /\ worth \in [Agent -> Worth]
  BY DEF Typed, TypeOK
<1>2. ASSUME NEW pc \in RunPc \ {"rank", "put"}, run' = [run EXCEPT ![p].pc = pc],
             settled' \in Run \cup {"none", "yes"}, OnlyRunAndSettled
      PROVE  Typed'
  <2> DEFINE r == [run[p] EXCEPT !.pc = pc]
  <2>1. r \in RunState /\ r.pc = pc
    BY <1>1 DEF RunState
  <2>2. run' = [run EXCEPT ![p] = r]
    BY <1>2
  <2> HIDE DEF r
  <2> QED BY <1>1, <1>2, <2>1, <2>2, TypedRun DEF OnlyRunAndSettled
<1>3. ASSUME NEW pc \in RunPc \ {"rank", "put"}, NEW todo \in SUBSET Agent,
             run' = [run EXCEPT ![p] = [run[p] EXCEPT !.pc = pc, !.todo = todo]],
             UNCHANGED settled, OnlyRunAndSettled
      PROVE  Typed'
  <2> DEFINE r == [run[p] EXCEPT !.pc = pc, !.todo = todo]
  <2>1. r \in RunState /\ r.pc = pc
    BY <1>1 DEF RunState
  <2>2. run' = [run EXCEPT ![p] = r]
    BY <1>3
  <2> HIDE DEF r
  <2> QED BY <1>1, <1>3, <2>1, <2>2, TypedRun DEF OnlyRunAndSettled
<1>11. ASSUME run' = [run EXCEPT ![p] = [run[p] EXCEPT !.pc = "list", !.got = NoPnl]],
              UNCHANGED settled, OnlyRunAndSettled
       PROVE  Typed'
  <2> DEFINE r == [run[p] EXCEPT !.pc = "list", !.got = NoPnl]
  <2>1. NoPnl \in [Agent -> Worth]
    BY WorthAssumption DEF NoPnl
  <2>2. r \in RunState /\ r.pc = "list"
    BY <1>1, <2>1 DEF RunState, RunPc
  <2>3. run' = [run EXCEPT ![p] = r]
    BY <1>11
  <2> HIDE DEF r
  <2> QED BY <1>1, <1>11, <2>2, <2>3, TypedRun DEF OnlyRunAndSettled
<1>4. ASSUME p \in Sync, BeginSync(p) PROVE Typed'
  <2>1. CASE run' = [run EXCEPT ![p] = [run[p] EXCEPT !.pc = "pnl", !.todo = Running]]
    BY <1>3, <1>4, <2>1, AgentsAssumption DEF BeginSync, RunPc
  <2>2. CASE run' = [run EXCEPT ![p].pc = "over"]
    BY <1>1, <1>2, <1>4, <2>2 DEF BeginSync, RunPc
  <2> QED BY <1>4, <2>1, <2>2 DEF BeginSync
<1>5. ASSUME NEW a \in Agent, BeginSnapshot(p, a) PROVE Typed'
  <2>1. CASE run' = [run EXCEPT ![p] = [run[p] EXCEPT !.pc = "pnl", !.todo = {a}]]
    <3>1. {a} \in SUBSET Agent
      OBVIOUS
    <3> QED BY <1>3, <1>5, <2>1, <3>1 DEF BeginSnapshot, RunPc
  <2>2. CASE run' = [run EXCEPT ![p].pc = "over"]
    BY <1>1, <1>2, <1>5, <2>2 DEF BeginSnapshot, RunPc
  <2> QED BY <1>5, <2>1, <2>2 DEF BeginSnapshot
<1>6. ASSUME Compute(p) PROVE Typed'
  <2>1. PICK a \in run[p].todo :
          \/ run' = [run EXCEPT ![p] = [run[p] EXCEPT !.todo = run[p].todo \ {a},
                       !.due = run[p].due \cup {a}, !.got = [run[p].got EXCEPT ![a] = worth[a]]]]
          \/ run' = [run EXCEPT ![p] = [run[p] EXCEPT !.pc = "adrift", !.todo = run[p].todo \ {a}]]
    BY <1>6 DEF Compute
  <2>2. a \in Agent
    BY <1>1 DEF RunState
  <2>3. CASE run' = [run EXCEPT ![p] = [run[p] EXCEPT !.pc = "adrift", !.todo = run[p].todo \ {a}]]
    <3>1. run[p].todo \ {a} \in SUBSET Agent
      BY <1>1 DEF RunState
    <3> QED BY <1>3, <1>6, <2>3, <3>1 DEF Compute, RunPc
  <2>4. CASE run' = [run EXCEPT ![p] = [run[p] EXCEPT !.todo = run[p].todo \ {a},
                       !.due = run[p].due \cup {a}, !.got = [run[p].got EXCEPT ![a] = worth[a]]]]
    <3> DEFINE r == [run[p] EXCEPT !.todo = run[p].todo \ {a}, !.due = run[p].due \cup {a},
                                   !.got = [run[p].got EXCEPT ![a] = worth[a]]]
    <3>1. r \in RunState /\ r.pc = run[p].pc
      BY <1>1, <2>2 DEF RunState
    <3>2. run' = [run EXCEPT ![p] = r]
      BY <2>4
    <3> HIDE DEF r
    <3> QED BY <1>1, <1>6, <3>1, <3>2, TypedRun DEF Compute, OnlyRunAndSettled
  <2> QED BY <2>1, <2>3, <2>4
<1>7. ASSUME GoOn(p) PROVE Typed'
  <2>1. CASE run' = [run EXCEPT ![p] = [run[p] EXCEPT !.pc = "loop", !.todo = Agent]]
    BY <1>3, <1>7, <2>1 DEF GoOn, RunPc
  <2>2. CASE run' = [run EXCEPT ![p] = [run[p] EXCEPT !.pc = "list", !.got = NoPnl]]
    BY <1>7, <1>11, <2>2 DEF GoOn
  <2> QED BY <1>7, <2>1, <2>2 DEF GoOn
<1>8. ASSUME p \in Sync, CountTrades(p) PROVE Typed'
  <2>1. PICK a \in run[p].todo :
          \/ run' = [run EXCEPT ![p] = [run[p] EXCEPT !.pc = "put", !.order = <<a>>,
                                                      !.count = trades[a]]]
          \/ run' = [run EXCEPT ![p].todo = run[p].todo \ {a}]
    BY <1>8 DEF CountTrades
  <2>2. a \in Agent
    BY <1>1 DEF RunState
  <2>3. CASE run' = [run EXCEPT ![p].todo = run[p].todo \ {a}]
    <3> DEFINE r == [run[p] EXCEPT !.todo = run[p].todo \ {a}]
    <3>1. r \in RunState /\ r.pc = run[p].pc
      BY <1>1 DEF RunState
    <3>2. run' = [run EXCEPT ![p] = r]
      BY <2>3
    <3> HIDE DEF r
    <3> QED BY <1>1, <1>8, <3>1, <3>2, TypedRun DEF CountTrades, OnlyRunAndSettled
  <2>4. CASE run' = [run EXCEPT ![p] = [run[p] EXCEPT !.pc = "put", !.order = <<a>>,
                                                      !.count = trades[a]]]
    <3> DEFINE r == [run[p] EXCEPT !.pc = "put", !.order = <<a>>, !.count = trades[a]]
    <3>1. <<a>> \in Seq(Agent) /\ <<a>> # <<>> /\ trades[a] \in Nat
      BY <1>1, <2>2
    <3>2. r \in RunState /\ r.pc = "put" /\ r.order # <<>>
      BY <1>1, <3>1 DEF RunState, RunPc
    <3>3. run' = [run EXCEPT ![p] = r]
      BY <2>4
    <3> HIDE DEF r
    <3> QED BY <1>1, <1>8, <3>2, <3>3, TypedRun DEF CountTrades, OnlyRunAndSettled
  <2> QED BY <2>1, <2>3, <2>4
<1>9. ASSUME p \in Sync, EndLoop(p) PROVE Typed'
  BY <1>9, <1>11 DEF EndLoop
<1>10. ASSUME List(p) PROVE Typed'
  <2>1. CASE run' = [run EXCEPT ![p].pc = "over"] /\ UNCHANGED settled
    BY <1>1, <1>2, <1>10, <2>1 DEF List, RunPc
  <2>2. ASSUME NEW q \in Rankings, run' = [run EXCEPT ![p] = [run[p] EXCEPT !.pc = "rank", !.order = q]],
               settled' = IF \E o \in Run : Pass(o) THEN "none" ELSE p
        PROVE  Typed'
    <3> DEFINE r == [run[p] EXCEPT !.pc = "rank", !.order = q]
    <3>1. q \in [1..Cardinality(Agent) -> Agent]
      BY DEF Rankings
    <3>2. q \in Seq(Agent) /\ Len(q) = Cardinality(Agent) /\ q # <<>>
      BY <3>1, AgentsCounted
    <3>3. r \in RunState /\ r.pc = "rank" /\ r.order = q
      BY <1>1, <3>2 DEF RunState, RunPc
    <3>4. run' = [run EXCEPT ![p] = r]
      BY <2>2
    <3> HIDE DEF r
    <3>5. settled' \in Run \cup {"none", "yes"}
      BY <2>2
    <3>6. UNCHANGED <<worth, trades, lmd, trade, fork, crowd, raced>>
      BY <1>10 DEF List, OnlyRunAndSettled
    <3>7. r.order # <<>> /\ Len(r.order) <= Cardinality(Agent) /\ lmd' \in [Agent -> Row]
      BY <1>1, <3>2, <3>3, <3>6, AgentsCounted
    <3> QED BY <3>3, <3>4, <3>5, <3>6, <3>7, TypedRun
  <2> QED BY <1>10, <2>1, <2>2 DEF List
<1> QED BY <1>4, <1>5, <1>6, <1>7, <1>8, <1>9, <1>10

\* The actions of a run that write the table.
LEMMA TypedWriting ==
  ASSUME Typed, NEW p \in Run
  PROVE  /\ WritePnl(p) \/ WriteRank(p) => Typed'
         /\ p \in Sync /\ PutMetrics(p) => Typed'
<1>1. run[p] \in RunState /\ lmd \in [Agent -> Row] /\ settled \in Run \cup {"none", "yes"}
  BY DEF Typed, TypeOK
<1>2. ASSUME WritePnl(p) PROVE Typed'
  <2>1. PICK a \in run[p].due : run' = [run EXCEPT ![p].due = run[p].due \ {a}]
          /\ \/ lmd' = [lmd EXCEPT ![a].pnl = run[p].got[a]] /\ settled' = "none"
             \/ UNCHANGED <<lmd, settled>>
    BY <1>2 DEF WritePnl
  <2>2. a \in Agent /\ run[p].got[a] \in Worth
    BY <1>1 DEF RunState
  <2> DEFINE r == [run[p] EXCEPT !.due = run[p].due \ {a}]
             w == [lmd[a] EXCEPT !.pnl = run[p].got[a]]
  <2>3. r \in RunState /\ r.pc = run[p].pc
    BY <1>1 DEF RunState
  <2>4. w \in Row
    BY <1>1, <2>2 DEF Row
  <2>5. run' = [run EXCEPT ![p] = r]
    BY <2>1
  <2>6. lmd' = [lmd EXCEPT ![a] = w] \/ lmd' = lmd
    BY <2>1
  <2>7. settled' \in Run \cup {"none", "yes"}
    BY <1>1, <2>1
  <2> HIDE DEF r, w
  <2>8. lmd' \in [Agent -> Row]
    BY <1>1, <2>2, <2>4, <2>6, SetRow
  <2>9. UNCHANGED <<worth, trades, trade, fork, crowd, raced>> /\ run[p].pc \in {"pnl", "adrift"}
    BY <1>2 DEF WritePnl, OnlyRow
  <2> QED BY <2>3, <2>5, <2>7, <2>8, <2>9, TypedRun
<1>3. ASSUME WriteRank(p) PROVE Typed'
  <2> DEFINE left == run[p].order
             rank == Cardinality(Agent) - Len(left) + 1
  <2>1. left \in Seq(Agent) /\ left # <<>> /\ Len(left) <= Cardinality(Agent) /\ run[p].pc = "rank"
    BY <1>1, <1>3 DEF Typed, TypeOK, PassesAreShort, Pass, WriteRank, RunState
  <2>2. left[1] \in Agent /\ Tail(left) \in Seq(Agent) /\ Len(left) \in Nat \ {0}
        /\ Len(Tail(left)) = Len(left) - 1
    BY <2>1, HeadTailProperties, EmptySeq
  <2>3. rank \in 0..Cardinality(Agent)
    <3>1. \A N \in Nat : \A n \in Nat \ {0} : n <= N => N - n + 1 \in 0..N
      OBVIOUS
    <3> QED BY <2>1, <2>2, <3>1, AgentsCounted
  <2>4. UNCHANGED <<worth, trades, trade, fork, crowd, raced>>
    BY <1>3 DEF WriteRank, OnlyRow
  <2>5. settled' \in Run \cup {"none", "yes"}
    BY <1>1, <1>3 DEF WriteRank
  <2>6. CASE run' = [run EXCEPT ![p].pc = "over"] /\ UNCHANGED lmd
    <3> DEFINE r == [run[p] EXCEPT !.pc = "over"]
    <3>1. r \in RunState /\ r.pc = "over"
      BY <1>1 DEF RunState, RunPc
    <3>2. run' = [run EXCEPT ![p] = r]
      BY <2>6
    <3> HIDE DEF r
    <3> QED BY <1>1, <2>4, <2>5, <2>6, <3>1, <3>2, TypedRun
  <2>7. CASE /\ lmd' = [lmd EXCEPT ![left[1]].rank = rank]
             /\ run' = [run EXCEPT ![p] = [run[p] EXCEPT
                  !.pc = IF Len(left) = 1 THEN "over" ELSE "rank", !.order = Tail(left)]]
    <3> DEFINE r == [run[p] EXCEPT !.pc = IF Len(left) = 1 THEN "over" ELSE "rank",
                                   !.order = Tail(left)]
               w == [lmd[left[1]] EXCEPT !.rank = rank]
    <3>1. r \in RunState /\ r.order = Tail(left) /\ r.pc = IF Len(left) = 1 THEN "over" ELSE "rank"
      BY <1>1, <2>2 DEF RunState, RunPc
    <3>2. w \in Row
      BY <1>1, <2>2, <2>3 DEF Row
    <3>3. run' = [run EXCEPT ![p] = r] /\ lmd' = [lmd EXCEPT ![left[1]] = w]
      BY <2>7
    <3> HIDE DEF r, w
    <3>4. lmd' \in [Agent -> Row]
      BY <1>1, <2>2, <3>2, <3>3, SetRow
    <3>5. r.pc \in {"rank", "put"} => r.order # <<>> /\ Len(r.order) <= Cardinality(Agent)
      <4>1. \A N \in Nat : \A n \in Nat \ {0} : n <= N /\ n # 1 => n - 1 # 0 /\ n - 1 <= N
        OBVIOUS
      <4>2. Len(left) # 1 => Len(Tail(left)) # 0 /\ Len(Tail(left)) <= Cardinality(Agent)
        BY <2>1, <2>2, <4>1, AgentsCounted
      <4> QED BY <3>1, <4>2, EmptySeq
    <3> QED BY <2>4, <2>5, <3>1, <3>3, <3>4, <3>5, TypedRun
  <2> QED BY <1>3, <2>6, <2>7 DEF WriteRank
<1>4. ASSUME p \in Sync, PutMetrics(p) PROVE Typed'
  <2> DEFINE a == run[p].order[1]
             r == [run[p] EXCEPT !.pc = "loop", !.todo = run[p].todo \ {a}, !.count = 0, !.order = <<>>]
             w == [lmd[a] EXCEPT !.trades = run[p].count, !.pnl = run[p].got[a]]
  <2>1. run[p].order \in Seq(Agent) /\ run[p].order # <<>>
    BY <1>1, <1>4 DEF Typed, PassesAreShort, PutMetrics, RunState
  <2>2. a \in Agent /\ run[p].got[a] \in Worth /\ run[p].count \in Nat
    BY <1>1, <2>1 DEF RunState
  <2>3. r \in RunState /\ r.pc = "loop"
    BY <1>1, EmptySeq DEF RunState, RunPc
  <2>4. w \in Row
    BY <1>1, <2>2 DEF Row
  <2>5. run' = [run EXCEPT ![p] = r]
    BY <1>4 DEF PutMetrics
  <2>6. lmd' = [lmd EXCEPT ![a] = w] \/ lmd' = lmd
    BY <1>4 DEF PutMetrics
  <2>7. settled' \in Run \cup {"none", "yes"} /\ UNCHANGED <<worth, trades, trade, fork, crowd, raced>>
    BY <1>1, <1>4 DEF PutMetrics, OnlyRow
  <2> HIDE DEF r, w
  <2>8. lmd' \in [Agent -> Row]
    BY <1>1, <2>2, <2>4, <2>6, SetRow
  <2> QED BY <2>3, <2>5, <2>7, <2>8, TypedRun
<1> QED BY <1>2, <1>3, <1>4
-----------------------------------------------------------------------------
LEMMA CountingFinite ==
  \A a \in Agent : IsFiniteSet(Counting(a)) /\ Cardinality(Counting(a)) \in Nat
BY TradesAssumption, FS_Subset, FS_CardinalityType DEF Counting

\* The reports of trades: what each step does to its report and to the table.
LEMMA ReportMoves ==
  ASSUME TypeOK, NEW t \in Trade, NEW a \in Agent, a = trade[t].of,
         CreateTradingInformation(t)
  PROVE  /\ trade' \in [Trade -> Report] /\ trade'[t].of = a
         /\ \A u \in Trade \ {t} : trade'[u] = trade[u]
         /\ lmd' \in [Agent -> Row]
         /\ \A b \in Agent :
              \/ lmd'[b].trades = lmd[b].trades
              \/ b = a /\ trade[t].pc = "write" /\ lmd'[a].trades = trade[t].seen + 1
         /\ \/ /\ trade[t].pc = "idle" /\ trade'[t].pc = "read"
               /\ trades' = [trades EXCEPT ![a] = trades[a] + 1]
               /\ crowd' = [crowd EXCEPT ![a] = Larger(crowd[a], Cardinality(Counting(a)) + 1)]
            \/ /\ trade[t].pc = "read" /\ trade'[t].pc = "write"
               /\ trade'[t].seen = lmd[a].trades /\ UNCHANGED <<trades, crowd>>
            \/ trade'[t].pc = "over" /\ UNCHANGED <<trades, crowd>>
         /\ UNCHANGED <<worth, fork, run, raced, settled>>
<1>1. trade[t] \in Report /\ lmd \in [Agent -> Row] /\ trade \in [Trade -> Report]
  BY DEF TypeOK
<1>5. ASSUME NEW pc \in {"read", "write", "over"}, NEW seen \in Nat,
             trade' = [trade EXCEPT ![t] = [trade[t] EXCEPT !.pc = pc, !.seen = seen]]
      PROVE  /\ trade' \in [Trade -> Report] /\ trade'[t].of = a
             /\ trade'[t].pc = pc /\ trade'[t].seen = seen
             /\ \A u \in Trade \ {t} : trade'[u] = trade[u]
  <2> DEFINE r == [trade[t] EXCEPT !.pc = pc, !.seen = seen]
  <2>1. r \in Report /\ r.of = a /\ r.pc = pc /\ r.seen = seen
    BY <1>1 DEF Report
  <2>2. trade' = [trade EXCEPT ![t] = r]
    BY <1>5
  <2> HIDE DEF r
  <2> QED BY <1>1, <2>1, <2>2
<1>6. ASSUME NEW pc \in {"read", "write", "over"}, trade' = [trade EXCEPT ![t].pc = pc]
      PROVE  /\ trade' \in [Trade -> Report] /\ trade'[t].of = a /\ trade'[t].pc = pc
             /\ \A u \in Trade \ {t} : trade'[u] = trade[u]
  <2> DEFINE r == [trade[t] EXCEPT !.pc = pc]
  <2>1. r \in Report /\ r.of = a /\ r.pc = pc
    BY <1>1 DEF Report
  <2>2. trade' = [trade EXCEPT ![t] = r]
    BY <1>6
  <2> HIDE DEF r
  <2> QED BY <1>1, <2>1, <2>2
<1>2. CASE InsertTrade(t)
  <2>1. UNCHANGED <<worth, lmd, fork, run, raced, settled>> /\ trade[t].pc = "idle"
    BY <1>2 DEF InsertTrade
  <2>2. CASE /\ trades' = [trades EXCEPT ![a] = trades[a] + 1]
             /\ trade' = [trade EXCEPT ![t].pc = "read"]
             /\ crowd' = [crowd EXCEPT ![a] = Larger(crowd[a], Cardinality(Counting(a)) + 1)]
    BY <1>1, <1>6, <2>1, <2>2
  <2>3. CASE trade' = [trade EXCEPT ![t].pc = "over"] /\ UNCHANGED <<trades, crowd>>
    BY <1>1, <1>6, <2>1, <2>3
  <2> QED BY <1>2, <2>2, <2>3 DEF InsertTrade
<1>3. CASE ReadCount(t)
  <2>1. lmd[a].trades \in Nat
    BY <1>1 DEF Row
  <2>2. trade[t].pc = "read" /\ UNCHANGED <<worth, trades, lmd, fork, run, crowd, raced, settled>>
    BY <1>3 DEF ReadCount
  <2>3. CASE trade' = [trade EXCEPT ![t] = [trade[t] EXCEPT !.pc = "write", !.seen = lmd[a].trades]]
    BY <1>1, <1>5, <2>1, <2>2, <2>3
  <2>4. CASE trade' = [trade EXCEPT ![t].pc = "over"]
    BY <1>1, <1>6, <2>2, <2>4
  <2> QED BY <1>3, <2>3, <2>4 DEF ReadCount
<1>4. CASE WriteCount(t)
  <2> DEFINE w == [lmd[a] EXCEPT !.trades = trade[t].seen + 1]
  <2>1. w \in Row /\ w.trades = trade[t].seen + 1
    BY <1>1 DEF Row, Report
  <2>2. lmd' = [lmd EXCEPT ![a] = w] \/ lmd' = lmd
    BY <1>4 DEF WriteCount
  <2> HIDE DEF w
  <2>3. /\ lmd' \in [Agent -> Row]
        /\ \A b \in Agent :
             \/ lmd'[b].trades = lmd[b].trades
             \/ b = a /\ lmd'[a].trades = trade[t].seen + 1
    BY <1>1, <2>1, <2>2, SetRow
  <2>4. trade' \in [Trade -> Report] /\ trade'[t].of = a /\ trade'[t].pc = "over"
        /\ \A u \in Trade \ {t} : trade'[u] = trade[u]
    BY <1>4, <1>6 DEF WriteCount
  <2> QED BY <1>4, <2>3, <2>4 DEF WriteCount
<1> QED BY <1>2, <1>3, <1>4 DEF CreateTradingInformation

LEMMA TypedNext == Typed /\ [Next]_vars => Typed'
<1> SUFFICES ASSUME Typed, [Next]_vars PROVE Typed'
  OBVIOUS
<1>1. TypeOK /\ PassesAreShort
  BY DEF Typed
<1>2. ASSUME UNCHANGED run, TypeOK' PROVE Typed'
  BY <1>1, <1>2 DEF Typed, PassesAreShort, Pass
<1>3. CASE UNCHANGED vars
  BY <1>1, <1>2, <1>3 DEF vars, TypeOK, Pass
<1>4. ASSUME NEW a \in Agent, Change(a) PROVE Typed'
  BY <1>1, <1>2, <1>4 DEF Change, TypeOK, Pass
<1>5. ASSUME NEW t \in Trade, CreateTradingInformation(t) PROVE Typed'
  <2>1. PICK a \in Agent : a = trade[t].of
    BY <1>1 DEF TypeOK, Report
  <2>2. trades' \in [Agent -> Nat] /\ crowd' \in [Agent -> Nat]
    <3>1. Larger(crowd[a], Cardinality(Counting(a)) + 1) \in Nat
      BY <1>1, CountingFinite DEF TypeOK, Larger
    <3>2. \/ /\ trades' = [trades EXCEPT ![a] = trades[a] + 1]
             /\ crowd' = [crowd EXCEPT ![a] = Larger(crowd[a], Cardinality(Counting(a)) + 1)]
          \/ UNCHANGED <<trades, crowd>>
      BY <1>1, <1>5, <2>1, ReportMoves
    <3>3. trades \in [Agent -> Nat] /\ crowd \in [Agent -> Nat]
      BY <1>1 DEF TypeOK
    <3>4. ASSUME NEW n \in Nat, crowd' = [crowd EXCEPT ![a] = n] PROVE crowd' \in [Agent -> Nat]
      BY <3>3, <3>4
    <3> QED BY <3>1, <3>2, <3>3, <3>4
  <2> QED BY <1>1, <1>2, <1>5, <2>1, <2>2, ReportMoves DEF TypeOK, Pass
<1>6. ASSUME NEW f \in Fork, ForkAgent(f) PROVE Typed'
  <2>1. fork[f] \in Lineage /\ lmd \in [Agent -> Row] /\ fork \in [Fork -> Lineage]
        /\ raced \subseteq Agent
    BY <1>1 DEF TypeOK
  <2>2. fork[f].of \in Agent /\ fork[f].seen \in Nat
    BY <2>1 DEF Lineage
  <2>3. CASE ReadSource(f)
    <3>1. lmd[fork[f].of].forks \in Nat
      BY <2>1, <2>2 DEF Row
    <3>2. fork' \in [Fork -> Lineage]
      <4> DEFINE n == lmd[fork[f].of].forks
                 r == [fork[f] EXCEPT !.pc = "write", !.seen = n]
                 o == [fork[f] EXCEPT !.pc = "over"]
      <4>1. n \in Nat
        BY <3>1
      <4>2. fork' = [fork EXCEPT ![f] = r] \/ fork' = [fork EXCEPT ![f] = o]
        BY <2>3 DEF ReadSource
      <4> HIDE DEF n
      <4>3. r \in Lineage /\ o \in Lineage
        BY <2>1, <4>1 DEF Lineage
      <4> HIDE DEF r, o
      <4> QED BY <2>1, <4>2, <4>3
    <3>3. raced' \subseteq Agent
      BY <2>1, <2>2, <2>3 DEF ReadSource
    <3> QED BY <1>1, <1>2, <2>3, <3>2, <3>3 DEF ReadSource, TypeOK, Pass
  <2>4. CASE CountFork(f)
    <3> DEFINE w == [lmd[fork[f].of] EXCEPT !.forks = fork[f].seen + 1]
    <3>1. w \in Row
      BY <2>1, <2>2 DEF Row
    <3>2. lmd' = [lmd EXCEPT ![fork[f].of] = w] \/ lmd' = lmd
      BY <2>4 DEF CountFork
    <3> HIDE DEF w
    <3>3. lmd' \in [Agent -> Row]
      BY <2>1, <2>2, <3>1, <3>2, SetRow
    <3>4. fork' \in [Fork -> Lineage]
      BY <2>1, <2>2, <2>4 DEF CountFork, Lineage
    <3>5. raced' \subseteq Agent
      BY <2>1, <2>2, <2>4 DEF CountFork
    <3> QED BY <1>1, <1>2, <2>4, <3>3, <3>4, <3>5 DEF CountFork, TypeOK, Pass
  <2> QED BY <1>6, <2>3, <2>4 DEF ForkAgent
<1>7. ASSUME NEW x \in Sync, SyncStep(x) PROVE Typed'
  BY <1>7, TypedReading, TypedWriting DEF SyncStep, Run
<1>8. ASSUME NEW p \in Run, RunStep(p) PROVE Typed'
  BY <1>8, TypedReading, TypedWriting DEF RunStep
<1>9. ASSUME NEW s \in Snap, NEW a \in Agent, BeginSnapshot(s, a) PROVE Typed'
  BY <1>9, TypedReading DEF Run
<1> QED BY <1>3, <1>4, <1>5, <1>6, <1>7, <1>8, <1>9 DEF Next

\* Reports, forks, runs and rows stay well formed, and every rank written is
\* one of a table of that size (updateAgentRankings).
THEOREM RanksInTable == Spec => []TypeOK
<1>1. Typed => TypeOK
  BY DEF Typed
<1> QED BY <1>1, TypedInit, TypedNext, PTL DEF Spec
-----------------------------------------------------------------------------
\* A count about to be written, by a report or by a run, was right when it was
\* read; since then the trades that are no longer being counted can only have
\* become more.
Bounded ==
  /\ \A a \in Agent : Cardinality(Counting(a)) <= crowd[a]
  /\ TradesNotInvented
  /\ \A t \in Trade, a \in Agent : trade[t].of = a /\ trade[t].pc = "write" =>
       trade[t].seen + Cardinality(Counting(a)) <= trades[a] + crowd[a]
  /\ \A p \in Run : run[p].pc = "put" => run[p].count <= trades[run[p].order[1]]

LEMMA BoundedInit == Init => Bounded
<1> SUFFICES ASSUME Init PROVE Bounded
  OBVIOUS
<1>1. \A a \in Agent : Counting(a) = {}
  BY DEF Init, Counting
<1>2. \A a \in Agent : Cardinality(Counting(a)) = 0
  BY <1>1, FS_EmptySet
<1>3. \A t \in Trade : trade[t].pc = "idle"
  BY DEF Init
<1>4. \A p \in Run : run[p].pc = "idle"
  BY DEF Init
<1>5. \A a \in Agent : trades[a] = 0 /\ crowd[a] = 0 /\ lmd[a].trades = 0
  BY DEF Init
<1> QED BY <1>2, <1>3, <1>4, <1>5 DEF Bounded, TradesNotInvented

\* A step that counts and reports nothing.
LEMMA BoundedStill ==
  ASSUME Typed, Bounded, Typed', UNCHANGED <<trades, trade, crowd>>,
         \A a \in Agent : lmd'[a].trades = lmd[a].trades \/ lmd'[a].trades <= trades[a],
         \A p \in Run : run'[p].pc = "put" => run'[p].count <= trades[run'[p].order[1]]
  PROVE  Bounded'
<1>1. \A a \in Agent : Counting(a)' = Counting(a)
  BY DEF Counting
<1>2. \A a \in Agent : /\ Cardinality(Counting(a)) \in Nat /\ trades[a] \in Nat
                       /\ crowd[a] \in Nat /\ lmd'[a].trades \in Nat
  BY CountingFinite DEF Typed, TypeOK, Row
<1>3. \A t \in Trade : trade[t].of \in Agent
  BY DEF Typed, TypeOK, Report
<1>4. ASSUME NEW a \in Agent
      PROVE  lmd'[a].trades + Cardinality(Counting(a)) <= trades[a] + crowd[a]
  <2>1. CASE lmd'[a].trades = lmd[a].trades
    BY <2>1 DEF Bounded, TradesNotInvented
  <2>2. CASE lmd'[a].trades <= trades[a]
    BY <1>2, <2>2 DEF Bounded
  <2> QED BY <2>1, <2>2
<1> QED BY <1>1, <1>3, <1>4 DEF Bounded, TradesNotInvented

\* What a report changes in the number of reports being counted.
LEMMA CountingMoves ==
  ASSUME Typed, NEW t \in Trade, NEW a \in Agent, a = trade[t].of, trade'[t].of = a,
         \A u \in Trade \ {t} : trade'[u] = trade[u]
  PROVE  /\ \A b \in Agent \ {a} : Counting(b)' = Counting(b)
         /\ trade[t].pc = "idle" /\ trade'[t].pc = "read" =>
              Cardinality(Counting(a)') = Cardinality(Counting(a)) + 1
         /\ trade[t].pc = "read" /\ trade'[t].pc = "write" => Counting(a)' = Counting(a)
         /\ trade'[t].pc = "over" => Cardinality(Counting(a)') <= Cardinality(Counting(a))
         /\ trade[t].pc = "write" /\ trade'[t].pc = "over" =>
              Cardinality(Counting(a)') = Cardinality(Counting(a)) - 1
<1>1. \A b \in Agent \ {a} : Counting(b)' = Counting(b)
  BY DEF Counting
<1>2. ASSUME trade[t].pc = "idle", trade'[t].pc = "read"
      PROVE  Cardinality(Counting(a)') = Cardinality(Counting(a)) + 1
  <2>1. t \notin Counting(a) /\ Counting(a)' = Counting(a) \cup {t}
    BY <1>2 DEF Counting
  <2> QED BY <2>1, CountingFinite, FS_AddElement
<1>3. ASSUME trade[t].pc = "read", trade'[t].pc = "write" PROVE Counting(a)' = Counting(a)
  BY <1>3 DEF Counting
<1>4. ASSUME trade'[t].pc = "over", t \in Counting(a)
      PROVE  Cardinality(Counting(a)') = Cardinality(Counting(a)) - 1
  <2>1. Counting(a)' = Counting(a) \ {t}
    BY <1>4 DEF Counting
  <2> QED BY <1>4, <2>1, CountingFinite, FS_RemoveElement
<1>5. ASSUME trade'[t].pc = "over", t \notin Counting(a) PROVE Counting(a)' = Counting(a)
  BY <1>5 DEF Counting
<1>6. ASSUME trade'[t].pc = "over" PROVE Cardinality(Counting(a)') <= Cardinality(Counting(a))
  BY <1>4, <1>5, <1>6, CountingFinite
<1>7. trade[t].pc = "write" => t \in Counting(a)
  BY DEF Counting
<1> QED BY <1>1, <1>2, <1>3, <1>4, <1>6, <1>7

\* Writing the other columns of a row.
LEMMA KeepTrades ==
  ASSUME lmd \in [Agent -> Row], NEW a, NEW w, w.trades = lmd[a].trades,
         lmd' = [lmd EXCEPT ![a] = w]
  PROVE  \A b \in Agent : lmd'[b].trades = lmd[b].trades
OBVIOUS

\* Setting one state that is not about to write a count.
LEMMA RunElsewhere ==
  ASSUME run \in [Run -> RunState], NEW p \in Run, NEW r, r.pc # "put", run' = [run EXCEPT ![p] = r]
  PROVE  (\A q \in Run \ {p} : run'[q] = run[q]) /\ run'[p].pc # "put"
OBVIOUS

\* What the steps of a run can do to the counts: only CountTrades takes one,
\* and only PutMetrics writes one.
LEMMA RunCounts ==
  ASSUME Typed, NEW p \in Run,
         \/ RunStep(p)
         \/ p \in Sync /\ SyncStep(p)
         \/ \E a \in Agent : BeginSnapshot(p, a)
  PROVE  /\ UNCHANGED <<trades, trade, crowd>>
         /\ \A q \in Run \ {p} : run'[q] = run[q]
         /\ run'[p].pc = "put" => run'[p].count <= trades[run'[p].order[1]]
         /\ \/ \A a \in Agent : lmd'[a].trades = lmd[a].trades
            \/ /\ run[p].pc = "put"
               /\ \A a \in Agent : \/ lmd'[a].trades = lmd[a].trades
                                   \/ a = run[p].order[1] /\ lmd'[a].trades = run[p].count
<1>1. run[p] \in RunState /\ lmd \in [Agent -> Row] /\ run \in [Run -> RunState]
      /\ trades \in [Agent -> Nat]
  BY DEF Typed, TypeOK
<1>2. CASE Compute(p) \/ GoOn(p) \/ List(p) \/ BeginSync(p) \/ EndLoop(p)
           \/ \E a \in Agent : BeginSnapshot(p, a)
  <2>1. UNCHANGED <<trades, trade, crowd, lmd>>
    BY <1>2 DEF Compute, GoOn, List, BeginSync, EndLoop, BeginSnapshot, OnlyRunAndSettled
  <2>2. ASSUME NEW pc \in RunPc \ {"put"}, run' = [run EXCEPT ![p].pc = pc]
        PROVE  (\A q \in Run \ {p} : run'[q] = run[q]) /\ run'[p].pc # "put"
    BY <1>1, <2>2 DEF RunState
  <2>3. ASSUME NEW pc \in RunPc \ {"put"}, NEW todo,
               run' = [run EXCEPT ![p] = [run[p] EXCEPT !.pc = pc, !.todo = todo]]
        PROVE  (\A q \in Run \ {p} : run'[q] = run[q]) /\ run'[p].pc # "put"
    BY <1>1, <2>3 DEF RunState
  <2>4. CASE GoOn(p)
    <3>1. CASE run' = [run EXCEPT ![p] = [run[p] EXCEPT !.pc = "loop", !.todo = Agent]]
      BY <2>1, <2>3, <3>1 DEF RunPc
    <3>2. CASE run' = [run EXCEPT ![p] = [run[p] EXCEPT !.pc = "list", !.got = NoPnl]]
      BY <1>1, <2>1, <3>2 DEF RunState
    <3> QED BY <2>4, <3>1, <3>2 DEF GoOn
  <2>5. CASE BeginSync(p)
    <3>1. CASE run' = [run EXCEPT ![p] = [run[p] EXCEPT !.pc = "pnl", !.todo = Running]]
      BY <2>1, <2>3, <3>1 DEF RunPc
    <3>2. CASE run' = [run EXCEPT ![p].pc = "over"]
      BY <2>1, <2>2, <3>2 DEF RunPc
    <3> QED BY <2>5, <3>1, <3>2 DEF BeginSync
  <2>6. CASE \E a \in Agent : BeginSnapshot(p, a)
    <3>1. PICK a \in Agent : BeginSnapshot(p, a)
      BY <2>6
    <3>2. CASE run' = [run EXCEPT ![p] = [run[p] EXCEPT !.pc = "pnl", !.todo = {a}]]
      BY <2>1, <2>3, <3>2 DEF RunPc
    <3>3. CASE run' = [run EXCEPT ![p].pc = "over"]
      BY <2>1, <2>2, <3>3 DEF RunPc
    <3> QED BY <3>1, <3>2, <3>3 DEF BeginSnapshot
  <2>7. CASE EndLoop(p)
    BY <1>1, <2>1, <2>7 DEF EndLoop, RunState
  <2>8. CASE List(p)
    <3>1. CASE run' = [run EXCEPT ![p].pc = "over"]
      BY <2>1, <2>2, <3>1 DEF RunPc
    <3>2. CASE \E q \in Rankings : run' = [run EXCEPT ![p] = [run[p] EXCEPT !.pc = "rank", !.order = q]]
      BY <1>1, <2>1, <3>2 DEF RunState
    <3> QED BY <2>8, <3>1, <3>2 DEF List
  <2>9. CASE Compute(p)
    <3>1. run[p].pc \in {"pnl", "adrift"}
      BY <2>9 DEF Compute
    <3>2. PICK a \in run[p].todo :
            \/ run' = [run EXCEPT ![p] = [run[p] EXCEPT !.todo = run[p].todo \ {a},
                         !.due = run[p].due \cup {a}, !.got = [run[p].got EXCEPT ![a] = worth[a]]]]
            \/ run' = [run EXCEPT ![p] = [run[p] EXCEPT !.pc = "adrift", !.todo = run[p].todo \ {a}]]
      BY <2>9 DEF Compute
    <3>3. CASE run' = [run EXCEPT ![p] = [run[p] EXCEPT !.pc = "adrift", !.todo = run[p].todo \ {a}]]
      BY <2>1, <2>3, <3>3 DEF RunPc
    <3>4. CASE run' = [run EXCEPT ![p] = [run[p] EXCEPT !.todo = run[p].todo \ {a},
                         !.due = run[p].due \cup {a}, !.got = [run[p].got EXCEPT ![a] = worth[a]]]]
      <4> DEFINE r == [run[p] EXCEPT !.todo = run[p].todo \ {a}, !.due = run[p].due \cup {a},
                                     !.got = [run[p].got EXCEPT ![a] = worth[a]]]
      <4>1. r.pc = run[p].pc
        BY <1>1 DEF RunState
      <4>2. run' = [run EXCEPT ![p] = r]
        BY <3>4
      <4> HIDE DEF r
      <4> QED BY <1>1, <2>1, <3>1, <4>1, <4>2, RunElsewhere
    <3> QED BY <3>2, <3>3, <3>4
  <2> QED BY <1>2, <2>4, <2>5, <2>6, <2>7, <2>8, <2>9
<1>3. CASE CountTrades(p)
  <2>1. UNCHANGED <<trades, trade, crowd, lmd>> /\ run[p].pc = "loop"
    BY <1>3 DEF CountTrades, OnlyRunAndSettled
  <2>2. PICK a \in run[p].todo :
          \/ run' = [run EXCEPT ![p] = [run[p] EXCEPT !.pc = "put", !.order = <<a>>,
                                                      !.count = trades[a]]]
          \/ run' = [run EXCEPT ![p].todo = run[p].todo \ {a}]
    BY <1>3 DEF CountTrades
  <2>3. a \in Agent
    BY <1>1 DEF RunState
  <2>4. CASE run' = [run EXCEPT ![p].todo = run[p].todo \ {a}]
    BY <1>1, <2>1, <2>4 DEF RunState
  <2>5. CASE run' = [run EXCEPT ![p] = [run[p] EXCEPT !.pc = "put", !.order = <<a>>,
                                                      !.count = trades[a]]]
    <3>1. run'[p].order = <<a>> /\ run'[p].count = trades[a] /\ \A q \in Run \ {p} : run'[q] = run[q]
      BY <1>1, <2>5 DEF RunState
    <3>2. run'[p].order[1] = a /\ trades[a] \in Nat
      BY <1>1, <2>3, <3>1
    <3> QED BY <2>1, <3>1, <3>2
  <2> QED BY <2>2, <2>4, <2>5
<1>4. CASE WritePnl(p)
  <2>1. PICK a \in run[p].due : run' = [run EXCEPT ![p].due = run[p].due \ {a}]
          /\ (lmd' = [lmd EXCEPT ![a].pnl = run[p].got[a]] \/ UNCHANGED lmd)
    BY <1>4 DEF WritePnl
  <2>2. UNCHANGED <<trades, trade, crowd>> /\ run[p].pc \in {"pnl", "adrift"}
    BY <1>4 DEF WritePnl, OnlyRow
  <2>3. (\A q \in Run \ {p} : run'[q] = run[q]) /\ run'[p].pc # "put"
    BY <1>1, <2>1, <2>2 DEF RunState
  <2>4. \A b \in Agent : lmd'[b].trades = lmd[b].trades
    BY <1>1, <2>1 DEF Row
  <2> QED BY <2>2, <2>3, <2>4
<1>5. CASE WriteRank(p)
  <2>1. UNCHANGED <<trades, trade, crowd>>
    BY <1>5 DEF WriteRank, OnlyRow
  <2> DEFINE left == run[p].order
             rank == Cardinality(Agent) - Len(left) + 1
  <2>2. CASE run' = [run EXCEPT ![p].pc = "over"] /\ UNCHANGED lmd
    BY <1>1, <2>1, <2>2 DEF RunState
  <2>3. CASE /\ lmd' = [lmd EXCEPT ![left[1]].rank = rank]
             /\ run' = [run EXCEPT ![p] = [run[p] EXCEPT
                  !.pc = IF Len(left) = 1 THEN "over" ELSE "rank", !.order = Tail(left)]]
    <3> DEFINE r == [run[p] EXCEPT !.pc = IF Len(left) = 1 THEN "over" ELSE "rank",
                                   !.order = Tail(left)]
               w == [lmd[left[1]] EXCEPT !.rank = rank]
    <3>1. r.pc # "put"
      BY <1>1 DEF RunState
    <3>2. left[1] \in Agent
      <4>1. left \in Seq(Agent) /\ left # <<>>
        BY <1>1, <1>5 DEF WriteRank, Typed, TypeOK, RunState
      <4> QED BY <4>1
    <3>3. w.trades = lmd[left[1]].trades
      BY <1>1, <3>2 DEF Row
    <3>4. run' = [run EXCEPT ![p] = r] /\ lmd' = [lmd EXCEPT ![left[1]] = w]
      BY <2>3
    <3> HIDE DEF r, w
    <3> QED BY <1>1, <2>1, <3>1, <3>3, <3>4, RunElsewhere, KeepTrades
  <2> QED BY <1>5, <2>2, <2>3 DEF WriteRank
<1>6. CASE PutMetrics(p)
  <2> DEFINE a == run[p].order[1]
  <2>1. UNCHANGED <<trades, trade, crowd>> /\ run[p].pc = "put"
    BY <1>6 DEF PutMetrics, OnlyRow
  <2>2. (\A q \in Run \ {p} : run'[q] = run[q]) /\ run'[p].pc # "put"
    BY <1>1, <1>6 DEF PutMetrics, RunState
  <2>3. lmd' = [lmd EXCEPT ![a] = [lmd[a] EXCEPT !.trades = run[p].count, !.pnl = run[p].got[a]]]
        \/ UNCHANGED lmd
    BY <1>6 DEF PutMetrics
  <2> DEFINE w == [lmd[a] EXCEPT !.trades = run[p].count, !.pnl = run[p].got[a]]
  <2>4. a \in Agent
    <3>1. run[p].order \in Seq(Agent) /\ run[p].order # <<>>
      BY <1>1, <2>1 DEF Typed, PassesAreShort, RunState
    <3> QED BY <3>1
  <2>5. w.trades = run[p].count
    BY <1>1, <2>4 DEF Row
  <2>6. lmd' = [lmd EXCEPT ![a] = w] \/ lmd' = lmd
    BY <2>3
  <2> HIDE DEF a, w
  <2>7. \A b \in Agent : \/ lmd'[b].trades = lmd[b].trades
                         \/ b = a /\ lmd'[b].trades = run[p].count
    BY <1>1, <2>5, <2>6
  <2> QED BY <2>1, <2>2, <2>7 DEF a
<1> QED BY <1>2, <1>3, <1>4, <1>5, <1>6 DEF RunStep, SyncStep

LEMMA BoundedNext == Typed /\ Bounded /\ Typed' /\ [Next]_vars => Bounded'
<1> SUFFICES ASSUME Typed, Bounded, Typed', [Next]_vars PROVE Bounded'
  OBVIOUS
<1>1. ASSUME UNCHANGED <<trades, trade, crowd, run>>,
             \A a \in Agent : lmd'[a].trades = lmd[a].trades
      PROVE  Bounded'
  BY <1>1, BoundedStill DEF Bounded
<1>2. CASE UNCHANGED vars
  BY <1>1, <1>2 DEF vars
<1>3. ASSUME NEW a \in Agent, Change(a) PROVE Bounded'
  BY <1>1, <1>3 DEF Change
<1>4. ASSUME NEW f \in Fork, ForkAgent(f) PROVE Bounded'
  <2>1. \A a \in Agent : lmd'[a].trades = lmd[a].trades
    <3> DEFINE w == [lmd[fork[f].of] EXCEPT !.forks = fork[f].seen + 1]
    <3>1. lmd \in [Agent -> Row] /\ fork[f].of \in Agent
      BY DEF Typed, TypeOK, Lineage
    <3>2. w.trades = lmd[fork[f].of].trades
      BY <3>1 DEF Row
    <3>3. lmd' = [lmd EXCEPT ![fork[f].of] = w] \/ lmd' = lmd
      BY <1>4 DEF ForkAgent, ReadSource, CountFork
    <3> HIDE DEF w
    <3> QED BY <3>1, <3>2, <3>3, KeepTrades
  <2> QED BY <1>1, <1>4, <2>1 DEF ForkAgent, ReadSource, CountFork
<1>5. ASSUME NEW p \in Run,
             \/ RunStep(p)
             \/ p \in Sync /\ SyncStep(p)
             \/ \E a \in Agent : BeginSnapshot(p, a)
      PROVE  Bounded'
  <2>1. \A q \in Run : run'[q].pc = "put" => run'[q].count <= trades[run'[q].order[1]]
    BY <1>5, RunCounts DEF Bounded
  <2>2. \A a \in Agent : lmd'[a].trades = lmd[a].trades \/ lmd'[a].trades <= trades[a]
    BY <1>5, RunCounts DEF Bounded
  <2> QED BY <1>5, <2>1, <2>2, RunCounts, BoundedStill
<1>6. ASSUME NEW t \in Trade, CreateTradingInformation(t) PROVE Bounded'
  <2>1. PICK a \in Agent : a = trade[t].of
    BY DEF Typed, TypeOK, Report
  <2>2. TypeOK /\ TypeOK'
    BY DEF Typed
  <2>3. /\ \A b \in Agent : /\ Cardinality(Counting(b)) \in Nat /\ trades[b] \in Nat
                            /\ crowd[b] \in Nat /\ lmd[b].trades \in Nat
        /\ trades \in [Agent -> Nat] /\ crowd \in [Agent -> Nat]
        /\ \A u \in Trade : trade[u].of \in Agent /\ trade[u].seen \in Nat
    BY <2>2, CountingFinite DEF TypeOK, Row, Report
  <2>4. /\ trade'[t].of = a /\ (\A u \in Trade \ {t} : trade'[u] = trade[u]) /\ run' = run
        /\ \A b \in Agent :
             \/ lmd'[b].trades = lmd[b].trades
             \/ b = a /\ trade[t].pc = "write" /\ lmd'[a].trades = trade[t].seen + 1
    BY <1>6, <2>1, <2>2, ReportMoves
  <2>5. \A b \in Agent \ {a} : Counting(b)' = Counting(b)
    BY <2>1, <2>4, CountingMoves
  \* An agent's trades less its reports being counted never get fewer.
  <2> DEFINE Enough(n, b) == n + Cardinality(Counting(b)) <= trades[b] + crowd[b]
             EnoughThen(n, b) == n + Cardinality(Counting(b)') <= trades'[b] + crowd'[b]
  <2>6. /\ \A b \in Agent : trades'[b] >= trades[b] /\ Cardinality(Counting(b)') <= crowd'[b]
        /\ \A b \in Agent : \A n \in Nat : Enough(n, b) => EnoughThen(n, b)
    <3>1. CASE /\ trade[t].pc = "idle" /\ trade'[t].pc = "read"
               /\ trades' = [trades EXCEPT ![a] = trades[a] + 1]
               /\ crowd' = [crowd EXCEPT ![a] = Larger(crowd[a], Cardinality(Counting(a)) + 1)]
      <4>1. Cardinality(Counting(a)') = Cardinality(Counting(a)) + 1
        BY <2>1, <2>4, <3>1, CountingMoves
      <4>2. /\ trades'[a] = trades[a] + 1 /\ crowd'[a] >= crowd[a]
            /\ crowd'[a] >= Cardinality(Counting(a)) + 1 /\ crowd'[a] \in Nat
            /\ \A b \in Agent \ {a} : trades'[b] = trades[b] /\ crowd'[b] = crowd[b]
        BY <2>3, <3>1 DEF Larger
      <4>3. \A n \in Nat : Enough(n, a) => EnoughThen(n, a)
        BY <2>3, <4>1, <4>2
      <4> QED BY <2>3, <2>5, <4>1, <4>2, <4>3 DEF Bounded
    <3>2. CASE UNCHANGED <<trades, crowd>> /\ trade[t].pc = "read" /\ trade'[t].pc = "write"
      <4>1. Counting(a)' = Counting(a)
        BY <2>1, <2>4, <3>2, CountingMoves
      <4> QED BY <2>3, <2>5, <3>2, <4>1 DEF Bounded
    <3>3. CASE UNCHANGED <<trades, crowd>> /\ trade'[t].pc = "over"
      <4>1. Cardinality(Counting(a)') <= Cardinality(Counting(a)) /\ Cardinality(Counting(a)') \in Nat
        BY <2>1, <2>4, <3>3, CountingMoves, TradesAssumption, FS_Subset, FS_CardinalityType DEF Counting
      <4> QED BY <2>3, <2>5, <3>3, <4>1 DEF Bounded
    <3> QED BY <1>6, <2>1, <2>2, <3>1, <3>2, <3>3, ReportMoves
  <2> HIDE DEF Enough, EnoughThen
  <2>7. ASSUME NEW b \in Agent PROVE EnoughThen(lmd'[b].trades, b)
    <3>1. CASE lmd'[b].trades = lmd[b].trades
      BY <2>3, <2>6, <3>1 DEF Bounded, TradesNotInvented, Enough
    <3>2. CASE b = a /\ trade[t].pc = "write" /\ lmd'[a].trades = trade[t].seen + 1
      <4>1. trade'[t].pc = "over" /\ UNCHANGED <<trades, crowd>>
        BY <1>6, <2>1, <2>2, <3>2, ReportMoves
      <4>2. Cardinality(Counting(a)') = Cardinality(Counting(a)) - 1
        BY <2>1, <2>4, <3>2, <4>1, CountingMoves
      <4>3. trade[t].seen + Cardinality(Counting(a)) <= trades[a] + crowd[a]
        BY <2>1, <3>2 DEF Bounded
      <4> QED BY <2>3, <3>2, <4>1, <4>2, <4>3 DEF EnoughThen
    <3> QED BY <2>4, <3>1, <3>2
  <2>8. ASSUME NEW u \in Trade, NEW b \in Agent, trade'[u].of = b, trade'[u].pc = "write"
        PROVE  EnoughThen(trade'[u].seen, b)
    <3>1. CASE u = t
      <4>1. trade'[t].seen = lmd[a].trades
        BY <1>6, <2>1, <2>2, <2>8, <3>1, ReportMoves
      <4> QED BY <2>3, <2>4, <2>6, <2>8, <3>1, <4>1 DEF Bounded, TradesNotInvented, Enough
    <3>2. CASE u # t
      BY <2>3, <2>4, <2>6, <2>8, <3>2 DEF Bounded, Enough
    <3> QED BY <3>1, <3>2
  <2>9. ASSUME NEW p \in Run, run'[p].pc = "put" PROVE run'[p].count <= trades'[run'[p].order[1]]
    <3>1. run[p].count <= trades[run[p].order[1]] /\ run[p].count \in Nat
          /\ run[p].order \in Seq(Agent) /\ run[p].order # <<>>
      BY <2>4, <2>9 DEF Bounded, Typed, TypeOK, PassesAreShort, RunState
    <3>2. PICK b \in Agent : b = run[p].order[1]
      BY <3>1
    <3>3. trades'[b] \in Nat /\ trades[b] \in Nat /\ trades'[b] >= trades[b]
      BY <2>2, <2>6 DEF TypeOK
    <3>4. run[p].count <= trades'[b]
      BY <3>1, <3>2, <3>3
    <3> QED BY <2>4, <3>2, <3>4
  <2>10. TradesNotInvented'
    BY <2>7 DEF TradesNotInvented, EnoughThen
  <2>11. \A u \in Trade, b \in Agent : trade'[u].of = b /\ trade'[u].pc = "write" =>
           trade'[u].seen + Cardinality(Counting(b)') <= trades'[b] + crowd'[b]
    BY <2>8 DEF EnoughThen
  <2> QED BY <2>6, <2>9, <2>10, <2>11 DEF Bounded
<1>7. ASSUME NEW x \in Sync, SyncStep(x) PROVE Bounded'
  BY <1>5, <1>7 DEF Run
<1>8. ASSUME NEW s \in Snap, NEW a \in Agent, BeginSnapshot(s, a) PROVE Bounded'
  BY <1>5, <1>8 DEF Run
<1>9. ASSUME NEW p \in Run, RunStep(p) PROVE Bounded'
  BY <1>5, <1>9
<1> QED BY <1>2, <1>3, <1>4, <1>6, <1>7, <1>8, <1>9 DEF Next

\* updateTradeCount and the sync task: the stored count of an agent, together
\* with the reports that may yet add one, exceeds its trades by no more than
\* the most reports of the agent that were ever in flight at once.
THEOREM CountsAreBounded == Spec => []TradesNotInvented
<1>1. Bounded => TradesNotInvented
  BY DEF Bounded
<1> QED BY <1>1, TypedInit, TypedNext, BoundedInit, BoundedNext, PTL DEF Spec
-----------------------------------------------------------------------------
\* Each writer of a row writes its own columns: the fork count is written by forks, the rank by the
\* ranking pass, and whoever writes a pnlCycle disturbs the pass under way.
LEMMA RowKeeps ==
  ASSUME Typed, Next
  PROVE  /\ (\E f \in Fork : CountFork(f)) \/ \A a \in Agent : lmd'[a].forks = lmd[a].forks
         /\ settled' = "none" \/ \A a \in Agent : lmd'[a].pnl = lmd[a].pnl
         /\ (\E p \in Run : WriteRank(p)) \/ \A a \in Agent : lmd'[a].rank = lmd[a].rank
<1>1. lmd \in [Agent -> Row]
  BY DEF Typed, TypeOK
<1>2. ASSUME NEW t \in Trade, WriteCount(t)
      PROVE  \A a \in Agent : /\ lmd'[a].forks = lmd[a].forks /\ lmd'[a].pnl = lmd[a].pnl
                              /\ lmd'[a].rank = lmd[a].rank
  BY <1>1, <1>2 DEF WriteCount, Row
<1>3. ASSUME NEW f \in Fork, CountFork(f)
      PROVE  \A a \in Agent : lmd'[a].pnl = lmd[a].pnl /\ lmd'[a].rank = lmd[a].rank
  BY <1>1, <1>3 DEF CountFork, Row
<1>4. ASSUME NEW p \in Run, WritePnl(p)
      PROVE  /\ \A a \in Agent : lmd'[a].forks = lmd[a].forks /\ lmd'[a].rank = lmd[a].rank
             /\ settled' = "none" \/ lmd' = lmd
  <2>1. PICK a \in run[p].due :
          (lmd' = [lmd EXCEPT ![a].pnl = run[p].got[a]] /\ settled' = "none") \/ UNCHANGED lmd
    BY <1>4 DEF WritePnl
  <2> QED BY <1>1, <2>1 DEF Row
<1>5. ASSUME NEW x \in Run, PutMetrics(x)
      PROVE  /\ \A a \in Agent : lmd'[a].forks = lmd[a].forks /\ lmd'[a].rank = lmd[a].rank
             /\ settled' = "none" \/ lmd' = lmd
  <2> DEFINE a == run[x].order[1]
             w == [lmd[a] EXCEPT !.trades = run[x].count, !.pnl = run[x].got[a]]
  <2>1. a \in Agent => w.forks = lmd[a].forks /\ w.rank = lmd[a].rank
    BY <1>1 DEF Row
  <2>2. (lmd' = [lmd EXCEPT ![a] = w] /\ settled' = "none") \/ UNCHANGED lmd
    BY <1>5, Zenon DEF PutMetrics
  <2> HIDE DEF a, w
  <2> QED BY <1>1, <2>1, <2>2
<1>6. ASSUME NEW p \in Run, WriteRank(p)
      PROVE  \A a \in Agent : lmd'[a].forks = lmd[a].forks /\ lmd'[a].pnl = lmd[a].pnl
  <2> DEFINE a == run[p].order[1]
             rank == Cardinality(Agent) - Len(run[p].order) + 1
  <2>1. lmd' = [lmd EXCEPT ![a].rank = rank] \/ UNCHANGED lmd
    BY <1>6, Zenon DEF WriteRank
  <2> HIDE DEF a, rank
  <2> QED BY <1>1, <2>1 DEF Row
<1>7. \/ lmd' = lmd
      \/ \E t \in Trade : WriteCount(t)
      \/ \E f \in Fork : CountFork(f)
      \/ \E p \in Run : WritePnl(p) \/ WriteRank(p)
      \/ \E x \in Sync : PutMetrics(x)
  BY DEF Next, Change, CreateTradingInformation, InsertTrade, ReadCount, ForkAgent, ReadSource, SyncStep, BeginSync,
     CountTrades, EndLoop, BeginSnapshot, RunStep, Compute, GoOn, List, OnlyRunAndSettled
<1> QED BY <1>2, <1>3, <1>4, <1>5, <1>6, <1>7 DEF Run
-----------------------------------------------------------------------------
Forked(a) == {f \in Fork : fork[f].of = a /\ fork[f].pc = "over"}

\* Of an agent whose forks never overlapped nor failed: the forks that are over are counted, and the
\* one that may be under way has seen the count as it is.
ForksInv ==
  \A a \in Agent \ raced :
    /\ lmd[a].forks = Cardinality(Forked(a))
    /\ \A f \in Fork : fork[f].of = a /\ fork[f].pc = "write" =>
         /\ fork[f].seen = lmd[a].forks
         /\ \A g \in Fork : fork[g].of = a /\ fork[g].pc = "write" => g = f

LEMMA ForkedFinite ==
  \A a \in Agent : IsFiniteSet(Forked(a)) /\ Cardinality(Forked(a)) \in Nat
BY TradesAssumption, FS_Subset, FS_CardinalityType DEF Forked

LEMMA ForksInit == Init => ForksInv
<1> SUFFICES ASSUME Init PROVE ForksInv
  OBVIOUS
<1>1. \A a \in Agent : Forked(a) = {} /\ lmd[a].forks = 0
  BY DEF Init, Forked
<1>2. \A f \in Fork : fork[f].pc = "idle"
  BY DEF Init
<1> QED BY <1>1, <1>2, FS_EmptySet DEF ForksInv

\* The state of one fork changes.
LEMMA ForkMoves ==
  ASSUME Typed, NEW f \in Fork, NEW r, NEW o \in Agent, fork' = [fork EXCEPT ![f] = r],
         r.of = o, fork[f].of = o
  PROVE  /\ fork'[f] = r /\ \A g \in Fork \ {f} : fork'[g] = fork[g]
         /\ \A a \in Agent : a # o => Forked(a)' = Forked(a)
         /\ fork[f].pc # "over" /\ r.pc # "over" => \A a \in Agent : Forked(a)' = Forked(a)
         /\ fork[f].pc # "over" /\ r.pc = "over" => Forked(o)' = Forked(o) \cup {f} /\ f \notin Forked(o)
BY DEF Forked, Typed, TypeOK

\* A fork reads the count, or fails.
LEMMA ForkReads ==
  ASSUME Typed, ForksInv, NEW f \in Fork, ReadSource(f)
  PROVE  ForksInv'
<1>1. PICK o \in Agent : o = fork[f].of
  BY DEF Typed, TypeOK, Lineage
<1>2. lmd' = lmd /\ raced \subseteq raced' /\ fork[f].pc = "idle" /\ fork[f] \in Lineage
  BY DEF ReadSource, Typed, TypeOK
<1>3. CASE /\ fork' = [fork EXCEPT ![f] = [fork[f] EXCEPT !.pc = "write", !.seen = lmd[o].forks]]
           /\ raced' = IF \E g \in Fork : fork[g].of = o /\ fork[g].pc = "write"
                       THEN raced \cup {o} ELSE raced
  <2>0. PICK r : r = [fork[f] EXCEPT !.pc = "write", !.seen = lmd[o].forks]
    OBVIOUS
  <2>1. r.of = o /\ r.pc = "write" /\ r.seen = lmd[o].forks
    BY <1>1, <1>2, <2>0 DEF Lineage
  <2>2. fork' = [fork EXCEPT ![f] = r]
    BY <1>3, <2>0
  <2>3. /\ fork'[f] = r /\ \A g \in Fork \ {f} : fork'[g] = fork[g]
        /\ \A a \in Agent : Forked(a)' = Forked(a)
    BY <1>1, <1>2, <2>1, <2>2, ForkMoves
  <2>4. ASSUME NEW a \in Agent \ raced', NEW g \in Fork, fork'[g].of = a, fork'[g].pc = "write"
        PROVE  fork'[g].seen = lmd[a].forks /\ \A h \in Fork : fork'[h].of = a /\ fork'[h].pc = "write" => h = g
    <3>1. a = o => \A h \in Fork : ~(fork[h].of = o /\ fork[h].pc = "write")
      BY <1>1, <1>3, <2>4
    <3>2. a \notin raced
      BY <1>2, <2>4
    <3>3. CASE g = f
      BY <2>1, <2>3, <2>4, <3>1, <3>3
    <3>4. CASE g # f
      <4>1. a # o
        BY <2>3, <2>4, <3>1, <3>4
      <4> QED BY <2>1, <2>3, <2>4, <3>2, <3>4, <4>1 DEF ForksInv
    <3> QED BY <3>3, <3>4
  <2> QED BY <1>2, <2>3, <2>4 DEF ForksInv
<1>4. CASE fork' = [fork EXCEPT ![f].pc = "over"] /\ raced' = raced \cup {o}
  <2>0. PICK r : r = [fork[f] EXCEPT !.pc = "over"]
    OBVIOUS
  <2>1. r.of = o /\ r.pc = "over"
    BY <1>1, <1>2, <2>0 DEF Lineage
  <2>2. fork' = [fork EXCEPT ![f] = r]
    BY <1>4, <2>0
  <2>3. /\ fork'[f] = r /\ \A g \in Fork \ {f} : fork'[g] = fork[g]
        /\ \A a \in Agent : a # o => Forked(a)' = Forked(a)
    BY <1>1, <1>2, <2>1, <2>2, ForkMoves
  <2> QED BY <1>2, <1>4, <2>1, <2>3 DEF ForksInv
<1> QED BY <1>1, <1>3, <1>4 DEF ReadSource

\* A fork that did not overlap with another writes the count it has seen, plus itself.
LEMMA ForkCounts ==
  ASSUME Typed, ForksInv, NEW f \in Fork, CountFork(f)
  PROVE  ForksInv'
<1>1. PICK o \in Agent : o = fork[f].of
  BY DEF Typed, TypeOK, Lineage
<1>2. raced \subseteq raced' /\ fork[f].pc = "write" /\ fork[f] \in Lineage /\ lmd \in [Agent -> Row]
  BY DEF CountFork, Typed, TypeOK
<1>0. PICK r : r = [fork[f] EXCEPT !.pc = "over"]
  OBVIOUS
<1>3. r.of = o /\ r.pc = "over"
  BY <1>0, <1>1, <1>2 DEF Lineage
<1>4. fork' = [fork EXCEPT ![f] = r]
  BY <1>0 DEF CountFork
<1>5. /\ fork'[f] = r /\ \A g \in Fork \ {f} : fork'[g] = fork[g]
      /\ \A a \in Agent : a # o => Forked(a)' = Forked(a)
      /\ Forked(o)' = Forked(o) \cup {f} /\ f \notin Forked(o)
  BY <1>1, <1>2, <1>3, <1>4, ForkMoves
<1>6. CASE UNCHANGED lmd /\ raced' = raced \cup {o}
  BY <1>2, <1>3, <1>5, <1>6 DEF ForksInv
<1>7. CASE lmd' = [lmd EXCEPT ![o].forks = fork[f].seen + 1]
  <2>1. lmd'[o].forks = fork[f].seen + 1 /\ \A a \in Agent \ {o} : lmd'[a] = lmd[a]
    BY <1>2, <1>7 DEF Row
  <2>2. ASSUME o \notin raced'
        PROVE  /\ fork[f].seen = Cardinality(Forked(o))
               /\ \A g \in Fork \ {f} : ~(fork[g].of = o /\ fork[g].pc = "write")
    BY <1>1, <1>2, <2>2 DEF ForksInv
  <2>3. Cardinality(Forked(o)') = Cardinality(Forked(o)) + 1
    BY <1>5, ForkedFinite, FS_AddElement
  <2>4. ASSUME NEW a \in Agent \ raced' PROVE lmd'[a].forks = Cardinality(Forked(a)')
    BY <1>2, <1>5, <2>1, <2>2, <2>3, <2>4 DEF ForksInv
  <2>5. ASSUME NEW a \in Agent \ raced', NEW g \in Fork, fork'[g].of = a, fork'[g].pc = "write"
        PROVE  fork'[g].seen = lmd'[a].forks /\ \A h \in Fork : fork'[h].of = a /\ fork'[h].pc = "write" => h = g
    BY <1>2, <1>3, <1>5, <2>1, <2>2, <2>5 DEF ForksInv
  <2> QED BY <2>4, <2>5 DEF ForksInv
<1> QED BY <1>1, <1>6, <1>7 DEF CountFork

LEMMA ForksNext == Typed /\ ForksInv /\ [Next]_vars => ForksInv'
<1> SUFFICES ASSUME Typed, ForksInv, [Next]_vars PROVE ForksInv'
  OBVIOUS
<1>1. ASSUME UNCHANGED <<fork, raced>>, \A a \in Agent : lmd'[a].forks = lmd[a].forks PROVE ForksInv'
  BY <1>1 DEF ForksInv, Forked
<1>2. CASE UNCHANGED vars
  BY <1>1, <1>2 DEF vars
<1>3. CASE \E f \in Fork : ForkAgent(f)
  BY <1>3, ForkReads, ForkCounts DEF ForkAgent
<1>4. CASE Next /\ ~\E f \in Fork : ForkAgent(f)
  <2>1. UNCHANGED <<fork, raced>>
    BY <1>4 DEF Next, Change, CreateTradingInformation, InsertTrade, ReadCount, WriteCount, SyncStep, BeginSync,
       CountTrades, PutMetrics, EndLoop, BeginSnapshot, RunStep, Compute, WritePnl, GoOn, List, WriteRank,
       OnlyRunAndSettled, OnlyRow
  <2>2. \A a \in Agent : lmd'[a].forks = lmd[a].forks
    BY <1>4, RowKeeps DEF ForkAgent
  <2> QED BY <1>1, <2>1, <2>2
<1> QED BY <1>2, <1>3, <1>4

\* The fork count of an agent is the number of its forks, for any number of forks, reports, syncs and
\* snapshots, as long as no two of its forks overlapped and none failed (create-db-record).
THEOREM ForksAreTrue == Spec => []ForksAreCounted
<1>1. ForksInv => ForksAreCounted
  BY DEF ForksInv, Forked, ForksAreCounted
<1> QED BY <1>1, TypedInit, TypedNext, ForksInit, ForksNext, PTL DEF Spec
-----------------------------------------------------------------------------
\* Of the ranking q, the agents of left remain, and those before them have their rank.
WrittenUpTo(q, left) ==
  LET done == Cardinality(Agent) - Len(left) IN
  /\ \A i \in 1..Len(left) : left[i] = q[done + i]
  /\ \A i \in 1..done : lmd[q[i]].rank = i

\* A pass that is undisturbed is alone, and writes a ranking of the present PnLs; when it is over
\* there is no other, and the ranks are that ranking.
RankInv ==
  /\ settled \in Run =>
       /\ \A p \in Run : Pass(p) <=> p = settled
       /\ \E q \in Rankings : WrittenUpTo(q, run[settled].order)
  /\ settled = "yes" =>
       /\ \A p \in Run : ~Pass(p)
       /\ \E q \in Rankings : WrittenUpTo(q, <<>>)

\* A ranking names every agent once (the list that updateAgentRankings sorts).
LEMMA RankingsAre ==
  ASSUME NEW q \in Rankings
  PROVE  /\ q \in [1..Cardinality(Agent) -> Agent]
         /\ \A a \in Agent : \E i \in 1..Cardinality(Agent) : q[i] = a
         /\ \A i, j \in 1..Cardinality(Agent) : q[i] = q[j] => i = j
         /\ \A i, j \in 1..Cardinality(Agent) : i < j => lmd[q[i]].pnl >= lmd[q[j]].pnl
<1>1. q \in [1..Cardinality(Agent) -> Agent] /\ {q[i] : i \in 1..Cardinality(Agent)} = Agent
  BY DEF Rankings
<1>2. \A a \in Agent : \E i \in 1..Cardinality(Agent) : q[i] = a
  BY <1>1
<1>3. q \in Surjection(1..Cardinality(Agent), Agent)
  BY <1>1, <1>2 DEF Surjection
<1>4. IsFiniteSet(1..Cardinality(Agent)) /\ Cardinality(1..Cardinality(Agent)) = Cardinality(Agent)
  BY AgentsCounted, FS_Interval
<1>5. q \in Injection(1..Cardinality(Agent), Agent)
  BY <1>3, <1>4, FS_Surjection
<1>6. \A i, j \in 1..Cardinality(Agent) : q[i] = q[j] => i = j
  BY <1>5 DEF Injection, IsInjective
<1>7. \A i, j \in 1..Cardinality(Agent) : i < j => lmd[q[i]].pnl >= lmd[q[j]].pnl
  BY <1>1 DEF Rankings
<1> QED BY <1>1, <1>2, <1>6, <1>7

\* Rankings depend on nothing but the PnLs.
LEMMA RankingsKept ==
  ASSUME \A a \in Agent : lmd'[a].pnl = lmd[a].pnl
  PROVE  Rankings' = Rankings
<1>1. ASSUME NEW q \in [1..Cardinality(Agent) -> Agent]
      PROVE  (\A i, j \in DOMAIN q : i < j => lmd'[q[i]].pnl >= lmd'[q[j]].pnl)
             <=> (\A i, j \in DOMAIN q : i < j => lmd[q[i]].pnl >= lmd[q[j]].pnl)
  BY <1>1
<1> QED BY <1>1 DEF Rankings

\* What is left of a ranking that is being written is known by its agents, which are as many.
LEMMA WrittenKept ==
  ASSUME NEW q \in Rankings, NEW left \in Seq(Agent), Len(left) <= Cardinality(Agent), WrittenUpTo(q, left),
         \A a \in Agent : lmd'[a].rank = lmd[a].rank
  PROVE  WrittenUpTo(q, left)'
<1> DEFINE done == Cardinality(Agent) - Len(left)
<1>1. \A i \in 1..done : i \in 1..Cardinality(Agent)
  BY AgentsCounted
<1>2. \A i \in 1..done : q[i] \in Agent
  BY <1>1, RankingsAre
<1> QED BY <1>2 DEF WrittenUpTo

\* A pass under way, with the agents left to it.
LEMMA PassIs ==
  ASSUME Typed, NEW p \in Run, Pass(p)
  PROVE  /\ run[p].order \in Seq(Agent) /\ run[p].order # <<>>
         /\ Len(run[p].order) \in 1..Cardinality(Agent)
<1>1. run[p].order \in Seq(Agent) /\ run[p].order # <<>> /\ Len(run[p].order) <= Cardinality(Agent)
  BY DEF Typed, TypeOK, PassesAreShort, RunState
<1>2. Len(run[p].order) \in Nat \ {0}
  BY <1>1, EmptySeq
<1> QED BY <1>1, <1>2, AgentsCounted

\* Neither the PnLs and ranks nor the passes change.
LEMMA RankKept ==
  ASSUME Typed, RankInv, settled' = settled,
         \A a \in Agent : lmd'[a].pnl = lmd[a].pnl /\ lmd'[a].rank = lmd[a].rank,
         \A p \in Run : (Pass(p)' <=> Pass(p)) /\ (Pass(p) => run'[p].order = run[p].order)
  PROVE  RankInv'
<1>1. Rankings' = Rankings
  BY RankingsKept
<1>2. ASSUME settled \in Run
      PROVE  /\ \A p \in Run : Pass(p)' <=> p = settled'
             /\ \E q \in Rankings' : WrittenUpTo(q, run[settled].order)'
  <2>1. PICK q \in Rankings : WrittenUpTo(q, run[settled].order)
    BY <1>2 DEF RankInv
  <2>2. Pass(settled) /\ \A p \in Run : Pass(p) <=> p = settled
    BY <1>2 DEF RankInv
  <2>3. PICK left : left = run[settled].order
    OBVIOUS
  <2>4. left \in Seq(Agent) /\ Len(left) <= Cardinality(Agent) /\ run'[settled].order = left
    BY <1>2, <2>2, <2>3, PassIs, AgentsCounted
  <2>5. WrittenUpTo(q, left)'
    BY <2>1, <2>3, <2>4, WrittenKept
  <2> QED BY <1>1, <2>2, <2>3, <2>4, <2>5
<1>3. ASSUME settled = "yes"
      PROVE  /\ \A p \in Run : ~Pass(p)'
             /\ \E q \in Rankings' : WrittenUpTo(q, <<>>)'
  <2>1. PICK q \in Rankings : WrittenUpTo(q, <<>>)
    BY <1>3 DEF RankInv
  <2>2. <<>> \in Seq(Agent) /\ Len(<<>>) <= Cardinality(Agent)
    BY AgentsCounted, EmptySeq
  <2>3. WrittenUpTo(q, <<>>)'
    BY <2>1, <2>2, WrittenKept
  <2> QED BY <1>1, <1>3, <2>3 DEF RankInv
<1> QED BY <1>2, <1>3 DEF RankInv

\* A pass that was disturbed promises nothing.
LEMMA RankLost == ASSUME settled' = "none" PROVE RankInv'
BY RunsAssumption DEF RankInv, Run

\* A run moves outside the pass.
LEMMA RunMoves ==
  ASSUME Typed, NEW p \in Run, NEW r, run' = [run EXCEPT ![p] = r], ~Pass(p), r.pc # "rank"
  PROVE  \A o \in Run : (Pass(o)' <=> Pass(o)) /\ (Pass(o) => run'[o].order = run[o].order)
BY DEF Typed, TypeOK, Pass

\* The steps that are not of a pass.
LEMMA OutsidePass ==
  ASSUME Typed, NEW p \in Run,
         \/ BeginSync(p) \/ CountTrades(p) \/ PutMetrics(p) \/ EndLoop(p)
         \/ \E a \in Agent : BeginSnapshot(p, a)
         \/ Compute(p) \/ WritePnl(p) \/ GoOn(p)
  PROVE  \A o \in Run : (Pass(o)' <=> Pass(o)) /\ (Pass(o) => run'[o].order = run[o].order)
<1>0. run[p] \in RunState
  BY DEF Typed, TypeOK
<1>1. ~Pass(p)
  BY DEF BeginSync, CountTrades, PutMetrics, EndLoop, BeginSnapshot, Compute, WritePnl, GoOn, Pass
<1>2. ASSUME NEW r, run' = [run EXCEPT ![p] = r], r.pc # "rank"
      PROVE  \A o \in Run : (Pass(o)' <=> Pass(o)) /\ (Pass(o) => run'[o].order = run[o].order)
  BY <1>1, <1>2, RunMoves
<1>3. CASE BeginSync(p)
  <2>1. PICK r : run' = [run EXCEPT ![p] = r] /\
          (r = [run[p] EXCEPT !.pc = "pnl", !.todo = Running] \/ r = [run[p] EXCEPT !.pc = "over"])
    BY <1>3, Zenon DEF BeginSync
  <2> QED BY <1>0, <1>2, <2>1 DEF RunState
<1>4. ASSUME NEW a \in Agent, BeginSnapshot(p, a)
      PROVE  \A o \in Run : (Pass(o)' <=> Pass(o)) /\ (Pass(o) => run'[o].order = run[o].order)
  <2>1. PICK r : run' = [run EXCEPT ![p] = r] /\
          (r = [run[p] EXCEPT !.pc = "pnl", !.todo = {a}] \/ r = [run[p] EXCEPT !.pc = "over"])
    BY <1>4, Zenon DEF BeginSnapshot
  <2> QED BY <1>0, <1>2, <2>1 DEF RunState
<1>5. CASE Compute(p)
  <2>1. PICK r, a : run' = [run EXCEPT ![p] = r] /\
          \/ r = [run[p] EXCEPT !.todo = run[p].todo \ {a}, !.due = run[p].due \cup {a},
                                !.got = [run[p].got EXCEPT ![a] = worth[a]]]
          \/ r = [run[p] EXCEPT !.pc = "adrift", !.todo = run[p].todo \ {a}]
    BY <1>5, Zenon DEF Compute
  <2> QED BY <1>0, <1>1, <1>2, <2>1 DEF RunState, Pass
<1>6. CASE WritePnl(p)
  <2>1. PICK r, a : run' = [run EXCEPT ![p] = r] /\ r = [run[p] EXCEPT !.due = run[p].due \ {a}]
    BY <1>6, Zenon DEF WritePnl
  <2> QED BY <1>0, <1>1, <1>2, <2>1 DEF RunState, Pass
<1>7. CASE GoOn(p)
  <2>1. PICK r : run' = [run EXCEPT ![p] = r] /\
          \/ r = [run[p] EXCEPT !.pc = "loop", !.todo = Agent]
          \/ r = [run[p] EXCEPT !.pc = "list", !.got = NoPnl]
    BY <1>7, Zenon DEF GoOn
  <2> QED BY <1>0, <1>2, <2>1 DEF RunState
<1>8. CASE CountTrades(p)
  <2>1. PICK r, a : run' = [run EXCEPT ![p] = r] /\
          \/ r = [run[p] EXCEPT !.pc = "put", !.order = <<a>>, !.count = trades[a]]
          \/ r = [run[p] EXCEPT !.todo = run[p].todo \ {a}]
    BY <1>8, Zenon DEF CountTrades
  <2> QED BY <1>0, <1>1, <1>2, <2>1 DEF RunState, Pass
<1>9. CASE PutMetrics(p)
  <2>1. PICK r, a : run' = [run EXCEPT ![p] = r] /\
          r = [run[p] EXCEPT !.pc = "loop", !.todo = run[p].todo \ {a}, !.count = 0, !.order = <<>>]
    BY <1>9, Zenon DEF PutMetrics
  <2>2. r.pc = "loop"
    BY <1>0, <2>1 DEF RunState
  <2> QED BY <1>2, <2>1, <2>2
<1>10. CASE EndLoop(p)
  <2>1. PICK r : run' = [run EXCEPT ![p] = r] /\ r = [run[p] EXCEPT !.pc = "list", !.got = NoPnl]
    BY <1>10, Zenon DEF EndLoop
  <2>2. r.pc = "list"
    BY <1>0, <2>1 DEF RunState
  <2> QED BY <1>2, <2>1, <2>2
<1> QED BY <1>3, <1>4, <1>5, <1>6, <1>7, <1>8, <1>9, <1>10

\* A pass that starts with no other under way has the whole ranking to write; one that starts beside
\* another disturbs both.
LEMMA PassStarts ==
  ASSUME Typed, RankInv, NEW p \in Run, List(p)
  PROVE  RankInv'
<1>1. run[p] \in RunState /\ ~Pass(p) /\ lmd' = lmd /\ run \in [Run -> RunState]
  BY DEF Typed, TypeOK, List, OnlyRunAndSettled, Pass
<1>2. CASE run' = [run EXCEPT ![p].pc = "over"] /\ UNCHANGED settled
  <2>1. PICK r : run' = [run EXCEPT ![p] = r] /\ r = [run[p] EXCEPT !.pc = "over"]
    BY <1>2
  <2>2. r.pc # "rank"
    BY <1>1, <2>1 DEF RunState
  <2>3. \A o \in Run : (Pass(o)' <=> Pass(o)) /\ (Pass(o) => run'[o].order = run[o].order)
    BY <1>1, <2>1, <2>2, RunMoves
  <2> QED BY <1>1, <1>2, <2>3, RankKept
<1>3. ASSUME NEW q \in Rankings, run' = [run EXCEPT ![p] = [run[p] EXCEPT !.pc = "rank", !.order = q]],
             settled' = IF \E o \in Run : Pass(o) THEN "none" ELSE p
      PROVE  RankInv'
  <2>1. CASE \E o \in Run : Pass(o)
    BY <1>3, <2>1, RankLost
  <2>2. CASE ~\E o \in Run : Pass(o)
    <3>1. settled' = p
      BY <1>3, <2>2
    <3>2. PICK r : run' = [run EXCEPT ![p] = r] /\ r = [run[p] EXCEPT !.pc = "rank", !.order = q]
      BY <1>3
    <3>3. r.pc = "rank" /\ r.order = q
      BY <1>1, <3>2 DEF RunState
    <3>4. run'[p] = r /\ \A o \in Run \ {p} : run'[o] = run[o]
      BY <1>1, <3>2
    <3>5. \A o \in Run : Pass(o)' <=> o = p
      BY <2>2, <3>3, <3>4 DEF Pass
    <3>6. Rankings' = Rankings
      BY <1>1, RankingsKept
    <3>7. Len(q) = Cardinality(Agent)
      BY RankingsAre, AgentsCounted
    <3>8. WrittenUpTo(q, q)'
      BY <3>7, AgentsCounted DEF WrittenUpTo
    <3> QED BY <3>1, <3>3, <3>4, <3>5, <3>6, <3>8, RunsAssumption DEF RankInv, Run
  <2> QED BY <2>1, <2>2
<1> QED BY <1>2, <1>3 DEF List

\* A pass writes the next rank, gives up, or is over after the last one; one that is not the
\* undisturbed pass runs beside another, and then nothing is promised.
LEMMA PassGoesOn ==
  ASSUME Typed, RankInv, NEW p \in Run, WriteRank(p)
  PROVE  RankInv'
<1>1. /\ run[p] \in RunState /\ Pass(p) /\ run \in [Run -> RunState] /\ lmd \in [Agent -> Row]
      /\ settled \in Run \cup {"none", "yes"}
  BY DEF Typed, TypeOK, WriteRank
<1>2. ASSUME settled # p PROVE RankInv'
  <2>1. settled = "none"
    BY <1>1, <1>2 DEF RankInv
  <2>2. settled' = settled
    BY <1>2, Zenon DEF WriteRank
  <2> QED BY <2>1, <2>2, RankLost
<1>3. ASSUME settled = p PROVE RankInv'
  <2>1. PICK q \in Rankings : WrittenUpTo(q, run[p].order)
    BY <1>3 DEF RankInv
  <2>2. \A o \in Run : Pass(o) <=> o = p
    BY <1>3 DEF RankInv
  <2>3. PICK left : left = run[p].order
    OBVIOUS
  <2>4. left \in Seq(Agent) /\ left # <<>> /\ Len(left) \in 1..Cardinality(Agent)
    BY <1>1, <2>3, PassIs
  <2>5. PICK N : N = Cardinality(Agent) /\ N \in Nat \ {0}
    BY AgentsCounted
  <2>6. PICK done : done = N - Len(left) /\ done \in Nat /\ done + 1 \in 1..N
    BY <2>4, <2>5
  <2>7. q \in [1..N -> Agent] /\ \A i, j \in 1..N : q[i] = q[j] => i = j
    BY <2>5, RankingsAre
  <2>8. /\ \A i \in 1..Len(left) : left[i] = q[done + i]
        /\ \A i \in 1..done : lmd[q[i]].rank = i
    BY <2>1, <2>3, <2>5, <2>6 DEF WrittenUpTo
  <2>9. left[1] = q[done + 1] /\ left[1] \in Agent
    BY <2>4, <2>6, <2>7, <2>8
  <2>10. CASE settled' = IF settled = p THEN "none" ELSE settled
    BY <1>3, <2>10, RankLost
  <2>11. CASE /\ lmd' = [lmd EXCEPT ![left[1]].rank = N - Len(left) + 1]
              /\ run' = [run EXCEPT ![p] =
                   [run[p] EXCEPT !.pc = IF Len(left) = 1 THEN "over" ELSE "rank", !.order = Tail(left)]]
              /\ settled' = IF settled = p /\ Len(left) = 1 THEN "yes" ELSE settled
    <3>1. PICK w : w = [lmd[left[1]] EXCEPT !.rank = done + 1]
      OBVIOUS
    <3>2. w.rank = done + 1 /\ w.pnl = lmd[left[1]].pnl
      BY <1>1, <2>9, <3>1 DEF Row
    <3>3. lmd' = [lmd EXCEPT ![left[1]] = w]
      BY <2>6, <2>11, <3>1
    <3>4. lmd'[left[1]] = w /\ \A a \in Agent \ {left[1]} : lmd'[a] = lmd[a]
      BY <1>1, <2>9, <3>3
    <3>5. Rankings' = Rankings
      BY <2>9, <3>2, <3>4, RankingsKept
    <3>6. \A i \in 1..(done + 1) : lmd'[q[i]].rank = i
      <4>1. ASSUME NEW i \in 1..(done + 1) PROVE lmd'[q[i]].rank = i
        <5>1. i \in 1..N /\ (i = done + 1 \/ i \in 1..done)
          BY <2>5, <2>6
        <5>2. CASE i = done + 1
          BY <2>9, <3>2, <3>4, <5>2
        <5>3. CASE i \in 1..done
          <6>1. q[i] \in Agent /\ q[i] # q[done + 1]
            BY <2>6, <2>7, <5>1, <5>3
          <6> QED BY <2>8, <2>9, <3>4, <5>3, <6>1
        <5> QED BY <5>1, <5>2, <5>3
      <4> QED BY <4>1
    <3>7. /\ Tail(left) \in Seq(Agent) /\ Len(Tail(left)) = Len(left) - 1
          /\ \A i \in 1..Len(Tail(left)) : Tail(left)[i] = left[i + 1]
      BY <2>4, HeadTailProperties
    <3>8. N - Len(Tail(left)) = done + 1
      BY <2>4, <2>5, <2>6, <3>7
    <3>9. \A i \in 1..Len(Tail(left)) : Tail(left)[i] = q[(done + 1) + i]
      <4>1. \A i \in 1..Len(Tail(left)) : i + 1 \in 1..Len(left) /\ done + (i + 1) = (done + 1) + i
        BY <2>4, <2>6, <3>7
      <4> QED BY <2>8, <3>7, <4>1
    <3>10. WrittenUpTo(q, Tail(left))'
      BY <2>5, <3>6, <3>8, <3>9 DEF WrittenUpTo
    <3>11. PICK r : r = [run[p] EXCEPT !.pc = IF Len(left) = 1 THEN "over" ELSE "rank", !.order = Tail(left)]
      OBVIOUS
    <3>12. r.order = Tail(left) /\ r.pc = IF Len(left) = 1 THEN "over" ELSE "rank"
      BY <1>1, <3>11 DEF RunState
    <3>13. run'[p] = r /\ \A o \in Run \ {p} : run'[o] = run[o]
      BY <1>1, <2>11, <3>11
    <3>14. CASE Len(left) = 1
      <4>0. Len(Tail(left)) = 0
        BY <3>7, <3>14
      <4>1. settled' = "yes" /\ Tail(left) = <<>>
        BY <1>3, <2>11, <3>7, <3>14, <4>0, EmptySeq
      <4>2. \A o \in Run : ~Pass(o)'
        BY <2>2, <3>12, <3>13, <3>14 DEF Pass
      <4> QED BY <3>5, <3>10, <4>1, <4>2, RunsAssumption DEF RankInv, Run
    <3>15. CASE Len(left) # 1
      <4>1. settled' = p
        BY <1>3, <2>11, <3>15
      <4>2. \A o \in Run : Pass(o)' <=> o = p
        BY <2>2, <3>12, <3>13, <3>15 DEF Pass
      <4>3. run'[p].order = Tail(left)
        BY <3>12, <3>13
      <4> QED BY <3>5, <3>10, <4>1, <4>2, <4>3, RunsAssumption DEF RankInv, Run
    <3> QED BY <3>14, <3>15
  <2>12. \/ /\ lmd' = [lmd EXCEPT ![left[1]].rank = N - Len(left) + 1]
            /\ run' = [run EXCEPT ![p] =
                 [run[p] EXCEPT !.pc = IF Len(left) = 1 THEN "over" ELSE "rank", !.order = Tail(left)]]
            /\ settled' = IF settled = p /\ Len(left) = 1 THEN "yes" ELSE settled
         \/ settled' = IF settled = p THEN "none" ELSE settled
    BY <2>3, <2>5, Zenon DEF WriteRank
  <2> QED BY <2>10, <2>11, <2>12
<1> QED BY <1>2, <1>3

LEMMA RankInit == Init => RankInv
BY RunsAssumption DEF Init, RankInv, Run

LEMMA RankNext == Typed /\ RankInv /\ [Next]_vars => RankInv'
<1> SUFFICES ASSUME Typed, RankInv, [Next]_vars PROVE RankInv'
  OBVIOUS
<1>1. CASE UNCHANGED vars
  BY <1>1, RankKept DEF vars, Pass
<1>2. CASE Next
  <2>1. CASE \E p \in Run : List(p) \/ WriteRank(p)
    BY <2>1, PassStarts, PassGoesOn
  <2>2. CASE ~\E p \in Run : List(p) \/ WriteRank(p)
    <3>1. settled' = "none" \/ settled' = settled
      BY <1>2, <2>2 DEF Next, Change, CreateTradingInformation, InsertTrade, ReadCount, WriteCount, ForkAgent,
         ReadSource, CountFork, SyncStep, BeginSync, CountTrades, PutMetrics, EndLoop, BeginSnapshot, RunStep,
         Compute, WritePnl, GoOn
    <3>2. settled' = "none" \/ \A a \in Agent : lmd'[a].pnl = lmd[a].pnl /\ lmd'[a].rank = lmd[a].rank
      BY <1>2, <2>2, RowKeeps
    <3>3. \A o \in Run : (Pass(o)' <=> Pass(o)) /\ (Pass(o) => run'[o].order = run[o].order)
      <4>1. CASE UNCHANGED run
        BY <4>1 DEF Pass
      <4>2. UNCHANGED run
            \/ \E p \in Run : \/ BeginSync(p) \/ CountTrades(p) \/ PutMetrics(p) \/ EndLoop(p)
                              \/ \E a \in Agent : BeginSnapshot(p, a)
                              \/ Compute(p) \/ WritePnl(p) \/ GoOn(p)
        BY <1>2, <2>2 DEF Next, Change, CreateTradingInformation, InsertTrade, ReadCount, WriteCount, ForkAgent,
           ReadSource, CountFork, SyncStep, RunStep, Run
      <4> QED BY <4>1, <4>2, OutsidePass
    <3> QED BY <3>1, <3>2, <3>3, RankKept, RankLost
  <2> QED BY <2>1, <2>2
<1> QED BY <1>1, <1>2

\* Once a pass has run undisturbed, with no other under way and no pnlCycle written since it read them,
\* the ranks are a ranking by pnlCycle, for any number of agents and runs (updateAgentRankings).
THEOREM RanksAreSettled == Spec => []RankedWhenSettled
<1>1. ASSUME Typed, RankInv PROVE RankedWhenSettled
  <2> SUFFICES ASSUME settled = "yes", NEW a \in Agent, NEW b \in Agent
               PROVE  /\ lmd[a].rank \in 1..Cardinality(Agent)
                      /\ a # b => lmd[a].rank # lmd[b].rank
                      /\ lmd[a].pnl > lmd[b].pnl => lmd[a].rank < lmd[b].rank
    BY DEF RankedWhenSettled
  <2>1. PICK N : N = Cardinality(Agent) /\ N \in Nat
    BY AgentsCounted
  <2>2. PICK q \in Rankings : WrittenUpTo(q, <<>>)
    BY <1>1 DEF RankInv
  <2>3. \A i \in 1..N : lmd[q[i]].rank = i
    BY <2>1, <2>2, EmptySeq DEF WrittenUpTo
  <2>4. PICK i \in 1..N, j \in 1..N : q[i] = a /\ q[j] = b
    BY <2>1, RankingsAre
  <2>5. i < j => lmd[a].pnl >= lmd[b].pnl
    BY <2>1, <2>4, RankingsAre
  <2>6. j < i => lmd[b].pnl >= lmd[a].pnl
    BY <2>1, <2>4, RankingsAre
  <2>7. lmd[a].rank = i /\ lmd[b].rank = j
    BY <2>3, <2>4
  <2>8. lmd[a].pnl \in Int /\ lmd[b].pnl \in Int
    BY <1>1, WorthAssumption DEF Typed, TypeOK, Row
  <2>9. lmd[a].pnl > lmd[b].pnl => i < j
    <3>1. ASSUME lmd[a].pnl > lmd[b].pnl, ~(i < j) PROVE FALSE
      <4>1. i # j
        BY <2>4, <2>8, <3>1
      <4> QED BY <2>1, <2>4, <2>6, <2>8, <3>1, <4>1
    <3> QED BY <3>1
  <2> QED BY <2>1, <2>4, <2>7, <2>9
<1> QED BY <1>1, TypedInit, TypedNext, RankInit, RankNext, PTL DEF Spec
=============================================================================
