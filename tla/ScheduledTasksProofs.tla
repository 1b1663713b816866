------------------------- MODULE ScheduledTasksProofs -------------------------
(***************************************************************************)
(* For any agents, creators, lists of assets and plans, and any failures:  *)
(* what the tasks promise each for itself holds however many of them run   *)
(* at once. Each step of the system is one of a single component, so each  *)
(* invariant is preserved by the steps of its own component. What the      *)
(* leaderboard sums up, what pages show of a list, and what batches make   *)
(* of one is shown by induction, for which a least counterexample is taken.*)
(***************************************************************************)
EXTENDS ScheduledTasks, FiniteSetTheorems, SequenceTheorems, WellFoundedInduction, TLAPS
-----------------------------------------------------------------------------
(* Induction, by way of a least counterexample, and what it gives of sums. *)

LEMMA SetOfNaturals ==
  ASSUME NEW P, 0 \in P, \A n \in Nat : n \in P => n + 1 \in P
  PROVE  Nat \subseteq P
<1> DEFINE T == Nat \ P
<1> SUFFICES ASSUME T # {} PROVE FALSE
  OBVIOUS
<1>1. PICK m \in T : \A y \in T : ~(<<y, m>> \in OpToRel(<, Nat))
  <2>1. T \subseteq Nat
    OBVIOUS
  <2> QED BY <2>1, NatLessThanWellFounded, WFMin, Zenon
<1>2. m # 0 /\ m - 1 \in Nat /\ m - 1 < m /\ m = (m - 1) + 1
  OBVIOUS
<1>3. <<m - 1, m>> \in OpToRel(<, Nat)
  BY <1>2 DEF OpToRel
<1>4. m - 1 \in P
  BY <1>1, <1>2, <1>3
<1> QED BY <1>2, <1>4

Chosen(s) == CHOOSE x \in s : TRUE

\* sum gives the sum of f over the members of D, which are sets, the way MapThenSumSet does.
Sums(sum, f, D) == sum = [s \in D |-> IF s = {} THEN 0 ELSE f[Chosen(s)] + sum[s \ {Chosen(s)}]]
Small(S, n) == {s \in SUBSET S : Cardinality(s) <= n}

LEMMA OneLess ==
  ASSUME NEW S, IsFiniteSet(S), NEW s \in SUBSET S
  PROVE  /\ IsFiniteSet(s) /\ Cardinality(s) \in Nat
         /\ \A x \in s : Cardinality(s \ {x}) = Cardinality(s) - 1 /\ Cardinality(s) # 0
         /\ \A x \in S \ s : Cardinality(s \cup {x}) = Cardinality(s) + 1
         /\ s # {} => Chosen(s) \in s
<1>1. IsFiniteSet(s) /\ Cardinality(s) \in Nat
  BY FS_Subset, FS_CardinalityType
<1>2. \A x \in s : Cardinality(s \ {x}) = Cardinality(s) - 1
  BY <1>1, FS_RemoveElement
<1>3. \A x \in S \ s : Cardinality(s \cup {x}) = Cardinality(s) + 1
  BY <1>1, FS_AddElement
<1>4. s # {} => Cardinality(s) # 0
  BY <1>1, FS_EmptySet
<1>5. s # {} => Chosen(s) \in s
  BY DEF Chosen
<1> QED BY <1>1, <1>2, <1>3, <1>4, <1>5

LEMMA SumsExist ==
  ASSUME NEW S, IsFiniteSet(S), NEW f
  PROVE  \E sum : Sums(sum, f, SUBSET S)
<1> DEFINE P == {n \in Nat : \E sum : Sums(sum, f, Small(S, n))}
<1>1. 0 \in P
  <2> DEFINE g == [s \in Small(S, 0) |-> 0]
  <2>1. ASSUME NEW s \in Small(S, 0) PROVE s = {}
    <3>1. s \in SUBSET S /\ Cardinality(s) <= 0
      BY DEF Small
    <3>2. Cardinality(s) \in Nat /\ \A x \in s : Cardinality(s) # 0
      BY <3>1, OneLess
    <3> QED BY <3>1, <3>2
  <2>2. g = [s \in Small(S, 0) |-> IF s = {} THEN 0 ELSE f[Chosen(s)] + g[s \ {Chosen(s)}]]
    BY <2>1
  <2>3. Sums(g, f, Small(S, 0))
    BY <2>2 DEF Sums
  <2> QED BY <2>3
<1>2. ASSUME NEW n \in Nat, n \in P PROVE n + 1 \in P
  <2>1. PICK sum : Sums(sum, f, Small(S, n))
    BY <1>2
  <2> DEFINE g == [s \in Small(S, n + 1) |-> IF s = {} THEN 0 ELSE f[Chosen(s)] + sum[s \ {Chosen(s)}]]
  <2>2. ASSUME NEW s \in Small(S, n) PROVE s \in Small(S, n + 1)
    <3>1. s \in SUBSET S /\ Cardinality(s) <= n
      BY DEF Small
    <3>2. Cardinality(s) \in Nat
      BY <3>1, OneLess
    <3> QED BY <3>1, <3>2 DEF Small
  <2>3. \A s \in Small(S, n) : g[s] = sum[s]
    BY <2>1, <2>2 DEF Sums
  <2>4. ASSUME NEW s \in Small(S, n + 1), s # {} PROVE s \ {Chosen(s)} \in Small(S, n)
    <3>1. s \in SUBSET S /\ Cardinality(s) <= n + 1
      BY DEF Small
    <3>2. Chosen(s) \in s /\ Cardinality(s) \in Nat /\ Cardinality(s \ {Chosen(s)}) = Cardinality(s) - 1
      BY <2>4, <3>1, OneLess
    <3>3. s \ {Chosen(s)} \in SUBSET S
      BY <3>1
    <3> QED BY <3>1, <3>2, <3>3 DEF Small
  <2>5. g = [s \in Small(S, n + 1) |-> IF s = {} THEN 0 ELSE f[Chosen(s)] + g[s \ {Chosen(s)}]]
    BY <2>3, <2>4
  <2>6. Sums(g, f, Small(S, n + 1))
    BY <2>5 DEF Sums
  <2> QED BY <2>6
<1> HIDE DEF P
<1>3. Cardinality(S) \in P
  BY <1>1, <1>2, SetOfNaturals, OneLess
<1>4. Small(S, Cardinality(S)) = SUBSET S
  BY FS_Subset DEF Small
<1> QED BY <1>3, <1>4 DEF P

\* What a sum adds up to, whatever order the members come in.
AddsUp(sum, f, S) ==
  /\ sum[{}] = 0 /\ \A s \in SUBSET S : sum[s] \in Int
  /\ \A s \in SUBSET S : \A x \in S : x \notin s => sum[s \cup {x}] = sum[s] + f[x]

LEMMA SumsAddUp ==
  ASSUME NEW S, IsFiniteSet(S), NEW f, \A x \in S : f[x] \in Int, NEW sum, Sums(sum, f, SUBSET S)
  PROVE  AddsUp(sum, f, S)
<1>0. \A s \in SUBSET S : sum[s] = IF s = {} THEN 0 ELSE f[Chosen(s)] + sum[s \ {Chosen(s)}]
  BY DEF Sums
<1> DEFINE Good(s) == /\ sum[s] \in Int
                      /\ \A x \in S \ s : sum[s \cup {x}] = sum[s] + f[x]
           P == {n \in Nat : \A s \in SUBSET S : Cardinality(s) = n => Good(s)}
<1>1. 0 \in P
  <2>1. ASSUME NEW x \in S PROVE sum[{} \cup {x}] = sum[{}] + f[x]
    <3>1. {} \cup {x} = {x} /\ {x} \in SUBSET S /\ {x} # {} /\ {x} \ {x} = {} /\ {} \in SUBSET S
      OBVIOUS
    <3>2. Chosen({x}) = x
      BY DEF Chosen
    <3>3. sum[{x}] = f[x] + sum[{}]
      BY <1>0, <3>1, <3>2
    <3>4. sum[{}] = 0 /\ f[x] \in Int
      BY <1>0, <3>1
    <3> QED BY <3>1, <3>3, <3>4
  <2>2. Good({})
    <3>1. sum[{}] = 0
      BY <1>0
    <3> QED BY <2>1, <3>1
  <2>3. \A s \in SUBSET S : Cardinality(s) = 0 => s = {}
    BY OneLess
  <2> QED BY <2>2, <2>3
<1>2. ASSUME NEW n \in Nat, n \in P PROVE n + 1 \in P
  <2>1. ASSUME NEW s \in SUBSET S, Cardinality(s) = n + 1 PROVE Good(s)
    <3>1. s # {} /\ Chosen(s) \in s
      BY <2>1, OneLess, FS_EmptySet
    <3>2. Good(s \ {Chosen(s)})
      <4>1. PICK u : u = s \ {Chosen(s)}
        OBVIOUS
      <4>2. u \in SUBSET S /\ Cardinality(u) = (n + 1) - 1
        BY <2>1, <3>1, <4>1, OneLess
      <4>3. Cardinality(u) = n
        BY <4>2
      <4> QED BY <1>2, <4>1, <4>2, <4>3
    <3>3. sum[s] = f[Chosen(s)] + sum[s \ {Chosen(s)}] /\ sum[s] \in Int /\ f[Chosen(s)] \in Int
      <4>1. sum[s] = f[Chosen(s)] + sum[s \ {Chosen(s)}]
        BY <1>0, <3>1
      <4>2. f[Chosen(s)] \in Int
        BY <3>1
      <4> QED BY <3>2, <4>1, <4>2
    <3>4. ASSUME NEW x \in S \ s PROVE sum[s \cup {x}] = sum[s] + f[x]
      <4>0. PICK t : t = s \cup {x}
        OBVIOUS
      <4>1. PICK c : c = Chosen(t)
        OBVIOUS
      <4>2. t \in SUBSET S /\ t # {} /\ c \in t /\ sum[t] = f[c] + sum[t \ {c}]
        BY <1>0, <4>0, <4>1, OneLess
      <4>3. CASE c = x
        <5>1. t \ {c} = s
          BY <4>0, <4>3
        <5>2. sum[s] \in Int /\ f[x] \in Int
          BY <3>3
        <5>3. sum[t] = f[x] + sum[s]
          BY <4>2, <4>3, <5>1
        <5>4. sum[t] = sum[s] + f[x]
          BY <5>2, <5>3
        <5> QED BY <4>0, <5>4
      <4>4. CASE c # x
        <5>0. PICK u : u = s \ {c}
          OBVIOUS
        <5>1. c \in s /\ u \in SUBSET S /\ Cardinality(u) = (n + 1) - 1
          BY <2>1, <4>0, <4>2, <4>4, <5>0, OneLess
        <5>7. Cardinality(u) = n
          BY <5>1
        <5>2. Good(u)
          BY <1>2, <5>1, <5>7
        <5>3. t \ {c} = u \cup {x} /\ s = u \cup {c} /\ x \in S \ u /\ c \in S \ u
          BY <4>0, <4>4, <5>0, <5>1
        <5>4. sum[u \cup {x}] = sum[u] + f[x] /\ sum[u \cup {c}] = sum[u] + f[c]
          BY <5>2, <5>3
        <5>5. sum[u] \in Int /\ f[x] \in Int /\ f[c] \in Int
          BY <5>2, <5>3
        <5>6. sum[t] = f[c] + (sum[u] + f[x]) /\ sum[s] = sum[u] + f[c]
          BY <4>2, <5>3, <5>4
        <5> QED BY <4>0, <5>5, <5>6
      <4> QED BY <4>3, <4>4
    <3> QED BY <3>3, <3>4
  <2> HIDE DEF Good
  <2> QED BY <2>1
<1> HIDE DEF P
<1>3. \A s \in SUBSET S : Cardinality(s) \in P
  BY <1>1, <1>2, SetOfNaturals, OneLess
<1>4. \A s \in SUBSET S : Good(s)
  BY <1>3, OneLess DEF P
<1> QED BY <1>0, <1>4 DEF AddsUp

LEMMA PartOfList ==
  ASSUME NEW T, NEW s \in Seq(T), NEW lo \in Nat, NEW n \in Nat, n <= Len(s),
         NEW q, q = SubSeq(s, lo + 1, n)
  PROVE  /\ DOMAIN q = 1 .. (n - lo) /\ \A i \in 1 .. (n - lo) : q[i] = s[lo + i]
         /\ q \in Seq(T)
<1>1. q = [i \in 1 .. (1 + n - (lo + 1)) |-> s[i + (lo + 1) - 1]]
  OBVIOUS
<1>2. 1 + n - (lo + 1) = n - lo /\ \A i \in 1 .. (n - lo) : i + (lo + 1) - 1 = lo + i
  OBVIOUS
<1>3. \A i \in 1 .. (n - lo) : lo + i \in 1 .. Len(s)
  OBVIOUS
<1> QED BY <1>1, <1>2, <1>3
-----------------------------------------------------------------------------

USE AgentTableAssumption, AttemptsAssumption, PipelineAssumption, RetentionAssumption

(* The steps of a component, whoever takes them. *)

MessagesStep ==
  \E r \in Run :
    \/ \E kind \in {"trade", "portfolio"} : BeginRound(r, kind)
    \/ \E a \in Created : BeginPair(r, a)
    \/ MessageStep(r)
AnalysesStep ==
  \/ fetchAndUpdateMarkets
  \/ \E r \in Run :
       \/ generateParadexAnalysis(r)
       \/ \E asked \in ByHand : generateAnalysis(r, asked)
       \/ AnalysisStep(r)
HistoryStep ==
  \/ Tick
  \/ \E r \in Run : BeginSnapshots(r) \/ applyDataRetentionPolicy(r) \/ SnapshotStep(r)
BoardStep ==
  \/ \E r \in Run : FindWallets(r) \/ RebuildStep(r)
  \/ \E of \in Sorts : ReadPage(of)
  \/ ReadCount

Apart ==
  /\ MessagesStep \/ UNCHANGED messageVars
  /\ AnalysesStep \/ UNCHANGED analysisVars
  /\ HistoryStep \/ UNCHANGED historyVars
  /\ BoardStep \/ UNCHANGED boardVars

LEMMA BeginsApart == ASSUME NEW t \in Task, Begin(t) PROVE Apart
<1> DEFINE r == NextRun
<1>0. r \in Run
  BY DEF Begin
<1>1. CASE t \in {"trade", "portfolio"} /\ BeginRound(r, t) /\ UNCHANGED <<analysisVars, historyVars, boardVars>>
  BY <1>0, <1>1 DEF Apart, MessagesStep
<1>2. CASE (\E a \in Created : BeginPair(r, a)) /\ UNCHANGED <<analysisVars, historyVars, boardVars>>
  BY <1>0, <1>2 DEF Apart, MessagesStep
<1>3. CASE /\ generateParadexAnalysis(r) \/ \E asked \in ByHand : generateAnalysis(r, asked)
           /\ UNCHANGED <<messageVars, historyVars, boardVars>>
  BY <1>0, <1>3 DEF Apart, AnalysesStep
<1>4. CASE /\ BeginSnapshots(r) \/ applyDataRetentionPolicy(r)
           /\ UNCHANGED <<messageVars, analysisVars, boardVars>>
  BY <1>0, <1>4 DEF Apart, HistoryStep
<1>5. CASE FindWallets(r) /\ UNCHANGED <<messageVars, analysisVars, historyVars>>
  BY <1>0, <1>5 DEF Apart, BoardStep
<1>6. CASE UNCHANGED <<messageVars, analysisVars, historyVars, boardVars>>
  BY <1>6 DEF Apart
<1> HIDE DEF r
<1> QED
  BY <1>1, <1>2, <1>3, <1>4, <1>5, <1>6, Zenon DEF Begin, r

\* A step of the system is one of each component, or leaves it alone.
LEMMA StepsApart == [Next]_vars => Apart
<1> SUFFICES ASSUME [Next]_vars PROVE Apart
  OBVIOUS
<1>1. CASE UNCHANGED vars
  BY <1>1 DEF Apart, vars
<1>2. CASE \E t \in Task : Start(t)
  BY <1>2, BeginsApart DEF Start
<1>3. CASE \E c \in DOMAIN Chains : StartChain(c)
  BY <1>3 DEF StartChain, Apart
<1>4. CASE \E i \in DOMAIN chain : GoOn(i)
  <2>1. PICK i \in DOMAIN chain : GoOn(i)
    BY <1>4
  <2>2. Begin(Head(chain[i].todo))
    BY <2>1 DEF GoOn
  <2> DEFINE t == Head(chain[i].todo)
  <2>3. t \in Task
    BY <2>2 DEF Begin, Task
  <2> QED BY <2>2, <2>3, BeginsApart
<1>5. CASE \E r \in Run : StepOf(r)
  <2>1. PICK r \in Run : StepOf(r)
    BY <1>5
  <2>2. CASE MessageStep(r) /\ UNCHANGED <<analysisVars, historyVars, boardVars>>
    BY <2>2 DEF Apart, MessagesStep
  <2>3. CASE AnalysisStep(r) /\ UNCHANGED <<messageVars, historyVars, boardVars>>
    BY <2>3 DEF Apart, AnalysesStep
  <2>4. CASE SnapshotStep(r) /\ UNCHANGED <<messageVars, analysisVars, boardVars>>
    BY <2>4 DEF Apart, HistoryStep
  <2>5. CASE RebuildStep(r) /\ UNCHANGED <<messageVars, analysisVars, historyVars>>
    BY <2>5 DEF Apart, BoardStep
  <2>6. CASE Sync(r)
    BY <2>6 DEF Sync, Apart
  <2> QED BY <2>1, <2>2, <2>3, <2>4, <2>5, <2>6, Zenon DEF StepOf
<1>6. CASE Meanwhile
  <2>1. CASE UNCHANGED <<messageVars, analysisVars, historyVars, boardVars>>
    BY <2>1 DEF Apart
  <2>2. CASE Tick /\ UNCHANGED <<messageVars, analysisVars, boardVars>>
    BY <2>2 DEF Apart, HistoryStep
  <2>3. CASE fetchAndUpdateMarkets /\ UNCHANGED <<messageVars, historyVars, boardVars>>
    BY <2>3 DEF Apart, AnalysesStep
  <2>4. CASE /\ ReadCount \/ \E of \in Sorts : ReadPage(of)
             /\ UNCHANGED <<messageVars, analysisVars, historyVars>>
    BY <2>4 DEF Apart, BoardStep
  <2> QED BY <1>6, <2>1, <2>2, <2>3, <2>4, Zenon DEF Meanwhile
<1> QED
  BY <1>1, <1>2, <1>3, <1>4, <1>5, <1>6, Zenon DEF Next
-----------------------------------------------------------------------------
(* Charts. *)

\* What a cleanup of this hour may delete, whatever the minute.
Gone(x) ==
  \/ x.at <= Ago(HourlyDays) /\ ~IsMidnight(x.at)
  \/ x.at <= Ago(DailyDays)

\* A snapshot is of an hour that was, and is missing only if it may be deleted.
HistoryInv ==
  /\ hour \in Nat
  /\ \A x \in taken : x.at \in 0 .. hour /\ (x \in snapshots \/ Gone(x))

\* The limit of a deletion, so many days before now.
LEMMA AgoIsInteger ==
  ASSUME hour \in Nat, NEW days \in Nat
  PROVE  Ago(days) \in Int /\ (hour' = hour => Ago(days)' = Ago(days))
                           /\ (hour' = hour + 1 => Ago(days)' = Ago(days) + 1)
<1>1. days * HoursPerDay \in Int
  BY DEF RetentionAssumption
<1> DEFINE d == days * HoursPerDay
<1>2. Ago(days) = hour - d /\ Ago(days)' = hour' - d
  BY DEF Ago
<1> HIDE DEF d
<1> QED BY <1>1, <1>2 DEF d

\* What is kept for charts outlasts what is kept of each day.
LEMMA LimitsAreOrdered == hour \in Nat => Ago(DailyDays) <= Ago(HourlyDays)
<1>1. HourlyDays * HoursPerDay <= DailyDays * HoursPerDay
  BY DEF RetentionAssumption
<1>2. HourlyDays * HoursPerDay \in Int /\ DailyDays * HoursPerDay \in Int
  BY DEF RetentionAssumption
<1> QED BY <1>1, <1>2 DEF Ago

LEMMA HistoryPreserved == ASSUME HistoryInv, HistoryStep \/ UNCHANGED historyVars PROVE HistoryInv'
<1> USE DEF HistoryInv
<1>0. HourlyDays \in Nat /\ DailyDays \in Nat
  BY DEF RetentionAssumption
<1> DEFINE old == Ago(HourlyDays)
           veryOld == Ago(DailyDays)
<1>1. /\ old \in Int /\ veryOld \in Int
      /\ hour' = hour => old' = old /\ veryOld' = veryOld
      /\ hour' = hour + 1 => old' = old + 1 /\ veryOld' = veryOld + 1
  BY <1>0, AgoIsInteger
<1>2. /\ \A x : Gone(x) <=> (x.at <= old /\ ~IsMidnight(x.at)) \/ x.at <= veryOld
      /\ \A x : Gone(x)' <=> (x.at <= old' /\ ~IsMidnight(x.at)) \/ x.at <= veryOld'
  BY DEF Gone, IsMidnight
<1> HIDE DEF old, veryOld
<1>3. ASSUME hour' = hour, taken' = taken, snapshots' = snapshots PROVE HistoryInv'
  BY <1>1, <1>2, <1>3
<1>4. CASE UNCHANGED historyVars
  BY <1>3, <1>4 DEF historyVars
<1>5. CASE Tick
  BY <1>1, <1>2, <1>5 DEF Tick
<1>6. ASSUME NEW r \in Run, BeginSnapshots(r) PROVE HistoryInv'
  BY <1>3, <1>6 DEF BeginSnapshots
<1>7. ASSUME NEW r \in Run, applyDataRetentionPolicy(r) PROVE HistoryInv'
  <2>1. CASE UNCHANGED snapshots
    BY <1>3, <1>7, <2>1 DEF applyDataRetentionPolicy
  <2>2. ASSUME NEW late \in {-1, 0}, snapshots' = {x \in snapshots : ~Expired(x, late)} PROVE HistoryInv'
    <3>1. ASSUME NEW x \in taken, x \in snapshots, Expired(x, late) PROVE Gone(x)'
      BY <1>1, <1>2, <1>7, <3>1 DEF Expired, applyDataRetentionPolicy, old, veryOld
    <3>2. hour' = hour /\ taken' = taken
      BY <1>7 DEF applyDataRetentionPolicy
    <3> QED BY <1>1, <1>2, <2>2, <3>1, <3>2
  <2> QED BY <1>7, <2>1, <2>2 DEF applyDataRetentionPolicy
<1>8. ASSUME NEW r \in Run, SnapshotStep(r) PROVE HistoryInv'
  <2>1. CASE ReadAgent(r) \/ ComputePnL(r) \/ UpdateRow(r)
    BY <1>3, <2>1 DEF ReadAgent, ComputePnL, UpdateRow, Skip
  <2>2. CASE InsertSnapshot(r)
    <3>1. CASE Skip(r)
      BY <1>3, <2>2, <3>1 DEF InsertSnapshot, Skip
    <3>2. CASE \E row : /\ row.at = hour /\ hour' = hour
                        /\ snapshots' = snapshots \cup {row} /\ taken' = taken \cup {row}
      BY <1>1, <1>2, <3>2
    <3> QED BY <2>2, <3>1, <3>2 DEF InsertSnapshot
  <2> QED BY <1>8, <2>1, <2>2 DEF SnapshotStep
<1> QED
  BY <1>4, <1>5, <1>6, <1>7, <1>8 DEF HistoryStep

\* Charts of the last seven days miss no snapshot, and those of the last ninety
\* none of midnight, in whatever order snapshots and cleanups run.
THEOREM ChartsAreKept == Spec => []ChartsKeepTheirData
<1>1. Init => HistoryInv
  BY DEF Init, HistoryInit, HistoryInv
<1>2. HistoryInv /\ [Next]_vars => HistoryInv'
  BY HistoryPreserved, StepsApart DEF Apart
<1>3. HistoryInv => ChartsKeepTheirData
  <2> SUFFICES ASSUME HistoryInv, NEW x \in taken,
                      x.at > Ago(HourlyDays) \/ (IsMidnight(x.at) /\ x.at > Ago(DailyDays))
               PROVE  x \in getAgentPerformanceHistory(x.agent, 0, hour)
    BY DEF ChartsKeepTheirData
  <2>1. Ago(DailyDays) <= Ago(HourlyDays) /\ x.at \in 0 .. hour
    BY LimitsAreOrdered DEF HistoryInv
  <2>2. Ago(DailyDays) \in Int /\ Ago(HourlyDays) \in Int
    BY AgoIsInteger DEF HistoryInv, RetentionAssumption
  <2>3. ~Gone(x)
    BY <2>1, <2>2 DEF Gone, HistoryInv
  <2> QED BY <2>1, <2>3 DEF getAgentPerformanceHistory, HistoryInv
<1> QED
  BY <1>1, <1>2, <1>3, PTL DEF Spec
-----------------------------------------------------------------------------
(* The leaderboard. *)

\* A run whose transaction is committed has ended, and so finds no other creators.
BoardInv ==
  /\ DOMAIN rebuild = Run
  /\ \A r \in Run : {"stage", "wallets"} \subseteq DOMAIN rebuild[r]
  /\ commits \in Seq(Run)
  /\ \A i \in 1 .. Len(commits) : rebuild[commits[i]].stage = "ended"
  /\ BoardIsOneReading

\* Statements that store nothing leave the records of committed runs alone.
LEMMA NothingStored ==
  ASSUME BoardInv, NEW r \in Run, UNCHANGED <<board, commits, source>>,
         \A q \in Run \ {r} : rebuild'[q] = rebuild[q],
         DOMAIN rebuild' = Run, DOMAIN rebuild'[r] = DOMAIN rebuild[r],
         rebuild[r].stage = "ended" => rebuild'[r] = rebuild[r]
  PROVE  BoardInv'
<1> USE DEF BoardInv
<1>1. \A i \in 1 .. Len(commits) : commits[i] \in Run /\ rebuild'[commits[i]] = rebuild[commits[i]]
  OBVIOUS
<1>2. commits # <<>> => Len(commits) \in 1 .. Len(commits)
  OBVIOUS
<1>3. BoardIsOneReading'
  BY <1>1, <1>2 DEF BoardIsOneReading
<1> QED BY <1>1, <1>3

LEMMA BoardPreserved == ASSUME BoardInv, BoardStep \/ UNCHANGED boardVars PROVE BoardInv'
<1>1. CASE UNCHANGED boardVars \/ ReadCount \/ \E of \in Sorts : ReadPage(of)
  <2>1. UNCHANGED <<board, rebuild, commits, source>>
    BY <1>1 DEF boardVars, ReadPage, ReadCount
  <2> QED BY <2>1 DEF BoardInv, BoardIsOneReading
<1>2. ASSUME NEW r \in Run, FindWallets(r) \/ FindAgents(r) PROVE BoardInv'
  <2>1. rebuild[r].stage # "ended" /\ UNCHANGED <<board, commits, source>>
    BY <1>2 DEF FindWallets, FindAgents
  <2>2. /\ DOMAIN rebuild' = Run /\ \A q \in Run \ {r} : rebuild'[q] = rebuild[q]
        /\ DOMAIN rebuild'[r] = DOMAIN rebuild[r]
    <3>1. CASE rebuild' = [rebuild EXCEPT ![r].stage = "ended"]
      BY <3>1 DEF BoardInv
    <3>2. CASE \E w, s : rebuild' = [rebuild EXCEPT ![r] = [@ EXCEPT !.wallets = w, !.stage = s]]
      BY <3>2 DEF BoardInv
    <3>3. CASE \E s, d : rebuild' = [rebuild EXCEPT ![r] = [@ EXCEPT !.stage = s, !.data = d]]
      BY <3>3 DEF BoardInv
    <3> QED BY <1>2, <3>1, <3>2, <3>3, Zenon DEF FindWallets, FindAgents
  <2> QED BY <2>1, <2>2, NothingStored
<1>3. ASSUME NEW r \in Run, StoreEntries(r) PROVE BoardInv'
  <2>1. /\ DOMAIN rebuild' = Run /\ \A q \in Run \ {r} : rebuild'[q] = rebuild[q]
        /\ DOMAIN rebuild'[r] = DOMAIN rebuild[r]
        /\ rebuild[r].stage = "store" /\ rebuild'[r].stage = "ended"
        /\ rebuild'[r].wallets = rebuild[r].wallets
    BY <1>3 DEF StoreEntries, BoardInv
  <2>2. CASE UNCHANGED <<board, source, commits>>
    BY <2>1, <2>2, NothingStored
  <2>3. CASE /\ source' = Upserted(source, [c \in rebuild[r].wallets |-> r])
             /\ commits' = Append(commits, r)
    <3>1. /\ commits' \in Seq(Run) /\ commits' # <<>> /\ commits'[Len(commits')] = r
          /\ \A i \in 1 .. Len(commits') : commits'[i] = r \/ \E j \in 1 .. Len(commits) : commits'[i] = commits[j]
      BY <2>3 DEF BoardInv
    <3>2. \A i \in 1 .. Len(commits') : rebuild'[commits'[i]].stage = "ended"
      BY <2>1, <3>1 DEF BoardInv
    <3>3. \A c \in rebuild[r].wallets : source'[c] = r
      BY <2>3 DEF Upserted
    <3>4. BoardIsOneReading'
      BY <2>1, <3>1, <3>3 DEF BoardIsOneReading
    <3> QED BY <2>1, <3>1, <3>2, <3>4 DEF BoardInv
  <2> QED BY <1>3, <2>2, <2>3 DEF StoreEntries
<1> QED
  BY <1>1, <1>2, <1>3 DEF BoardStep, RebuildStep

\* Whoever reads the leaderboard sees rows of one and the same reading of the
\* agents, whatever rebuilds overlap or fail, but for creators it did not find.
THEOREM BoardsAreOneReading == Spec => []BoardIsOneReading
<1>1. Init => BoardInv
  BY DEF Init, BoardInit, BoardInv, BoardIsOneReading, NoRebuild
<1>2. BoardInv /\ [Next]_vars => BoardInv'
  BY BoardPreserved, StepsApart DEF Apart
<1>3. BoardInv => BoardIsOneReading
  BY DEF BoardInv
<1> QED
  BY <1>1, <1>2, <1>3, PTL DEF Spec
-----------------------------------------------------------------------------
(* What a row says of a creator. *)

\* The agents one by one: so far they are the members of done, and u is what was found.
FoundSoFar(data, sum, sumDay, done, u) ==
  /\ u.running = Cardinality({a \in done : data[a].running})
  /\ u.pnl = sum[done] /\ u.day = sumDay[done]
  /\ done = {} => u.best = "none"
  /\ done # {} => /\ u.best \in done /\ u.top = data[u.best].pnl
                  /\ \A a \in done : data[a].pnl <= u.top

LEMMA TotalIsSum ==
  ASSUME NEW data, NEW c, NEW S, S = Of(data, c), IsFiniteSet(S), \A a \in S : data[a].pnl \in Int
  PROVE  \E sum : AddsUp(sum, [a \in S |-> data[a].pnl], S) /\ Total(data, c) = sum[S]
<1> DEFINE f == [a \in S |-> data[a].pnl]
           Adds(iter) ==
             iter = [s \in SUBSET S |-> IF s = {} THEN 0
                       ELSE data[CHOOSE x \in s : TRUE].pnl + iter[s \ {CHOOSE x \in s : TRUE}]]
           added == CHOOSE iter : Adds(iter)
<1>1. Total(data, c) = added[S]
  <2>1. S = Of(data, c)
    OBVIOUS
  <2> QED BY <2>1, Zenon DEF Total, MapThenSumSet, MapThenFoldSet
<1>2. PICK sum : Sums(sum, f, SUBSET S)
  BY SumsExist
<1>3. \A s \in SUBSET S : s # {} => f[CHOOSE x \in s : TRUE] = data[CHOOSE x \in s : TRUE].pnl
  OBVIOUS
<1>4. Adds(sum)
  BY <1>2, <1>3 DEF Sums, Chosen
<1>5. \E iter : Adds(iter)
  BY <1>4
<1>6. Adds(added)
  BY <1>5
<1> HIDE DEF added
<1>7. Sums(added, f, SUBSET S)
  BY <1>3, <1>6 DEF Sums, Chosen
<1>8. \A x \in S : f[x] \in Int
  OBVIOUS
<1> HIDE DEF f
<1>9. AddsUp(added, f, S)
  BY <1>7, <1>8, SumsAddUp
<1> QED BY <1>1, <1>9 DEF f

LEMMA TotalDayIsSum ==
  ASSUME NEW data, NEW c, NEW S, S = Of(data, c), IsFiniteSet(S), \A a \in S : data[a].day \in Int
  PROVE  \E sum : AddsUp(sum, [a \in S |-> data[a].day], S) /\ TotalDay(data, c) = sum[S]
<1> DEFINE f == [a \in S |-> data[a].day]
           Adds(iter) ==
             iter = [s \in SUBSET S |-> IF s = {} THEN 0
                       ELSE data[CHOOSE x \in s : TRUE].day + iter[s \ {CHOOSE x \in s : TRUE}]]
           added == CHOOSE iter : Adds(iter)
<1>1. TotalDay(data, c) = added[S]
  <2>1. S = Of(data, c)
    OBVIOUS
  <2> QED BY <2>1, Zenon DEF TotalDay, MapThenSumSet, MapThenFoldSet
<1>2. PICK sum : Sums(sum, f, SUBSET S)
  BY SumsExist
<1>3. \A s \in SUBSET S : s # {} => f[CHOOSE x \in s : TRUE] = data[CHOOSE x \in s : TRUE].day
  OBVIOUS
<1>4. Adds(sum)
  BY <1>2, <1>3 DEF Sums, Chosen
<1>5. \E iter : Adds(iter)
  BY <1>4
<1>6. Adds(added)
  BY <1>5
<1> HIDE DEF added
<1>7. Sums(added, f, SUBSET S)
  BY <1>3, <1>6 DEF Sums, Chosen
<1>8. \A x \in S : f[x] \in Int
  OBVIOUS
<1> HIDE DEF f
<1>9. AddsUp(added, f, S)
  BY <1>7, <1>8, SumsAddUp
<1> QED BY <1>1, <1>9 DEF f

\* A listing of a finite set exists, and names each member.
LEMMA ListingsExist ==
  ASSUME NEW S, IsFiniteSet(S)
  PROVE  /\ \E s : s \in Listings(S)
         /\ \A s \in Listings(S) :
              /\ Len(s) = Cardinality(S) /\ Len(s) \in Nat /\ s \in [1 .. Len(s) -> S]
              /\ \A i, j \in 1 .. Len(s) : s[i] = s[j] => i = j
              /\ \A x \in S : \E i \in 1 .. Len(s) : s[i] = x
<1>1. Cardinality(S) \in Nat
  BY FS_CardinalityType
<1>2. \E s : s \in Listings(S)
  <2>1. ExistsBijection(1 .. Cardinality(S), S)
    BY FS_CardinalityType
  <2>2. PICK s \in Bijection(1 .. Cardinality(S), S) : TRUE
    BY <2>1 DEF ExistsBijection
  <2> QED BY <2>2 DEF Bijection, Injection, IsInjective, Listings
<1>3. ASSUME NEW s \in Listings(S)
      PROVE  /\ Len(s) = Cardinality(S) /\ Len(s) \in Nat /\ s \in [1 .. Len(s) -> S]
             /\ \A i, j \in 1 .. Len(s) : s[i] = s[j] => i = j
             /\ \A x \in S : \E i \in 1 .. Len(s) : s[i] = x
  <2>1. /\ s \in [1 .. Cardinality(S) -> S]
        /\ \A i, j \in 1 .. Cardinality(S) : s[i] = s[j] => i = j
    BY DEF Listings
  <2>2. Len(s) = Cardinality(S)
    BY <1>1, <2>1
  <2>3. \A x \in S : \E i \in 1 .. Cardinality(S) : s[i] = x
    <3>1. s \in Injection(1 .. Cardinality(S), S)
      BY <2>1 DEF Injection, IsInjective
    <3>2. Cardinality(1 .. Cardinality(S)) = Cardinality(S)
      BY <1>1, FS_Interval
    <3>3. s \in Surjection(1 .. Cardinality(S), S)
      BY <3>1, <3>2, FS_Injection
    <3> QED BY <3>3 DEF Surjection
  <2> QED BY <1>1, <2>1, <2>2, <2>3
<1> QED BY <1>2, <1>3

\* What the agents done make of the next one.
Looked(data, a, u) ==
  [running |-> u.running + IF data[a].running THEN 1 ELSE 0,
   pnl |-> u.pnl + data[a].pnl, day |-> u.day + data[a].day,
   best |-> IF u.best = "none" \/ data[a].pnl > u.top THEN a ELSE u.best,
   top |-> IF u.best = "none" \/ data[a].pnl > u.top THEN data[a].pnl ELSE u.top]
Nobody == [running |-> 0, pnl |-> 0, day |-> 0, best |-> "none", top |-> 0]
InTurn(data, list, f, n) == f = [i \in 0 .. n |-> IF i = 0 THEN Nobody ELSE Looked(data, list[i], f[i - 1])]

LEMMA LookingGoesThrough ==
  ASSUME NEW data, NEW list, NEW n \in Nat
  PROVE  \E f : InTurn(data, list, f, n)
<1> DEFINE P == {m \in Nat : \E f : InTurn(data, list, f, m)}
<1>1. 0 \in P
  <2> DEFINE f == [i \in 0 .. 0 |-> Nobody]
  <2>1. f = [i \in 0 .. 0 |-> IF i = 0 THEN Nobody ELSE Looked(data, list[i], f[i - 1])]
    OBVIOUS
  <2>2. InTurn(data, list, f, 0)
    BY <2>1 DEF InTurn
  <2> QED BY <2>2
<1>2. ASSUME NEW m \in Nat, m \in P PROVE m + 1 \in P
  <2>1. PICK f : InTurn(data, list, f, m)
    BY <1>2
  <2> DEFINE g == [i \in 0 .. m + 1 |-> IF i = 0 THEN Nobody ELSE Looked(data, list[i], f[i - 1])]
  <2>2. \A i \in 0 .. m : g[i] = f[i]
    BY <2>1 DEF InTurn
  <2>3. \A i \in 0 .. m + 1 : i # 0 => i - 1 \in 0 .. m
    OBVIOUS
  <2>4. g = [i \in 0 .. m + 1 |-> IF i = 0 THEN Nobody ELSE Looked(data, list[i], g[i - 1])]
    BY <2>2, <2>3
  <2>5. InTurn(data, list, g, m + 1)
    BY <2>4 DEF InTurn
  <2> QED BY <2>5
<1> HIDE DEF P
<1>3. n \in P
  BY <1>1, <1>2, SetOfNaturals
<1> QED BY <1>3 DEF P

LEMMA PerformanceLooksAtEach ==
  ASSUME NEW data, NEW c, IsFiniteSet(Of(data, c))
  PROVE  \E list \in Listings(Of(data, c)) : \E f :
           InTurn(data, list, f, Len(list)) /\ getCreatorPerformance(data, c) = f[Len(list)]
<1> DEFINE S == Of(data, c)
           list == CHOOSE s \in Listings(S) : TRUE
           f == CHOOSE g : InTurn(data, list, g, Len(list))
<1>1. list \in Listings(S)
  BY ListingsExist
<1>2. Len(list) \in Nat
  BY <1>1, ListingsExist
<1> HIDE DEF list
<1>3. \E g : InTurn(data, list, g, Len(list))
  BY <1>2, LookingGoesThrough
<1>4. InTurn(data, list, f, Len(list))
  BY <1>3
<1>5. getCreatorPerformance(data, c) = f[Len(list)]
  BY Zenon DEF getCreatorPerformance, InTurn, Looked, Nobody, list
<1> HIDE DEF f
<1> QED BY <1>1, <1>4, <1>5

LEMMA RowsAreTyped ==
  ASSUME NEW row \in AgentRow
  PROVE  row.running \in BOOLEAN /\ row.pnl \in Int /\ row.day \in Int
<1>1. row.running \in BOOLEAN /\ row.pnl \in Worth /\ row.day \in Worth
  BY DEF AgentRow
<1>2. row.pnl \in Int /\ row.day \in Int
  BY <1>1, AgentTableAssumption
<1> QED BY <1>1, <1>2, Zenon

\* One more agent: the number, the sums and the best are of one more.
LEMMA LookedAtOneMore ==
  ASSUME NEW data, NEW S, IsFiniteSet(S), \A a \in S : data[a] \in AgentRow, "none" \notin S,
         NEW sum, AddsUp(sum, [b \in S |-> data[b].pnl], S),
         NEW sumDay, AddsUp(sumDay, [b \in S |-> data[b].day], S),
         NEW done \in SUBSET S, NEW a \in S \ done, NEW u, FoundSoFar(data, sum, sumDay, done, u)
  PROVE  FoundSoFar(data, sum, sumDay, done \cup {a}, Looked(data, a, u))
<1>1. PICK v : v = Looked(data, a, u)
  OBVIOUS
<1>2. /\ v.running = u.running + (IF data[a].running THEN 1 ELSE 0)
      /\ v.pnl = u.pnl + data[a].pnl /\ v.day = u.day + data[a].day
      /\ v.best = IF u.best = "none" \/ data[a].pnl > u.top THEN a ELSE u.best
      /\ v.top = IF u.best = "none" \/ data[a].pnl > u.top THEN data[a].pnl ELSE u.top
  BY <1>1 DEF Looked
<1>3. \A b \in S : data[b].running \in BOOLEAN /\ data[b].pnl \in Int /\ data[b].day \in Int
  BY RowsAreTyped
<1>4. v.running = Cardinality({b \in done \cup {a} : data[b].running})
  <2> DEFINE R == {b \in done : data[b].running}
  <2>1. IsFiniteSet(R) /\ a \notin R
    BY FS_Subset
  <2>2. u.running = Cardinality(R) /\ Cardinality(R) \in Nat
    BY <2>1, FS_CardinalityType DEF FoundSoFar
  <2>3. CASE data[a].running
    <3>1. {b \in done \cup {a} : data[b].running} = R \cup {a}
      BY <2>3
    <3>2. Cardinality(R \cup {a}) = Cardinality(R) + 1
      BY <2>1, FS_AddElement
    <3> HIDE DEF R
    <3> QED BY <1>2, <2>2, <2>3, <3>1, <3>2
  <2>4. CASE ~data[a].running
    <3>1. {b \in done \cup {a} : data[b].running} = R
      BY <2>4
    <3> HIDE DEF R
    <3>2. v.running = u.running + 0
      BY <1>2, <2>4
    <3>3. v.running = u.running
      BY <2>2, <3>2
    <3> QED BY <2>2, <3>1, <3>3
  <2> QED BY <2>3, <2>4
<1>5. v.pnl = sum[done \cup {a}]
  BY <1>2 DEF FoundSoFar, AddsUp
<1>6. v.day = sumDay[done \cup {a}]
  BY <1>2 DEF FoundSoFar, AddsUp
<1>7. /\ v.best \in done \cup {a} /\ v.top = data[v.best].pnl
      /\ \A b \in done \cup {a} : data[b].pnl <= v.top
  <2>1. CASE done = {}
    <3>1. v.best = a /\ v.top = data[a].pnl
      BY <1>2, <2>1 DEF FoundSoFar
    <3> QED BY <1>3, <2>1, <3>1
  <2>2. CASE done # {}
    <3>1. /\ u.best \in done /\ u.top = data[u.best].pnl
          /\ \A b \in done : data[b].pnl <= u.top
      BY <2>2 DEF FoundSoFar
    <3>2. u.best # "none" /\ u.top \in Int
      BY <1>3, <3>1
    <3>3. CASE data[a].pnl > u.top
      <4>1. v.best = a /\ v.top = data[a].pnl
        BY <1>2, <3>3
      <4> QED BY <1>3, <3>1, <3>2, <3>3, <4>1
    <3>4. CASE ~(data[a].pnl > u.top)
      <4>1. v.best = u.best /\ v.top = u.top
        BY <1>2, <3>2, <3>4
      <4> QED BY <1>3, <3>1, <3>2, <3>4, <4>1
    <3> QED BY <3>3, <3>4
  <2> QED BY <2>1, <2>2
<1> QED BY <1>1, <1>4, <1>5, <1>6, <1>7 DEF FoundSoFar

\* The page adds up the same agents, in whatever order, and finds one of the best.
PerformanceTells(data, c, S, page) ==
  /\ page.running = Cardinality({a \in S : data[a].running})
  /\ page.pnl = Total(data, c) /\ page.day = TotalDay(data, c)
  /\ S = {} => page.best = "none"
  /\ S # {} => /\ page.best \in S /\ page.top = data[page.best].pnl
               /\ \A a \in S : data[a].pnl <= page.top

LEMMA PerformanceAddsUp ==
  ASSUME NEW data, NEW c, NEW S, S = Of(data, c), IsFiniteSet(S), "none" \notin S,
         \A a \in S : data[a] \in AgentRow,
         NEW page, page = getCreatorPerformance(data, c)
  PROVE  PerformanceTells(data, c, S, page)
<1>1. S = Of(data, c)
  OBVIOUS
<1>2. \A b \in S : data[b].running \in BOOLEAN /\ data[b].pnl \in Int /\ data[b].day \in Int
  BY <1>1, RowsAreTyped
<1>3. PICK sum : AddsUp(sum, [a \in S |-> data[a].pnl], S) /\ Total(data, c) = sum[S]
  <2>1. IsFiniteSet(S) /\ \A b \in S : data[b].pnl \in Int
    BY <1>1, <1>2
  <2> QED BY <1>1, <2>1, TotalIsSum
<1>4. PICK sumDay : AddsUp(sumDay, [a \in S |-> data[a].day], S) /\ TotalDay(data, c) = sumDay[S]
  <2>1. IsFiniteSet(S) /\ \A b \in S : data[b].day \in Int
    BY <1>1, <1>2
  <2> QED BY <1>1, <2>1, TotalDayIsSum
<1>5. PICK list \in Listings(S) : \E f : InTurn(data, list, f, Len(list)) /\ page = f[Len(list)]
  BY <1>1, PerformanceLooksAtEach
<1>6. PICK f : InTurn(data, list, f, Len(list)) /\ page = f[Len(list)]
  BY <1>5
<1>7. /\ Len(list) \in Nat /\ list \in [1 .. Len(list) -> S]
      /\ \A i, j \in 1 .. Len(list) : list[i] = list[j] => i = j
      /\ \A x \in S : \E i \in 1 .. Len(list) : list[i] = x
  BY <1>1, ListingsExist
<1> DEFINE done(m) == {list[i] : i \in 1 .. m}
           P == {m \in Nat : m <= Len(list) => FoundSoFar(data, sum, sumDay, done(m), f[m])}
<1>8. 0 \in P
  <2>1. f[0] = Nobody
    BY <1>6, <1>7 DEF InTurn
  <2>2. done(0) = {}
    OBVIOUS
  <2>4. {a \in {} : data[a].running} = {} /\ Cardinality({}) = 0
    BY FS_EmptySet
  <2>5. FoundSoFar(data, sum, sumDay, {}, Nobody)
    BY <1>3, <1>4, <2>4 DEF FoundSoFar, Nobody, AddsUp
  <2> QED BY <2>1, <2>2, <2>5
<1>9. ASSUME NEW m \in Nat, m \in P PROVE m + 1 \in P
  <2>1. SUFFICES ASSUME m + 1 <= Len(list)
                 PROVE  FoundSoFar(data, sum, sumDay, done(m + 1), f[m + 1])
    OBVIOUS
  <2>2. f[m + 1] = Looked(data, list[m + 1], f[m])
    BY <1>6, <1>7, <2>1 DEF InTurn
  <2>3. done(m + 1) = done(m) \cup {list[m + 1]}
    OBVIOUS
  <2>4. done(m) \in SUBSET S /\ list[m + 1] \in S \ done(m)
    BY <1>7, <2>1
  <2>5. FoundSoFar(data, sum, sumDay, done(m), f[m])
    BY <1>7, <1>9, <2>1
  <2> HIDE DEF done
  <2>6. FoundSoFar(data, sum, sumDay, done(m) \cup {list[m + 1]}, Looked(data, list[m + 1], f[m]))
    BY <1>1, <1>3, <1>4, <2>4, <2>5, LookedAtOneMore
  <2> QED BY <2>2, <2>3, <2>6
<1>10. Len(list) \in P
  <2> HIDE DEF P
  <2> QED BY <1>7, <1>8, <1>9, SetOfNaturals
<1>11. done(Len(list)) = S
  BY <1>7
<1> HIDE DEF done
<1>12. FoundSoFar(data, sum, sumDay, S, page)
  BY <1>6, <1>7, <1>10, <1>11
<1> QED BY <1>1, <1>3, <1>4, <1>12 DEF FoundSoFar, PerformanceTells

\* A task of snapshots has agents left that there are, one at least while it works on it, and
\* writes a change of PnL that may be.
SnapShape(q, S) ==
  /\ {"stage", "todo", "day"} \subseteq DOMAIN q
  /\ q.todo \in Seq(S) /\ q.day \in Worth
  /\ q.stage \in {"read", "compute", "insert", "update"} => q.todo # <<>>

RowsTyped == Created \subseteq Agent /\ \A a \in Created : agents[a] \in AgentRow
AgentsTyped == RowsTyped /\ DOMAIN snap = Run /\ \A r \in Run : SnapShape(snap[r], Created)

LEMMA SnapshotsTyped ==
  ASSUME AgentsTyped, RowsTyped', Created \subseteq Created',
         \/ UNCHANGED snap
         \/ \E r \in Run : \E q : snap' = [snap EXCEPT ![r] = q] /\ SnapShape(q, Created')
  PROVE  AgentsTyped'
<1>1. \A r \in Run : SnapShape(snap[r], Created')
  BY DEF AgentsTyped, SnapShape
<1>2. DOMAIN snap' = Run /\ \A r \in Run : SnapShape(snap'[r], Created')
  BY <1>1 DEF AgentsTyped
<1> QED BY <1>2 DEF AgentsTyped, RowsTyped, Created

\* Whatever field of a row is written.
LEMMA RowsWritten ==
  ASSUME RowsTyped, NEW a, NEW p \in Worth, NEW d \in Worth,
         \/ UNCHANGED agents
         \/ agents' = [agents EXCEPT ![a].running = ~@]
         \/ agents' = [agents EXCEPT ![a].pnl = p]
         \/ agents' = [agents EXCEPT ![a].day = d]
         \/ agents' = [agents EXCEPT ![a] = [@ EXCEPT !.pnl = p, !.day = d]]
  PROVE  RowsTyped' /\ Created' = Created
<1>1. Created' = Created
  BY DEF Created
<1>2. ASSUME NEW b \in Created PROVE agents'[b] \in AgentRow
  <2>1. agents[b] \in AgentRow
    BY DEF RowsTyped
  <2>2. CASE agents'[b] = agents[b]
    BY <2>1, <2>2
  <2>3. CASE agents'[b] # agents[b]
    <3>1. \/ agents'[b] = [agents[b] EXCEPT !.running = ~@]
          \/ agents'[b] = [agents[b] EXCEPT !.pnl = p]
          \/ agents'[b] = [agents[b] EXCEPT !.day = d]
          \/ agents'[b] = [agents[b] EXCEPT !.pnl = p, !.day = d]
      BY <2>3 DEF Created
    <3>2. PICK row \in AgentRow : row = agents[b]
      BY <2>1
    <3>3. \/ agents'[b] = [row EXCEPT !.running = ~@]
          \/ agents'[b] = [row EXCEPT !.pnl = p]
          \/ agents'[b] = [row EXCEPT !.day = d]
          \/ agents'[b] = [row EXCEPT !.pnl = p, !.day = d]
      BY <3>1, <3>2
    <3>4. /\ [row EXCEPT !.running = ~@] \in AgentRow
          /\ [row EXCEPT !.pnl = p] \in AgentRow /\ [row EXCEPT !.day = d] \in AgentRow
          /\ [row EXCEPT !.pnl = p, !.day = d] \in AgentRow
      BY DEF AgentRow
    <3> QED BY <3>3, <3>4, Zenon
  <2> QED BY <2>2, <2>3
<1> QED BY <1>1, <1>2 DEF RowsTyped

LEMMA AgentsStayTyped == AgentsTyped /\ [Next]_vars => AgentsTyped'
<1> SUFFICES ASSUME AgentsTyped, [Next]_vars PROVE AgentsTyped'
  OBVIOUS
<1>0. RowsTyped /\ 0 \in Worth
  BY AgentTableAssumption DEF AgentsTyped
<1>1. CASE UNCHANGED <<agents, snap>>
  BY <1>1 DEF AgentsTyped, RowsTyped, Created
<1>2. ASSUME NEW a \in Agent, CreateAgent(a), UNCHANGED snap PROVE AgentsTyped'
  <2>1. [running |-> FALSE, pnl |-> 0, day |-> 0] \in AgentRow
    BY <1>0 DEF AgentRow
  <2>2. RowsTyped' /\ Created \subseteq Created'
    BY <1>0, <1>2, <2>1 DEF CreateAgent, RowsTyped, Created
  <2> QED BY <1>2, <2>2, SnapshotsTyped
<1>3. ASSUME NEW a \in Agent, UNCHANGED snap,
             SetStatus(a) \/ \E p, d \in Worth : WritePnL(a, p, d)
      PROVE  AgentsTyped'
  <2>1. RowsTyped' /\ Created' = Created
    <3>1. CASE SetStatus(a)
      BY <1>0, <3>1, RowsWritten DEF SetStatus
    <3>2. ASSUME NEW p \in Worth, NEW d \in Worth, WritePnL(a, p, d) PROVE RowsTyped' /\ Created' = Created
      BY <1>0, <3>2, RowsWritten DEF WritePnL
    <3> QED BY <1>3, <3>1, <3>2
  <2> QED BY <1>3, <2>1, SnapshotsTyped
<1>4. ASSUME NEW r \in Run, BeginSnapshots(r) \/ applyDataRetentionPolicy(r) PROVE AgentsTyped'
  <2>1. UNCHANGED agents
    BY <1>4 DEF BeginSnapshots, applyDataRetentionPolicy
  <2>2. RowsTyped' /\ Created' = Created
    BY <1>0, <2>1 DEF RowsTyped, Created
  <2>3. CASE snap' = [snap EXCEPT ![r].stage = "ended"]
    <3>1. PICK q : q = [snap[r] EXCEPT !.stage = "ended"]
      OBVIOUS
    <3>2. SnapShape(q, Created') /\ snap' = [snap EXCEPT ![r] = q]
      BY <2>2, <2>3, <3>1 DEF AgentsTyped, SnapShape
    <3> QED BY <2>2, <3>2, SnapshotsTyped
  <2>4. ASSUME NEW list \in Listings(Running),
               snap' = [snap EXCEPT ![r] = [NoSnap EXCEPT !.todo = list, !.stage = IF list = <<>> THEN "ended" ELSE "read"]]
        PROVE  AgentsTyped'
    <3>1. PICK q : q = [NoSnap EXCEPT !.todo = list, !.stage = IF list = <<>> THEN "ended" ELSE "read"]
      OBVIOUS
    <3>2. list \in Seq(Created)
      <4>1. Running \subseteq Created /\ IsFiniteSet(Running)
        BY <1>0, FS_Subset, AgentTableAssumption DEF Running, RowsTyped
      <4>2. Len(list) \in Nat /\ list \in [1 .. Len(list) -> Running]
        BY <4>1, ListingsExist
      <4> QED BY <4>1, <4>2
    <3>3. SnapShape(q, Created')
      BY <1>0, <2>2, <3>1, <3>2 DEF SnapShape, NoSnap
    <3>4. snap' = [snap EXCEPT ![r] = q]
      BY <2>4, <3>1
    <3> QED BY <2>2, <3>3, <3>4, SnapshotsTyped
  <2> QED BY <1>4, <2>3, <2>4, Zenon DEF BeginSnapshots, applyDataRetentionPolicy
<1>5. ASSUME NEW r \in Run, SnapshotStep(r) PROVE AgentsTyped'
  <2>0. PICK q : q = snap[r]
    OBVIOUS
  <2>1. SnapShape(q, Created)
    BY <2>0 DEF AgentsTyped
  <2>2. ASSUME q.stage \in {"read", "compute", "insert", "update"}
        PROVE  SnapShape(NextSnapshot(r), Created) /\ Head(q.todo) \in Created
    <3>1. q.todo \in Seq(Created) /\ q.todo # <<>>
      BY <2>1, <2>2 DEF SnapShape
    <3>2. Head(q.todo) \in Created /\ Tail(q.todo) \in Seq(Created)
      BY <3>1
    <3>4. Len(q.todo) # 1 => Len(Tail(q.todo)) # 0
      BY <3>1
    <3>5. Len(q.todo) # 1 => Tail(q.todo) # <<>>
      BY <3>4
    <3> QED BY <1>0, <2>0, <2>1, <3>2, <3>5 DEF NextSnapshot, SnapShape
  <2>3. CASE Skip(r) /\ q.stage \in {"read", "compute", "insert", "update"}
    <3>1. UNCHANGED agents /\ snap' = [snap EXCEPT ![r] = NextSnapshot(r)]
      BY <2>3 DEF Skip
    <3>2. RowsTyped' /\ Created' = Created
      BY <1>0, <3>1 DEF RowsTyped, Created
    <3> QED BY <2>2, <2>3, <3>1, <3>2, SnapshotsTyped
  <2>4. CASE q.stage = "read" /\ UNCHANGED agents /\ snap' = [snap EXCEPT ![r] =
               [@ EXCEPT !.stage = "compute", !.pnl = agents[Head(snap[r].todo)].pnl,
                         !.day = agents[Head(snap[r].todo)].day]]
    <3>1. PICK p : p = [q EXCEPT !.stage = "compute", !.pnl = agents[Head(q.todo)].pnl,
                                 !.day = agents[Head(q.todo)].day]
      OBVIOUS
    <3>2. agents[Head(q.todo)].day \in Worth
      BY <1>0, <2>2, <2>4 DEF RowsTyped, AgentRow
    <3>3. SnapShape(p, Created)
      BY <2>1, <2>4, <3>1, <3>2 DEF SnapShape
    <3>4. snap' = [snap EXCEPT ![r] = p] /\ RowsTyped' /\ Created' = Created
      BY <1>0, <2>0, <2>4, <3>1 DEF RowsTyped, Created
    <3> QED BY <3>3, <3>4, SnapshotsTyped
  <2>5. ASSUME q.stage = "compute", NEW pnl \in Worth, NEW change \in Worth,
               agents' = [agents EXCEPT ![Head(snap[r].todo)].pnl = pnl],
               snap' = [snap EXCEPT ![r] =
                 [@ EXCEPT !.stage = "insert", !.day = IF change # 0 THEN change ELSE snap[r].day]]
        PROVE  AgentsTyped'
    <3>1. PICK p : p = [q EXCEPT !.stage = "insert", !.day = IF change # 0 THEN change ELSE q.day]
      OBVIOUS
    <3>2. RowsTyped' /\ Created' = Created
      BY <1>0, <2>5, RowsWritten
    <3>3. SnapShape(p, Created)
      BY <2>1, <2>5, <3>1 DEF SnapShape
    <3>4. snap' = [snap EXCEPT ![r] = p]
      BY <2>0, <2>5, <3>1
    <3> QED BY <3>2, <3>3, <3>4, SnapshotsTyped
  <2>6. CASE q.stage = "insert" /\ UNCHANGED agents /\ snap' = [snap EXCEPT ![r].stage = "update"]
    <3>1. PICK p : p = [q EXCEPT !.stage = "update"]
      OBVIOUS
    <3>2. SnapShape(p, Created)
      BY <2>1, <2>6, <3>1 DEF SnapShape
    <3>3. snap' = [snap EXCEPT ![r] = p] /\ RowsTyped' /\ Created' = Created
      BY <1>0, <2>0, <2>6, <3>1 DEF RowsTyped, Created
    <3> QED BY <3>2, <3>3, SnapshotsTyped
  <2>7. CASE /\ q.stage = "update" /\ agents' = [agents EXCEPT ![Head(snap[r].todo)].day = snap[r].day]
             /\ snap' = [snap EXCEPT ![r] = NextSnapshot(r)]
    <3>1. snap[r].day \in Worth
      BY <2>0, <2>1 DEF SnapShape
    <3>2. RowsTyped' /\ Created' = Created
      BY <1>0, <2>7, <3>1, RowsWritten
    <3> QED BY <2>2, <2>7, <3>2, SnapshotsTyped
  <2>8. CASE ReadAgent(r)
    BY <2>0, <2>3, <2>4, <2>8, Zenon DEF ReadAgent
  <2>9. CASE ComputePnL(r)
    BY <2>0, <2>3, <2>5, <2>9, Zenon DEF ComputePnL
  <2>10. CASE InsertSnapshot(r)
    BY <2>0, <2>3, <2>6, <2>10, Zenon DEF InsertSnapshot
  <2>11. CASE UpdateRow(r)
    BY <2>0, <2>3, <2>7, <2>11, Zenon DEF UpdateRow
  <2> QED BY <1>5, <2>8, <2>9, <2>10, <2>11 DEF SnapshotStep
<1>6. ASSUME NEW t \in Task, Begin(t) PROVE AgentsTyped'
  <2>1. NextRun \in Run
    BY <1>6 DEF Begin
  <2> QED BY <1>1, <1>4, <1>6, <2>1 DEF Begin, historyVars, FindWallets
<1>7. ASSUME NEW r \in Run, StepOf(r) PROVE AgentsTyped'
  <2>1. CASE SnapshotStep(r)
    BY <1>5, <2>1
  <2>2. CASE Sync(r)
    <3>1. UNCHANGED snap /\ (UNCHANGED agents \/ \E a \in Created, p, d \in Worth : WritePnL(a, p, d))
      BY <2>2 DEF Sync, historyVars
    <3>2. Created \subseteq Agent
      BY <1>0 DEF RowsTyped
    <3> QED BY <1>1, <1>3, <3>1, <3>2
  <2>3. CASE RebuildStep(r) /\ UNCHANGED historyVars
    BY <1>1, <2>3 DEF RebuildStep, FindAgents, StoreEntries, historyVars
  <2>4. CASE UNCHANGED <<agents, historyVars>>
    BY <1>1, <2>4 DEF historyVars
  <2> QED BY <1>7, <2>1, <2>2, <2>3, <2>4 DEF StepOf
<1>8. CASE Meanwhile
  <2>1. CASE UNCHANGED historyVars /\ \E a \in Agent : CreateAgent(a) \/ SetStatus(a) \/ \E pnl \in Worth : WritePnL(a, pnl, pnl)
    BY <1>2, <1>3, <2>1 DEF historyVars
  <2>2. CASE Tick
    BY <1>1, <2>2 DEF Tick
  <2>3. CASE UNCHANGED <<agents, historyVars>>
    BY <1>1, <2>3 DEF historyVars
  <2>4. CASE UNCHANGED historyVars /\ (ReadCount \/ \E of \in Sorts : ReadPage(of))
    BY <1>1, <2>4 DEF historyVars, ReadCount, ReadPage
  <2> QED BY <1>8, <2>1, <2>2, <2>3, <2>4, Zenon DEF Meanwhile
<1>9. CASE UNCHANGED vars
  BY <1>1, <1>9 DEF vars, historyVars
<1>10. CASE \E t \in Task : Start(t)
  BY <1>6, <1>10 DEF Start
<1>11. CASE \E c \in DOMAIN Chains : StartChain(c)
  BY <1>1, <1>11 DEF StartChain, historyVars
<1>12. CASE \E i \in DOMAIN chain : GoOn(i)
  <2>1. PICK i \in DOMAIN chain : Begin(Head(chain[i].todo))
    BY <1>12 DEF GoOn
  <2>2. Head(chain[i].todo) \in Task
    BY <2>1 DEF Begin, Task
  <2> QED BY <1>6, <2>1, <2>2
<1> QED
  BY <1>7, <1>8, <1>9, <1>10, <1>11, <1>12 DEF Next

\* A run whose transaction is committed has ended, and so its rows are of agents it has
\* read and will not read again.
ReadingTyped(q) ==
  /\ {"stage", "wallets", "data"} \subseteq DOMAIN q
  /\ q.wallets \subseteq Creator
  /\ DOMAIN q.data \subseteq Agent /\ \A a \in DOMAIN q.data : q.data[a] \in AgentRow

RowsInv ==
  /\ AgentsTyped
  /\ DOMAIN rebuild = Run /\ \A r \in Run : ReadingTyped(rebuild[r])
  /\ DOMAIN source = DOMAIN board /\ DOMAIN board \subseteq Creator
  /\ \A c \in DOMAIN board : /\ source[c] \in Run /\ rebuild[source[c]].stage = "ended"
                             /\ board[c] = Entry(rebuild[source[c]].data, c)

\* A step of a run that stores no rows, and that has stored none.
LEMMA RowsStay ==
  ASSUME RowsInv, AgentsTyped', NEW r \in Run, NEW q, ReadingTyped(q), rebuild' = [rebuild EXCEPT ![r] = q],
         rebuild[r].stage # "ended", UNCHANGED <<board, source>>
  PROVE  RowsInv'
<1>1. DOMAIN rebuild' = Run /\ \A x \in Run : ReadingTyped(rebuild'[x])
  BY DEF RowsInv
<1>2. \A c \in DOMAIN board : source[c] # r /\ rebuild'[source[c]] = rebuild[source[c]]
  BY DEF RowsInv
<1> QED BY <1>1, <1>2 DEF RowsInv

LEMMA RowsPreserved == RowsInv /\ [Next]_vars => RowsInv'
<1> SUFFICES ASSUME RowsInv, [Next]_vars PROVE RowsInv'
  OBVIOUS
<1>0. AgentsTyped' /\ AgentsTyped
  BY AgentsStayTyped DEF RowsInv
<1>1. CASE UNCHANGED boardVars \/ ReadCount \/ \E of \in Sorts : ReadPage(of)
  <2>1. UNCHANGED <<board, rebuild, source>>
    BY <1>1 DEF boardVars, ReadPage, ReadCount
  <2> QED BY <1>0, <2>1 DEF RowsInv
<1>2. ASSUME NEW r \in Run, FindWallets(r) PROVE RowsInv'
  <2>1. PICK q : q = rebuild[r]
    OBVIOUS
  <2>2. ReadingTyped(q) /\ q.stage = "idle" /\ UNCHANGED <<board, source>>
    BY <1>2, <2>1 DEF FindWallets, RowsInv
  <2>3. Wallets \subseteq Creator
    <3>1. \A a \in Created : a \in DOMAIN CreatorOf
      BY <1>0, AgentTableAssumption DEF AgentsTyped, RowsTyped
    <3> QED BY <3>1 DEF Wallets, Creator, Range
  <2>4. CASE rebuild' = [rebuild EXCEPT ![r] =
               [@ EXCEPT !.wallets = Wallets, !.stage = IF Wallets = {} THEN "ended" ELSE "agents"]]
    <3>1. PICK p : p = [q EXCEPT !.wallets = Wallets, !.stage = IF Wallets = {} THEN "ended" ELSE "agents"]
      OBVIOUS
    <3>2. ReadingTyped(p)
      BY <2>2, <2>3, <3>1 DEF ReadingTyped
    <3>3. rebuild' = [rebuild EXCEPT ![r] = p]
      BY <2>1, <2>4, <3>1
    <3> QED BY <1>0, <2>1, <2>2, <3>2, <3>3, RowsStay
  <2>5. CASE rebuild' = [rebuild EXCEPT ![r].stage = "ended"]
    <3>1. PICK p : p = [q EXCEPT !.stage = "ended"]
      OBVIOUS
    <3>2. ReadingTyped(p)
      BY <2>2, <3>1 DEF ReadingTyped
    <3>3. rebuild' = [rebuild EXCEPT ![r] = p]
      BY <2>1, <2>5, <3>1
    <3> QED BY <1>0, <2>1, <2>2, <3>2, <3>3, RowsStay
  <2> QED BY <1>2, <2>4, <2>5, Zenon DEF FindWallets
<1>3. ASSUME NEW r \in Run, FindAgents(r) PROVE RowsInv'
  <2>1. PICK q : q = rebuild[r]
    OBVIOUS
  <2>2. ReadingTyped(q) /\ q.stage = "agents" /\ UNCHANGED <<board, source>>
    BY <1>3, <2>1 DEF FindAgents, RowsInv
  <2>3. PICK found : found = [a \in {x \in Created : CreatorOf[x] \in rebuild[r].wallets} |-> agents[a]]
    OBVIOUS
  <2>4. DOMAIN found \subseteq Agent /\ \A a \in DOMAIN found : found[a] \in AgentRow
    BY <1>0, <2>3 DEF AgentsTyped, RowsTyped
  <2>5. CASE rebuild' = [rebuild EXCEPT ![r] = [@ EXCEPT !.stage = "store", !.data = found]]
    <3>1. PICK p : p = [q EXCEPT !.stage = "store", !.data = found]
      OBVIOUS
    <3>2. ReadingTyped(p)
      BY <2>2, <2>4, <3>1 DEF ReadingTyped
    <3>3. rebuild' = [rebuild EXCEPT ![r] = p]
      BY <2>1, <2>5, <3>1
    <3> QED BY <1>0, <2>1, <2>2, <3>2, <3>3, RowsStay
  <2>6. CASE rebuild' = [rebuild EXCEPT ![r].stage = "ended"]
    <3>1. PICK p : p = [q EXCEPT !.stage = "ended"]
      OBVIOUS
    <3>2. ReadingTyped(p)
      BY <2>2, <3>1 DEF ReadingTyped
    <3>3. rebuild' = [rebuild EXCEPT ![r] = p]
      BY <2>1, <2>6, <3>1
    <3> QED BY <1>0, <2>1, <2>2, <3>2, <3>3, RowsStay
  <2> QED BY <1>3, <2>3, <2>5, <2>6, Zenon DEF FindAgents
<1>4. ASSUME NEW r \in Run, StoreEntries(r) PROVE RowsInv'
  <2>1. PICK q : q = rebuild[r]
    OBVIOUS
  <2>2. PICK p : p = [q EXCEPT !.stage = "ended"]
    OBVIOUS
  <2>3. ReadingTyped(q) /\ q.stage = "store" /\ rebuild' = [rebuild EXCEPT ![r] = p]
    BY <1>4, <2>1, <2>2 DEF StoreEntries, RowsInv
  <2>4. ReadingTyped(p) /\ p.data = q.data /\ p.stage = "ended"
    BY <2>2, <2>3 DEF ReadingTyped
  <2>5. CASE UNCHANGED <<board, source, commits>>
    BY <1>0, <2>1, <2>3, <2>4, <2>5, RowsStay
  <2>6. CASE /\ board' = Upserted(board, [c \in rebuild[r].wallets |-> Entry(rebuild[r].data, c)])
             /\ source' = Upserted(source, [c \in rebuild[r].wallets |-> r])
    <3>1. rebuild'[r] = p /\ DOMAIN rebuild' = Run /\ \A x \in Run \ {r} : rebuild'[x] = rebuild[x]
      BY <2>3 DEF RowsInv
    <3>2. \A x \in Run : ReadingTyped(rebuild'[x])
      BY <2>4, <3>1 DEF RowsInv
    <3>3. DOMAIN board' = DOMAIN board \cup q.wallets /\ DOMAIN source' = DOMAIN source \cup q.wallets
      BY <2>1, <2>6 DEF Upserted
    <3>4. ASSUME NEW c \in DOMAIN board'
          PROVE  /\ source'[c] \in Run /\ rebuild'[source'[c]].stage = "ended"
                 /\ board'[c] = Entry(rebuild'[source'[c]].data, c)
      <4>1. CASE c \in q.wallets
        <5>1. source'[c] = r /\ board'[c] = Entry(q.data, c)
          BY <2>1, <2>6, <4>1 DEF Upserted
        <5> QED BY <2>4, <3>1, <5>1
      <4>2. CASE c \notin q.wallets
        <5>1. c \in DOMAIN board /\ source[c] \in Run /\ source[c] # r /\ board[c] = Entry(rebuild[source[c]].data, c)
          BY <2>1, <2>3, <3>3, <4>2 DEF RowsInv
        <5>2. source'[c] = source[c] /\ board'[c] = board[c]
          BY <2>1, <2>6, <3>3, <4>2, <5>1 DEF Upserted, RowsInv
        <5>3. rebuild[source[c]].stage = "ended"
          BY <5>1 DEF RowsInv
        <5> QED BY <3>1, <5>1, <5>2, <5>3
      <4> QED BY <4>1, <4>2
    <3>5. DOMAIN source' = DOMAIN board' /\ DOMAIN board' \subseteq Creator
      BY <2>3, <3>3 DEF RowsInv, ReadingTyped
    <3> QED BY <1>0, <3>1, <3>2, <3>4, <3>5 DEF RowsInv
  <2> QED BY <1>4, <2>5, <2>6 DEF StoreEntries
<1> QED
  BY <1>1, <1>2, <1>3, <1>4, StepsApart DEF Apart, BoardStep, RebuildStep

LEMMA RowsAgree == RowsInv => RowsAgreeWithPerformance
<1> SUFFICES ASSUME RowsInv, NEW c \in DOMAIN board, NEW data, data = rebuild[source[c]].data,
                    NEW page, page = getCreatorPerformance(data, c)
             PROVE  /\ board[c].totalAgents = Cardinality(Of(data, c)) /\ board[c].runningAgents = page.running
                    /\ board[c].pnl = page.pnl /\ board[c].day = page.day
                    /\ board[c].best = "none" <=> page.best = "none"
                    /\ board[c].best # "none" => data[board[c].best].pnl = page.top
  BY DEF RowsAgreeWithPerformance
<1>1. board[c] = Entry(data, c)
  BY DEF RowsInv
<1>2. DOMAIN data \subseteq Agent /\ \A a \in DOMAIN data : data[a] \in AgentRow
  BY DEF RowsInv, ReadingTyped
<1>3. PICK S : S = Of(data, c)
  OBVIOUS
<1>4. S \subseteq DOMAIN data /\ S \subseteq Agent
  BY <1>2, <1>3 DEF Of
<1>5. IsFiniteSet(S) /\ "none" \notin S /\ \A a \in S : data[a] \in AgentRow
  BY <1>2, <1>4, FS_Subset, AgentTableAssumption, BoardAssumption
<1>6. /\ page.running = Cardinality({a \in S : data[a].running})
      /\ page.pnl = Total(data, c) /\ page.day = TotalDay(data, c)
      /\ S = {} => page.best = "none"
      /\ S # {} => page.best \in S /\ page.top = data[page.best].pnl /\ \A a \in S : data[a].pnl <= page.top
  <2>1. PerformanceTells(data, c, S, page)
    BY <1>3, <1>5, PerformanceAddsUp
  <2> QED BY <2>1 DEF PerformanceTells
<1>7. /\ board[c].totalAgents = Cardinality(S) /\ board[c].runningAgents = page.running
      /\ board[c].pnl = page.pnl /\ board[c].day = page.day
      /\ board[c].best = IF S = {} THEN "none" ELSE Best(data, c)
  BY <1>1, <1>3, <1>6 DEF Entry
<1>8. CASE S = {}
  BY <1>3, <1>6, <1>7, <1>8
<1>9. CASE S # {}
  <2>1. page.best \in S /\ page.best # "none" /\ page.top = data[page.best].pnl /\ \A a \in S : data[a].pnl <= page.top
    BY <1>5, <1>6, <1>9
  <2>2. \E a \in S : \A b \in S : data[b].pnl <= data[a].pnl
    BY <2>1
  <2>3. Best(data, c) \in S /\ \A b \in S : data[b].pnl <= data[Best(data, c)].pnl
    BY <1>3, <2>2 DEF Best
  <2>4. \A a \in S : data[a].pnl \in Int
    BY <1>5, RowsAreTyped
  <2>5. data[Best(data, c)].pnl = page.top /\ Best(data, c) # "none"
    BY <1>5, <2>1, <2>3, <2>4
  <2> QED BY <1>3, <1>7, <1>9, <2>1, <2>5
<1> QED BY <1>8, <1>9

LEMMA RowsAtFirst == Init => RowsInv
<1> SUFFICES ASSUME Init PROVE RowsInv
  OBVIOUS
<1>1. 0 \in Worth /\ AtFirst \subseteq SUBSET Agent
  BY AgentTableAssumption
<1>2. PICK some \in AtFirst : agents \in [some -> {[running |-> TRUE, pnl |-> 0, day |-> 0]}]
  BY DEF Init, AgentsInit
<1>3. [running |-> TRUE, pnl |-> 0, day |-> 0] \in AgentRow
  BY <1>1 DEF AgentRow
<1>4. RowsTyped
  BY <1>1, <1>2, <1>3 DEF RowsTyped, Created
<1>5. AgentsTyped
  <2>1. <<>> \in Seq(Created)
    OBVIOUS
  <2>2. SnapShape(NoSnap, Created)
    BY <1>1, <2>1 DEF NoSnap, SnapShape
  <2>3. snap = [r \in Run |-> NoSnap]
    BY DEF Init, HistoryInit
  <2> QED BY <1>4, <2>2, <2>3 DEF AgentsTyped
<1> QED BY <1>5 DEF Init, BoardInit, NoRebuild, RowsInv, ReadingTyped

\* What the leaderboard says of a creator is what the page of the creator's performance
\* would have said of the agents as the rebuild read them: the same numbers and sums, and
\* a best agent of the same PnL, in whatever order the rows come.
THEOREM BoardTellsPerformance == Spec => []RowsAgreeWithPerformance
BY RowsAtFirst, RowsPreserved, RowsAgree, PTL DEF Spec
-----------------------------------------------------------------------------
(* Pages. *)

\* The sorts compare numbers, also those of the rows.
LEMMA KeysAreNumbers ==
  ASSUME RowsInv, NEW of \in Sorts
  PROVE  IsFiniteSet(Listed(of)) /\ \A c \in Listed(of) : Key(of, c) \in Int
<1>1. IsFiniteSet(Creator)
  <2> DEFINE f == [a \in Agent |-> CreatorOf[a]]
  <2>0. DOMAIN CreatorOf = Agent
    BY AgentTableAssumption
  <2>1. f \in Surjection(Agent, Creator)
    BY <2>0 DEF Surjection, Creator, Range
  <2> HIDE DEF f
  <2> QED BY <2>1, FS_Surjection, AgentTableAssumption
<1>2. Wallets \subseteq Creator
  <2>1. \A a \in Created : a \in DOMAIN CreatorOf
    BY AgentTableAssumption DEF RowsInv, AgentsTyped, RowsTyped
  <2> QED BY <2>1 DEF Wallets, Creator, Range
<1>3. Listed(of) \subseteq Creator
  BY <1>2 DEF Listed, RowsInv
<1>4. ASSUME NEW c \in Listed(of), of = "creators" PROVE Key(of, c) \in Int
  <2>1. ExistsBijection(1 .. Cardinality(Creator), Creator) /\ Cardinality(Creator) \in Nat
    BY <1>1, FS_CardinalityType
  <2>2. PICK b \in Bijection(1 .. Cardinality(Creator), Creator) : TRUE
    BY <2>1 DEF ExistsBijection
  <2>3. \E rank \in [Creator -> 1 .. Cardinality(Creator)] : \A x, y \in Creator : rank[x] = rank[y] => x = y
    <3> DEFINE g == [x \in Creator |-> CHOOSE i \in 1 .. Cardinality(Creator) : b[i] = x]
    <3>1. \A x \in Creator : \E i \in 1 .. Cardinality(Creator) : b[i] = x
      BY <2>2 DEF Bijection, Surjection
    <3>2. \A x \in Creator : g[x] \in 1 .. Cardinality(Creator) /\ b[g[x]] = x
      BY <3>1
    <3>3. g \in [Creator -> 1 .. Cardinality(Creator)]
      BY <3>2
    <3> HIDE DEF g
    <3>4. \A x, y \in Creator : g[x] = g[y] => x = y
      BY <3>2
    <3> QED BY <3>3, <3>4
  <2>4. Ranked(of) \in [Creator -> 1 .. Cardinality(Creator)]
    BY <2>3 DEF Ranked
  <2>5. Ranked(of)[c] \in Int
    BY <1>3, <2>1, <2>4
  <2> QED BY <1>4, <2>5 DEF Key
<1>5. ASSUME NEW c \in Listed(of), of # "creators" PROVE Key(of, c) \in Int
  <2>1. PICK data : data = rebuild[source[c]].data /\ c \in DOMAIN board
    BY <1>5 DEF Listed
  <2>2. board[c] = Entry(data, c)
    BY <2>1 DEF RowsInv
  <2>3. PICK S : S = Of(data, c)
    OBVIOUS
  <2>4. S \subseteq Agent /\ \A a \in S : data[a] \in AgentRow
    BY <2>1, <2>3 DEF RowsInv, ReadingTyped, Of
  <2>5. IsFiniteSet(S) /\ \A a \in S : data[a].pnl \in Int /\ data[a].day \in Int
    BY <2>4, FS_Subset, AgentTableAssumption, RowsAreTyped
  <2>6. Total(data, c) \in Int
    <3>1. PICK sum : AddsUp(sum, [a \in S |-> data[a].pnl], S) /\ Total(data, c) = sum[S]
      BY <2>3, <2>5, TotalIsSum
    <3> QED BY <3>1 DEF AddsUp
  <2>7. TotalDay(data, c) \in Int
    <3>1. PICK sum : AddsUp(sum, [a \in S |-> data[a].day], S) /\ TotalDay(data, c) = sum[S]
      BY <2>3, <2>5, TotalDayIsSum
    <3> QED BY <3>1 DEF AddsUp
  <2>8. Cardinality({a \in S : data[a].running}) \in Int
    BY <2>5, FS_Subset, FS_CardinalityType
  <2>9. board[c].pnl \in Int /\ board[c].day \in Int /\ board[c].runningAgents \in Int
    BY <2>2, <2>3, <2>6, <2>7, <2>8 DEF Entry
  <2> QED BY <1>5, <2>9 DEF Key, Sorts
<1> QED BY <1>1, <1>3, <1>4, <1>5, FS_Subset

\* The place of a creator in what is sorted, from 1 on.
Place(keys, c) == Cardinality({d \in DOMAIN keys : keys[d] <= keys[c]})
Slice(keys, k) == {c \in DOMAIN keys : (k - 1) * PageSize < Place(keys, c) /\ Place(keys, c) <= k * PageSize}

\* Where no two tie, a list in their order has everyone in its place.
LEMMA SortedByPlace ==
  ASSUME NEW D, IsFiniteSet(D), NEW keys \in [D -> Int], IsInjective(keys),
         NEW s \in Listings(D), \A i, j \in DOMAIN s : i < j => keys[s[i]] <= keys[s[j]]
  PROVE  \A i \in 1 .. Len(s) : Place(keys, s[i]) = i
<1>1. /\ Len(s) = Cardinality(D) /\ Len(s) \in Nat /\ s \in [1 .. Len(s) -> D]
      /\ \A i, j \in 1 .. Len(s) : s[i] = s[j] => i = j
      /\ \A x \in D : \E i \in 1 .. Len(s) : s[i] = x
  BY ListingsExist
<1>2. ASSUME NEW i \in 1 .. Len(s) PROVE Place(keys, s[i]) = i
  <2> DEFINE T == {d \in D : keys[d] <= keys[s[i]]}
             h == [j \in 1 .. i |-> s[j]]
  <2>1. \A j \in 1 .. Len(s) : keys[s[j]] \in Int
    BY <1>1
  <2>2. \A j \in 1 .. Len(s) : keys[s[j]] <= keys[s[i]] <=> j <= i
    <3> SUFFICES ASSUME NEW j \in 1 .. Len(s) PROVE keys[s[j]] <= keys[s[i]] <=> j <= i
      OBVIOUS
    <3>1. j < i => keys[s[j]] <= keys[s[i]]
      BY <1>1
    <3>2. i < j => keys[s[i]] <= keys[s[j]]
      BY <1>1
    <3>3. keys[s[i]] = keys[s[j]] => i = j
      BY <1>1 DEF IsInjective
    <3> QED BY <2>1, <3>1, <3>2, <3>3
  <2>3. h \in Bijection(1 .. i, T)
    <3>1. \A j \in 1 .. i : j \in 1 .. Len(s)
      BY <1>1
    <3>2. h \in [1 .. i -> T]
      BY <1>1, <2>2, <3>1
    <3>3. \A j, k \in 1 .. i : h[j] = h[k] => j = k
      BY <1>1, <3>1
    <3>4. \A d \in T : \E j \in 1 .. i : h[j] = d
      <4> SUFFICES ASSUME NEW d \in T PROVE \E j \in 1 .. i : h[j] = d
        OBVIOUS
      <4>1. PICK j \in 1 .. Len(s) : s[j] = d
        BY <1>1
      <4>2. j <= i
        BY <2>2, <4>1
      <4> QED BY <4>1, <4>2
    <3> QED BY <3>2, <3>3, <3>4 DEF Bijection, Injection, Surjection, IsInjective
  <2>4. Cardinality(T) = i
    BY <1>1, <2>3, FS_CountingElements DEF ExistsBijection
  <2>5. DOMAIN keys = D
    OBVIOUS
  <2> QED BY <2>4, <2>5 DEF Place
<1> QED BY <1>2

LEMMA PageIsSlice ==
  ASSUME NEW D, IsFiniteSet(D), NEW keys \in [D -> Int], IsInjective(keys),
         NEW s \in Listings(D), \A i, j \in DOMAIN s : i < j => keys[s[i]] <= keys[s[j]],
         NEW k \in Nat \ {0}
  PROVE  Range(Page(s, k)) = Slice(keys, k)
<1>1. /\ Len(s) = Cardinality(D) /\ Len(s) \in Nat /\ s \in [1 .. Len(s) -> D]
      /\ \A x \in D : \E i \in 1 .. Len(s) : s[i] = x
  BY ListingsExist
<1>2. \A i \in 1 .. Len(s) : Place(keys, s[i]) = i
  BY SortedByPlace
<1>3. PICK lo \in Nat : lo = (k - 1) * PageSize
  BY BoardAssumption
<1>4. PICK hi \in Nat : hi = k * PageSize
  BY BoardAssumption
<1>5. PICK n : n = Min({hi, Len(s)})
  OBVIOUS
<1>6. n = IF hi <= Len(s) THEN hi ELSE Len(s)
  <2>1. \E x \in {hi, Len(s)} : \A y \in {hi, Len(s)} : x <= y
    BY <1>1
  <2>2. n \in {hi, Len(s)} /\ \A y \in {hi, Len(s)} : n <= y
    BY <1>5, <2>1 DEF Min
  <2> QED BY <1>1, <2>2
<1>7. Page(s, k) = SubSeq(s, lo + 1, n)
  BY <1>3, <1>4, <1>5 DEF Page
<1>8. s \in Seq(D) /\ n \in Nat /\ n <= Len(s)
  BY <1>1, <1>6
<1>9. PICK q : q = SubSeq(s, lo + 1, n)
  OBVIOUS
<1>10. DOMAIN q = 1 .. (n - lo) /\ \A i \in 1 .. (n - lo) : q[i] = s[lo + i]
  BY <1>1, <1>8, <1>9, PartOfList
<1>11. ASSUME NEW c \in D PROVE c \in Range(q) <=> lo < Place(keys, c) /\ Place(keys, c) <= hi
  <2>1. PICK i \in 1 .. Len(s) : s[i] = c
    BY <1>1
  <2>2. Place(keys, c) = i
    BY <1>2, <2>1
  <2>3. ASSUME c \in Range(q) PROVE lo < i /\ i <= hi
    <3>1. PICK j \in 1 .. (n - lo) : q[j] = c
      BY <1>10, <2>3 DEF Range
    <3>2. s[lo + j] = c /\ lo + j \in 1 .. Len(s)
      BY <1>8, <1>10, <3>1
    <3>3. lo + j = i
      BY <1>2, <2>2, <3>2
    <3> QED BY <1>1, <1>6, <3>1, <3>3
  <2>4. ASSUME lo < i, i <= hi PROVE c \in Range(q)
    <3>1. i - lo \in 1 .. (n - lo) /\ lo + (i - lo) = i
      BY <1>1, <1>6, <2>4
    <3>2. q[i - lo] = c /\ i - lo \in DOMAIN q
      BY <1>10, <2>1, <3>1
    <3> QED BY <3>2 DEF Range
  <2> QED BY <2>2, <2>3, <2>4
<1>12. Range(q) \subseteq D
  <2>1. \A i \in 1 .. (n - lo) : lo + i \in 1 .. Len(s)
    BY <1>1, <1>8
  <2>2. \A i \in 1 .. (n - lo) : q[i] \in D
    BY <1>1, <1>10, <2>1
  <2> QED BY <1>10, <2>2 DEF Range
<1>13. DOMAIN keys = D
  OBVIOUS
<1>14. Slice(keys, k) = {c \in D : lo < Place(keys, c) /\ Place(keys, c) <= hi}
  BY <1>3, <1>4, <1>13 DEF Slice
<1> QED BY <1>7, <1>9, <1>11, <1>12, <1>14

\* Everyone is in one page of those there are.
LEMMA OnePageEach ==
  ASSUME NEW n \in Nat, NEW p \in Nat \ {0}, p <= n * PageSize
  PROVE  \E k \in 1 .. n : \A j \in 1 .. n : (j - 1) * PageSize < p /\ p <= j * PageSize <=> j = k
<1> DEFINE P == {m \in Nat : p <= m * PageSize => \E k \in 1 .. m : (k - 1) * PageSize < p /\ p <= k * PageSize}
<1>0. PageSize \in Nat \ {0}
  BY BoardAssumption
<1>1. 0 \in P
  BY <1>0
<1>2. ASSUME NEW m \in Nat, m \in P PROVE m + 1 \in P
  <2>1. PICK lo \in Nat : lo = m * PageSize
    BY <1>0
  <2>2. (m + 1) - 1 = m /\ m + 1 \in 1 .. m + 1 /\ \A k \in 1 .. m : k \in 1 .. m + 1
    OBVIOUS
  <2>3. CASE p <= lo
    BY <1>2, <2>1, <2>2, <2>3
  <2>4. CASE ~(p <= lo)
    <3>1. ((m + 1) - 1) * PageSize < p
      BY <2>1, <2>2, <2>4
    <3> QED BY <2>2, <3>1
  <2> QED BY <2>3, <2>4
<1>3. n \in P
  <2> HIDE DEF P
  <2> QED BY <1>1, <1>2, SetOfNaturals
<1>4. PICK k \in 1 .. n : (k - 1) * PageSize < p /\ p <= k * PageSize
  BY <1>3
<1>5. ASSUME NEW i \in Nat, NEW j \in Nat, i < j PROVE i * PageSize <= (j - 1) * PageSize
  <2>1. PICK m \in Nat : j - 1 = i + m
    BY <1>5
  <2>2. m * PageSize \in Nat /\ i * PageSize \in Nat
    BY <1>0
  <2>3. (j - 1) * PageSize = i * PageSize + m * PageSize
    BY <1>0, <2>1
  <2> QED BY <2>2, <2>3
<1>6. ASSUME NEW j \in 1 .. n, (j - 1) * PageSize < p, p <= j * PageSize PROVE j = k
  <2>1. j * PageSize \in Nat /\ k * PageSize \in Nat /\ (j - 1) * PageSize \in Int /\ (k - 1) * PageSize \in Int
    BY <1>0
  <2>2. ~(j < k)
    <3>1. SUFFICES ASSUME j < k PROVE FALSE
      OBVIOUS
    <3>2. j * PageSize <= (k - 1) * PageSize
      BY <1>5, <3>1
    <3> QED BY <1>4, <1>6, <2>1, <3>2
  <2>3. ~(k < j)
    <3>1. SUFFICES ASSUME k < j PROVE FALSE
      OBVIOUS
    <3>2. k * PageSize <= (j - 1) * PageSize
      BY <1>5, <3>1
    <3> QED BY <1>4, <1>6, <2>1, <3>2
  <2> QED BY <2>2, <2>3
<1> QED BY <1>4, <1>6

\* Until rows move, the pages so far are those of what was sorted at first.
PagesShape(q) ==
  /\ {"of", "shown", "due", "total", "basis", "moved"} \subseteq DOMAIN q
  /\ \E S : q.shown \in Seq(S)
  /\ q.of = "none" => q.shown = <<>> /\ ~q.due
  /\ q.of # "none" =>
       /\ q.of \in Sorts /\ q.shown # <<>> /\ q.moved \in BOOLEAN
       /\ ~q.moved /\ IsInjective(q.basis) =>
            /\ IsFiniteSet(DOMAIN q.basis) /\ \A d \in DOMAIN q.basis : q.basis[d] \in Int
            /\ \A k \in 1 .. Len(q.shown) : Range(q.shown[k]) = Slice(q.basis, k)
            /\ ~q.due => q.total = Cardinality(DOMAIN q.basis)

PagesInv == RowsInv /\ PagesShape(reader)

LEMMA PageRead == ASSUME PagesInv, NEW of \in Sorts, ReadPage(of) PROVE PagesShape(reader')
<1>1. PICK q : q = reader
  OBVIOUS
<1>2. PagesShape(q) /\ RowsInv
  BY <1>1 DEF PagesInv
<1>3. q.of \in {"none", of} /\ ~q.due
  BY <1>1 DEF ReadPage
<1>4. PICK s \in Sorted(of) :
        reader' = [reader EXCEPT !.of = of, !.shown = Append(@, Page(s, Len(reader.shown) + 1)), !.due = TRUE,
                                 !.basis = IF reader.shown = <<>> THEN Keys(of) ELSE @,
                                 !.moved = reader.shown # <<>> /\ (@ \/ reader.basis # Keys(of))]
  BY Zenon DEF ReadPage
<1>5. PICK p : p = reader'
  OBVIOUS
<1>6. /\ DOMAIN p = DOMAIN q /\ p.of = of /\ p.shown = Append(q.shown, Page(s, Len(q.shown) + 1)) /\ p.due = TRUE
      /\ p.basis = IF q.shown = <<>> THEN Keys(of) ELSE q.basis
      /\ p.moved = (q.shown # <<>> /\ (q.moved \/ q.basis # Keys(of)))
  BY <1>1, <1>2, <1>4, <1>5 DEF PagesShape
<1>7. PICK S : q.shown \in Seq(S)
  BY <1>2 DEF PagesShape
<1>8. /\ \E T : p.shown \in Seq(T) /\ p.shown # <<>>
      /\ Len(p.shown) = Len(q.shown) + 1 /\ p.shown[Len(p.shown)] = Page(s, Len(q.shown) + 1)
      /\ \A k \in 1 .. Len(q.shown) : p.shown[k] = q.shown[k]
  <2>1. PICK x : x = Page(s, Len(q.shown) + 1)
    OBVIOUS
  <2>2. PICK T : T = S \cup {x}
    OBVIOUS
  <2>3. q.shown \in Seq(T) /\ x \in T /\ p.shown = Append(q.shown, x)
    BY <1>6, <1>7, <2>1, <2>2
  <2>4. p.shown \in Seq(T) /\ Len(p.shown) = Len(q.shown) + 1
    BY <2>3
  <2>5. p.shown[Len(p.shown)] = x /\ \A k \in 1 .. Len(q.shown) : p.shown[k] = q.shown[k]
    BY <2>3
  <2>6. p.shown # <<>>
    BY <2>3, <2>4
  <2> QED BY <2>1, <2>4, <2>5, <2>6
<1>9. p.moved \in BOOLEAN /\ of # "none"
  BY <1>6 DEF Sorts
<1>10. ASSUME ~p.moved, IsInjective(p.basis)
       PROVE  /\ IsFiniteSet(DOMAIN p.basis) /\ \A d \in DOMAIN p.basis : p.basis[d] \in Int
              /\ \A k \in 1 .. Len(p.shown) : Range(p.shown[k]) = Slice(p.basis, k)
  <2>1. p.basis = Keys(of) /\ (q.shown # <<>> => ~q.moved /\ p.basis = q.basis)
    BY <1>6, <1>10
  <2>2. PICK D : D = Listed(of)
    OBVIOUS
  <2>3. IsFiniteSet(D) /\ \A c \in D : Key(of, c) \in Int
    BY <1>2, <2>2, KeysAreNumbers
  <2>4. PICK keys : keys = Keys(of)
    OBVIOUS
  <2>5. keys \in [D -> Int] /\ \A c \in D : keys[c] = Key(of, c)
    BY <2>2, <2>3, <2>4 DEF Keys
  <2>6. s \in Listings(D) /\ \A i, j \in DOMAIN s : i < j => keys[s[i]] <= keys[s[j]]
    <3>1. s \in Listings(D) /\ \A i, j \in DOMAIN s : i < j => Key(of, s[i]) <= Key(of, s[j])
      BY <2>2 DEF Sorted
    <3>2. \A i \in DOMAIN s : s[i] \in D
      BY <3>1 DEF Listings
    <3> QED BY <2>5, <3>1, <3>2
  <2>7. Range(Page(s, Len(q.shown) + 1)) = Slice(keys, Len(q.shown) + 1)
    <3>1. Len(q.shown) + 1 \in Nat \ {0}
      BY <1>7
    <3>2. IsInjective(keys)
      BY <1>10, <2>1, <2>4
    <3> QED BY <2>3, <2>5, <2>6, <3>1, <3>2, PageIsSlice
  <2>8. ASSUME NEW k \in 1 .. Len(p.shown) PROVE Range(p.shown[k]) = Slice(p.basis, k)
    <3>1. CASE k = Len(q.shown) + 1
      BY <1>8, <2>1, <2>4, <2>7, <3>1
    <3>2. CASE k \in 1 .. Len(q.shown)
      <4>1. q.shown # <<>>
        BY <1>7, <3>2
      <4>2. q.of # "none"
        BY <1>2, <4>1 DEF PagesShape
      <4>3. IsInjective(q.basis) /\ ~q.moved /\ p.basis = q.basis
        BY <1>10, <2>1, <4>1
      <4>4. Range(q.shown[k]) = Slice(q.basis, k)
        BY <1>2, <3>2, <4>2, <4>3 DEF PagesShape
      <4> QED BY <1>8, <3>2, <4>3, <4>4
    <3> QED BY <1>7, <1>8, <3>1, <3>2
  <2> QED BY <2>1, <2>2, <2>3, <2>4, <2>5, <2>8
<1> QED BY <1>2, <1>5, <1>6, <1>8, <1>9, <1>10 DEF PagesShape

LEMMA CountRead == ASSUME PagesInv, ReadCount PROVE PagesShape(reader')
<1>1. PICK q : q = reader
  OBVIOUS
<1>2. PagesShape(q) /\ RowsInv /\ q.due
  BY <1>1 DEF PagesInv, ReadCount
<1>3. PICK p : p = reader'
  OBVIOUS
<1>4. /\ DOMAIN p = DOMAIN q /\ p.of = q.of /\ p.shown = q.shown /\ p.due = FALSE /\ p.basis = q.basis
      /\ p.total = Cardinality(Listed(q.of)) /\ p.moved = (q.moved \/ q.basis # Keys(q.of))
  BY <1>1, <1>2, <1>3 DEF PagesShape, ReadCount
<1>5. q.of # "none" /\ q.of \in Sorts /\ q.shown # <<>> /\ p.moved \in BOOLEAN
  BY <1>2, <1>4 DEF PagesShape
<1>6. ASSUME ~p.moved, IsInjective(p.basis)
      PROVE  /\ IsFiniteSet(DOMAIN p.basis) /\ \A d \in DOMAIN p.basis : p.basis[d] \in Int
             /\ p.total = Cardinality(DOMAIN p.basis)
             /\ \A k \in 1 .. Len(p.shown) : Range(p.shown[k]) = Slice(p.basis, k)
  <2>1. ~q.moved /\ q.basis = Keys(q.of)
    BY <1>4, <1>6
  <2>2. DOMAIN q.basis = Listed(q.of)
    BY <2>1 DEF Keys
  <2> QED BY <1>2, <1>4, <1>5, <1>6, <2>1, <2>2 DEF PagesShape
<1> QED BY <1>2, <1>3, <1>4, <1>5, <1>6 DEF PagesShape

LEMMA PagesPreserved == PagesInv /\ [Next]_vars => PagesInv'
<1> SUFFICES ASSUME PagesInv, [Next]_vars PROVE PagesInv'
  OBVIOUS
<1>1. RowsInv'
  BY RowsPreserved DEF PagesInv
<1>2. CASE UNCHANGED reader
  BY <1>1, <1>2 DEF PagesInv
<1>3. CASE ReadCount
  BY <1>1, <1>3, CountRead DEF PagesInv
<1>4. CASE \E of \in Sorts : ReadPage(of)
  BY <1>1, <1>4, PageRead DEF PagesInv
<1>5. BoardStep \/ UNCHANGED boardVars
  BY StepsApart DEF Apart
<1> QED
  BY <1>2, <1>3, <1>4, <1>5 DEF BoardStep, RebuildStep, FindWallets, FindAgents, StoreEntries, boardVars

LEMMA PagesShow == PagesInv => PagesShowEveryoneOnce
<1> SUFFICES ASSUME PagesInv, reader.of # "none", ~reader.due, Len(reader.shown) * PageSize >= reader.total,
                    ~reader.moved, IsInjective(reader.basis), NEW c \in DOMAIN reader.basis
             PROVE  Cardinality({k \in DOMAIN reader.shown : c \in Range(reader.shown[k])}) = 1
  BY DEF PagesShowEveryoneOnce
<1>1. PICK q : q = reader
  OBVIOUS
<1>2. /\ IsFiniteSet(DOMAIN q.basis) /\ (\A d \in DOMAIN q.basis : q.basis[d] \in Int)
      /\ q.total = Cardinality(DOMAIN q.basis)
      /\ \A k \in 1 .. Len(q.shown) : Range(q.shown[k]) = Slice(q.basis, k)
  BY <1>1 DEF PagesInv, PagesShape
<1>3. PICK n \in Nat : n = Len(q.shown) /\ DOMAIN q.shown = 1 .. n
  <2>1. PICK S : q.shown \in Seq(S)
    BY <1>1 DEF PagesInv, PagesShape
  <2> QED BY <2>1
<1>4. PICK p : p = Place(q.basis, c)
  OBVIOUS
<1>5. p \in Nat \ {0} /\ p <= n * PageSize
  <2> DEFINE T == {d \in DOMAIN q.basis : q.basis[d] <= q.basis[c]}
  <2>1. IsFiniteSet(T) /\ Cardinality(T) <= Cardinality(DOMAIN q.basis)
    BY <1>2, FS_Subset
  <2>2. Cardinality(T) \in Nat /\ Cardinality(DOMAIN q.basis) \in Nat
    BY <1>2, <2>1, FS_CardinalityType
  <2>3. c \in T
    BY <1>1, <1>2
  <2>4. Cardinality(T) # 0
    BY <2>1, <2>3, FS_EmptySet
  <2>5. p = Cardinality(T)
    BY <1>4 DEF Place
  <2>6. Cardinality(DOMAIN q.basis) <= n * PageSize
    BY <1>1, <1>2, <1>3
  <2>7. n * PageSize \in Nat
    BY BoardAssumption
  <2> HIDE DEF T
  <2> QED BY <2>1, <2>2, <2>4, <2>5, <2>6, <2>7
<1>6. PICK k \in 1 .. n : \A j \in 1 .. n : (j - 1) * PageSize < p /\ p <= j * PageSize <=> j = k
  BY <1>5, OnePageEach
<1>7. {j \in DOMAIN q.shown : c \in Range(q.shown[j])} = {k}
  <2>1. \A j \in 1 .. n : c \in Range(q.shown[j]) <=> (j - 1) * PageSize < p /\ p <= j * PageSize
    BY <1>1, <1>2, <1>3, <1>4 DEF Slice
  <2> QED BY <1>3, <1>6, <2>1
<1> QED BY <1>1, <1>7, FS_Singleton

\* A caller who turns all the pages sees everyone once, for any number of creators and any
\* size of the pages, unless rows moved meanwhile or two of them tied.
THEOREM PagesAreComplete == Spec => []PagesShowEveryoneOnce
<1>1. Init => PagesInv
  <2>1. Init => RowsInv
    BY RowsAtFirst
  <2>2. <<>> \in Seq({})
    OBVIOUS
  <2>3. Init => PagesShape(reader)
    BY <2>2 DEF Init, BoardInit, NoReader, PagesShape
  <2> QED BY <2>1, <2>3 DEF PagesInv
<1> QED
  BY <1>1, PagesPreserved, PagesShow, PTL DEF Spec
-----------------------------------------------------------------------------
(* Rounds of messages. *)

\* Rows are inserted for agents there may be, and never deleted.
LEMMA CreatedAreAgents == Created \subseteq Agent /\ [Next]_vars => Created' \subseteq Agent
<1> SUFFICES ASSUME Created \subseteq Agent, [Next]_vars PROVE Created' \subseteq Agent
  OBVIOUS
<1>1. CASE Created' = Created
  BY <1>1
<1>2. ASSUME NEW a \in Agent, CreateAgent(a) PROVE Created' \subseteq Agent
  BY <1>2 DEF CreateAgent, Created
<1>3. ASSUME NEW t \in Task, Begin(t) PROVE Created' = Created
  BY <1>3 DEF Begin, BeginSnapshots, applyDataRetentionPolicy, FindWallets, Created
<1>4. ASSUME NEW r \in Run, StepOf(r) PROVE Created' = Created
  <2>1. CASE UNCHANGED agents
    BY <2>1 DEF Created
  <2>2. CASE SnapshotStep(r)
    BY <2>2 DEF SnapshotStep, ReadAgent, ComputePnL, InsertSnapshot, UpdateRow, Skip, Created
  <2>3. CASE RebuildStep(r)
    BY <2>3 DEF RebuildStep, FindAgents, StoreEntries, Created
  <2>4. CASE Sync(r)
    BY <2>4 DEF Sync, WritePnL, Created
  <2> QED BY <1>4, <2>1, <2>2, <2>3, <2>4 DEF StepOf
<1>5. CASE Meanwhile
  <2>1. CASE \E a \in Agent : SetStatus(a)
    BY <2>1 DEF SetStatus, Created
  <2>2. CASE \E a \in Agent, pnl \in Worth : WritePnL(a, pnl, pnl)
    BY <2>2 DEF WritePnL, Created
  <2>3. CASE Tick \/ UNCHANGED <<agents, messageVars, historyVars, boardVars>>
    BY <2>3 DEF Tick, Created
  <2>4. CASE ReadCount \/ \E of \in Sorts : ReadPage(of)
    BY <2>4 DEF ReadCount, ReadPage, Created
  <2>5. \/ \E a \in Agent : SetStatus(a) \/ CreateAgent(a) \/ \E pnl \in Worth : WritePnL(a, pnl, pnl)
        \/ Tick \/ UNCHANGED <<agents, messageVars, historyVars, boardVars>>
        \/ ReadCount \/ \E of \in Sorts : ReadPage(of)
    BY <1>5, Zenon DEF Meanwhile
  <2> QED BY <1>1, <1>2, <2>1, <2>2, <2>3, <2>4, <2>5
<1> QED
  <2>1. CASE UNCHANGED vars
    BY <2>1 DEF vars, Created
  <2>2. CASE \E t \in Task : Start(t)
    BY <1>3, <2>2 DEF Start
  <2>3. CASE \E c \in DOMAIN Chains : StartChain(c)
    BY <2>3 DEF StartChain, Created
  <2>4. CASE \E i \in DOMAIN chain : GoOn(i)
    <3>1. PICK i \in DOMAIN chain : Begin(Head(chain[i].todo))
      BY <2>4 DEF GoOn
    <3>2. Head(chain[i].todo) \in Task
      BY <3>1 DEF Begin, Task
    <3> QED BY <1>3, <3>1, <3>2
  <2> QED BY <1>4, <1>5, <2>1, <2>2, <2>3, <2>4 DEF Next

\* A round asks nobody twice with the same words.
Distinct(q) ==
  \A i, j \in 1 .. Len(q.list) :
    i # j => q.list[i] # q.list[j] \/ Text(q.kind, i) # Text(q.kind, j)

RoundShape(q) ==
  /\ {"kind", "list", "at", "tries", "stage"} \subseteq DOMAIN q
  /\ q.kind \in {"none", "trade", "portfolio", "pair"}
  /\ q.list \in Seq(Agent) /\ q.at \in 1 .. Len(q.list) + 1
  /\ q.kind = "none" => q.list = <<>>
  /\ q.stage \in {"wait", "post"} => q.at <= Len(q.list)
  /\ Distinct(q)

\* The message m to a is from a round q that is past a, or failed at it.
From(q, m, a) ==
  \E i \in 1 .. Len(q.list) :
    /\ q.list[i] = a /\ m.text = Text(q.kind, i)
    /\ i < q.at \/ (i = q.at /\ q.stage = "failed")

Texts == {"none", "trade", "portfolio", "pair", "decision", "allocation"}
Message == [text : Texts, run : Run]

MessagesTyped ==
  /\ Created \subseteq Agent
  /\ DOMAIN round = Run /\ \A r \in Run : RoundShape(round[r])
  /\ inbox \in [Agent -> Seq(Message)]

MessagesInv ==
  /\ MessagesTyped
  /\ \A a \in Agent : \A k \in 1 .. Len(inbox[a]) : From(round[inbox[a][k].run], inbox[a][k], a)
  /\ \A r \in Run : \A i \in 1 .. Len(round[r].list) : i < round[r].at => Sent(r, i)
  /\ SentAtMostOnce

\* A step that posts nothing, of a round that has not failed.
LEMMA NothingSent ==
  ASSUME MessagesInv, Created' \subseteq Agent, NEW r \in Run, UNCHANGED inbox,
         DOMAIN round' = Run, \A q \in Run \ {r} : round'[q] = round[q], RoundShape(round'[r]),
         \/ /\ round'[r].kind = round[r].kind /\ round'[r].list = round[r].list
            /\ round'[r].at = round[r].at /\ round[r].stage # "failed"
         \/ round[r].kind = "none" /\ round'[r].at = 1
  PROVE  MessagesInv'
<1>0. inbox \in [Agent -> Seq(Message)]
  BY DEF MessagesInv, MessagesTyped
<1>1. MessagesTyped'
  BY DEF MessagesInv, MessagesTyped
<1>2. ASSUME NEW a \in Agent, NEW k \in 1 .. Len(inbox[a])
      PROVE  From(round'[inbox[a][k].run], inbox[a][k], a)
  <2>1. inbox[a][k] \in Message
    BY <1>0
  <2>2. inbox[a][k].run \in Run /\ From(round[inbox[a][k].run], inbox[a][k], a)
    BY <2>1 DEF MessagesInv, Message
  <2>3. CASE inbox[a][k].run # r
    BY <2>2, <2>3
  <2>4. CASE inbox[a][k].run = r
    <3>1. round[r].kind # "none"
      BY <2>2, <2>4 DEF From, MessagesInv, MessagesTyped, RoundShape
    <3> QED BY <2>2, <2>4, <3>1 DEF From
  <2> QED BY <2>3, <2>4
<1>3. ASSUME NEW q \in Run, NEW i \in 1 .. Len(round'[q].list), i < round'[q].at
      PROVE  Sent(q, i)'
  <2>1. CASE q # r
    <3>1. round'[q] = round[q]
      BY <2>1
    <3>2. Sent(q, i)
      BY <1>3, <3>1 DEF MessagesInv
    <3> QED BY <3>1, <3>2 DEF Sent
  <2>2. CASE q = r /\ round[r].kind = "none" /\ round'[r].at = 1
    BY <1>3, <2>2
  <2>3. CASE /\ q = r /\ round'[r].kind = round[r].kind /\ round'[r].list = round[r].list
             /\ round'[r].at = round[r].at
    BY <1>3, <2>3 DEF Sent, MessagesInv
  <2> QED BY <2>1, <2>2, <2>3
<1>4. SentAtMostOnce'
  BY DEF MessagesInv, SentAtMostOnce
<1>5. \A a \in Agent : \A k \in 1 .. Len(inbox'[a]) : From(round'[inbox'[a][k].run], inbox'[a][k], a)
  BY <1>2
<1> QED
  BY <1>1, <1>3, <1>4, <1>5 DEF MessagesInv

\* The round r delivers a message to the agent it is at, and passes on or fails.
LEMMA OneSent ==
  ASSUME MessagesInv, Created' \subseteq Agent, NEW r \in Run,
         round[r].stage = "post", Deliver(r, Asked(r), "answered"),
         DOMAIN round' = Run, \A q \in Run \ {r} : round'[q] = round[q], RoundShape(round'[r]),
         round'[r].kind = round[r].kind, round'[r].list = round[r].list,
         \/ round'[r].at = round[r].at + 1
         \/ round'[r].at = round[r].at /\ round'[r].stage = "failed"
  PROVE  MessagesInv'
<1> DEFINE b == Asked(r)
           n == round[r].at
           m == [text |-> Text(round[r].kind, n), run |-> r]
<1>0. /\ inbox \in [Agent -> Seq(Message)] /\ RoundShape(round[r])
      /\ n \in 1 .. Len(round[r].list)
  BY DEF MessagesInv, MessagesTyped, RoundShape
<1>1. b \in Agent /\ b = round[r].list[n]
  BY <1>0 DEF Asked, RoundShape
<1>2. m \in Message /\ m.run = r /\ m.text = Text(round[r].kind, n)
  <2>1. Text(round[r].kind, n) \in Texts
    BY <1>0 DEF Text, RoundShape, Texts
  <2> QED BY <2>1 DEF Message
<1>3. inbox' = [inbox EXCEPT ![b] = Append(@, m)]
  BY DEF Deliver
<1> HIDE DEF b, n, m
<1>4. /\ inbox' \in [Agent -> Seq(Message)]
      /\ \A a \in Agent \ {b} : inbox'[a] = inbox[a]
      /\ Len(inbox'[b]) = Len(inbox[b]) + 1 /\ inbox'[b][Len(inbox[b]) + 1] = m
      /\ \A k \in 1 .. Len(inbox[b]) : inbox'[b][k] = inbox[b][k]
      /\ \A a \in Agent : Len(inbox[a]) \in Nat
  BY <1>0, <1>1, <1>2, <1>3
<1>5. MessagesTyped'
  BY <1>4 DEF MessagesInv, MessagesTyped
<1>6. ASSUME NEW a \in Agent, NEW k \in 1 .. Len(inbox'[a])
      PROVE  From(round'[inbox'[a][k].run], inbox'[a][k], a)
  <2>1. CASE a = b /\ k = Len(inbox[b]) + 1
    <3>1. inbox'[a][k] = m
      BY <1>4, <2>1
    <3>2. From(round'[r], m, b)
      <4>1. /\ n \in 1 .. Len(round'[r].list) /\ round'[r].list[n] = b
            /\ m.text = Text(round'[r].kind, n)
        BY <1>0, <1>1, <1>2
      <4>2. n < round'[r].at \/ (n = round'[r].at /\ round'[r].stage = "failed")
        BY <1>0 DEF n
      <4> QED BY <4>1, <4>2 DEF From
    <3> QED BY <1>2, <2>1, <3>1, <3>2
  <2>2. CASE ~(a = b /\ k = Len(inbox[b]) + 1)
    <3>1. k \in 1 .. Len(inbox[a]) /\ inbox'[a][k] = inbox[a][k]
      BY <1>4, <2>2
    <3> DEFINE old == inbox[a][k]
    <3>2. old \in Message
      BY <1>0, <3>1
    <3>3. From(round[old.run], old, a)
      BY <3>1 DEF MessagesInv
    <3> HIDE DEF old
    <3>4. From(round'[old.run], old, a)
      <4>1. CASE old.run = r
        BY <1>0, <3>3, <4>1 DEF From, n
      <4>2. CASE old.run # r
        BY <3>2, <3>3, <4>2 DEF Message
      <4> QED BY <4>1, <4>2
    <3> QED BY <3>1, <3>4 DEF old
  <2> QED BY <2>1, <2>2
<1>7. ASSUME NEW q \in Run, NEW i \in 1 .. Len(round'[q].list), i < round'[q].at
      PROVE  Sent(q, i)'
  <2>1. round'[q].list = round[q].list /\ round'[q].kind = round[q].kind
    BY <1>7
  <2> DEFINE a == round[q].list[i]
             t == [text |-> Text(round[q].kind, i), run |-> q]
  <2>2. a \in Agent
    BY <2>1 DEF MessagesInv, MessagesTyped, RoundShape
  <2>3. Sent(q, i)' <=> \E k \in DOMAIN inbox'[a] : inbox'[a][k] = t
    BY <2>1 DEF Sent
  <2>4. CASE q = r /\ i = n
    BY <1>1, <1>4, <2>3, <2>4 DEF m
  <2>5. CASE ~(q = r /\ i = n)
    <3>1. i < round[q].at
      BY <1>0, <1>7, <2>5 DEF n
    <3>2. Sent(q, i)
      BY <2>1, <3>1 DEF MessagesInv
    <3>3. PICK k \in 1 .. Len(inbox[a]) : inbox[a][k] = t
      BY <1>0, <2>2, <3>2 DEF Sent
    <3>4. inbox[a] \in Seq(Message) /\ inbox'[a] \in Seq(Message)
      BY <1>0, <1>4, <2>2
    <3>5. k \in 1 .. Len(inbox'[a]) /\ inbox'[a][k] = t
      <4>1. CASE a = b
        BY <1>4, <3>3, <3>4, <4>1
      <4>2. CASE a # b
        <5>1. inbox'[a] = inbox[a]
          BY <1>4, <2>2, <4>2
        <5> QED BY <3>3, <5>1
      <4> QED BY <4>1, <4>2
    <3>6. k \in DOMAIN inbox'[a]
      BY <3>4, <3>5
    <3> HIDE DEF a, t
    <3> QED BY <2>3, <3>5, <3>6
  <2> QED BY <2>4, <2>5
<1>8. ASSUME NEW k \in 1 .. Len(inbox[b]), inbox[b][k] = m PROVE FALSE
  <2>1. From(round[r], m, b)
    BY <1>1, <1>2, <1>8 DEF MessagesInv
  <2>2. PICK i \in 1 .. Len(round[r].list) :
          round[r].list[i] = b /\ m.text = Text(round[r].kind, i) /\ i < n
    BY <2>1 DEF From, n
  <2>3. Distinct(round[r]) /\ i # n /\ i \in Int
    BY <1>0, <2>2 DEF RoundShape
  <2>4. round[r].list[i] # round[r].list[n] \/ Text(round[r].kind, i) # Text(round[r].kind, n)
    BY <1>0, <2>3 DEF Distinct
  <2> QED BY <1>1, <1>2, <2>2, <2>4
<1>9. SentAtMostOnce'
  <2> SUFFICES ASSUME NEW a \in Agent, NEW j \in 1 .. Len(inbox'[a]), NEW k \in 1 .. Len(inbox'[a]),
                      inbox'[a][j] = inbox'[a][k]
               PROVE  j = k
    BY <1>4 DEF SentAtMostOnce
  <2>1. \A x, y \in 1 .. Len(inbox[a]) : inbox[a][x] = inbox[a][y] => x = y
    BY <1>0 DEF MessagesInv, SentAtMostOnce
  <2>2. CASE a # b
    BY <1>4, <2>1, <2>2
  <2>3. CASE a = b
    <3>1. \A x \in 1 .. Len(inbox'[b]) : x = Len(inbox[b]) + 1 \/ x \in 1 .. Len(inbox[b])
      BY <1>1, <1>4
    <3>2. \A x \in 1 .. Len(inbox[b]) : inbox'[b][x] = inbox[b][x] /\ inbox[b][x] # m
      BY <1>4, <1>8
    <3> QED BY <1>4, <2>1, <2>3, <3>1, <3>2
  <2> QED BY <2>2, <2>3
<1> QED
  BY <1>5, <1>6, <1>7, <1>9 DEF MessagesInv

\* The rows of a set of agents, each once.
LEMMA ListingsList ==
  ASSUME NEW S, S \subseteq Agent, NEW list \in Listings(S)
  PROVE  /\ list \in Seq(Agent)
         /\ \A i, j \in 1 .. Len(list) : i # j => list[i] # list[j]
<1>1. Cardinality(S) \in Nat
  BY FS_Subset, FS_CardinalityType DEF AgentTableAssumption
<1>2. list \in [1 .. Cardinality(S) -> S] /\ \A i, j \in DOMAIN list : list[i] = list[j] => i = j
  BY DEF Listings
<1>3. list \in Seq(S) /\ Len(list) = Cardinality(S)
  BY <1>1, <1>2
<1>4. list \in Seq(Agent)
  BY <1>3
<1> QED BY <1>2, <1>3, <1>4

LEMMA MessagesPreserved ==
  ASSUME MessagesInv, Created' \subseteq Agent, MessagesStep \/ UNCHANGED messageVars
  PROVE  MessagesInv'
<1>0. DOMAIN round = Run /\ Created \subseteq Agent /\ \A r \in Run : RoundShape(round[r])
  BY DEF MessagesInv, MessagesTyped
<1>1. CASE UNCHANGED messageVars
  <2>1. round' = round /\ inbox' = inbox
    BY <1>1 DEF messageVars
  <2>2. MessagesTyped' /\ SentAtMostOnce'
    BY <2>1 DEF MessagesInv, MessagesTyped, SentAtMostOnce
  <2>3. \A r, i : Sent(r, i)' = Sent(r, i)
    BY <2>1 DEF Sent
  <2> QED BY <2>1, <2>2, <2>3 DEF MessagesInv
<1>2. ASSUME NEW r \in Run, NEW kind \in {"trade", "portfolio"}, BeginRound(r, kind) PROVE MessagesInv'
  <2>1. ASSUME NEW q, {"kind", "list", "at", "tries", "stage"} \subseteq DOMAIN q,
               q.kind = kind, q.list \in Seq(Agent), q.at = 1,
               q.stage \in {"wait", "post"} => q.list # <<>>,
               \A i, j \in 1 .. Len(q.list) : i # j => q.list[i] # q.list[j],
               round' = [round EXCEPT ![r] = q]
        PROVE  MessagesInv'
    <3>1. RoundShape(q)
      BY <2>1 DEF RoundShape, Distinct
    <3>2. /\ DOMAIN round' = Run /\ \A x \in Run \ {r} : round'[x] = round[x]
          /\ round'[r] = q
      BY <1>0, <2>1
    <3>3. round[r].kind = "none" /\ UNCHANGED inbox
      BY <1>2 DEF BeginRound
    <3> QED BY <2>1, <3>1, <3>2, <3>3, NothingSent
  <2>2. ASSUME NEW list \in Listings(Running),
               round' = [round EXCEPT ![r] =
                 [NoRound EXCEPT !.kind = kind, !.list = list, !.stage = IF list = <<>> THEN "done" ELSE "wait"]]
        PROVE  MessagesInv'
    <3> DEFINE q == [NoRound EXCEPT !.kind = kind, !.list = list, !.stage = IF list = <<>> THEN "done" ELSE "wait"]
    <3>1. /\ {"kind", "list", "at", "tries", "stage"} \subseteq DOMAIN q
          /\ q.kind = kind /\ q.list = list /\ q.at = 1 /\ q.stage = IF list = <<>> THEN "done" ELSE "wait"
      BY DEF NoRound
    <3>2. Running \subseteq Agent
      BY <1>0 DEF Running
    <3>3. list \in Seq(Agent) /\ \A i, j \in 1 .. Len(list) : i # j => list[i] # list[j]
      BY <3>2, ListingsList
    <3>4. round' = [round EXCEPT ![r] = q]
      BY <2>2
    <3> HIDE DEF q
    <3> QED BY <2>1, <3>1, <3>3, <3>4
  <2>3. CASE round' = [round EXCEPT ![r] = [NoRound EXCEPT !.kind = kind, !.stage = "failed"]]
    <3> DEFINE q == [NoRound EXCEPT !.kind = kind, !.stage = "failed"]
    <3>1. /\ {"kind", "list", "at", "tries", "stage"} \subseteq DOMAIN q
          /\ q.kind = kind /\ q.list = <<>> /\ q.at = 1 /\ q.stage = "failed"
      BY DEF NoRound
    <3>2. round' = [round EXCEPT ![r] = q]
      BY <2>3
    <3> HIDE DEF q
    <3>3. q.list \in Seq(Agent) /\ \A i, j \in 1 .. Len(q.list) : i # j => q.list[i] # q.list[j]
      BY <3>1
    <3>4. q.stage \in {"wait", "post"} => q.list # <<>>
      BY <3>1
    <3> QED BY <2>1, <3>1, <3>2, <3>3, <3>4
  <2> QED BY <1>2, <2>2, <2>3 DEF BeginRound
<1>3. ASSUME NEW r \in Run, NEW a \in Created, BeginPair(r, a) PROVE MessagesInv'
  <2> DEFINE q == [NoRound EXCEPT !.kind = "pair", !.list = <<a, a>>, !.stage = "wait"]
  <2>1. /\ {"kind", "list", "at", "tries", "stage"} \subseteq DOMAIN q
        /\ q.kind = "pair" /\ q.list = <<a, a>> /\ q.stage = "wait" /\ q.at = 1
    BY DEF NoRound
  <2> HIDE DEF q
  <2>2. RoundShape(q)
    <3>1. <<a, a>> \in Seq(Agent) /\ Len(<<a, a>>) = 2
      BY <1>0
    <3>2. Distinct(q)
      BY <2>1, <3>1 DEF Distinct, Text
    <3> QED BY <2>1, <3>1, <3>2 DEF RoundShape
  <2>3. /\ DOMAIN round' = Run /\ \A x \in Run \ {r} : round'[x] = round[x]
        /\ round'[r] = q /\ round[r].kind = "none" /\ UNCHANGED inbox
    BY <1>0, <1>3 DEF BeginPair, q
  <2> QED BY <2>1, <2>2, <2>3, NothingSent
<1>4. ASSUME NEW r \in Run, NEW q, round' = [round EXCEPT ![r] = q],
             {"kind", "list", "at", "tries", "stage"} \subseteq DOMAIN q,
             q.kind = round[r].kind, q.list = round[r].list,
             q.at \in 1 .. Len(q.list) + 1, q.stage \in {"wait", "post"} => q.at <= Len(q.list)
      PROVE  /\ DOMAIN round' = Run /\ \A x \in Run \ {r} : round'[x] = round[x]
             /\ round'[r] = q /\ RoundShape(q)
  BY <1>0, <1>4 DEF RoundShape, Distinct
<1>5. ASSUME NEW r \in Run, LookUp(r) PROVE MessagesInv'
  <2>1. /\ round[r].stage = "wait" /\ UNCHANGED inbox
        /\ \/ round' = [round EXCEPT ![r].stage = "post"]
           \/ round' = [round EXCEPT ![r].tries = @ + 1]
           \/ round' = [round EXCEPT ![r].stage = "failed"]
    BY <1>5 DEF LookUp, GiveUp
  <2>2. PICK q : /\ round' = [round EXCEPT ![r] = q] /\ DOMAIN q = DOMAIN round[r]
                 /\ q.kind = round[r].kind /\ q.list = round[r].list /\ q.at = round[r].at
    BY <1>0, <2>1 DEF RoundShape
  <2>3. q.at <= Len(q.list)
    BY <1>0, <2>1, <2>2 DEF RoundShape
  <2>4. q.at \in 1 .. Len(q.list) + 1 /\ {"kind", "list", "at", "tries", "stage"} \subseteq DOMAIN q
    BY <1>0, <2>2 DEF RoundShape
  <2>5. /\ DOMAIN round' = Run /\ \A x \in Run \ {r} : round'[x] = round[x]
        /\ round'[r] = q /\ RoundShape(q)
    BY <1>4, <2>2, <2>3, <2>4
  <2> QED BY <2>1, <2>2, <2>5, NothingSent
<1>6. ASSUME NEW r \in Run, Post(r) PROVE MessagesInv'
  <2>1. round[r].stage = "post" /\ round[r].at <= Len(round[r].list)
    BY <1>0, <1>6 DEF Post, RoundShape
  <2>2. CASE round' = [round EXCEPT ![r] = NextAgent(r)] /\ Deliver(r, Asked(r), "answered")
    <3> DEFINE q == NextAgent(r)
    <3>1. /\ DOMAIN q = DOMAIN round[r] /\ q.kind = round[r].kind /\ q.list = round[r].list
          /\ q.at = round[r].at + 1
          /\ q.stage = IF round[r].at = Len(round[r].list) THEN "done" ELSE "wait"
      BY <1>0 DEF NextAgent, RoundShape
    <3> HIDE DEF q
    <3>2. /\ q.at \in 1 .. Len(q.list) + 1 /\ {"kind", "list", "at", "tries", "stage"} \subseteq DOMAIN q
          /\ q.stage \in {"wait", "post"} => q.at <= Len(q.list)
      BY <1>0, <2>1, <3>1 DEF RoundShape
    <3>3. round' = [round EXCEPT ![r] = q]
      BY <2>2 DEF q
    <3>4. /\ DOMAIN round' = Run /\ \A x \in Run \ {r} : round'[x] = round[x]
          /\ round'[r] = q /\ RoundShape(q)
      BY <1>4, <3>1, <3>2, <3>3
    <3> QED BY <2>1, <2>2, <3>1, <3>4, OneSent
  <2>3. CASE round' = [round EXCEPT ![r] = GiveUp(r)]
    <3> DEFINE q == GiveUp(r)
    <3>1. /\ DOMAIN q = DOMAIN round[r] /\ q.kind = round[r].kind /\ q.list = round[r].list
          /\ q.at = round[r].at /\ q.stage = "failed"
      BY <1>0 DEF GiveUp, RoundShape
    <3> HIDE DEF q
    <3>2. round' = [round EXCEPT ![r] = q]
      BY <2>3 DEF q
    <3>3. /\ DOMAIN round' = Run /\ \A x \in Run \ {r} : round'[x] = round[x]
          /\ round'[r] = q /\ RoundShape(q)
      <4>1. /\ q.at \in 1 .. Len(q.list) + 1 /\ {"kind", "list", "at", "tries", "stage"} \subseteq DOMAIN q
            /\ q.stage \in {"wait", "post"} => q.at <= Len(q.list)
        BY <1>0, <3>1 DEF RoundShape
      <4> QED BY <1>4, <3>1, <3>2, <4>1
    <3>4. CASE Deliver(r, Asked(r), "refused")
      <4>1. UNCHANGED inbox
        BY <3>4 DEF Deliver
      <4> QED BY <2>1, <3>1, <3>3, <4>1, NothingSent
    <3>5. CASE Deliver(r, Asked(r), "unheard")
      <4>1. Deliver(r, Asked(r), "answered")
        BY <3>5 DEF Deliver
      <4> QED BY <2>1, <3>1, <3>3, <4>1, OneSent
    <3>6. CASE Deliver(r, Asked(r), "answered")
      BY <2>1, <3>1, <3>3, <3>6, OneSent
    <3>7. \E outcome \in Outcomes : Deliver(r, Asked(r), outcome)
      BY <1>6 DEF Post
    <3> QED BY <3>4, <3>5, <3>6, <3>7 DEF Outcomes
  <2>4. PICK outcome \in Outcomes :
          /\ Deliver(r, Asked(r), outcome)
          /\ round' = [round EXCEPT ![r] = IF outcome = "answered" THEN NextAgent(r) ELSE GiveUp(r)]
    BY <1>6 DEF Post
  <2> QED BY <2>2, <2>3, <2>4
<1> QED
  BY <1>1, <1>2, <1>3, <1>5, <1>6 DEF MessagesStep, MessageStep

\* For any number of agents: a round has told those before the one it is at, and
\* nobody after it, each of them once, through failures and overlapping rounds.
THEOREM RoundsPassNobodyOver == Spec => []RoundsStopAtFailure
<1>1. Init => MessagesInv
  <2> SUFFICES ASSUME Init PROVE MessagesInv
    OBVIOUS
  <2>1. Created \subseteq Agent
    BY DEF Init, AgentsInit, Created, AgentTableAssumption
  <2>2. /\ DOMAIN round = Run /\ \A r \in Run : round[r] = NoRound
        /\ DOMAIN inbox = Agent /\ \A a \in Agent : inbox[a] = <<>>
        /\ inbox \in [Agent -> Seq(Message)]
    BY DEF Init, MessagesInit
  <2>3. RoundShape(NoRound) /\ NoRound.list = <<>>
    BY DEF NoRound, RoundShape, Distinct
  <2> QED BY <2>1, <2>2, <2>3 DEF MessagesInv, MessagesTyped, SentAtMostOnce
<1>2. MessagesInv /\ [Next]_vars => MessagesInv'
  BY MessagesPreserved, CreatedAreAgents, StepsApart DEF Apart, MessagesInv, MessagesTyped
<1>3. MessagesInv => RoundsStopAtFailure
  <2> SUFFICES ASSUME MessagesInv PROVE RoundsStopAtFailure
    OBVIOUS
  <2>1. SentAtMostOnce
    BY DEF MessagesInv
  <2>2. ASSUME NEW r \in Run, NEW i \in DOMAIN round[r].list
        PROVE  (i < round[r].at => Sent(r, i)) /\ (i > round[r].at => ~Sent(r, i))
    <3>1. i \in 1 .. Len(round[r].list) /\ RoundShape(round[r]) /\ round[r].list[i] \in Agent
      BY DEF MessagesInv, MessagesTyped, RoundShape
    <3>2. ASSUME i > round[r].at, Sent(r, i) PROVE FALSE
      <4> DEFINE a == round[r].list[i]
      <4>1. PICK k \in 1 .. Len(inbox[a]) : inbox[a][k] = [text |-> Text(round[r].kind, i), run |-> r]
        BY <3>1, <3>2 DEF Sent, MessagesInv, MessagesTyped
      <4>2. From(round[r], inbox[a][k], a) /\ inbox[a][k].text = Text(round[r].kind, i)
        BY <3>1, <4>1 DEF MessagesInv
      <4>3. PICK j \in 1 .. Len(round[r].list) :
              /\ round[r].list[j] = a /\ inbox[a][k].text = Text(round[r].kind, j)
              /\ j < round[r].at \/ j = round[r].at
        BY <4>2 DEF From
      <4>4. Distinct(round[r]) /\ j # i
        BY <3>1, <3>2, <4>3 DEF RoundShape
      <4> QED BY <3>1, <4>2, <4>3, <4>4 DEF Distinct
    <3> QED BY <3>1, <3>2 DEF MessagesInv
  <2> QED BY <2>1, <2>2 DEF RoundsStopAtFailure, SentInOrder
<1> QED
  BY <1>1, <1>2, <1>3, PTL DEF Spec
-----------------------------------------------------------------------------
(* Analyses. *)

Terminal == {"stored", "failed", "refused"}
IsSequence(s) == \E S : s \in Seq(S)

\* The prices of an asset were asked for after its run began, and its row was
\* given a time after that.
ItemShape(g, item, t) ==
  /\ {"id", "stage", "data", "time"} \subseteq DOMAIN item
  /\ item.stage \in {"priced", "stamped"} => item.data \in (g.began + 1) .. t
  /\ item.stage = "stamped" => item.time \in (item.data + 1) .. t

AllAnswered(batch) == \A i \in DOMAIN batch : batch[i].stage \in Terminal

\* A request that has not been given up is at its last batch, or at none.
GenShape(g, t) ==
  /\ {"kind", "platform", "list", "asked", "ended", "began", "over", "gaveUp"} \subseteq DOMAIN g
  /\ g.ended \in BOOLEAN /\ g.gaveUp \in BOOLEAN /\ g.began \in 0 .. t /\ g.over \in 0 .. t
  /\ IsSequence(g.asked) /\ (g.kind = "none" => g.asked = <<>>)
  /\ \A k \in 1 .. Len(g.asked) : \A i \in DOMAIN g.asked[k] : ItemShape(g, g.asked[k][i], t)
  /\ ~g.gaveUp => \A k \in 1 .. Len(g.asked) : g.ended \/ k < Len(g.asked) => AllAnswered(g.asked[k])

\* A row is older than the end of its run, unless that was given up.
RowShape(x, t) ==
  /\ x.run \in Run /\ gen[x.run].kind # "none"
  /\ x.data \in (gen[x.run].began + 1) .. t /\ x.time \in (x.data + 1) .. t
  /\ gen[x.run].ended /\ ~gen[x.run].gaveUp => x.time <= gen[x.run].over

PipelineInv ==
  /\ now \in Nat
  /\ DOMAIN gen = Run /\ \A r \in Run : GenShape(gen[r], now)
  /\ \A x \in analyses : RowShape(x, now)

\* What has come to be stays so while the clock goes on.
LEMMA ShapesLast ==
  ASSUME NEW t \in Nat, NEW u \in Nat, t <= u, NEW g, GenShape(g, t)
  PROVE  GenShape(g, u)
<1>1. g.began \in 0 .. u /\ g.over \in 0 .. u
  BY DEF GenShape
<1>2. ASSUME NEW k \in 1 .. Len(g.asked), NEW i \in DOMAIN g.asked[k]
      PROVE  ItemShape(g, g.asked[k][i], u)
  <2>1. ItemShape(g, g.asked[k][i], t) /\ g.began \in Nat
    BY DEF GenShape
  <2> QED BY <2>1 DEF ItemShape
<1> QED BY <1>1, <1>2 DEF GenShape

\* A step of one asset of a batch, which may insert a row.
LEMMA AssetStep ==
  ASSUME PipelineInv, NEW r \in Run, NEW k \in 1 .. Len(gen[r].asked), NEW i \in DOMAIN gen[r].asked[k],
         NEW y, Put(r, k, i, y), now' \in Nat, now <= now', ItemShape(gen[r], y, now'),
         gen[r].asked[k][i].stage \notin Terminal,
         \A x \in analyses' : \/ x \in analyses
                              \/ /\ x.run = r /\ x.data \in (gen[r].began + 1) .. now'
                                 /\ x.time \in (x.data + 1) .. now'
  PROVE  PipelineInv'
<1> DEFINE g == gen[r]
           h == gen'[r]
<1>0. GenShape(g, now) /\ GenShape(g, now') /\ DOMAIN gen = Run /\ now \in Nat
  BY ShapesLast DEF PipelineInv
<1>1. DOMAIN gen' = Run /\ \A q \in Run \ {r} : gen'[q] = gen[q]
  BY <1>0 DEF Put
<1>2. h = [g EXCEPT !.asked = [g.asked EXCEPT ![k] = [g.asked[k] EXCEPT ![i] = y]]]
  BY <1>0 DEF Put
<1>12. g.kind # "none"
  BY <1>0 DEF GenShape
<1> HIDE DEF g, h
<1>3. /\ DOMAIN h = DOMAIN g /\ h.kind = g.kind /\ h.ended = g.ended /\ h.gaveUp = g.gaveUp
      /\ h.began = g.began /\ h.over = g.over
      /\ h.asked = [g.asked EXCEPT ![k] = [g.asked[k] EXCEPT ![i] = y]]
  BY <1>0, <1>2 DEF GenShape
<1>4. PICK S : g.asked \in Seq(S)
  BY <1>0 DEF GenShape, IsSequence
<1>5. /\ IsSequence(h.asked) /\ Len(h.asked) = Len(g.asked)
      /\ \A j \in 1 .. Len(g.asked) : j # k => h.asked[j] = g.asked[j]
      /\ h.asked[k] = [g.asked[k] EXCEPT ![i] = y]
  <2> DEFINE b == [g.asked[k] EXCEPT ![i] = y]
  <2> HIDE DEF b
  <2>1. h.asked = [g.asked EXCEPT ![k] = b]
    BY <1>3 DEF b
  <2>2. h.asked \in Seq(S \cup {b})
    BY <1>4, <2>1 DEF g
  <2> QED BY <1>4, <2>1, <2>2 DEF IsSequence, b, g
<1>6. g.ended => g.gaveUp
  BY <1>0 DEF GenShape, AllAnswered, g
<1>7. k = Len(g.asked) \/ g.gaveUp
  BY <1>0 DEF GenShape, AllAnswered, g
<1>8. ASSUME NEW j \in 1 .. Len(h.asked), NEW m \in DOMAIN h.asked[j]
      PROVE  ItemShape(h, h.asked[j][m], now')
  <2>1. \A z : ItemShape(g, z, now') => ItemShape(h, z, now')
    BY <1>3 DEF ItemShape
  <2>2. h.asked[j][m] = y \/ (m \in DOMAIN g.asked[j] /\ h.asked[j][m] = g.asked[j][m])
    BY <1>5
  <2> QED BY <1>0, <1>5, <2>1, <2>2 DEF GenShape, g
<1>9. GenShape(h, now')
  BY <1>0, <1>3, <1>5, <1>6, <1>7, <1>8, <1>12 DEF GenShape
<1>10. \A q \in Run : GenShape(gen'[q], now')
  BY <1>0, <1>1, <1>9, ShapesLast DEF PipelineInv, h
<1>11. ASSUME NEW x \in analyses' PROVE RowShape(x, now)'
  <2>1. /\ \A q \in Run : /\ gen'[q].kind = gen[q].kind /\ gen'[q].began = gen[q].began
                         /\ gen'[q].ended = gen[q].ended /\ gen'[q].gaveUp = gen[q].gaveUp
                         /\ gen'[q].over = gen[q].over
    BY <1>1, <1>3 DEF g, h
  <2>2. CASE x \in analyses
    <3>1. RowShape(x, now) /\ gen[x.run].began \in Nat
      BY <2>2 DEF PipelineInv, RowShape, GenShape
    <3> QED BY <1>0, <2>1, <3>1 DEF RowShape
  <2>3. CASE x \notin analyses
    BY <1>6, <1>12, <2>1, <2>3 DEF RowShape, g
  <2> QED BY <2>2, <2>3
<1> QED
  BY <1>1, <1>10, <1>11 DEF PipelineInv

\* A step of a whole request, which inserts no row.
LEMMA RequestStep ==
  ASSUME PipelineInv, NEW r \in Run, UNCHANGED <<analyses, now>>,
         DOMAIN gen' = Run, \A q \in Run \ {r} : gen'[q] = gen[q], GenShape(gen'[r], now),
         \/ gen[r].kind = "none"
         \/ /\ gen'[r].kind = gen[r].kind /\ gen'[r].began = gen[r].began /\ ~gen[r].ended
            /\ gen'[r].ended => gen'[r].over = now
  PROVE  PipelineInv'
<1>1. \A q \in Run : GenShape(gen'[q], now')
  BY DEF PipelineInv
<1>2. ASSUME NEW x \in analyses PROVE RowShape(x, now)'
  <2>1. RowShape(x, now) /\ gen[x.run].began \in Nat /\ now \in Nat
    BY <1>2 DEF PipelineInv, RowShape, GenShape
  <2>2. CASE x.run # r
    BY <2>1, <2>2 DEF RowShape
  <2>3. CASE x.run = r
    BY <2>1, <2>3 DEF RowShape
  <2> QED BY <2>2, <2>3
<1> QED BY <1>1, <1>2 DEF PipelineInv

LEMMA BatchAsked == ASSUME PipelineInv, NEW r \in Run, NextBatch(r) PROVE PipelineInv'
<1> DEFINE g == gen[r]
           h == gen'[r]
           n == Len(Batches(g.list))
           k == Len(g.asked)
<1>0. GenShape(g, now) /\ DOMAIN gen = Run /\ now \in Nat
  BY DEF PipelineInv
<1>1. /\ g.kind # "none" /\ ~g.ended /\ UNCHANGED <<analyses, now>>
      /\ \E batch :
           gen' = [gen EXCEPT ![r] =
             [@ EXCEPT !.gaveUp = g.gaveUp \/ ~Answered(r), !.ended = k = n,
                       !.over = IF k = n THEN now ELSE 0,
                       !.asked = IF k = n THEN g.asked ELSE Append(g.asked, [i \in DOMAIN batch |-> Item(batch[i])])]]
  BY Zenon DEF NextBatch
<1>2. PICK batch :
        gen' = [gen EXCEPT ![r] =
             [@ EXCEPT !.gaveUp = g.gaveUp \/ ~Answered(r), !.ended = k = n,
                       !.over = IF k = n THEN now ELSE 0,
                       !.asked = IF k = n THEN g.asked ELSE Append(g.asked, [i \in DOMAIN batch |-> Item(batch[i])])]]
  BY <1>1
<1> DEFINE new == [i \in DOMAIN batch |-> Item(batch[i])]
           given == g.gaveUp \/ ~Answered(r)
           done == k = n
           over == IF k = n THEN now ELSE 0
           asked == IF k = n THEN g.asked ELSE Append(g.asked, new)
<1>3. /\ DOMAIN gen' = Run /\ \A q \in Run \ {r} : gen'[q] = gen[q]
  BY <1>0, <1>2
<1>4. /\ DOMAIN h = DOMAIN g /\ h.kind = g.kind /\ h.began = g.began
      /\ h.gaveUp = given /\ h.ended = done /\ h.over = over /\ h.asked = asked
  <2>1. gen' = [gen EXCEPT ![r] = [g EXCEPT !.gaveUp = given, !.ended = done, !.over = over, !.asked = asked]]
    BY <1>2
  <2> HIDE DEF given, done, over, asked
  <2> QED BY <1>0, <2>1 DEF GenShape
<1>5. \A i \in DOMAIN new : new[i].stage = "asked" /\ {"id", "stage", "data", "time"} \subseteq DOMAIN new[i]
  BY DEF Item
<1>6. PICK S : g.asked \in Seq(S)
  BY <1>0 DEF GenShape, IsSequence
<1> HIDE DEF g, h, n, k, new, given, done, over, asked
<1>10. h.gaveUp \in BOOLEAN
  BY <1>0, <1>4 DEF given, GenShape
<1>7. ~h.gaveUp => \A j \in 1 .. Len(g.asked) : AllAnswered(g.asked[j])
  <2> SUFFICES ASSUME ~h.gaveUp, NEW j \in 1 .. Len(g.asked) PROVE AllAnswered(g.asked[j])
    OBVIOUS
  <2>1. ~g.gaveUp /\ Answered(r)
    BY <1>4 DEF given
  <2>2. CASE j = Len(g.asked)
    BY <1>6, <2>1, <2>2 DEF Answered, AllAnswered, Terminal, Last, g
  <2>3. CASE j < Len(g.asked)
    BY <1>0, <2>1, <2>3 DEF GenShape
  <2> QED BY <1>6, <2>2, <2>3
<1>8. CASE k = n
  <2>1. h.asked = g.asked /\ h.ended = TRUE /\ h.over = now
    BY <1>4, <1>8 DEF done, asked, over
  <2>2. \A j \in 1 .. Len(h.asked) : \A i \in DOMAIN h.asked[j] : ItemShape(h, h.asked[j][i], now)
    BY <1>0, <1>4, <2>1 DEF GenShape, ItemShape
  <2>3. GenShape(h, now)
    BY <1>0, <1>1, <1>4, <1>7, <1>10, <2>1, <2>2 DEF GenShape
  <2> QED BY <1>1, <1>3, <1>4, <2>1, <2>3, RequestStep DEF g, h
<1>9. CASE k # n
  <2>1. h.asked = Append(g.asked, new) /\ h.ended = FALSE /\ h.over = 0
    BY <1>4, <1>9 DEF done, asked, over
  <2>2. h.asked \in Seq(S \cup {new}) /\ Len(h.asked) = Len(g.asked) + 1
    BY <1>6, <2>1
  <2>3. \A j \in 1 .. Len(h.asked) :
          (j \in 1 .. Len(g.asked) /\ h.asked[j] = g.asked[j]) \/ (j = Len(h.asked) /\ h.asked[j] = new)
    BY <1>6, <2>1, <2>2
  <2>4. ASSUME NEW j \in 1 .. Len(h.asked), NEW i \in DOMAIN h.asked[j]
        PROVE  ItemShape(h, h.asked[j][i], now)
    <3>1. CASE h.asked[j] = new
      BY <1>5, <3>1 DEF ItemShape
    <3>2. CASE j \in 1 .. Len(g.asked) /\ h.asked[j] = g.asked[j]
      BY <1>0, <1>4, <3>2 DEF GenShape, ItemShape
    <3> QED BY <2>3, <3>1, <3>2
  <2>5. ~h.gaveUp => \A j \in 1 .. Len(h.asked) : j < Len(h.asked) => AllAnswered(h.asked[j])
    BY <1>7, <2>2, <2>3
  <2>6. GenShape(h, now)
    <3>1. IsSequence(h.asked)
      BY <2>2 DEF IsSequence
    <3>2. h.began \in 0 .. now /\ h.over \in 0 .. now /\ h.ended \in BOOLEAN
      <4>1. h.began \in 0 .. now
        BY <1>0, <1>4 DEF GenShape
      <4>2. h.over \in 0 .. now
        BY <1>0, <2>1
      <4>3. h.ended \in BOOLEAN
        BY <2>1, Zenon
      <4> QED BY <4>1, <4>2, <4>3
    <3>3. {"kind", "platform", "list", "asked", "ended", "began", "over", "gaveUp"} \subseteq DOMAIN h
      BY <1>0, <1>4 DEF GenShape
    <3>4. h.kind # "none"
      BY <1>1, <1>4
    <3> QED BY <1>10, <2>1, <2>4, <2>5, <3>1, <3>2, <3>3, <3>4 DEF GenShape
  <2> QED BY <1>1, <1>3, <1>4, <2>1, <2>6, RequestStep DEF g, h
<1> QED BY <1>8, <1>9

\* A run begins.
LEMMA RequestBegun ==
  ASSUME PipelineInv, NEW r \in Run, gen[r].kind = "none", UNCHANGED <<analyses, now>>,
         NEW y, gen' = [gen EXCEPT ![r] = y],
         {"kind", "platform", "list", "asked", "ended", "began", "over", "gaveUp"} \subseteq DOMAIN y,
         y.asked = <<>>, y.ended = FALSE, y.gaveUp = FALSE, y.began = now, y.over = 0
  PROVE  PipelineInv'
<1>1. DOMAIN gen' = Run /\ gen'[r] = y /\ \A q \in Run \ {r} : gen'[q] = gen[q]
  BY DEF PipelineInv
<1>2. IsSequence(y.asked) /\ Len(y.asked) = 0
  <2>1. <<>> \in Seq({}) /\ Len(<<>>) = 0
    OBVIOUS
  <2> QED BY <2>1 DEF IsSequence
<1>3. GenShape(y, now)
  <2>1. now \in 0 .. now /\ 0 \in 0 .. now
    BY DEF PipelineInv
  <2>2. \A k \in 1 .. Len(y.asked) : FALSE
    BY <1>2
  <2> QED BY <1>2, <2>1, <2>2 DEF GenShape
<1> QED BY <1>1, <1>3, RequestStep

LEMMA PipelinePreserved ==
  ASSUME PipelineInv, AnalysesStep \/ UNCHANGED analysisVars
  PROVE  PipelineInv'
<1>0. now \in Nat /\ DOMAIN gen = Run /\ \A r \in Run : GenShape(gen[r], now)
  BY DEF PipelineInv
<1>1. CASE UNCHANGED <<analyses, gen, now>>
  BY <1>1 DEF PipelineInv, RowShape
<1>2. ASSUME NEW r \in Run, generateParadexAnalysis(r) PROVE PipelineInv'
  <2>1. PICK list : gen' = [gen EXCEPT ![r] = [NoGen EXCEPT !.kind = "clock", !.list = list, !.began = now]]
    BY <1>2 DEF generateParadexAnalysis
  <2> DEFINE y == [NoGen EXCEPT !.kind = "clock", !.list = list, !.began = now]
  <2>2. /\ {"kind", "platform", "list", "asked", "ended", "began", "over", "gaveUp"} \subseteq DOMAIN y
        /\ y.asked = <<>> /\ y.ended = FALSE /\ y.gaveUp = FALSE /\ y.began = now /\ y.over = 0
    BY DEF NoGen
  <2> HIDE DEF y
  <2> QED BY <1>2, <2>1, <2>2, RequestBegun DEF generateParadexAnalysis, y
<1>3. ASSUME NEW r \in Run, NEW asked \in ByHand, generateAnalysis(r, asked) PROVE PipelineInv'
  <2> DEFINE y == [NoGen EXCEPT !.kind = "hand", !.list = asked.list, !.platform = asked.platform, !.began = now]
  <2>1. gen' = [gen EXCEPT ![r] = y]
    BY <1>3 DEF generateAnalysis
  <2>2. /\ {"kind", "platform", "list", "asked", "ended", "began", "over", "gaveUp"} \subseteq DOMAIN y
        /\ y.asked = <<>> /\ y.ended = FALSE /\ y.gaveUp = FALSE /\ y.began = now /\ y.over = 0
    BY DEF NoGen
  <2> HIDE DEF y
  <2> QED BY <1>3, <2>1, <2>2, RequestBegun DEF generateAnalysis
<1>4. ASSUME NEW r \in Run, NEW k \in DOMAIN gen[r].asked, NEW i \in DOMAIN gen[r].asked[k],
             Find(r, k, i) \/ Stamp(r, k, i) \/ Store(r, k, i)
      PROVE  PipelineInv'
  <2> DEFINE old == gen[r].asked[k][i]
  <2>1. /\ k \in 1 .. Len(gen[r].asked) /\ ItemShape(gen[r], old, now) /\ gen[r].began \in Nat
        /\ DOMAIN gen[r].asked = 1 .. Len(gen[r].asked)
    BY <1>0 DEF GenShape, IsSequence
  <2> HIDE DEF old
  <2>2. ASSUME Put(r, k, i, [Item(gen[r].asked[k][i].id) EXCEPT !.stage = "failed"]) \/
               Put(r, k, i, [Item(gen[r].asked[k][i].id) EXCEPT !.stage = "refused"]) \/
               Put(r, k, i, [Item(gen[r].asked[k][i].id) EXCEPT !.stage = "stored"]),
               now' = now, old.stage \notin Terminal,
               \A x \in analyses' : \/ x \in analyses
                                    \/ /\ x.run = r /\ x.data \in (gen[r].began + 1) .. now
                                       /\ x.time \in (x.data + 1) .. now
        PROVE  PipelineInv'
    <3>1. PICK stage \in Terminal : Put(r, k, i, [Item(gen[r].asked[k][i].id) EXCEPT !.stage = stage])
      BY <2>2 DEF Terminal
    <3> DEFINE y == [Item(gen[r].asked[k][i].id) EXCEPT !.stage = stage]
    <3>2. y.stage = stage /\ {"id", "stage", "data", "time"} \subseteq DOMAIN y
      BY DEF Item
    <3> HIDE DEF y
    <3>3. ItemShape(gen[r], y, now)
      BY <3>1, <3>2 DEF ItemShape, Terminal
    <3> QED BY <1>0, <2>1, <2>2, <3>1, <3>3, AssetStep DEF old, y
  <2>3. ASSUME old.stage \notin Terminal, UNCHANGED analyses, Refuse(r, k, i) \/ Fail(r, k, i)
        PROVE  PipelineInv'
    BY <2>2, <2>3 DEF Refuse, Fail, Finish
  <2>4. CASE Find(r, k, i)
    <3>1. old.stage = "asked" /\ UNCHANGED analyses
      BY <2>4 DEF Find, old
    <3>2. CASE Put(r, k, i, [old EXCEPT !.stage = "priced", !.data = now + 1]) /\ now' = now + 1
      <4> DEFINE y == [old EXCEPT !.stage = "priced", !.data = now + 1]
      <4>1. y.stage = "priced" /\ y.data = now + 1 /\ {"id", "stage", "data", "time"} \subseteq DOMAIN y
        BY <2>1 DEF ItemShape
      <4> HIDE DEF y
      <4>2. gen[r].began <= now
        BY <1>0 DEF GenShape
      <4>3. ItemShape(gen[r], y, now')
        BY <1>0, <2>1, <3>2, <4>1, <4>2 DEF ItemShape
      <4>4. Put(r, k, i, y)
        BY <3>2 DEF y
      <4>5. gen[r].asked[k][i].stage \notin Terminal
        BY <3>1 DEF old, Terminal
      <4>6. now' \in Nat /\ now <= now'
        BY <1>0, <3>2
      <4> QED BY <2>1, <3>1, <4>3, <4>4, <4>5, <4>6, AssetStep
    <3>3. Refuse(r, k, i) \/ Fail(r, k, i) \/
          (Put(r, k, i, [old EXCEPT !.stage = "priced", !.data = now + 1]) /\ now' = now + 1)
      BY <2>4, Zenon DEF Find, old
    <3>4. old.stage \notin Terminal
      BY <3>1 DEF Terminal
    <3> QED BY <2>3, <3>1, <3>2, <3>3, <3>4
  <2>5. CASE Stamp(r, k, i)
    <3>1. old.stage = "priced" /\ UNCHANGED analyses
      BY <2>5 DEF Stamp, old
    <3>2. CASE Put(r, k, i, [old EXCEPT !.stage = "stamped", !.time = now + 1]) /\ now' = now + 1
      <4> DEFINE y == [old EXCEPT !.stage = "stamped", !.time = now + 1]
      <4>1. /\ y.stage = "stamped" /\ y.time = now + 1 /\ y.data = old.data
            /\ {"id", "stage", "data", "time"} \subseteq DOMAIN y
        BY <2>1 DEF ItemShape
      <4> HIDE DEF y
      <4>2. old.data \in (gen[r].began + 1) .. now
        BY <2>1, <3>1 DEF ItemShape
      <4>3. ItemShape(gen[r], y, now')
        BY <1>0, <2>1, <3>2, <4>1, <4>2 DEF ItemShape
      <4>4. Put(r, k, i, y)
        BY <3>2 DEF y
      <4>5. gen[r].asked[k][i].stage \notin Terminal
        BY <3>1 DEF old, Terminal
      <4>6. now' \in Nat /\ now <= now'
        BY <1>0, <3>2
      <4> QED BY <2>1, <3>1, <4>3, <4>4, <4>5, <4>6, AssetStep
    <3>3. Refuse(r, k, i) \/ Fail(r, k, i) \/
          (Put(r, k, i, [old EXCEPT !.stage = "stamped", !.time = now + 1]) /\ now' = now + 1)
      BY <2>5, Zenon DEF Stamp, old
    <3>4. old.stage \notin Terminal
      BY <3>1 DEF Terminal
    <3> QED BY <2>3, <3>1, <3>2, <3>3, <3>4
  <2>6. CASE Store(r, k, i)
    <3>1. old.stage = "stamped" /\ old.stage \notin Terminal
      BY <2>6 DEF Store, old, Terminal
    <3>2. old.data \in (gen[r].began + 1) .. now /\ old.time \in (old.data + 1) .. now
      BY <2>1, <3>1 DEF ItemShape
    <3> DEFINE row == [id |-> old.id, platform |-> gen[r].platform, time |-> old.time,
                       data |-> old.data, patterns |-> HasPatterns(old.data), run |-> r]
    <3>3. row.run = r /\ row.data = old.data /\ row.time = old.time
      OBVIOUS
    <3>4. analyses' = analyses \/ analyses' = analyses \cup {row}
      BY <2>6 DEF Store, old
    <3> HIDE DEF row
    <3>5. \A x \in analyses' : \/ x \in analyses
                               \/ /\ x.run = r /\ x.data \in (gen[r].began + 1) .. now
                                  /\ x.time \in (x.data + 1) .. now
      BY <3>2, <3>3, <3>4
    <3>6. Finish(r, k, i, "stored") \/ Finish(r, k, i, "failed")
      BY <2>6 DEF Store, Fail
    <3> QED BY <2>2, <3>1, <3>5, <3>6 DEF Finish
  <2> QED BY <1>4, <2>4, <2>5, <2>6
<1>5. CASE fetchAndUpdateMarkets
  BY <1>1, <1>5 DEF fetchAndUpdateMarkets
<1> QED
  BY <1>1, <1>2, <1>3, <1>4, <1>5, BatchAsked DEF AnalysesStep, AnalysisStep, analysisVars

\* An agent is shown older prices than there are only if runs overlapped or a
\* request was given up, for any lists, batch size, clock and failures.
THEOREM OvertakenByOverlap == Spec => []OvertakenOnlyByOverlap
<1>1. Init => PipelineInv
  <2> SUFFICES ASSUME Init PROVE PipelineInv
    OBVIOUS
  <2>1. /\ now = 0 /\ analyses = {} /\ DOMAIN gen = Run
        /\ \A r \in Run : gen[r] = NoGen
    BY DEF Init, AnalysisInit
  <2>2. NoGen.asked = <<>> /\ <<>> \in Seq({}) /\ Len(<<>>) = 0
    BY DEF NoGen
  <2>3. GenShape(NoGen, 0)
    BY <2>2 DEF GenShape, IsSequence, NoGen
  <2> QED BY <2>1, <2>3 DEF PipelineInv
<1>2. PipelineInv /\ [Next]_vars => PipelineInv'
  BY PipelinePreserved, StepsApart DEF Apart
<1>3. PipelineInv => OvertakenOnlyByOverlap
  <2> SUFFICES ASSUME PipelineInv, NEW a \in Agent, NEW platform \in {"paradex", "avnu"},
                      NEW shown \in getLatestAnalysisForAgent(a, platform), NEW y \in analyses,
                      y.id = shown.row.id, y.platform = shown.row.platform, y.data > shown.row.data
               PROVE  \/ ~gen[shown.row.run].ended \/ gen[shown.row.run].gaveUp
                      \/ gen[y.run].began <= gen[shown.row.run].over
    BY DEF OvertakenOnlyByOverlap
  <2> DEFINE x == shown.row
  <2>1. \E id : x \in getLatestAnalysis(id, platform)
    BY DEF getLatestAnalysisForAgent, getLatestAnalyses
  <2>2. x \in analyses /\ y.time <= x.time
    BY <2>1 DEF getLatestAnalysis
  <2> HIDE DEF x
  <2>3. RowShape(x, now) /\ RowShape(y, now) /\ now \in Nat
    BY <2>2 DEF PipelineInv
  <2>4. /\ gen[x.run].over \in Nat /\ gen[x.run].began \in Nat /\ gen[y.run].began \in Nat
        /\ gen[x.run].ended \in BOOLEAN /\ gen[x.run].gaveUp \in BOOLEAN
    BY <2>3 DEF PipelineInv, RowShape, GenShape
  <2>5. gen[y.run].began < y.time /\ x.time \in Nat /\ y.time \in Nat
    <3>1. /\ x.data \in (gen[x.run].began + 1) .. now /\ x.time \in (x.data + 1) .. now
          /\ y.data \in (gen[y.run].began + 1) .. now /\ y.time \in (y.data + 1) .. now
      BY <2>3 DEF RowShape
    <3>2. ASSUME NEW b \in Nat, NEW n \in Nat, NEW d \in (b + 1) .. n, NEW t \in (d + 1) .. n
          PROVE  t \in Nat /\ b < t
      OBVIOUS
    <3>3. now \in Nat
      BY <2>3
    <3> QED BY <2>4, <3>1, <3>2, <3>3
  <2>6. ASSUME gen[x.run].ended, ~gen[x.run].gaveUp PROVE gen[y.run].began <= gen[x.run].over
    <3>1. x.time <= gen[x.run].over
      BY <2>3, <2>6 DEF RowShape
    <3> QED BY <2>2, <2>4, <2>5, <3>1
  <2> QED BY <2>4, <2>6 DEF x
<1> QED
  BY <1>1, <1>2, <1>3, PTL DEF Spec
-----------------------------------------------------------------------------
(* Batches. *)

LEMMA QuotientBounds ==
  ASSUME NEW a \in Nat, NEW b \in Nat \ {0}
  PROVE  /\ a \div b \in Nat
         /\ (a \div b) * b <= a /\ a < (a \div b) * b + b
OBVIOUS

\* Where a batch of a list begins and how long it is.
Divided(list, batches) ==
  /\ Len(batches) \in Nat /\ DOMAIN batches = 1 .. Len(batches) /\ Len(list) <= Len(batches) * BatchSize
  /\ \A k \in 1 .. Len(batches) :
       /\ (k - 1) * BatchSize < Len(list)
       /\ batches[k] \in Seq(Ticker)
       /\ Len(batches[k]) = (IF k * BatchSize <= Len(list) THEN k * BatchSize ELSE Len(list)) - (k - 1) * BatchSize
       /\ \A i \in 1 .. Len(batches[k]) : batches[k][i] = list[(k - 1) * BatchSize + i]

LEMMA BatchesDivide == ASSUME NEW list \in Seq(Ticker) PROVE Divided(list, Batches(list))
<1> DEFINE batches == Batches(list)
<1>0. BatchSize \in Nat \ {0} /\ Len(list) \in Nat
  BY PipelineAssumption
<1>1. PICK b \in Nat \ {0} : b = BatchSize
  BY <1>0
<1>2. PICK len \in Nat : len = Len(list)
  OBVIOUS
<1>3. PICK n \in Nat : n = (len + b - 1) \div b /\ n * b <= len + b - 1 /\ len + b - 1 < n * b + b
  <2>1. len + b - 1 \in Nat
    OBVIOUS
  <2> QED BY <2>1, QuotientBounds
<1>4. batches = [k \in 1 .. n |-> SubSeq(list, (k - 1) * b + 1, Min({k * b, len}))]
  BY <1>1, <1>2, <1>3 DEF Batches
<1> HIDE DEF batches
<1>5. Len(batches) = n /\ DOMAIN batches = 1 .. n
  BY <1>4
<1>6. len <= n * b
  BY <1>3
<1>7. ASSUME NEW k \in 1 .. n
      PROVE  /\ (k - 1) * b < len
             /\ batches[k] \in Seq(Ticker)
             /\ Len(batches[k]) = (IF k * b <= len THEN k * b ELSE len) - (k - 1) * b
             /\ \A i \in 1 .. Len(batches[k]) : batches[k][i] = list[(k - 1) * b + i]
  <2>1. PICK lo \in Nat : lo = (k - 1) * b
    OBVIOUS
  <2>2. PICK hi \in Nat : hi = k * b
    OBVIOUS
  <2>3. hi = lo + b
    BY <2>1, <2>2
  <2>4. hi <= n * b
    <3>1. PICK m \in Nat : n = k + m
      OBVIOUS
    <3>2. n * b = k * b + m * b /\ m * b \in Nat
      BY <3>1
    <3> QED BY <2>2, <3>2
  <2>5. lo < len
    BY <1>3, <2>3, <2>4
  <2>6. PICK top : top = Min({hi, len})
    OBVIOUS
  <2>7. top = IF hi <= len THEN hi ELSE len
    <3>1. \E x \in {hi, len} : \A y \in {hi, len} : x <= y
      OBVIOUS
    <3>2. top \in {hi, len} /\ \A y \in {hi, len} : top <= y
      BY <2>6, <3>1 DEF Min
    <3> QED BY <3>2
  <2>8. PICK q : q = SubSeq(list, lo + 1, top)
    OBVIOUS
  <2>9. batches[k] = q
    BY <1>4, <2>1, <2>2, <2>6, <2>8
  <2>10. top \in Nat /\ top <= Len(list) /\ lo < top
    BY <1>2, <2>3, <2>5, <2>7
  <2>11. DOMAIN q = 1 .. (top - lo) /\ (\A i \in 1 .. (top - lo) : q[i] = list[lo + i]) /\ q \in Seq(Ticker)
    BY <2>8, <2>10, PartOfList
  <2>12. Len(q) = top - lo
    BY <2>10, <2>11
  <2> QED BY <2>1, <2>2, <2>5, <2>7, <2>9, <2>11, <2>12
<1> QED BY <1>1, <1>2, <1>5, <1>6, <1>7 DEF Divided, batches

\* Lists one after the other, and what the first of them make together.
Joined(seqs, f, n) == f = [i \in 1 .. n |-> IF i = 1 THEN seqs[i] ELSE f[i - 1] \o seqs[i]]

LEMMA JoinedExists ==
  ASSUME NEW seqs, NEW n \in Nat
  PROVE  \E f : Joined(seqs, f, n)
<1> DEFINE P == {m \in Nat : \E f : Joined(seqs, f, m)}
<1>1. 0 \in P
  <2> DEFINE f == [i \in 1 .. 0 |-> seqs[i]]
  <2>1. f = [i \in 1 .. 0 |-> IF i = 1 THEN seqs[i] ELSE f[i - 1] \o seqs[i]]
    OBVIOUS
  <2>2. Joined(seqs, f, 0)
    BY <2>1 DEF Joined
  <2> QED BY <2>2
<1>2. ASSUME NEW m \in Nat, m \in P PROVE m + 1 \in P
  <2>1. PICK f : Joined(seqs, f, m)
    BY <1>2
  <2> DEFINE g == [i \in 1 .. m + 1 |-> IF i = 1 THEN seqs[i] ELSE f[i - 1] \o seqs[i]]
  <2>2. \A i \in 1 .. m : g[i] = f[i]
    <3> SUFFICES ASSUME NEW i \in 1 .. m PROVE g[i] = f[i]
      OBVIOUS
    <3>1. i \in 1 .. m + 1
      OBVIOUS
    <3>2. g[i] = IF i = 1 THEN seqs[i] ELSE f[i - 1] \o seqs[i]
      BY <3>1
    <3> HIDE DEF g
    <3>3. f[i] = IF i = 1 THEN seqs[i] ELSE f[i - 1] \o seqs[i]
      BY <2>1, Zenon DEF Joined
    <3> QED BY <3>2, <3>3, Zenon
  <2>3. \A i \in 1 .. m + 1 : i # 1 => i - 1 \in 1 .. m
    OBVIOUS
  <2>4. g = [i \in 1 .. m + 1 |-> IF i = 1 THEN seqs[i] ELSE g[i - 1] \o seqs[i]]
    BY <2>2, <2>3
  <2>5. Joined(seqs, g, m + 1)
    BY <2>4 DEF Joined
  <2> QED BY <2>5
<1> HIDE DEF P
<1>3. n \in P
  BY <1>1, <1>2, SetOfNaturals
<1> QED BY <1>3 DEF P

LEMMA FlattenJoins ==
  ASSUME NEW seqs, Len(seqs) \in Nat, Len(seqs) # 0
  PROVE  \E f : Joined(seqs, f, Len(seqs)) /\ FlattenSeq(seqs) = f[Len(seqs)]
<1> DEFINE f == CHOOSE g : Joined(seqs, g, Len(seqs))
<1>1. \E g : Joined(seqs, g, Len(seqs))
  BY JoinedExists
<1>2. Joined(seqs, f, Len(seqs))
  BY <1>1
<1>3. FlattenSeq(seqs) = f[Len(seqs)]
  BY Zenon DEF FlattenSeq, Joined
<1> HIDE DEF f
<1> QED BY <1>2, <1>3

\* A batch of a list has the items after the first lo, b of them or all.
IsPart(q, list, lo, b) ==
  /\ lo < Len(list)
  /\ Len(q) = (IF lo + b <= Len(list) THEN lo + b ELSE Len(list)) - lo
  /\ \A i \in 1 .. Len(q) : q[i].id = list[lo + i]

\* The items asked for are the first of a list, m of them or all.
IsStart(q, list, m) ==
  /\ Len(q) = IF m <= Len(list) THEN m ELSE Len(list)
  /\ \A i \in 1 .. Len(q) : q[i].id = list[i]

LEMMA StartAndPart ==
  ASSUME NEW S, NEW list, Len(list) \in Nat, NEW lo \in Nat, NEW b \in Nat,
         NEW l \in Seq(S), IsStart(l, list, lo), NEW q \in Seq(S), IsPart(q, list, lo, b)
  PROVE  IsStart(l \o q, list, lo + b)
<1>1. PICK t : t = l \o q
  OBVIOUS
<1>2. t \in Seq(S) /\ Len(t) = Len(l) + Len(q)
  BY <1>1
<1>3. Len(l) = lo /\ \A i \in 1 .. lo : l[i].id = list[i]
  BY DEF IsStart, IsPart
<1>4. Len(t) = IF lo + b <= Len(list) THEN lo + b ELSE Len(list)
  BY <1>2, <1>3 DEF IsPart
<1>5. ASSUME NEW i \in 1 .. Len(t) PROVE t[i].id = list[i]
  <2>1. CASE i <= lo
    <3>1. t[i] = l[i]
      BY <1>1, <1>2, <1>3, <2>1
    <3> QED BY <1>3, <2>1, <3>1
  <2>2. CASE ~(i <= lo)
    <3>1. PICK j \in 1 .. Len(q) : i = lo + j
      <4>1. i - lo \in 1 .. Len(q) /\ i = lo + (i - lo)
        BY <1>2, <1>3, <2>2
      <4> QED BY <4>1
    <3>2. t[i] = q[j]
      BY <1>1, <1>2, <1>3, <3>1
    <3>3. q[j].id = list[lo + j]
      BY DEF IsPart
    <3> QED BY <3>1, <3>2, <3>3
  <2> QED BY <2>1, <2>2
<1> QED BY <1>1, <1>4, <1>5 DEF IsStart

\* Batches one after the other are the list they were made of, as far as they go.
LEMMA BatchesMakeTheList ==
  ASSUME NEW S, NEW seqs \in Seq(Seq(S)), NEW list, Len(list) \in Nat, NEW b \in Nat \ {0},
         \A k \in 1 .. Len(seqs) : IsPart(seqs[k], list, (k - 1) * b, b)
  PROVE  FlattenSeq(seqs) \in Seq(S) /\ IsStart(FlattenSeq(seqs), list, Len(seqs) * b)
<1>2. PICK n \in Nat : n = Len(seqs)
  OBVIOUS
<1>3. ASSUME NEW k \in 1 .. n PROVE seqs[k] \in Seq(S) /\ IsPart(seqs[k], list, (k - 1) * b, b)
  BY <1>2
<1>4. CASE n = 0
  <2>1. seqs = <<>>
    BY <1>2, <1>4, EmptySeq
  <2>2. FlattenSeq(seqs) = <<>>
    BY <2>1, Zenon DEF FlattenSeq
  <2>3. <<>> \in Seq(S) /\ Len(<<>>) = 0
    OBVIOUS
  <2>4. Len(seqs) * b = 0
    <3>1. Len(seqs) = 0 /\ 0 * b = 0
      BY <1>2, <1>4
    <3> QED BY <3>1, Zenon
  <2>5. IsStart(<<>>, list, 0)
    BY <2>3 DEF IsStart
  <2> QED BY <2>2, <2>3, <2>4, <2>5, Zenon
<1>5. CASE n # 0
  <2>1. PICK f : Joined(seqs, f, n) /\ FlattenSeq(seqs) = f[n]
    BY <1>2, <1>5, FlattenJoins
  <2> DEFINE P == {m \in Nat : m + 1 <= n => f[m + 1] \in Seq(S) /\ IsStart(f[m + 1], list, (m + 1) * b)}
  <2>2. 0 \in P
    <3>0. 1 \in 1 .. n
      BY <1>5
    <3>1. f[1] = seqs[1]
      BY <3>0, <2>1 DEF Joined
    <3>2. (1 - 1) * b = 0 /\ 1 * b = b
      OBVIOUS
    <3>3. seqs[1] \in Seq(S)
      BY <1>3, <3>0
    <3>4. IsPart(seqs[1], list, 0, b)
      <4>1. IsPart(seqs[1], list, (1 - 1) * b, b)
        BY <1>3, <3>0
      <4> QED BY <3>2, <4>1, Zenon
    <3>5. IsStart(seqs[1], list, b)
      BY <3>3, <3>4 DEF IsStart, IsPart
    <3> QED BY <3>1, <3>2, <3>3, <3>5
  <2>3. ASSUME NEW m \in Nat, m \in P PROVE m + 1 \in P
    <3>1. SUFFICES ASSUME m + 2 <= n
                   PROVE  f[m + 2] \in Seq(S) /\ IsStart(f[m + 2], list, (m + 2) * b)
      <4>1. m + 1 + 1 = m + 2 /\ m + 1 \in Nat
        OBVIOUS
      <4> QED BY <4>1
    <3>2. f[m + 1] \in Seq(S) /\ IsStart(f[m + 1], list, (m + 1) * b)
      BY <2>3, <3>1
    <3>3. f[m + 2] = f[m + 1] \o seqs[m + 2]
      <4>1. m + 2 \in 1 .. n /\ m + 2 # 1 /\ (m + 2) - 1 = m + 1
        BY <3>1
      <4> QED BY <2>1, <4>1 DEF Joined
    <3>4. m + 2 \in 1 .. n /\ (m + 2) - 1 = m + 1
      BY <3>1
    <3>5. PICK lo \in Nat : lo = (m + 1) * b
      OBVIOUS
    <3>6. (m + 2) * b = lo + b
      BY <3>5
    <3>7. seqs[m + 2] \in Seq(S) /\ IsPart(seqs[m + 2], list, lo, b)
      <4>1. seqs[m + 2] \in Seq(S) /\ IsPart(seqs[m + 2], list, ((m + 2) - 1) * b, b)
        BY <1>3, <3>4
      <4> QED BY <3>4, <3>5, <4>1, Zenon
    <3>8. IsStart(f[m + 1], list, lo)
      BY <3>2, <3>5, Zenon
    <3>9. IsStart(f[m + 1] \o seqs[m + 2], list, lo + b)
      BY <3>2, <3>7, <3>8, StartAndPart
    <3>10. f[m + 1] \o seqs[m + 2] \in Seq(S)
      BY <3>2, <3>7
    <3> QED BY <3>3, <3>6, <3>9, <3>10, Zenon
  <2>4. n - 1 \in P
    <3>1. n - 1 \in Nat
      BY <1>5
    <3> HIDE DEF P
    <3> QED BY <2>2, <2>3, <3>1, SetOfNaturals
  <2>5. (n - 1) + 1 = n /\ n <= n
    OBVIOUS
  <2>6. f[n] \in Seq(S) /\ IsStart(f[n], list, n * b)
    BY <2>4, <2>5
  <2> QED BY <1>2, <2>1, <2>6, Zenon
<1> QED BY <1>4, <1>5
-----------------------------------------------------------------------------
(* What a run asks for. *)

MayBeRefused(id, platform) ==
  \/ id # trim(toUpperCase(id))
  \/ platform = "avnu"
  \/ \E listed \in Exchange : formatSymbol(id) \notin listed

Stages == {"asked", "priced", "stamped", "stored", "failed", "refused"}
Items(platform) ==
  {x \in [id : Ticker, stage : Stages, data : Int, time : Int] :
     x.stage = "refused" => MayBeRefused(x.id, platform)}

\* The batches asked for so far are the first of the list, and all when the run has ended.
Covers(g) ==
  /\ {"kind", "platform", "list", "asked", "ended", "began", "over", "gaveUp"} \subseteq DOMAIN g
  /\ g.list \in Seq(Ticker) /\ g.asked \in Seq(Seq(Items(g.platform)))
  /\ \A k \in 1 .. Len(g.asked) : IsPart(g.asked[k], g.list, (k - 1) * BatchSize, BatchSize)
  /\ Len(g.asked) <= Len(Batches(g.list))
  /\ g.ended => Len(g.asked) = Len(Batches(g.list))

CoverInv ==
  /\ now \in Nat /\ markets \in Exchange
  /\ DOMAIN gen = Run /\ \A r \in Run : Covers(gen[r])

\* A request with nothing asked for yet.
LEMMA NothingAsked ==
  ASSUME NEW y, {"kind", "platform", "list", "asked", "ended", "began", "over", "gaveUp"} \subseteq DOMAIN y,
         y.list \in Seq(Ticker), y.asked = <<>>, y.ended = FALSE
  PROVE  Covers(y)
<1>1. <<>> \in Seq(Seq(Items(y.platform))) /\ Len(<<>>) = 0
  OBVIOUS
<1>2. Len(Batches(y.list)) \in Nat
  BY BatchesDivide DEF Divided
<1> QED BY <1>1, <1>2 DEF Covers

\* A step that changes one request.
LEMMA CoverStep ==
  ASSUME CoverInv, NEW r \in Run, NEW y, Covers(y), gen' = [gen EXCEPT ![r] = y],
         UNCHANGED markets, now' \in Nat
  PROVE  CoverInv'
<1>1. DOMAIN gen' = Run /\ gen'[r] = y /\ \A q \in Run \ {r} : gen'[q] = gen[q]
  BY DEF CoverInv
<1> QED BY <1>1 DEF CoverInv

\* Another batch is the next part of the list.
LEMMA CoverBatch == ASSUME CoverInv, NEW r \in Run, NextBatch(r) PROVE CoverInv'
<1> DEFINE g == gen[r]
           batches == Batches(g.list)
           n == Len(batches)
           k == Len(g.asked)
           new == [i \in DOMAIN batches[k + 1] |-> Item(batches[k + 1][i])]
           given == g.gaveUp \/ ~Answered(r)
           done == k = n
           over == IF k = n THEN now ELSE 0
           asked == IF k = n THEN g.asked ELSE Append(g.asked, new)
           y == [g EXCEPT !.gaveUp = given, !.ended = done, !.over = over, !.asked = asked]
<1>0. Covers(g) /\ now \in Nat /\ DOMAIN gen = Run
  BY DEF CoverInv
<1>1. gen' = [gen EXCEPT ![r] = y] /\ UNCHANGED <<markets, now>>
  <2>1. /\ gen' = [gen EXCEPT ![r] = [@ EXCEPT !.gaveUp = given, !.ended = done, !.over = over, !.asked = asked]]
        /\ UNCHANGED <<markets, now>>
    BY Zenon DEF NextBatch
  <2> HIDE DEF given, done, over, asked
  <2> QED BY <1>0, <2>1
<1>2. Divided(g.list, batches)
  BY <1>0, BatchesDivide DEF Covers
<1>3. /\ DOMAIN y = DOMAIN g /\ y.platform = g.platform /\ y.list = g.list
      /\ y.ended = done /\ y.asked = asked
  <2> HIDE DEF g, given, done, over, asked
  <2> QED BY <1>0 DEF Covers
<1> HIDE DEF y, given, over
<1>4. CASE k = n
  <2>1. y.asked = g.asked
    BY <1>3, <1>4
  <2>2. Covers(y)
    BY <1>0, <1>3, <1>4, <2>1 DEF Covers
  <2> QED BY <1>0, <1>1, <2>2, CoverStep
<1>5. CASE k # n
  <2>1. k + 1 \in 1 .. n /\ k \in Nat /\ (k + 1) - 1 = k
    BY <1>0, <1>2, <1>5 DEF Covers, Divided
  <2>2. PICK batch : batch = batches[k + 1]
    OBVIOUS
  <2>3. PICK lo \in Nat : lo = k * BatchSize /\ (k + 1) * BatchSize = lo + BatchSize
    <3>1. k * BatchSize \in Nat /\ (k + 1) * BatchSize = k * BatchSize + BatchSize
      BY <2>1, PipelineAssumption
    <3> QED BY <3>1
  <2>4. /\ lo < Len(g.list) /\ batch \in Seq(Ticker)
        /\ Len(batch) = (IF lo + BatchSize <= Len(g.list) THEN lo + BatchSize ELSE Len(g.list)) - lo
        /\ \A i \in 1 .. Len(batch) : batch[i] = g.list[lo + i]
    <3> HIDE DEF g, n, k, batches
    <3>1. /\ ((k + 1) - 1) * BatchSize < Len(g.list)
          /\ batches[k + 1] \in Seq(Ticker)
          /\ Len(batches[k + 1]) = (IF (k + 1) * BatchSize <= Len(g.list) THEN (k + 1) * BatchSize ELSE Len(g.list))
                                     - ((k + 1) - 1) * BatchSize
          /\ \A i \in 1 .. Len(batches[k + 1]) : batches[k + 1][i] = g.list[((k + 1) - 1) * BatchSize + i]
      BY <1>2, <2>1, Zenon DEF Divided, n
    <3> QED BY <2>1, <2>2, <2>3, <3>1, Zenon
  <2>5. new = [i \in 1 .. Len(batch) |-> Item(batch[i])]
    BY <2>2, <2>4
  <2>6. \A i \in 1 .. Len(batch) : batch[i] \in Ticker /\ Item(batch[i]).id = batch[i]
                                   /\ Item(batch[i]) \in Items(g.platform)
    <3> SUFFICES ASSUME NEW i \in 1 .. Len(batch)
                 PROVE  batch[i] \in Ticker /\ Item(batch[i]).id = batch[i] /\ Item(batch[i]) \in Items(g.platform)
      OBVIOUS
    <3>1. batch[i] \in Ticker
      BY <2>4
    <3> QED BY <3>1 DEF Item, Items, Stages
  <2>7. new \in Seq(Items(g.platform)) /\ Len(new) = Len(batch)
    <3> HIDE DEF new
    <3>1. Len(batch) \in Nat
      BY <2>4
    <3> QED BY <2>5, <2>6, <3>1
  <2>8. IsPart(new, g.list, lo, BatchSize)
    <3>1. \A i \in 1 .. Len(batch) : new[i].id = batch[i]
      BY <2>5, <2>6
    <3> HIDE DEF new, g
    <3> QED BY <2>4, <2>7, <3>1 DEF IsPart
  <2>9. /\ g.asked \in Seq(Seq(Items(g.platform))) /\ y.asked = Append(g.asked, new)
        /\ y.ended = FALSE
    BY <1>0, <1>3, <1>5 DEF Covers
  <2> HIDE DEF new, g, batches, n
  <2>10. y.asked \in Seq(Seq(Items(g.platform))) /\ Len(y.asked) = k + 1
    BY <2>7, <2>9
  <2>11. ASSUME NEW j \in 1 .. Len(y.asked)
         PROVE  IsPart(y.asked[j], g.list, (j - 1) * BatchSize, BatchSize)
    <3>1. CASE j = k + 1
      <4>1. y.asked[j] = new
        BY <2>7, <2>9, <3>1
      <4>2. (j - 1) * BatchSize = lo
        BY <2>1, <2>3, <3>1, Zenon
      <4> QED BY <2>8, <4>1, <4>2, Zenon
    <3>2. CASE j \in 1 .. k
      <4>1. y.asked[j] = g.asked[j]
        BY <2>7, <2>9, <3>2
      <4>2. IsPart(g.asked[j], g.list, (j - 1) * BatchSize, BatchSize)
        BY <1>0, <3>2 DEF Covers
      <4> QED BY <4>1, <4>2, Zenon
    <3> QED BY <2>1, <2>10, <3>1, <3>2
  <2>12. Covers(y)
    <3>1. k + 1 <= Len(Batches(g.list))
      BY <2>1 DEF n, batches
    <3>2. g.list \in Seq(Ticker)
      BY <1>0 DEF Covers
    <3>3. {"kind", "platform", "list", "asked", "ended", "began", "over", "gaveUp"} \subseteq DOMAIN y
      BY <1>0, <1>3 DEF Covers
    <3>4. y.asked \in Seq(Seq(Items(y.platform))) /\ y.list = g.list
      BY <1>3, <2>10
    <3> HIDE DEF k
    <3> QED BY <2>9, <2>10, <2>11, <3>1, <3>2, <3>3, <3>4 DEF Covers
  <2> QED BY <1>0, <1>1, <2>12, CoverStep
<1> QED BY <1>4, <1>5

\* An asset goes on, and is refused for a reason.
LEMMA CoverItem ==
  ASSUME CoverInv, NEW r \in Run, NEW k \in 1 .. Len(gen[r].asked), NEW i \in DOMAIN gen[r].asked[k],
         NEW z \in Items(gen[r].platform), z.id = gen[r].asked[k][i].id,
         Put(r, k, i, z), UNCHANGED markets, now' \in Nat
  PROVE  CoverInv'
<1> DEFINE g == gen[r]
           q == [g.asked[k] EXCEPT ![i] = z]
           asked == [g.asked EXCEPT ![k] = q]
           y == [g EXCEPT !.asked = asked]
<1>0. Covers(g) /\ DOMAIN gen = Run
  BY DEF CoverInv
<1>1. gen' = [gen EXCEPT ![r] = y]
  BY <1>0 DEF Put
<1>2. g.asked \in Seq(Seq(Items(g.platform)))
  BY <1>0 DEF Covers
<1>3. g.asked[k] \in Seq(Items(g.platform)) /\ DOMAIN g.asked[k] = 1 .. Len(g.asked[k])
  BY <1>2
<1>4. /\ q \in Seq(Items(g.platform)) /\ Len(q) = Len(g.asked[k])
      /\ \A j \in 1 .. Len(q) : q[j].id = g.asked[k][j].id
  <2>1. PICK l \in Seq(Items(g.platform)) : l = g.asked[k]
    BY <1>3
  <2>2. i \in 1 .. Len(l) /\ q = [l EXCEPT ![i] = z]
    BY <1>3, <2>1
  <2>3. /\ q \in Seq(Items(g.platform)) /\ Len(q) = Len(l)
        /\ \A j \in 1 .. Len(l) : q[j] = IF j = i THEN z ELSE l[j]
    <3> HIDE DEF g, q
    <3> QED BY <2>2, ExceptSeq DEF g
  <2> HIDE DEF q
  <2> QED BY <2>1, <2>3
<1> HIDE DEF q
<1>5. /\ asked \in Seq(Seq(Items(g.platform))) /\ Len(asked) = Len(g.asked)
      /\ asked[k] = q /\ \A j \in 1 .. Len(asked) : j # k => asked[j] = g.asked[j]
  <2> HIDE DEF g
  <2> QED BY <1>2, <1>4 DEF g
<1>6. DOMAIN y = DOMAIN g /\ y.platform = g.platform /\ y.list = g.list /\ y.ended = g.ended /\ y.asked = asked
  <2> HIDE DEF g, asked
  <2> QED BY <1>0 DEF Covers
<1> HIDE DEF y, asked
<1>7. ASSUME NEW j \in 1 .. Len(asked)
      PROVE  IsPart(asked[j], g.list, (j - 1) * BatchSize, BatchSize)
  <2>1. IsPart(g.asked[j], g.list, (j - 1) * BatchSize, BatchSize)
    BY <1>0, <1>5 DEF Covers
  <2>2. CASE j # k
    BY <1>5, <2>1, <2>2, Zenon
  <2>3. CASE j = k
    <3>1. PICK lo : lo = (j - 1) * BatchSize
      OBVIOUS
    <3>2. IsPart(g.asked[k], g.list, lo, BatchSize)
      BY <2>1, <2>3, <3>1, Zenon
    <3> HIDE DEF g
    <3>3. IsPart(q, g.list, lo, BatchSize)
      BY <1>4, <3>2 DEF IsPart
    <3> QED BY <1>5, <2>3, <3>1, <3>3, Zenon
  <2> QED BY <2>2, <2>3
<1>8. Covers(y)
  <2> HIDE DEF g
  <2> QED BY <1>0, <1>5, <1>6, <1>7 DEF Covers
<1> HIDE DEF g
<1> QED BY <1>1, <1>8, CoverStep

\* A market that is not available is spelled in another way, or is missing from a listing.
LEMMA RefusedForAReason ==
  ASSUME NEW id \in Ticker, NEW platform, markets \in Exchange,
         ~Available(id, platform) \/ ~Found(id)
  PROVE  MayBeRefused(id, platform)
<1>0. id = [name |-> id.name, capital |-> id.capital, padded |-> id.padded, market |-> id.market]
  BY DEF Ticker
<1>1. SUFFICES ASSUME id = trim(toUpperCase(id)), platform # "avnu" PROVE \E listed \in Exchange : formatSymbol(id) \notin listed
  BY DEF MayBeRefused
<1>2. id.padded = FALSE /\ id.capital = TRUE
  <2>1. PICK upper : upper = [id EXCEPT !.capital = TRUE]
    OBVIOUS
  <2>2. PICK plain : plain = [upper EXCEPT !.padded = FALSE]
    OBVIOUS
  <2>3. id = plain
    BY <1>1, <2>1, <2>2, Zenon DEF trim, toUpperCase
  <2>4. upper.capital = TRUE /\ DOMAIN upper = {"name", "capital", "padded", "market"}
    BY <2>1 DEF Ticker
  <2>5. plain.capital = TRUE /\ plain.padded = FALSE
    BY <2>2, <2>4
  <2> QED BY <2>3, <2>5, Zenon
<1>3. toUpperCase(id) = id
  BY <1>2 DEF toUpperCase, Ticker
<1>4. formatSymbol(id) \notin getAllSymbols
  BY <1>1, <1>3, Zenon DEF Available, Found
<1>5. trim(formatSymbol(id)) = formatSymbol(id)
  BY <1>2, <1>3 DEF trim, formatSymbol, Ticker
<1>6. formatSymbol(id) \notin markets
  BY <1>4, <1>5, Zenon DEF getAllSymbols
<1> QED BY <1>6

LEMMA CoverPreserved ==
  ASSUME CoverInv, AnalysesStep \/ UNCHANGED analysisVars
  PROVE  CoverInv'
<1>0. now \in Nat /\ markets \in Exchange /\ DOMAIN gen = Run /\ \A r \in Run : Covers(gen[r])
  BY DEF CoverInv
<1>1. CASE UNCHANGED <<gen, now>> /\ markets' \in Exchange
  BY <1>1 DEF CoverInv
<1>2. ASSUME NEW r \in Run, NEW y, gen' = [gen EXCEPT ![r] = y], UNCHANGED <<markets, now>>,
             {"kind", "platform", "list", "asked", "ended", "began", "over", "gaveUp"} \subseteq DOMAIN y,
             y.list \in Seq(Ticker), y.asked = <<>>, y.ended = FALSE
      PROVE  CoverInv'
  <2>1. Covers(y)
    BY <1>2, NothingAsked
  <2> QED BY <1>0, <1>2, <2>1, CoverStep
<1>3. ASSUME NEW r \in Run, generateParadexAnalysis(r) PROVE CoverInv'
  <2>1. PICK list \in {TradableFile, FallbackList} :
          gen' = [gen EXCEPT ![r] = [NoGen EXCEPT !.kind = "clock", !.list = list, !.began = now]]
    BY <1>3 DEF generateParadexAnalysis
  <2> DEFINE y == [NoGen EXCEPT !.kind = "clock", !.list = list, !.began = now]
  <2>2. /\ {"kind", "platform", "list", "asked", "ended", "began", "over", "gaveUp"} \subseteq DOMAIN y
        /\ y.asked = <<>> /\ y.ended = FALSE /\ y.list = list
    BY DEF NoGen
  <2>3. list \in Seq(Ticker)
    BY <2>1, ListsAssumption
  <2> HIDE DEF y
  <2> QED BY <1>2, <1>3, <2>1, <2>2, <2>3 DEF generateParadexAnalysis, y
<1>4. ASSUME NEW r \in Run, NEW asked \in ByHand, generateAnalysis(r, asked) PROVE CoverInv'
  <2> DEFINE y == [NoGen EXCEPT !.kind = "hand", !.list = asked.list, !.platform = asked.platform, !.began = now]
  <2>1. gen' = [gen EXCEPT ![r] = y]
    BY <1>4 DEF generateAnalysis
  <2>2. /\ {"kind", "platform", "list", "asked", "ended", "began", "over", "gaveUp"} \subseteq DOMAIN y
        /\ y.asked = <<>> /\ y.ended = FALSE /\ y.list = asked.list
    BY DEF NoGen
  <2>3. asked.list \in Seq(Ticker)
    BY ListsAssumption
  <2> HIDE DEF y
  <2> QED BY <1>2, <1>4, <2>1, <2>2, <2>3 DEF generateAnalysis, y
<1>5. ASSUME NEW r \in Run, NEW k \in DOMAIN gen[r].asked, NEW i \in DOMAIN gen[r].asked[k],
             Find(r, k, i) \/ Stamp(r, k, i) \/ Store(r, k, i)
      PROVE  CoverInv'
  <2> DEFINE old == gen[r].asked[k][i]
             platform == gen[r].platform
  <2>1. k \in 1 .. Len(gen[r].asked) /\ old \in Items(platform)
    <3>1. gen[r].asked \in Seq(Seq(Items(platform)))
      BY <1>0 DEF Covers
    <3>2. gen[r].asked[k] \in Seq(Items(platform))
      BY <3>1
    <3> QED BY <3>1, <3>2
  <2> HIDE DEF old, platform
  <2>2. old.id \in Ticker /\ old.data \in Int /\ old.time \in Int
    BY <2>1 DEF Items
  <2>3. /\ UNCHANGED markets
        /\ \/ /\ Put(r, k, i, [old EXCEPT !.stage = "priced", !.data = now + 1]) /\ now' = now + 1
           \/ /\ Put(r, k, i, [old EXCEPT !.stage = "stamped", !.time = now + 1]) /\ now' = now + 1
           \/ Finish(r, k, i, "stored") \/ Finish(r, k, i, "failed")
           \/ Finish(r, k, i, "refused") /\ (~Available(old.id, platform) \/ ~Found(old.id))
    <3>1. CASE Find(r, k, i)
      BY <3>1, Zenon DEF Find, Fail, Refuse, old, platform
    <3>2. CASE Stamp(r, k, i)
      BY <3>2, Zenon DEF Stamp, Fail, Refuse, old, platform
    <3>3. CASE Store(r, k, i)
      BY <3>3, Zenon DEF Store, Fail
    <3> QED BY <1>5, <3>1, <3>2, <3>3
  <2>4. CASE Put(r, k, i, [old EXCEPT !.stage = "priced", !.data = now + 1]) /\ now' = now + 1
    <3> DEFINE z == [old EXCEPT !.stage = "priced", !.data = now + 1]
    <3>1. z \in Items(platform) /\ z.id = old.id
      <4>1. PICK x \in [id : Ticker, stage : Stages, data : Int, time : Int] : x = old
        BY <2>1 DEF Items
      <4>2. now + 1 \in Int /\ "priced" \in Stages /\ "priced" # "refused"
        BY <1>0 DEF Stages
      <4>3. z \in [id : Ticker, stage : Stages, data : Int, time : Int] /\ z.id = old.id /\ z.stage = "priced"
        BY <4>1, <4>2
      <4> HIDE DEF z
      <4> QED BY <4>2, <4>3 DEF Items
    <3>2. Put(r, k, i, z) /\ now' \in Nat
      BY <1>0, <2>4
    <3> HIDE DEF z
    <3> QED BY <2>1, <2>3, <3>1, <3>2, CoverItem DEF old, platform
  <2>5. CASE Put(r, k, i, [old EXCEPT !.stage = "stamped", !.time = now + 1]) /\ now' = now + 1
    <3> DEFINE z == [old EXCEPT !.stage = "stamped", !.time = now + 1]
    <3>1. z \in Items(platform) /\ z.id = old.id
      <4>1. PICK x \in [id : Ticker, stage : Stages, data : Int, time : Int] : x = old
        BY <2>1 DEF Items
      <4>2. now + 1 \in Int /\ "stamped" \in Stages /\ "stamped" # "refused"
        BY <1>0 DEF Stages
      <4>3. z \in [id : Ticker, stage : Stages, data : Int, time : Int] /\ z.id = old.id /\ z.stage = "stamped"
        BY <4>1, <4>2
      <4> HIDE DEF z
      <4> QED BY <4>2, <4>3 DEF Items
    <3>2. Put(r, k, i, z) /\ now' \in Nat
      BY <1>0, <2>5
    <3> HIDE DEF z
    <3> QED BY <2>1, <2>3, <3>1, <3>2, CoverItem DEF old, platform
  <2>6. ASSUME NEW stage \in Stages, Finish(r, k, i, stage),
               stage = "refused" => MayBeRefused(old.id, platform)
        PROVE  CoverInv'
    <3> DEFINE z == [Item(old.id) EXCEPT !.stage = stage]
    <3>1. z \in Items(platform) /\ z.id = old.id
      BY <2>2, <2>6 DEF Items, Item
    <3> HIDE DEF z
    <3>2. Put(r, k, i, z) /\ now' = now
      BY <2>6 DEF Finish, z, old
    <3> QED BY <1>0, <2>1, <2>3, <3>1, <3>2, CoverItem DEF old, platform
  <2>7. CASE Finish(r, k, i, "stored") \/ Finish(r, k, i, "failed")
    BY <2>6, <2>7 DEF Stages
  <2>8. CASE Finish(r, k, i, "refused") /\ (~Available(old.id, platform) \/ ~Found(old.id))
    <3>1. MayBeRefused(old.id, platform)
      BY <1>0, <2>2, <2>8, RefusedForAReason
    <3> QED BY <2>6, <2>8, <3>1 DEF Stages
  <2> QED BY <2>3, <2>4, <2>5, <2>7, <2>8
<1>6. CASE fetchAndUpdateMarkets
  BY <1>1, <1>6 DEF fetchAndUpdateMarkets
<1> QED
  BY <1>0, <1>1, <1>3, <1>4, <1>5, <1>6, CoverBatch DEF AnalysesStep, AnalysisStep, analysisVars

\* What has been asked for, one batch after the other, is the list once.
LEMMA CoverIsList ==
  ASSUME NEW g, Covers(g)
  PROVE  /\ FlattenSeq(g.asked) \in Seq(Items(g.platform))
         /\ g.ended => [i \in DOMAIN FlattenSeq(g.asked) |-> FlattenSeq(g.asked)[i].id] = g.list
<1>1. PICK list \in Seq(Ticker) : list = g.list
  BY DEF Covers
<1>2. PICK seqs \in Seq(Seq(Items(g.platform))) : seqs = g.asked
  BY DEF Covers
<1>3. \A k \in 1 .. Len(seqs) : IsPart(seqs[k], list, (k - 1) * BatchSize, BatchSize)
  BY <1>1, <1>2, Zenon DEF Covers
<1>4. BatchSize \in Nat \ {0} /\ Len(list) \in Nat
  BY PipelineAssumption
<1>5. PICK flat : flat = FlattenSeq(seqs)
  OBVIOUS
<1>6. flat \in Seq(Items(g.platform)) /\ IsStart(flat, list, Len(seqs) * BatchSize)
  BY <1>3, <1>4, <1>5, BatchesMakeTheList
<1>7. ASSUME g.ended PROVE [i \in DOMAIN flat |-> flat[i].id] = list
  <2>1. Len(seqs) = Len(Batches(list))
    BY <1>1, <1>2, <1>7 DEF Covers
  <2>2. Len(list) <= Len(Batches(list)) * BatchSize
    BY BatchesDivide DEF Divided
  <2>3. PICK m : m = Len(seqs) * BatchSize
    OBVIOUS
  <2>4. Len(list) <= m /\ m \in Nat
    BY <1>4, <2>1, <2>2, <2>3
  <2>5. Len(flat) = Len(list)
    <3>1. Len(flat) = IF m <= Len(list) THEN m ELSE Len(list)
      BY <1>6, <2>3, Zenon DEF IsStart
    <3> QED BY <1>4, <2>4, <3>1
  <2>6. \A i \in 1 .. Len(list) : flat[i].id = list[i]
    BY <1>6, <2>5 DEF IsStart
  <2>7. DOMAIN flat = 1 .. Len(list)
    BY <1>6, <2>5
  <2>8. list = [i \in 1 .. Len(list) |-> list[i]]
    OBVIOUS
  <2> QED BY <2>6, <2>7, <2>8
<1> QED BY <1>1, <1>2, <1>5, <1>6, <1>7, Zenon

\* A run that has ended asked for each asset of its list once, and an asset is
\* refused only for its spelling or for its market, for any lists and batch size.
THEOREM RunsCover == Spec => []RunsCoverTheirList
<1>1. Init => CoverInv
  <2> SUFFICES ASSUME Init PROVE CoverInv
    OBVIOUS
  <2>1. now = 0 /\ markets \in Exchange /\ DOMAIN gen = Run /\ \A r \in Run : gen[r] = NoGen
    BY DEF Init, AnalysisInit
  <2>2. <<>> \in Seq(Ticker)
    OBVIOUS
  <2>3. Covers(NoGen)
    BY <2>2, NothingAsked DEF NoGen
  <2> QED BY <2>1, <2>3 DEF CoverInv
<1>2. CoverInv /\ [Next]_vars => CoverInv'
  BY StepsApart, CoverPreserved DEF Apart
<1>3. CoverInv => RunsCoverTheirList
  <2> SUFFICES ASSUME CoverInv, NEW r \in Run
               PROVE  /\ gen[r].ended => [i \in DOMAIN FlattenSeq(gen[r].asked) |-> FlattenSeq(gen[r].asked)[i].id] = gen[r].list
                      /\ \A i \in DOMAIN FlattenSeq(gen[r].asked) :
                           FlattenSeq(gen[r].asked)[i].stage = "refused"
                             => MayBeRefused(FlattenSeq(gen[r].asked)[i].id, gen[r].platform)
    BY Zenon DEF RunsCoverTheirList, MayBeRefused
  <2>1. Covers(gen[r])
    BY DEF CoverInv
  <2>2. PICK flat : flat = FlattenSeq(gen[r].asked)
    OBVIOUS
  <2>3. flat \in Seq(Items(gen[r].platform)) /\ (gen[r].ended => [i \in DOMAIN flat |-> flat[i].id] = gen[r].list)
    BY <2>1, <2>2, CoverIsList, Zenon
  <2>4. \A i \in DOMAIN flat : flat[i].stage = "refused" => MayBeRefused(flat[i].id, gen[r].platform)
    <3>1. \A i \in DOMAIN flat : flat[i] \in Items(gen[r].platform)
      BY <2>3
    <3> QED BY <3>1 DEF Items
  <2> QED BY <2>2, <2>3, <2>4, Zenon
<1> QED BY <1>1, <1>2, <1>3, PTL DEF Spec
=============================================================================
