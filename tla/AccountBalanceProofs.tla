------------------------ MODULE AccountBalanceProofs ------------------------
(***************************************************************************)
(* For any number of agents, tokens, reports and queries, and any pool:    *)
(* what a report commits is whole and priced while it was served, only     *)
(* overlapping reports move the balance a PnL is counted from, only        *)
(* overlapping queries put back an older answer, and an agent that kept    *)
(* the USDC it started with is told no PnL.                                *)
(***************************************************************************)
EXTENDS AccountBalance, TLAPS

USE TokensAssumption, PricesAssumption, PortfolioAssumption, NamesAssumption, NobodyAssumption

Live == {"open", "ready", "committed"}

Prices ==
  /\ price \in [Coin -> Price] /\ clock \in Nat
  /\ report \in [Report -> ReportState]
  /\ quoted \in [Report -> [Coin -> SUBSET Nat]]

\* createdAt of a balance is one of the past.
Stamped(r) ==
  report[r].pc \in Live => report[r].of \in Agent /\ report[r].born \in 1..clock

\* The rows of a transaction: those still to be placed, and those placed.
Rowed(r) ==
  /\ report[r].pc = "idle" => report[r].missed = {}
  /\ report[r].pc \in {"ready", "committed"} => report[r].todo = {}
  /\ report[r].todo \cap report[r].missed = {}
  /\ \A t \in report[r].todo \cup report[r].missed : report[r].at[t] = 0
  /\ r \in Open => \A t \in Coin : UsdPrice(t) \in quoted[r][t]
  /\ report[r].pc \in Live => \A t \in DOMAIN report[r].holds :
       /\ t = USDC => report[r].at[t] = 1
       /\ t # USDC => \/ t \in report[r].todo \/ t \in report[r].missed
                      \/ report[r].at[t] \in quoted[r][t]

\* Balances are told apart by createdAt; a transaction older than another
\* balance of its agent overlapped with its report.
Raced ==
  \A x, r \in Report : x # r /\ report[x].pc \in Live /\ report[r].pc \in Live =>
    /\ report[x].born # report[r].born
    /\ x \in Open /\ report[x].of = report[r].of /\ report[x].born < report[r].born =>
         {x, r} \in overlap

\* An agent with balances has a first and a latest one.
IsFirst(m, a) == m \in Balances(a) /\ \A x \in Balances(a) : report[m].born <= report[x].born
IsLatest(m, a) == m \in Balances(a) /\ \A x \in Balances(a) : report[x].born <= report[m].born
Extremes(a) ==
  Balances(a) # {} => (\E m \in Report : IsFirst(m, a)) /\ (\E m \in Report : IsLatest(m, a))

ReportInv ==
  /\ Prices
  /\ \A r \in Report : Stamped(r) /\ Rowed(r)
  /\ Raced
  /\ \A a \in Agent : Extremes(a)

\* Queries are records; what one has read of its agent is a balance of it.
Fields(x) == [pc |-> x.pc, of |-> x.of, name |-> x.name, by |-> x.by, first |-> x.first,
              latest |-> x.latest, pnl |-> x.pnl, balance |-> x.balance]
Shaped ==
  /\ query = [q \in Query |-> Fields(query[q])]
  /\ sync \in [Sync -> SyncState]
  /\ cache \in [Name -> Query \cup {"none"}]
  /\ lmd \in [Agent -> Query \cup {"none"}]
Asked(q) ==
  /\ query[q].pc \in {"value", "write"} => query[q].of \in Agent /\ query[q].name \in Name
  /\ query[q].pc = "idle" => query[q].of = "none" /\ query[q].latest = "none"
  /\ query[q].latest # "none" => query[q].of \in Agent /\ query[q].latest \in Balances(query[q].of)

\* A query at work, or carried by the sync, that has seen less than another
\* overlapped with it.
Behind(q, p) == p # q /\ AtWork(q) /\ Older(q, p)
QueryInv ==
  /\ Shaped
  /\ \A q \in Query : Asked(q)
  /\ \A p, q \in Query : Behind(q, p) => {p, q} \in overlap

BalanceInv == ReportInv /\ QueryInv
-----------------------------------------------------------------------------
LEMMA BalanceInit == Init => BalanceInv
<1> SUFFICES ASSUME Init PROVE BalanceInv
  OBVIOUS
<1>1. NoReport \in ReportState
  BY DEF NoReport, ReportState, Coin
<1>2. Prices
  BY <1>1 DEF Init, Prices
<1>3. \A r \in Report : report[r].pc = "idle" /\ report[r].todo = {} /\ report[r].missed = {}
  BY DEF Init, NoReport
<1>4. ReportInv
  BY <1>2, <1>3 DEF ReportInv, Stamped, Rowed, Raced, Extremes, Balances, Committed, Open, Live
<1>5. \A q \in Query : query[q].pc = "idle" /\ query[q].of = "none" /\ query[q].latest = "none"
  BY DEF Init, NoQuery
<1>6. Shaped
  BY DEF Init, NoQuery, NewSync, SyncState, Shaped, Fields
<1>7. \A p, q \in Query : ~Behind(q, p)
  BY <1>5 DEF Behind, Older, Born
<1> QED
  BY <1>4, <1>5, <1>6, <1>7 DEF BalanceInv, QueryInv, Asked

\* A step writes the record of one report.
LEMMA SetReport ==
  ASSUME Prices, NEW r \in Report, NEW rec \in ReportState, report' = [report EXCEPT ![r] = rec]
  PROVE  /\ report' \in [Report -> ReportState] /\ report'[r] = rec
         /\ \A x \in Report \ {r} : report'[x] = report[x]
BY DEF Prices

\* Queries rest on balances that stay.
LEMMA QueryKept ==
  ASSUME QueryInv, UNCHANGED <<query, cache, sync, lmd>>, overlap \subseteq overlap',
         \A x \in Committed : x \in Committed' /\ report'[x] = report[x]
  PROVE  QueryInv'
<1>1. Shaped'
  BY DEF QueryInv, Shaped
<1>2. \A q \in Query : Asked(q)'
  BY DEF QueryInv, Asked, Balances
<1>3. \A q \in Query : Born(query[q].latest)' = Born(query[q].latest)
  BY DEF QueryInv, Asked, Balances, Born
<1>4. \A p, q \in Query : Behind(q, p)' => Behind(q, p)
  BY <1>3 DEF Behind, Older, AtWork, Carried
<1> QED
  BY <1>1, <1>2, <1>4 DEF QueryInv
-----------------------------------------------------------------------------
\* A report goes on, or fails: its balance keeps its agent and its time.
Onward(r) ==
  /\ Prices' /\ Rowed(r)'
  /\ \A x \in Report \ {r} : report'[x] = report[x]
  /\ report[r].pc # "committed"
  /\ report'[r].pc \in Live =>
       /\ report[r].pc \in {"open", "ready"}
       /\ report'[r].of = report[r].of /\ report'[r].born = report[r].born

LEMMA OnwardKeeps ==
  ASSUME BalanceInv, NEW r \in Report, Onward(r), OnlyReport
  PROVE  BalanceInv'
<1> USE DEF BalanceInv, OnlyReport
<1>1. \A x \in Report : Stamped(x)' /\ Rowed(x)'
  <2> SUFFICES ASSUME NEW x \in Report, x # r PROVE Stamped(x)' /\ Rowed(x)'
    BY DEF ReportInv, Onward, Stamped, Live
  <2> QED
    BY DEF ReportInv, Onward, Stamped, Rowed, Open, UsdPrice
<1>2. \A x \in Report : report'[x].pc \in Live =>
        report[x].pc \in Live /\ report'[x].of = report[x].of /\ report'[x].born = report[x].born
  BY DEF Onward, Live
<1>3. Open' \subseteq Open
  BY DEF Onward, Open, Live
<1>4. Raced'
  BY <1>2, <1>3 DEF ReportInv, Raced
<1>5. \A x \in Committed : x \in Committed' /\ report'[x] = report[x]
  BY DEF Onward, Committed
<1>6. \A x \in Committed' : x \in Committed \/ x = r
  BY DEF Onward, Committed
<1>7. ASSUME NEW a \in Agent PROVE Extremes(a)'
  <2>1. \A x \in Balances(a) : x \in Balances(a)' /\ report'[x].born = report[x].born
    BY <1>5 DEF Balances
  <2>2. \A x \in Balances(a)' : x \in Balances(a) \/ x = r
    BY <1>5, <1>6 DEF Balances
  <2>3. \A x \in Balances(a) : report[x].born \in Int
    BY DEF ReportInv, Prices, ReportState, Balances, Committed
  <2>4. r \in Balances(a)' => report'[r].born \in Int
    BY DEF Onward, Prices, ReportState
  <2>5. CASE Balances(a) = {}
    BY <2>2, <2>4, <2>5 DEF Extremes, IsFirst, IsLatest
  <2>6. CASE Balances(a) # {}
    <3>1. PICK m \in Report : IsFirst(m, a)
      BY <2>6 DEF ReportInv, Extremes
    <3>2. PICK n \in Report : IsLatest(n, a)
      BY <2>6 DEF ReportInv, Extremes
    <3>3. m \in Balances(a) /\ n \in Balances(a)
      BY <3>1, <3>2 DEF IsFirst, IsLatest
    <3>4. IsFirst(m, a)' \/ IsFirst(r, a)'
      BY <2>1, <2>2, <2>3, <2>4, <3>1, <3>3 DEF IsFirst
    <3>5. IsLatest(n, a)' \/ IsLatest(r, a)'
      BY <2>1, <2>2, <2>3, <2>4, <3>2, <3>3 DEF IsLatest
    <3> QED
      BY <3>4, <3>5 DEF Extremes
  <2> QED
    BY <2>5, <2>6
<1>8. QueryInv'
  BY <1>5, QueryKept
<1> QED
  BY <1>1, <1>4, <1>7, <1>8 DEF ReportInv, Onward

LEMMA FailedIsReport == [NoReport EXCEPT !.pc = "failed"] \in ReportState
BY DEF NoReport, ReportState, Coin

LEMMA Refused ==
  ASSUME BalanceInv, NEW r \in Report, Refuse(r)
  PROVE  BalanceInv'
<1> USE DEF BalanceInv
<1> DEFINE rec == [report[r] EXCEPT !.pc = "failed"]
<1>1. /\ report[r] \in ReportState /\ report[r].pc = "idle" /\ Prices
      /\ report' = [report EXCEPT ![r] = rec] /\ OnlyReport
  BY DEF Refuse, ReportInv, Prices
<1>2. rec \in ReportState /\ rec.pc = "failed" /\ rec.todo = report[r].todo
      /\ rec.missed = report[r].missed /\ rec.at = report[r].at
  BY <1>1 DEF ReportState
<1> HIDE DEF rec
<1>3. report' \in [Report -> ReportState] /\ report'[r] = rec
      /\ \A x \in Report \ {r} : report'[x] = report[x]
  BY <1>1, <1>2, SetReport
<1>4. Onward(r)
  BY <1>1, <1>2, <1>3 DEF Onward, OnlyReport, ReportInv, Prices, Rowed, Open, Live
<1> QED
  BY <1>1, <1>4, OnwardKeeps

LEMMA Aborted ==
  ASSUME BalanceInv, NEW r \in Report, Abort(r)
  PROVE  BalanceInv'
<1> USE DEF BalanceInv
<1> DEFINE rec == [NoReport EXCEPT !.pc = "failed"]
<1>1. /\ report[r].pc # "committed" /\ Prices
      /\ report' = [report EXCEPT ![r] = rec] /\ OnlyReport
  BY DEF Abort, Open, ReportInv
<1>2. rec \in ReportState /\ rec.pc = "failed" /\ rec.todo = {} /\ rec.missed = {}
  BY FailedIsReport DEF NoReport
<1> HIDE DEF rec
<1>3. report' \in [Report -> ReportState] /\ report'[r] = rec
      /\ \A x \in Report \ {r} : report'[x] = report[x]
  BY <1>1, <1>2, SetReport
<1>4. Onward(r)
  BY <1>1, <1>2, <1>3 DEF Onward, OnlyReport, ReportInv, Prices, Rowed, Open, Live
<1> QED
  BY <1>1, <1>4, OnwardKeeps

LEMMA Placed ==
  ASSUME BalanceInv, NEW r \in Report, NEW t \in Coin, Place(r, t)
  PROVE  BalanceInv'
<1> USE DEF BalanceInv
<1> DEFINE priced == [report[r] EXCEPT !.todo = report[r].todo \ {t},
                        !.at = [report[r].at EXCEPT ![t] = UsdPrice(t)]]
           unread == [report[r] EXCEPT !.todo = report[r].todo \ {t},
                        !.missed = report[r].missed \cup {t}]
<1>1. /\ report[r] \in ReportState /\ report[r].pc = "open" /\ t \in report[r].todo /\ OnlyReport
      /\ Prices /\ Rowed(r) /\ r \in Open
  BY DEF Place, ReportInv, Prices, Open
<1>2. UsdPrice(t) \in Nat /\ UsdPrice(t) \in quoted[r][t] /\ t # USDC /\ t \in Token
  BY <1>1 DEF Prices, Rowed, UsdPrice, Coin
<1>3. CASE report' = [report EXCEPT ![r] = priced]
  <2>1. priced \in ReportState
    BY <1>1, <1>2 DEF ReportState
  <2>2. /\ priced.pc = "open" /\ priced.of = report[r].of /\ priced.born = report[r].born
        /\ priced.holds = report[r].holds /\ priced.missed = report[r].missed
        /\ priced.todo = report[r].todo \ {t}
        /\ priced.at = [report[r].at EXCEPT ![t] = UsdPrice(t)]
    BY <1>1 DEF ReportState
  <2>3. report[r].at \in [Token -> Nat]
    BY <1>1 DEF ReportState
  <2> HIDE DEF priced
  <2>4. report' \in [Report -> ReportState] /\ report'[r] = priced
        /\ \A x \in Report \ {r} : report'[x] = report[x]
    BY <1>1, <1>3, <2>1, SetReport
  <2>5. /\ priced.at[t] = UsdPrice(t)
        /\ \A u \in Token \ {t} : priced.at[u] = report[r].at[u]
    BY <1>2, <2>2, <2>3
  <2>6. DOMAIN report[r].holds \subseteq Token
    BY <1>1 DEF ReportState
  <2>7. Rowed(r)'
    <3>1. t \notin priced.todo \cup priced.missed
      BY <1>1, <2>2 DEF Rowed
    <3>2. priced.todo \cup priced.missed \subseteq Token
      BY <2>1 DEF ReportState, Coin
    <3>3. \A u \in priced.todo \cup priced.missed : priced.at[u] = 0
      BY <1>1, <2>2, <2>5, <3>1, <3>2 DEF Rowed
    <3>4. \A u \in Coin : UsdPrice(u)' \in quoted'[r][u]
      BY <1>1 DEF Rowed, OnlyReport, UsdPrice
    <3>5. ASSUME NEW u \in DOMAIN priced.holds
          PROVE  /\ u = USDC => priced.at[u] = 1
                 /\ u # USDC => u \in priced.todo \/ u \in priced.missed \/ priced.at[u] \in quoted[r][u]
      BY <1>1, <1>2, <2>2, <2>5, <2>6 DEF Rowed, Live
    <3> QED
      BY <1>1, <2>2, <2>4, <3>1, <3>3, <3>4, <3>5 DEF Rowed, OnlyReport
  <2> QED
    BY <1>1, <2>2, <2>4, <2>7, OnwardKeeps DEF Onward, OnlyReport, Prices, Live
<1>4. CASE report' = [report EXCEPT ![r] = unread]
  <2>1. unread \in ReportState
    BY <1>1 DEF ReportState
  <2>2. /\ unread.pc = "open" /\ unread.of = report[r].of /\ unread.born = report[r].born
        /\ unread.holds = report[r].holds /\ unread.missed = report[r].missed \cup {t}
        /\ unread.todo = report[r].todo \ {t} /\ unread.at = report[r].at
    BY <1>1 DEF ReportState
  <2> HIDE DEF unread
  <2>3. report' \in [Report -> ReportState] /\ report'[r] = unread
        /\ \A x \in Report \ {r} : report'[x] = report[x]
    BY <1>1, <1>4, <2>1, SetReport
  <2>4. \A u \in Coin : UsdPrice(u)' \in quoted'[r][u]
    BY <1>1 DEF Rowed, OnlyReport, UsdPrice
  <2>5. Rowed(r)'
    BY <1>1, <2>2, <2>3, <2>4 DEF Rowed, OnlyReport, Live
  <2> QED
    BY <1>1, <2>2, <2>3, <2>5, OnwardKeeps DEF Onward, OnlyReport, Prices, Live
<1> QED
  BY <1>3, <1>4 DEF Place

\* The balance being valued is not committed, so nothing is stored.
LEMMA Calculated ==
  ASSUME BalanceInv, NEW r \in Report, Calculate(r) \/ Commit(r)
  PROVE  BalanceInv'
<1> USE DEF BalanceInv
<1>1. /\ report[r] \in ReportState /\ report[r].pc \in {"open", "ready"} /\ report[r].todo = {}
      /\ OnlyReport /\ Prices /\ Rowed(r) /\ r \in Open
  BY DEF Calculate, Commit, ReportInv, Prices, Open, Rowed
<1>2. PICK rec \in ReportState :
        /\ report' = [report EXCEPT ![r] = rec] /\ rec.pc \in {"ready", "committed"}
        /\ rec.of = report[r].of /\ rec.born = report[r].born /\ rec.holds = report[r].holds
        /\ rec.missed = report[r].missed /\ rec.todo = {} /\ rec.at = report[r].at
  <2>1. CASE Calculate(r)
    <3>1. r \notin Committed
      BY <2>1 DEF Calculate, Committed
    <3>2. report' = [report EXCEPT ![r] = [report[r] EXCEPT !.pc = "ready", !.stored = report[r].stored]]
      BY <2>1, <3>1 DEF Calculate
    <3> DEFINE rec == [report[r] EXCEPT !.pc = "ready", !.stored = report[r].stored]
    <3>3. rec \in ReportState /\ rec.pc = "ready"
          /\ rec.of = report[r].of /\ rec.born = report[r].born /\ rec.holds = report[r].holds
          /\ rec.missed = report[r].missed /\ rec.todo = {} /\ rec.at = report[r].at
      BY <1>1 DEF ReportState
    <3> QED
      BY <3>2, <3>3
  <2>2. CASE Commit(r)
    <3> DEFINE rec == [report[r] EXCEPT !.pc = "committed"]
    <3>1. report' = [report EXCEPT ![r] = rec]
      BY <2>2 DEF Commit
    <3>2. rec \in ReportState /\ rec.pc = "committed"
          /\ rec.of = report[r].of /\ rec.born = report[r].born /\ rec.holds = report[r].holds
          /\ rec.missed = report[r].missed /\ rec.todo = {} /\ rec.at = report[r].at
      BY <1>1 DEF ReportState
    <3> QED
      BY <3>1, <3>2
  <2> QED
    BY <2>1, <2>2
<1>3. report' \in [Report -> ReportState] /\ report'[r] = rec
      /\ \A x \in Report \ {r} : report'[x] = report[x]
  BY <1>1, <1>2, SetReport
<1>4. \A u \in Coin : UsdPrice(u)' \in quoted'[r][u]
  BY <1>1 DEF Rowed, OnlyReport, UsdPrice
<1>5. Rowed(r)'
  BY <1>1, <1>2, <1>3, <1>4 DEF Rowed, OnlyReport, Live
<1> QED
  BY <1>1, <1>2, <1>3, <1>5, OnwardKeeps DEF Onward, OnlyReport, Prices, Live

LEMMA Begun ==
  ASSUME BalanceInv, NEW r \in Report, NEW n \in Name, NEW holds \in Portfolio,
         NEW a \in Reporter(n), Begin(r, a, holds)
  PROVE  BalanceInv'
<1> USE DEF BalanceInv
<1> DEFINE rec == [report[r] EXCEPT !.pc = "open", !.of = a, !.holds = holds,
                     !.born = clock + 1, !.todo = DOMAIN holds \cap Coin,
                     !.at = [t \in Token |-> IF t \in Coin THEN 0 ELSE 1]]
           rates == [t \in Coin |-> {UsdPrice(t)}]
<1>1. /\ report[r] \in ReportState /\ report[r].pc = "idle" /\ Prices /\ Rowed(r)
      /\ report' = [report EXCEPT ![r] = rec] /\ clock' = clock + 1
      /\ quoted' = [quoted EXCEPT ![r] = rates]
      /\ overlap' = overlap \cup {{r, x} : x \in {y \in Open : report[y].of = a}}
      /\ UNCHANGED <<price, moves, query, cache, fresh, sync, lmd>>
  BY DEF Begin, ReportInv, Prices
<1>2. a \in Agent
  BY DEF Reporter
<1>3. DOMAIN holds \subseteq Token
  OBVIOUS
<1>4. rec \in ReportState
  <2>1. clock + 1 \in Nat /\ DOMAIN holds \cap Coin \in SUBSET Coin
    BY <1>1 DEF Prices
  <2>2. [t \in Token |-> IF t \in Coin THEN 0 ELSE 1] \in [Token -> Nat]
    OBVIOUS
  <2> QED
    BY <1>1, <1>2, <2>1, <2>2 DEF ReportState
<1>5. /\ rec.pc = "open" /\ rec.of = a /\ rec.holds = holds /\ rec.born = clock + 1
      /\ rec.todo = DOMAIN holds \cap Coin /\ rec.missed = {}
      /\ rec.at = [t \in Token |-> IF t \in Coin THEN 0 ELSE 1]
  BY <1>1 DEF ReportState, Rowed
<1>6. rates \in [Coin -> SUBSET Nat]
  BY <1>1 DEF UsdPrice, Prices
<1> HIDE DEF rec
<1>7. report' \in [Report -> ReportState] /\ report'[r] = rec
      /\ \A x \in Report \ {r} : report'[x] = report[x]
  BY <1>1, <1>4, SetReport
<1>8. /\ quoted' \in [Report -> [Coin -> SUBSET Nat]] /\ quoted'[r] = rates
      /\ \A x \in Report \ {r} : quoted'[x] = quoted[x]
  BY <1>1, <1>6 DEF Prices
<1>9. \A t \in Coin : UsdPrice(t)' = UsdPrice(t) /\ UsdPrice(t) \in rates[t]
  BY <1>1 DEF UsdPrice
<1> HIDE DEF rates
<1>10. Prices'
  BY <1>1, <1>7, <1>8 DEF Prices
<1>11. Rowed(r)'
  <2>1. \A t \in rec.todo \cup rec.missed : rec.at[t] = 0
    BY <1>3, <1>5
  <2>2. \A t \in DOMAIN rec.holds : (t = USDC => rec.at[t] = 1) /\ (t # USDC => t \in rec.todo)
    BY <1>3, <1>5 DEF Coin
  <2>3. \A t \in Coin : UsdPrice(t)' \in quoted'[r][t]
    BY <1>8, <1>9
  <2>4. report'[r].pc = "open" /\ report'[r].missed = {} /\ report'[r] = rec
    BY <1>5, <1>7
  <2> QED
    BY <2>1, <2>2, <2>3, <2>4 DEF Rowed
<1>12. \A x \in Report : Rowed(x)'
  <2> SUFFICES ASSUME NEW x \in Report, x # r PROVE Rowed(x)'
    BY <1>11
  <2>1. x \in Open' => x \in Open
    BY <1>7 DEF Open
  <2> QED
    BY <1>1, <1>7, <1>8, <1>9, <2>1 DEF ReportInv, Rowed
<1>13. \A x \in Report : Stamped(x)'
  <2> SUFFICES ASSUME NEW x \in Report PROVE Stamped(x)'
    OBVIOUS
  <2>1. CASE x = r
    BY <1>1, <1>2, <1>5, <1>7, <2>1 DEF Stamped, Prices
  <2>2. CASE x # r
    BY <1>1, <1>7, <2>2 DEF Stamped, ReportInv, Prices
  <2> QED
    BY <2>1, <2>2
<1>14. Raced'
  <2> SUFFICES ASSUME NEW x \in Report, NEW y \in Report, x # y,
                      report'[x].pc \in Live, report'[y].pc \in Live
               PROVE  /\ report'[x].born # report'[y].born
                      /\ x \in Open' /\ report'[x].of = report'[y].of
                           /\ report'[x].born < report'[y].born => {x, y} \in overlap'
    BY DEF Raced, Live
  <2>1. \A z \in Report \ {r} : report'[z].pc \in Live => report[z].born \in 1..clock
    BY <1>7 DEF ReportInv, Stamped
  <2>2. CASE x # r /\ y # r
    BY <1>1, <1>7, <2>2 DEF ReportInv, Raced, Open
  <2>3. CASE x = r
    BY <1>1, <1>5, <1>7, <2>1, <2>3 DEF Prices
  <2>4. CASE y = r
    <3>1. x \in Open' => x \in Open
      BY <1>7, <2>4 DEF Open
    <3>2. x \in Open' /\ report'[x].of = a => {r, x} \in overlap'
      BY <1>1, <1>7, <2>4, <3>1
    <3>3. {x, y} = {r, x} /\ report'[y].of = a
      BY <1>5, <1>7, <2>4
    <3>4. report'[x].born # report'[y].born
      BY <1>1, <1>5, <1>7, <2>1, <2>4 DEF Prices
    <3> QED
      BY <3>2, <3>3, <3>4
  <2> QED
    BY <2>2, <2>3, <2>4
<1>15. \A x \in Report : x \in Committed' <=> x \in Committed
  BY <1>1, <1>5, <1>7 DEF Committed
<1>16. \A x \in Committed : x \in Committed' /\ report'[x] = report[x]
  BY <1>1, <1>7, <1>15 DEF Committed
<1>17. \A b \in Agent : Extremes(b)'
  <2> SUFFICES ASSUME NEW b \in Agent PROVE Extremes(b)'
    OBVIOUS
  <2>1. Balances(b)' = Balances(b)
    BY <1>15, <1>16 DEF Balances, Committed
  <2>2. \A x \in Balances(b) : report'[x] = report[x]
    BY <1>16 DEF Balances
  <2> QED
    BY <2>1, <2>2 DEF ReportInv, Extremes, IsFirst, IsLatest
<1>18. QueryInv'
  BY <1>1, <1>16, QueryKept
<1> QED
  BY <1>10, <1>12, <1>13, <1>14, <1>17, <1>18 DEF ReportInv

LEMMA Moved ==
  ASSUME BalanceInv, NEW t \in Coin, NEW p \in Price, Move(t, p)
  PROVE  BalanceInv'
<1> USE DEF BalanceInv
<1>1. /\ Prices /\ UNCHANGED <<clock, report, query, cache, fresh, sync, lmd, overlap>>
      /\ price' = [price EXCEPT ![t] = p]
      /\ quoted' = [r \in Report |-> IF r \notin Open \/ Listings[t] = 0 THEN quoted[r]
                                     ELSE [quoted[r] EXCEPT ![t] = quoted[r][t] \cup {p}]]
  BY DEF Move, ReportInv
<1>2. Prices'
  BY <1>1 DEF Prices
<1>3. \A r \in Report, u \in Coin : quoted[r][u] \subseteq quoted'[r][u]
  BY <1>1 DEF Prices
<1>4. \A r \in Open, u \in Coin : UsdPrice(u) \in quoted[r][u] => UsdPrice(u)' \in quoted'[r][u]
  BY <1>1 DEF Prices, UsdPrice, Open
<1>5. ASSUME NEW r \in Report PROVE Rowed(r)'
  <2>1. r \in Open => \A u \in Coin : UsdPrice(u)' \in quoted'[r][u]
    BY <1>4 DEF ReportInv, Rowed
  <2>2. DOMAIN report[r].holds \subseteq Token
    BY <1>1 DEF Prices, ReportState
  <2> QED
    BY <1>1, <1>3, <2>1, <2>2 DEF ReportInv, Rowed, Open, Coin
<1>6. \A x \in Committed : x \in Committed' /\ report'[x] = report[x]
  BY <1>1 DEF Committed
<1>7. QueryInv'
  BY <1>1, <1>6, QueryKept
<1> QED
  BY <1>1, <1>2, <1>5, <1>7
     DEF ReportInv, Stamped, Raced, Open, Extremes, IsFirst, IsLatest, Balances, Committed
-----------------------------------------------------------------------------
\* A step writes the record of one query.
LEMMA SetQuery ==
  ASSUME Shaped, NEW q \in Query, NEW rec, rec = Fields(rec), query' = [query EXCEPT ![q] = rec],
         cache' \in [Name -> Query \cup {"none"}], lmd' \in [Agent -> Query \cup {"none"}],
         sync' = sync
  PROVE  /\ Shaped' /\ query'[q] = rec
         /\ \A x \in Query \ {q} : query'[x] = query[x]
<1>1. query'[q] = rec /\ \A x \in Query \ {q} : query'[x] = query[x]
  BY DEF Shaped
<1>2. \A x \in Query : query[x] = Fields(query[x])
  BY DEF Shaped
<1>3. \A x \in Query : query'[x] = Fields(query'[x])
  BY <1>1, <1>2
<1>4. query' = [x \in Query |-> query'[x]]
  BY DEF Shaped
<1> QED
  BY <1>1, <1>3, <1>4 DEF Shaped

LEMMA ReportsKept ==
  ASSUME ReportInv, UNCHANGED <<price, clock, report, quoted>>, overlap \subseteq overlap'
  PROVE  ReportInv'
BY DEF ReportInv, Prices, Stamped, Rowed, Raced, Open, UsdPrice, Extremes, IsFirst,
       IsLatest, Balances, Committed

\* A query goes on with what it has read.
LEMMA QueryGoesOn ==
  ASSUME BalanceInv, NEW q \in Query, NEW rec, rec = Fields(rec), OnlyQuery, overlap' = overlap,
         query' = [query EXCEPT ![q] = rec], rec.of = query[q].of, rec.name = query[q].name,
         rec.by = query[q].by, rec.latest = query[q].latest,
         rec.pc \in {"over", "failed"} \/ (rec.pc = "write" /\ query[q].pc = "value"),
         cache' \in [Name -> Query \cup {"none"}], lmd' \in [Agent -> Query \cup {"none"}]
  PROVE  BalanceInv'
<1> USE DEF BalanceInv
<1>1. /\ Shaped' /\ query'[q] = rec
      /\ \A x \in Query \ {q} : query'[x] = query[x]
  BY SetQuery DEF QueryInv, OnlyQuery
<1>2. \A x \in Query : /\ query'[x].of = query[x].of /\ query'[x].name = query[x].name
                       /\ query'[x].latest = query[x].latest /\ query'[x].by = query[x].by
                       /\ query'[x].pc \in {"value", "write"} => query[x].pc \in {"value", "write"}
                       /\ query'[x].pc = "idle" => query[x].pc = "idle"
  BY <1>1
<1>3. \A x \in Query : Asked(x)'
  BY <1>2 DEF QueryInv, Asked, OnlyQuery, Balances, Committed
<1>4. \A p, x \in Query : Behind(x, p)' => Behind(x, p)
  BY <1>2 DEF Behind, Older, Born, OnlyQuery, AtWork, Carried
<1> QED
  BY <1>1, <1>3, <1>4, ReportsKept DEF QueryInv, OnlyQuery

LEMMA Answered ==
  ASSUME BalanceInv, NEW q \in Query, NEW n \in Name, Answer(q, n)
  PROVE  BalanceInv'
<1> DEFINE rec == [query[q] EXCEPT !.pc = "over"]
<1>1. query[q] = Fields(query[q]) /\ Shaped
  BY DEF BalanceInv, QueryInv, Shaped
<1>2. rec = Fields(rec) /\ rec.of = query[q].of /\ rec.name = query[q].name
      /\ rec.by = query[q].by /\ rec.latest = query[q].latest /\ rec.pc = "over"
  BY <1>1 DEF Fields
<1>3. query' = [query EXCEPT ![q] = rec] /\ OnlyQuery /\ overlap' = overlap
      /\ cache' = cache /\ lmd' = lmd
  BY <1>1 DEF Answer, Over, Shaped
<1> QED
  BY <1>1, <1>2, <1>3, QueryGoesOn DEF Shaped

LEMMA Written ==
  ASSUME BalanceInv, NEW q \in Query, UpdateLatestMarketData(q)
  PROVE  BalanceInv'
<1> DEFINE rec == [query[q] EXCEPT !.pc = "over"]
<1>1. query[q] = Fields(query[q]) /\ Shaped
  BY DEF BalanceInv, QueryInv, Shaped
<1>2. rec = Fields(rec) /\ rec.of = query[q].of /\ rec.name = query[q].name
      /\ rec.by = query[q].by /\ rec.latest = query[q].latest /\ rec.pc = "over"
  BY <1>1 DEF Fields
<1>3. query' = [query EXCEPT ![q] = rec] /\ OnlyQuery /\ overlap' = overlap /\ cache' = cache
      /\ (lmd' = lmd \/ lmd' = [lmd EXCEPT ![query[q].of] = q])
  BY <1>1 DEF UpdateLatestMarketData, Over, Shaped
<1>4. cache' \in [Name -> Query \cup {"none"}] /\ lmd' \in [Agent -> Query \cup {"none"}]
  BY <1>1, <1>3 DEF Shaped
<1> HIDE DEF rec
<1> QED
  BY <1>2, <1>3, <1>4, QueryGoesOn

LEMMA Computed ==
  ASSUME BalanceInv, NEW q \in Query, CalculatePnL(q)
  PROVE  BalanceInv'
<1>1. query[q] = Fields(query[q]) /\ Shaped /\ query[q].pc = "value" /\ OnlyQuery
      /\ overlap' = overlap /\ lmd' = lmd
  BY DEF BalanceInv, QueryInv, Shaped, CalculatePnL
<1>2. CASE query' = Over(q, "failed") /\ UNCHANGED <<cache, fresh>>
  <2> DEFINE rec == [query[q] EXCEPT !.pc = "failed"]
  <2>1. rec = Fields(rec) /\ rec.of = query[q].of /\ rec.name = query[q].name
        /\ rec.by = query[q].by /\ rec.latest = query[q].latest /\ rec.pc = "failed"
    BY <1>1 DEF Fields
  <2>2. query' = [query EXCEPT ![q] = rec]
    BY <1>1, <1>2 DEF Over, Shaped
  <2> QED
    BY <1>1, <1>2, <2>1, <2>2, QueryGoesOn DEF Shaped
<1>3. CASE /\ query' = [query EXCEPT ![q] = Calculation(q)]
           /\ cache' = [cache EXCEPT ![query[q].name] = q]
  <2> DEFINE value == IF query[q].latest = "none" THEN 0 ELSE Value(report[query[q].latest].holds)
  <2>1. PICK x, balance, pnl :
          /\ x = query[q] /\ balance = value
          /\ pnl = IF query[q].first = "none" THEN 0
                   ELSE value - Baseline(query[q].first, query[q].latest, value)
    OBVIOUS
  <2>2. PICK rec : rec = [x EXCEPT !.pc = "write", !.balance = balance, !.pnl = pnl]
    OBVIOUS
  <2>3. Calculation(q) = rec
    BY <2>1, <2>2, Zenon DEF Calculation
  <2>4. rec = Fields(rec) /\ rec.of = x.of /\ rec.name = x.name /\ rec.by = x.by /\ rec.latest = x.latest
        /\ rec.pc = "write"
    <3>1. x = Fields(x)
      BY <1>1, <2>1
    <3> QED
      BY <2>2, <3>1 DEF Fields
  <2> HIDE DEF value
  <2>5. /\ query' = [query EXCEPT ![q] = rec] /\ cache' \in [Name -> Query \cup {"none"}]
        /\ lmd' \in [Agent -> Query \cup {"none"}]
    BY <1>1, <1>3, <2>3 DEF Shaped
  <2> QED
    BY <1>1, <2>1, <2>4, <2>5, QueryGoesOn
<1> QED
  BY <1>2, <1>3 DEF CalculatePnL

\* The queries of the agent that are at work are behind at most by overlap,
\* and what is read now is behind nothing.
LEMMA BalancesRead ==
  ASSUME BalanceInv, NEW q \in Query, NEW n \in Name, NEW a \in Queried(n),
         NEW by \in Asking \cup {"none"}, ReadBalances(q, n, a, by)
  PROVE  BalanceInv'
<1> USE DEF BalanceInv
<1>1. PICK old, first, latest : old = query[q] /\ first = First(a) /\ latest = Latest(a)
  OBVIOUS
<1>2. PICK rec : rec = [old EXCEPT !.pc = "value", !.of = a, !.name = n, !.by = by,
                           !.first = first, !.latest = latest]
  OBVIOUS
<1>3. /\ old = Fields(old) /\ Shaped /\ old.pc = "idle" /\ OnlyQuery
      /\ query' = [query EXCEPT ![q] = rec] /\ UNCHANGED <<cache, fresh, lmd>>
      /\ overlap' = overlap \cup {{q, y} : y \in Busy(a)}
  BY <1>1, <1>2 DEF ReadBalances, QueryInv, Shaped
<1>4. a \in Agent
  BY DEF Queried
<1>5. rec = Fields(rec) /\ rec.pc = "value" /\ rec.of = a /\ rec.name = n /\ rec.latest = latest
  BY <1>3, <1>2 DEF Fields
<1>6. /\ Shaped' /\ query'[q] = rec
      /\ \A y \in Query \ {q} : query'[y] = query[y]
  BY <1>3, <1>5, SetQuery DEF Shaped, OnlyQuery
<1>7. Balances(a) = {} => Latest(a) = "none"
  BY DEF Latest
<1>8. Balances(a) # {} => IsLatest(Latest(a), a)
  <2> SUFFICES ASSUME Balances(a) # {} PROVE IsLatest(Latest(a), a)
    OBVIOUS
  <2>1. PICK m \in Balances(a) : \A x \in Balances(a) : report[x].born <= report[m].born
    BY <1>4 DEF ReportInv, Extremes, IsLatest
  <2>2. Latest(a) = CHOOSE r \in Balances(a) : \A x \in Balances(a) : report[x].born <= report[r].born
    BY DEF Latest
  <2> QED
    BY <2>1, <2>2 DEF IsLatest
<1>9. \A b \in Agent : Balances(b)' = Balances(b)
  BY <1>3 DEF OnlyQuery, Balances, Committed
<1>10. \A y \in Query : Asked(y)'
  BY <1>1, <1>4, <1>5, <1>6, <1>7, <1>8, <1>9 DEF QueryInv, Asked, IsLatest
<1>11. \A r \in Report : report[r].born \in Nat
  BY DEF ReportInv, Prices, ReportState
<1>12. ASSUME NEW p \in Query, NEW y \in Query, Behind(y, p)' PROVE {p, y} \in overlap'
  <2>1. p # y /\ query'[y].of = query'[p].of
        /\ (Born(query[y].latest) < Born(query[p].latest))'
    BY <1>12 DEF Behind, Older
  <2>2. /\ (Born(query[y].latest))' = Born(query'[y].latest)
        /\ (Born(query[p].latest))' = Born(query'[p].latest)
    BY <1>3 DEF Born, OnlyQuery
  <2>3. CASE y = q
    <3>1. query[p].of = a /\ p # q /\ query'[p] = query[p]
      BY <1>5, <1>6, <2>1, <2>3
    <3>2. Born(Latest(a)) < Born(query[p].latest)
      BY <1>1, <1>5, <1>6, <2>1, <2>2, <2>3, <3>1
    <3>3. query[p].latest # "none" => query[p].latest \in Balances(a)
      BY <3>1 DEF QueryInv, Asked
    <3>4. Born("none") = 0 /\ Born(Latest(a)) \in Nat
      BY <1>7, <1>8, <1>11 DEF Born, IsLatest, Balances, Committed
    <3>5. query[p].latest \in Balances(a)
      BY <3>2, <3>3, <3>4
    <3>6. Born(query[p].latest) <= Born(Latest(a))
      BY <1>8, <3>5 DEF IsLatest, Born, Balances, Committed
    <3>7. Born(query[p].latest) \in Nat
      BY <1>11, <3>5 DEF Born, Balances, Committed
    <3> QED
      BY <3>2, <3>4, <3>6, <3>7
  <2>4. CASE y # q /\ p = q
    <3>1. y \in Busy(a)
      BY <1>3, <1>5, <1>6, <1>12, <2>1, <2>4 DEF Busy, Behind, AtWork, Carried, OnlyQuery
    <3> QED
      BY <1>3, <2>4, <3>1
  <2>5. CASE y # q /\ p # q
    <3>1. Behind(y, p)
      BY <1>3, <1>6, <1>12, <2>1, <2>2, <2>5 DEF Behind, Older, AtWork, Carried, OnlyQuery
    <3> QED
      BY <1>3, <3>1 DEF QueryInv
  <2> QED
    BY <2>3, <2>4, <2>5
<1> QED
  BY <1>3, <1>6, <1>10, <1>12, ReportsKept DEF QueryInv, OnlyQuery

\* A run of the sync goes on: what it has is written, or let go.
LEMMA Synced ==
  ASSUME BalanceInv, NEW s \in Sync, SyncPerformanceMetrics(s)
  PROVE  BalanceInv'
<1> USE DEF BalanceInv
<1>1. OnlySync /\ Shaped
  BY DEF SyncPerformanceMetrics, TakeAnswers, GiveUp, WriteMetrics, QueryInv
<1>2. /\ sync' \in [Sync -> SyncState]
      /\ \A x \in Sync : sync'[x].todo \subseteq sync[x].todo
  <2>1. CASE TakeAnswers(s)
    BY <1>1, <2>1 DEF TakeAnswers, Shaped, SyncState
  <2>2. CASE GiveUp(s)
    BY <1>1, <2>2 DEF GiveUp, Shaped, SyncState
  <2>3. ASSUME NEW a \in Agent, WriteMetrics(s, a) PROVE <1>2!:
    BY <1>1, <2>3 DEF WriteMetrics, Shaped, SyncState
  <2> QED
    BY <2>1, <2>2, <2>3 DEF SyncPerformanceMetrics
<1>3. lmd' \in [Agent -> Query \cup {"none"}]
  <2>1. CASE lmd' = lmd
    BY <1>1, <2>1 DEF Shaped
  <2>2. ASSUME NEW a \in Agent, NEW q \in Query \cup {"none"}, lmd' = [lmd EXCEPT ![a] = q]
        PROVE  <1>3!:
    BY <1>1, <2>2 DEF Shaped
  <2>3. ASSUME NEW a \in Agent, WriteMetrics(s, a)
        PROVE  lmd' = lmd \/ \E q \in Query \cup {"none"} : lmd' = [lmd EXCEPT ![a] = q]
    BY <2>3 DEF WriteMetrics, AskedBy
  <2> QED
    BY <2>1, <2>2, <2>3 DEF SyncPerformanceMetrics, TakeAnswers, GiveUp
<1>4. Shaped'
  BY <1>1, <1>2, <1>3 DEF Shaped, OnlySync
<1>5. ReportInv'
  BY <1>1, ReportsKept DEF OnlySync
<1>6. \A q \in Query : Asked(q)'
  BY <1>1 DEF QueryInv, Asked, OnlySync, Balances, Committed
<1>7. \A p, q \in Query : Behind(q, p)' => Behind(q, p)
  BY <1>1, <1>2 DEF Behind, Older, Born, AtWork, Carried, OnlySync
<1> QED
  BY <1>1, <1>4, <1>5, <1>6, <1>7 DEF QueryInv, OnlySync

LEMMA Aged ==
  ASSUME BalanceInv, NEW n \in Name, Age(n)
  PROVE  BalanceInv'
<1>1. \A x \in Committed : x \in Committed' /\ report'[x] = report[x]
  BY DEF Age, OnlyQuery, Committed
<1>2. ReportInv'
  BY ReportsKept DEF BalanceInv, Age, OnlyQuery
<1>3. QueryInv'
  BY <1>1, QueryKept DEF BalanceInv, Age, OnlyQuery
<1> QED
  BY <1>2, <1>3 DEF BalanceInv

LEMMA BalanceStutter == BalanceInv /\ UNCHANGED vars => BalanceInv'
<1> SUFFICES ASSUME BalanceInv, UNCHANGED vars PROVE BalanceInv'
  OBVIOUS
<1>1. \A x \in Committed : x \in Committed' /\ report'[x] = report[x]
  BY DEF vars, Committed
<1>2. ReportInv'
  BY ReportsKept DEF BalanceInv, vars, OnlyQuery
<1>3. QueryInv'
  BY <1>1, QueryKept DEF BalanceInv, vars
<1> QED
  BY <1>2, <1>3 DEF BalanceInv

LEMMA BalanceNext == BalanceInv /\ [Next]_vars => BalanceInv'
<1> SUFFICES ASSUME BalanceInv, [Next]_vars PROVE BalanceInv'
  OBVIOUS
<1>1. ASSUME NEW r \in Report, CreateAccountBalanceData(r) PROVE BalanceInv'
  BY <1>1, Begun, Refused, Placed, Calculated DEF CreateAccountBalanceData
<1>2. ASSUME NEW q \in Query, GetAgentPnL(q) PROVE BalanceInv'
  BY <1>2, Answered, BalancesRead, Computed, Written DEF GetAgentPnL
<1> QED
  BY <1>1, <1>2, Aborted, Moved, Synced, Aged, BalanceStutter DEF Next

\* Every step of the reports and queries of balances keeps what they know of each other.
THEOREM BalanceInvariance == Spec => []BalanceInv
BY BalanceInit, BalanceNext, PTL DEF Spec
-----------------------------------------------------------------------------
\* Calculate, Place, Commit: when a report commits every token of it has a
\* row, at a price there was meanwhile, or at 0 if it could not be read.
THEOREM CommittedArePriced == Spec => []PricedWhileOpen
<1>1. ASSUME BalanceInv, NEW r \in Committed, NEW t \in DOMAIN report[r].holds
      PROVE  \/ t = USDC /\ report[r].at[t] = 1
             \/ t # USDC /\ report[r].at[t] \in quoted[r][t]
             \/ t \in report[r].missed /\ report[r].at[t] = 0
  BY <1>1 DEF BalanceInv, ReportInv, Rowed, Committed, Live
<1>2. BalanceInv => PricedWhileOpen
  BY <1>1 DEF PricedWhileOpen
<1> QED
  BY <1>2, BalanceInvariance, PTL

\* What is committed stays, and what was not was open.
LEMMA CommitOnly ==
  ASSUME BalanceInv, [Next]_vars
  PROVE  /\ overlap \subseteq overlap'
         /\ \A x \in Committed : x \in Committed' /\ report'[x] = report[x]
         /\ \A x \in Committed' \ Committed :
              x \in Open /\ report'[x].of = report[x].of /\ report'[x].born = report[x].born
<1> DEFINE Kept == /\ overlap \subseteq overlap'
                   /\ \A x \in Committed : x \in Committed' /\ report'[x] = report[x]
                   /\ \A x \in Committed' \ Committed :
                        x \in Open /\ report'[x].of = report[x].of /\ report'[x].born = report[x].born
<1>1. report \in [Report -> ReportState]
  BY DEF BalanceInv, ReportInv, Prices
<1>2. ASSUME UNCHANGED report, overlap \subseteq overlap' PROVE Kept
  BY <1>2 DEF Committed
<1>3. ASSUME NEW r \in Report, r \notin Committed, NEW rec, rec.pc # "committed", OnlyReport,
             report' = [report EXCEPT ![r] = rec]
      PROVE  Kept
  BY <1>1, <1>3 DEF Committed, OnlyReport
<1>4. ASSUME NEW r \in Report, CreateAccountBalanceData(r) PROVE Kept
  <2>1. CASE \E n \in Name, h \in Portfolio : \E a \in Reporter(n) : Begin(r, a, h)
    BY <1>1, <1>4, <2>1 DEF Begin, ReportState, Committed
  <2>2. CASE Refuse(r)
    BY <1>1, <1>4, <2>2 DEF Refuse, OnlyReport, ReportState, Committed
  <2>4. ASSUME NEW t \in Coin, Place(r, t) PROVE Kept
    <3> DEFINE priced == [report[r] EXCEPT !.todo = report[r].todo \ {t},
                            !.at = [report[r].at EXCEPT ![t] = UsdPrice(t)]]
               unread == [report[r] EXCEPT !.todo = report[r].todo \ {t},
                            !.missed = report[r].missed \cup {t}]
    <3>1. /\ OnlyReport /\ report[r] \in ReportState /\ report[r].pc = "open" /\ r \notin Committed
          /\ report' = [report EXCEPT ![r] = priced] \/ report' = [report EXCEPT ![r] = unread]
      BY <1>1, <2>4 DEF Place, Committed
    <3>2. priced.pc = "open" /\ unread.pc = "open"
      BY <3>1 DEF ReportState
    <3> HIDE DEF priced, unread
    <3> QED
      BY <1>3, <3>1, <3>2
  <2>5. CASE Calculate(r)
    <3>1. r \notin Committed
      BY <2>5 DEF Calculate, Committed
    <3> QED
      BY <1>1, <2>5, <3>1 DEF Calculate, OnlyReport, ReportState, Committed
  <2>3. CASE Commit(r)
    BY <1>1, <1>4, <2>3 DEF Commit, OnlyReport, ReportState, Committed, Open
  <2> QED
    BY <1>4, <2>1, <2>2, <2>3, <2>4, <2>5 DEF CreateAccountBalanceData
<1>5. ASSUME NEW r \in Report, Abort(r) PROVE Kept
  BY <1>1, <1>5 DEF Abort, OnlyReport, NoReport, Open, Committed
<1>6. ASSUME NEW q \in Query, GetAgentPnL(q) PROVE Kept
  BY <1>2, <1>6 DEF GetAgentPnL, Answer, ReadBalances, CalculatePnL, UpdateLatestMarketData, OnlyQuery
<1>7. ASSUME NEW t \in Coin, NEW p \in Price, Move(t, p) PROVE Kept
  BY <1>2, <1>7 DEF Move
<1>8. ASSUME NEW n \in Name, Age(n) PROVE Kept
  BY <1>2, <1>8 DEF Age, OnlyQuery
<1>10. ASSUME NEW s \in Sync, SyncPerformanceMetrics(s) PROVE Kept
  BY <1>2, <1>10 DEF SyncPerformanceMetrics, TakeAnswers, GiveUp, WriteMetrics, OnlySync
<1>9. ASSUME UNCHANGED vars PROVE Kept
  BY <1>2, <1>9 DEF vars
<1> QED
  BY <1>4, <1>5, <1>6, <1>7, <1>8, <1>9, <1>10 DEF Next

\* The first balance is one no other is older than.
LEMMA FirstIs ==
  ASSUME ReportInv, NEW a \in Agent, Balances(a) # {}
  PROVE  IsFirst(First(a), a)
<1>1. PICK m \in Balances(a) : \A x \in Balances(a) : report[m].born <= report[x].born
  BY DEF ReportInv, Extremes, IsFirst
<1>2. First(a) = CHOOSE r \in Balances(a) : \A x \in Balances(a) : report[r].born <= report[x].born
  BY DEF First
<1> QED
  BY <1>1, <1>2 DEF IsFirst

LEMMA FirstIsThen ==
  ASSUME ReportInv', NEW a \in Agent, Balances(a)' # {}
  PROVE  IsFirst(First(a), a)'
<1>1. PICK m \in Balances(a)' : \A x \in Balances(a)' : report'[m].born <= report'[x].born
  BY DEF ReportInv, Extremes, IsFirst
<1>2. First(a)' = CHOOSE r \in Balances(a)' : \A x \in Balances(a)' : report'[r].born <= report'[x].born
  BY DEF First
<1> QED
  BY <1>1, <1>2 DEF IsFirst

\* createAccountBalanceData, getAgentPnL: a report that commits takes the
\* place of the first balance only if it was open when that one was made.
THEOREM BaselineMovesByRace == Spec => BaselineMovesOnlyByRace
<1>1. BalanceInv /\ BalanceInv' /\ [Next]_vars =>
        [\A a \in Agent : First(a) # "none" /\ First(a)' # First(a) =>
                           {First(a), First(a)'} \in overlap']_vars
  <2> SUFFICES ASSUME BalanceInv, BalanceInv', [Next]_vars, NEW a \in Agent,
                      First(a) # "none", First(a)' # First(a)
               PROVE  {First(a), First(a)'} \in overlap'
    OBVIOUS
  <2> USE DEF BalanceInv
  <2>1. PICK f, g : f = First(a) /\ g = First(a)'
    OBVIOUS
  <2>2. f \in Balances(a) /\ \A x \in Balances(a) : report[f].born <= report[x].born
    BY <2>1, FirstIs DEF First, IsFirst
  <2>3. \A x \in Balances(a) : x \in Balances(a)' /\ report'[x] = report[x]
    BY CommitOnly DEF Balances
  <2>4. g \in Balances(a)' /\ report'[g].born <= report'[f].born
    BY <2>1, <2>2, <2>3, FirstIsThen DEF IsFirst
  <2>5. f \in Report /\ g \in Report /\ f # g /\ report[f].of = a /\ report'[g].of = a
        /\ f \in Committed /\ g \in Committed'
    BY <2>1, <2>2, <2>4 DEF Balances, Committed
  <2>6. report[f].born \in Int /\ report[g].born \in Int
    BY <2>5 DEF ReportInv, Prices, ReportState
  <2>7. g \in Committed => g \in Balances(a)
    BY <2>5, CommitOnly DEF Balances
  <2>8. report[f].pc \in Live /\ (g \in Committed \/ g \in Open => report[g].pc \in Live)
    BY <2>5 DEF Committed, Open, Live
  <2>9. g \notin Committed
    <3> SUFFICES ASSUME g \in Committed PROVE FALSE
      OBVIOUS
    <3>1. report[f].born <= report[g].born /\ report[g].born <= report[f].born
      BY <2>2, <2>3, <2>4, <2>7
    <3>2. report[f].born # report[g].born
      BY <2>5, <2>8 DEF ReportInv, Raced
    <3> QED
      BY <2>6, <3>1, <3>2
  <2>10. g \in Open /\ report[g].of = a /\ report[g].born <= report[f].born
    BY <2>2, <2>3, <2>4, <2>5, <2>9, CommitOnly
  <2>11. {g, f} \in overlap
    <3>1. report[g].pc \in Live
      BY <2>8, <2>10
    <3>2. report[g].born # report[f].born
      BY <2>5, <2>8, <3>1 DEF ReportInv, Raced
    <3>3. report[g].born < report[f].born
      BY <2>6, <2>10, <3>2
    <3> QED
      BY <2>5, <2>8, <2>10, <3>1, <3>3 DEF ReportInv, Raced
  <2>12. {g, f} = {f, g}
    OBVIOUS
  <2> QED
    BY <2>1, <2>11, <2>12, CommitOnly
<1> QED
  BY <1>1, BalanceInvariance, PTL DEF Spec, BaselineMovesOnlyByRace

\* getAgentPnL, updateLatestMarketData, SyncPerformanceMetricsTask: what answers
\* a query, or is written of its agent, is the answer of a query at work or
\* carried by the sync, and behind none it has not met.
THEOREM AnswersDoNotGoBack == Spec => AnswersGoForward
<1>1. BalanceInv /\ BalanceInv' /\ [Next]_vars =>
        [/\ \A n \in Name : Older(cache'[n], cache[n]) => {cache[n], cache'[n]} \in overlap'
         /\ \A a \in Agent : Older(lmd'[a], lmd[a]) => {lmd[a], lmd'[a]} \in overlap']_vars
  <2> SUFFICES ASSUME BalanceInv, BalanceInv', [Next]_vars
               PROVE  /\ \A n \in Name : Older(cache'[n], cache[n]) => {cache[n], cache'[n]} \in overlap'
                      /\ \A a \in Agent : Older(lmd'[a], lmd[a]) => {lmd[a], lmd'[a]} \in overlap'
    OBVIOUS
  <2>1. ASSUME NEW p \in Query PROVE ~Older(p, p)
    <3>1. query[p].latest # "none" => query[p].latest \in Report
      BY DEF BalanceInv, QueryInv, Asked, Balances, Committed
    <3>2. Born(query[p].latest) \in Nat
      BY <3>1 DEF Born, BalanceInv, ReportInv, Prices, ReportState
    <3> QED
      BY <3>2 DEF Older
  <2>2. ASSUME NEW p, NEW q, Older(q, p), q = p \/ AtWork(q)
        PROVE  {p, q} \in overlap'
    <3>1. p \in Query /\ q \in Query
      BY <2>2 DEF Older
    <3>2. Behind(q, p)
      BY <2>1, <2>2, <3>1 DEF Behind
    <3> QED
      BY <3>1, <3>2, CommitOnly DEF BalanceInv, QueryInv
  <2>3. \A n \in Name : cache'[n] = cache[n] \/ AtWork(cache'[n])
    <3>1. CASE \E q \in Query : CalculatePnL(q)
      BY <3>1 DEF CalculatePnL, AtWork, BalanceInv, QueryInv, Shaped
    <3>2. CASE cache' = cache
      BY <3>2
    <3> QED
      BY <3>1, <3>2 DEF Next, CreateAccountBalanceData, Begin, Refuse, Place, Calculate, Commit,
           Abort, OnlyReport, GetAgentPnL, Answer, ReadBalances, UpdateLatestMarketData, SyncPerformanceMetrics,
           TakeAnswers, GiveUp, WriteMetrics, OnlySync, Move, Age, vars
  <2>4. \A a \in Agent : lmd'[a] = lmd[a] \/ lmd'[a] = "none" \/ AtWork(lmd'[a])
    <3>1. CASE \E q \in Query : UpdateLatestMarketData(q)
      BY <3>1 DEF UpdateLatestMarketData, AtWork, BalanceInv, QueryInv, Shaped
    <3>2. CASE lmd' = lmd
      BY <3>2
    <3>3. ASSUME NEW s \in Sync, NEW b \in Agent, WriteMetrics(s, b)
          PROVE  \A a \in Agent : lmd'[a] = lmd[a] \/ lmd'[a] = "none" \/ AtWork(lmd'[a])
      <4>1. \A q \in AskedBy(s) : query[q].of = b => AtWork(q)
        BY <3>3 DEF WriteMetrics, AskedBy, AtWork, Carried
      <4>2. lmd' = lmd \/ \E q : (q = "none" \/ AtWork(q)) /\ lmd' = [lmd EXCEPT ![b] = q]
        BY <3>3, <4>1 DEF WriteMetrics
      <4> QED
        BY <4>2 DEF BalanceInv, QueryInv, Shaped
    <3> QED
      BY <3>1, <3>2, <3>3 DEF Next, CreateAccountBalanceData, Begin, Refuse, Place, Calculate, Commit,
           Abort, OnlyReport, GetAgentPnL, Answer, ReadBalances, CalculatePnL, SyncPerformanceMetrics,
           TakeAnswers, GiveUp, Move, Age, vars
  <2>5. \A p : ~Older("none", p)
    BY DEF Older
  <2> QED
    BY <2>2, <2>3, <2>4, <2>5
<1> QED
  BY <1>1, BalanceInvariance, PTL DEF Spec, AnswersGoForward
-----------------------------------------------------------------------------
\* No balance has a stored value, since the transaction that would store it does not see its own
\* rows; and a query of an agent that kept the USDC it started with counts from what it has now.
InvestInv ==
  /\ \A r \in Report : report[r].stored = 0
  /\ \A q \in Query :
       /\ query[q].pc \in {"idle", "value"} => query[q].pnl = 0
       /\ query[q].first # "none" =>
            /\ query[q].first \in Committed /\ query[q].latest \in Committed
            /\ Untraded(query[q].first, query[q].latest) => query[q].pnl = 0

\* getAccountBalanceWithPrices: a portfolio of USDC is worth its amount, as often as it is joined.
LEMMA ValueOfUSDC ==
  ASSUME NEW holds \in [{USDC} -> Nat]
  PROVE  Value(holds) \in Nat
<1>2. LivePrice(USDC) = 1 /\ Joined(USDC) \in Nat /\ holds[USDC] \in Nat
  <2>1. LivePrice(USDC) = 1
    BY DEF LivePrice, Coin
  <2>2. Listings[USDC] \in Nat
    BY TokensAssumption
  <2>3. Joined(USDC) \in Nat
    BY <2>2 DEF Joined
  <2> QED BY <2>1, <2>3
<1> DEFINE Sums(sum) == sum = [s \in SUBSET {USDC} |->
                          IF s = {} THEN 0
                          ELSE holds[CHOOSE x \in s : TRUE] * LivePrice(CHOOSE x \in s : TRUE)
                                 * Joined(CHOOSE x \in s : TRUE)
                               + sum[s \ {CHOOSE x \in s : TRUE}]]
           sum == CHOOSE sum : Sums(sum)
<1>1. Value(holds) = sum[{USDC}]
  <2>1. DOMAIN holds = {USDC}
    OBVIOUS
  <2> QED BY <2>1, Zenon DEF Value, MapThenSumSet, MapThenFoldSet
<1>3. holds[USDC] * LivePrice(USDC) * Joined(USDC) \in Nat
  BY <1>2
<1>4. \E g : Sums(g)
  <2> DEFINE g == [s \in SUBSET {USDC} |-> IF s = {} THEN 0 ELSE holds[USDC] * LivePrice(USDC) * Joined(USDC) + 0]
  <2>1. \A s \in SUBSET {USDC} : s # {} => (CHOOSE x \in s : TRUE) = USDC /\ s \ {USDC} = {}
    OBVIOUS
  <2>2. g[{}] = 0
    OBVIOUS
  <2>3. Sums(g)
    BY <2>1, <2>2
  <2> QED BY <2>3
<1>5. Sums(sum)
  BY <1>4
<1> HIDE DEF sum
<1>6. (CHOOSE x \in {USDC} : TRUE) = USDC /\ {USDC} \ {USDC} = {} /\ {} \in SUBSET {USDC}
  OBVIOUS
<1>7. sum[{}] = 0
  BY <1>5
<1>8. sum[{USDC}] = holds[USDC] * LivePrice(USDC) * Joined(USDC) + 0
  BY <1>5, <1>6, <1>7
<1> QED BY <1>1, <1>3, <1>8

LEMMA InvestInit == Init => InvestInv
BY DEF Init, InvestInv, NoReport, NoQuery

\* A report inserts its balance with 0, and the price of it never finds the balance committed.
LEMMA NothingStored ==
  ASSUME BalanceInv, [Next]_vars, \A r \in Report : report[r].stored = 0
  PROVE  \A r \in Report : report'[r].stored = 0
<1>1. report \in [Report -> ReportState]
  BY DEF BalanceInv, ReportInv, Prices
<1>2. ASSUME NEW r \in Report, NEW rec, rec.stored = 0, report' = [report EXCEPT ![r] = rec]
      PROVE  \A x \in Report : report'[x].stored = 0
  BY <1>1, <1>2
<1>3. ASSUME NEW r \in Report, CreateAccountBalanceData(r) \/ Abort(r)
      PROVE  \A x \in Report : report'[x].stored = 0
  <2>0. report[r] \in ReportState /\ report[r].stored = 0
    BY <1>1
  <2>1. ASSUME NEW n \in Name, NEW holds \in Portfolio, NEW a \in Reporter(n), Begin(r, a, holds)
        PROVE  \A x \in Report : report'[x].stored = 0
    <3> DEFINE rec == [report[r] EXCEPT !.pc = "open", !.of = a, !.holds = holds, !.born = clock + 1,
                         !.todo = DOMAIN holds \cap Coin, !.at = [t \in Token |-> IF t \in Coin THEN 0 ELSE 1]]
    <3>1. report' = [report EXCEPT ![r] = rec]
      BY <2>1 DEF Begin
    <3>2. rec.stored = 0
      BY <2>0 DEF ReportState
    <3> HIDE DEF rec
    <3> QED BY <1>2, <3>1, <3>2
  <2>2. CASE Refuse(r)
    <3>1. PICK rec : report' = [report EXCEPT ![r] = rec] /\ rec = [report[r] EXCEPT !.pc = "failed"]
      BY <2>2 DEF Refuse
    <3>2. rec.stored = 0
      BY <2>0, <3>1 DEF ReportState
    <3> QED BY <1>2, <3>1, <3>2
  <2>3. ASSUME NEW t \in Coin, Place(r, t) PROVE \A x \in Report : report'[x].stored = 0
    <3> DEFINE priced == [report[r] EXCEPT !.todo = report[r].todo \ {t},
                            !.at = [report[r].at EXCEPT ![t] = UsdPrice(t)]]
               unread == [report[r] EXCEPT !.todo = report[r].todo \ {t},
                            !.missed = report[r].missed \cup {t}]
    <3>1. report' = [report EXCEPT ![r] = priced] \/ report' = [report EXCEPT ![r] = unread]
      BY <2>3 DEF Place
    <3>2. priced.stored = 0 /\ unread.stored = 0
      BY <2>0 DEF ReportState
    <3> HIDE DEF priced, unread
    <3> QED BY <1>2, <3>1, <3>2
  <2>4. CASE Calculate(r)
    <3>1. r \notin Committed
      BY <2>4 DEF Calculate, Committed
    <3>2. PICK rec : /\ report' = [report EXCEPT ![r] = rec]
                     /\ rec = [report[r] EXCEPT !.pc = "ready", !.stored = report[r].stored]
      BY <2>4, <3>1 DEF Calculate
    <3>3. rec.stored = 0
      BY <2>0, <3>2 DEF ReportState
    <3> QED BY <1>2, <3>2, <3>3
  <2>5. CASE Commit(r)
    <3>1. PICK rec : report' = [report EXCEPT ![r] = rec] /\ rec = [report[r] EXCEPT !.pc = "committed"]
      BY <2>5 DEF Commit
    <3>2. rec.stored = 0
      BY <2>0, <3>1 DEF ReportState
    <3> QED BY <1>2, <3>1, <3>2
  <2>6. CASE Abort(r)
    <3>1. PICK rec : report' = [report EXCEPT ![r] = rec] /\ rec = [NoReport EXCEPT !.pc = "failed"]
      BY <2>6 DEF Abort
    <3>2. rec.stored = 0
      BY <3>1 DEF NoReport
    <3> QED BY <1>2, <3>1, <3>2
  <2> QED
    BY <1>3, <2>1, <2>2, <2>3, <2>4, <2>5, <2>6 DEF CreateAccountBalanceData
<1>4. UNCHANGED report \/ \E r \in Report : CreateAccountBalanceData(r) \/ Abort(r)
  BY DEF Next, GetAgentPnL, Answer, ReadBalances, CalculatePnL, UpdateLatestMarketData, OnlyQuery, Move, Age,
         SyncPerformanceMetrics, TakeAnswers, GiveUp, WriteMetrics, OnlySync, vars
<1> QED BY <1>3, <1>4

\* Of a portfolio that is all USDC, what it is worth is no gain while nothing is stored.
LEMMA NoGain ==
  ASSUME ReportInv, NEW first \in Committed, NEW latest \in Committed, Untraded(first, latest),
         report[first].stored = 0
  PROVE  Value(report[latest].holds) - Baseline(first, latest, Value(report[latest].holds)) = 0
<1>1. report[latest].holds \in Portfolio \cup {<<>>}
  BY DEF ReportInv, Prices, ReportState, Committed
<1>2. report[latest].holds \in [{USDC} -> Nat]
  <2>1. PICK h : h = report[latest].holds /\ DOMAIN h = {USDC}
    BY DEF Untraded
  <2>2. h # <<>>
    <3>1. DOMAIN <<>> = {}
      OBVIOUS
    <3> QED BY <2>1, <3>1
  <2>3. h \in Portfolio
    BY <1>1, <2>1, <2>2
  <2> QED BY <2>1, <2>3, PortfolioAssumption
<1>3. PICK value \in Nat : value = Value(report[latest].holds)
  BY <1>2, ValueOfUSDC
<1>4. Baseline(first, latest, value) = value
  BY <1>3 DEF Baseline
<1> QED BY <1>3, <1>4

\* The balances a query has read are committed, and stay as they are.
LEMMA UntradedStays ==
  ASSUME BalanceInv, [Next]_vars, NEW first \in Committed, NEW latest \in Committed
  PROVE  /\ first \in Committed' /\ latest \in Committed'
         /\ Untraded(first, latest)' <=> Untraded(first, latest)
BY CommitOnly DEF Untraded

LEMMA InvestNext == BalanceInv /\ InvestInv /\ [Next]_vars => InvestInv'
<1> SUFFICES ASSUME BalanceInv, InvestInv, [Next]_vars PROVE InvestInv'
  OBVIOUS
<1>1. \A r \in Report : report'[r].stored = 0
  BY NothingStored DEF InvestInv
<1> DEFINE Sound(q) == /\ query[q].pc \in {"idle", "value"} => query[q].pnl = 0
                       /\ query[q].first # "none" =>
                            /\ query[q].first \in Committed /\ query[q].latest \in Committed
                            /\ Untraded(query[q].first, query[q].latest) => query[q].pnl = 0
<1>0. Shaped /\ ReportInv /\ \A q \in Query : Sound(q)
  BY DEF BalanceInv, QueryInv, InvestInv
<1>2. ASSUME NEW q \in Query, query'[q].first = query[q].first, query'[q].latest = query[q].latest,
             query'[q].pnl = query[q].pnl, query'[q].pc \in {"idle", "value"} => query[q].pc \in {"idle", "value"}
      PROVE  Sound(q)'
  BY <1>0, <1>2, UntradedStays
<1>3. ASSUME NEW q \in Query, UNCHANGED query PROVE Sound(q)'
  BY <1>2, <1>3
<1>4. ASSUME NEW q \in Query, NEW rec, query' = [query EXCEPT ![q] = rec],
             rec.first = query[q].first, rec.latest = query[q].latest,
             rec.pnl = query[q].pnl, rec.pc \in {"over", "failed"}
      PROVE  \A x \in Query : Sound(x)'
  <2>1. query'[q] = rec /\ \A x \in Query \ {q} : query'[x] = query[x]
    BY <1>0, <1>4 DEF Shaped
  <2> QED BY <1>2, <1>4, <2>1
<1>5. ASSUME NEW q \in Query, NEW pc \in {"over", "failed"}, query' = Over(q, pc)
      PROVE  \A x \in Query : Sound(x)'
  <2>1. PICK rec : query' = [query EXCEPT ![q] = rec] /\ rec = [query[q] EXCEPT !.pc = pc]
    BY <1>5 DEF Over
  <2>2. query[q] = Fields(query[q])
    BY <1>0 DEF Shaped
  <2>3. rec.first = query[q].first /\ rec.latest = query[q].latest /\ rec.pnl = query[q].pnl /\ rec.pc = pc
    BY <2>1, <2>2 DEF Fields
  <2> QED BY <1>4, <2>1, <2>3
<1>6. ASSUME NEW q \in Query, NEW n \in Name, NEW a \in Queried(n), NEW by,
             ReadBalances(q, n, a, by)
      PROVE  \A x \in Query : Sound(x)'
  <2>0. PICK first, latest : first = First(a) /\ latest = Latest(a)
    OBVIOUS
  <2>1. PICK rec :
          /\ query' = [query EXCEPT ![q] = rec] /\ first = First(a) /\ latest = Latest(a)
          /\ rec = [query[q] EXCEPT !.pc = "value", !.of = a, !.name = n, !.by = by, !.first = first, !.latest = latest]
    BY <1>6, <2>0 DEF ReadBalances
  <2>2. query[q] = Fields(query[q]) /\ query[q].pc = "idle" /\ query[q].pnl = 0 /\ UNCHANGED report
    BY <1>0, <1>6 DEF Shaped, ReadBalances, OnlyQuery
  <2>3. rec.first = first /\ rec.latest = latest /\ rec.pnl = 0
    BY <2>1, <2>2 DEF Fields
  <2>4. query'[q] = rec /\ \A x \in Query \ {q} : query'[x] = query[x]
    BY <1>0, <2>1 DEF Shaped
  <2>5. a \in Agent
    BY NamesAssumption DEF Queried
  <2>6. first # "none" => first \in Committed /\ latest \in Committed
    <3>1. SUFFICES ASSUME first # "none" PROVE first \in Committed /\ latest \in Committed
      OBVIOUS
    <3>2. Balances(a) # {}
      BY <2>1, <3>1 DEF First
    <3>3. first \in Balances(a)
      BY <1>0, <2>1, <2>5, <3>2, FirstIs DEF IsFirst
    <3>4. \E m \in Balances(a) : \A x \in Balances(a) : report[x].born <= report[m].born
      BY <1>0, <2>5, <3>2 DEF ReportInv, Extremes, IsLatest
    <3>5. latest \in Balances(a)
      BY <2>1, <3>2, <3>4 DEF Latest
    <3> QED BY <3>3, <3>5 DEF Balances
  <2>7. Committed' = Committed
    BY <2>2 DEF Committed
  <2>8. Sound(q)'
    BY <2>3, <2>4, <2>6, <2>7
  <2> QED BY <1>2, <2>4, <2>8
<1>7. ASSUME NEW q \in Query, CalculatePnL(q) PROVE \A x \in Query : Sound(x)'
  <2>1. CASE query' = Over(q, "failed")
    BY <1>5, <2>1
  <2>2. CASE query' = [query EXCEPT ![q] = Calculation(q)]
    <3>1. PICK first, latest, value, pnl :
            /\ first = query[q].first /\ latest = query[q].latest
            /\ value = IF latest = "none" THEN 0 ELSE Value(report[latest].holds)
            /\ pnl = IF first = "none" THEN 0 ELSE value - Baseline(first, latest, value)
      OBVIOUS
    <3>2. PICK rec : rec = [query[q] EXCEPT !.pc = "write", !.balance = value, !.pnl = pnl]
      OBVIOUS
    <3>3. Calculation(q) = rec
      BY <3>1, <3>2, Zenon DEF Calculation
    <3>4. query[q] = Fields(query[q]) /\ UNCHANGED report
      BY <1>0, <1>7 DEF Shaped, CalculatePnL, OnlyQuery
    <3>5. rec.first = first /\ rec.latest = latest /\ rec.pnl = pnl /\ rec.pc = "write"
      BY <3>1, <3>2, <3>4 DEF Fields
    <3>6. query'[q] = rec /\ \A x \in Query \ {q} : query'[x] = query[x]
      BY <1>0, <2>2, <3>3 DEF Shaped
    <3>7. ASSUME first # "none"
          PROVE  /\ first \in Committed' /\ latest \in Committed'
                 /\ Untraded(first, latest)' => pnl = 0
      <4>1. first \in Committed /\ latest \in Committed
        BY <1>0, <3>1, <3>7
      <4>2. latest # "none"
        BY <4>1, NobodyAssumption DEF Committed
      <4>3. Untraded(first, latest) => pnl = 0
        BY <1>0, <3>1, <3>7, <4>1, <4>2, NoGain DEF InvestInv, Committed
      <4> QED BY <4>1, <4>3, UntradedStays
    <3>8. Sound(q)'
      BY <3>5, <3>6, <3>7
    <3> QED BY <1>2, <3>6, <3>8
  <2> QED BY <1>7, <2>1, <2>2 DEF CalculatePnL
<1>8. \/ UNCHANGED query
      \/ \E q \in Query :
           \/ query' = Over(q, "over") \/ CalculatePnL(q)
           \/ \E n \in Name : \E a \in Queried(n), by \in Asking \cup {"none"} : ReadBalances(q, n, a, by)
  BY DEF Next, CreateAccountBalanceData, Begin, Refuse, Place, Calculate, Commit, Abort, OnlyReport,
         GetAgentPnL, Answer, UpdateLatestMarketData, Move, Age, OnlyQuery,
         SyncPerformanceMetrics, TakeAnswers, GiveUp, WriteMetrics, OnlySync, vars
<1>9. \A q \in Query : Sound(q)'
  BY <1>3, <1>5, <1>6, <1>7, <1>8
<1> QED BY <1>1, <1>9 DEF InvestInv

\* An agent that has only ever kept the USDC it started with is told no PnL, whatever else moves and
\* fails, and although the value of its first balance was never stored (calculatePnL).
THEOREM InvestmentsAreNoGain == Spec => []InvestmentIsNoGain
<1>1. InvestInv => InvestmentIsNoGain
  BY DEF InvestInv, InvestmentIsNoGain
<1> QED BY <1>1, BalanceInvariance, InvestInit, InvestNext, PTL DEF Spec
=============================================================================
