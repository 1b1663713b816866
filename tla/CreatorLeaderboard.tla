-------------------------- MODULE CreatorLeaderboard --------------------------
(***************************************************************************)
(* The leaderboard of creators (creators.service.ts): every five minutes   *)
(* and by hand the agents are read and one row for each creator is put     *)
(* into creator_leaderboard_data, all of them in one transaction. Callers  *)
(* page through the leaderboard and the creators; they ask for one page at *)
(* a time, and each answer is of two statements.                           *)
(***************************************************************************)
EXTENDS AgentTable, Functions, FiniteSetsExt

CONSTANTS
  PageSize,      \* limit: 10 unless the caller says otherwise
  BoardFaults    \* "failed": a statement or the transaction may fail

ASSUME BoardAssumption == PageSize \in Nat \ {0} /\ "none" \notin Agent

Creator == Range(CreatorOf)

VARIABLES
  board,     \* the rows of creator_leaderboard_data, a function from some creators
  rebuild,   \* the task of each run
  commits,   \* history: the runs whose transaction is committed, in that order
  source,    \* history: the agents each row was computed from
  reader     \* a caller going from page to page

boardVars == <<board, rebuild, commits, source, reader>>

\* wallets: the creators found; data: their agents as read.
NoRebuild == [stage |-> "idle", wallets |-> {}, data |-> <<>>]

\* shown: the pages so far; total: the count given with the last; due: it is still to be read.
\* The rest is history: what was sorted at first, and whether it has changed.
NoReader == [of |-> "none", shown |-> <<>>, due |-> FALSE, total |-> 0, basis |-> <<>>, moved |-> FALSE]

BoardInit ==
  /\ board = <<>> /\ source = <<>>
  /\ rebuild = [r \in Run |-> NoRebuild]
  /\ commits = <<>>
  /\ reader = NoReader

Wallets == {CreatorOf[a] : a \in Created}
Of(data, c) == {a \in DOMAIN data : CreatorOf[a] = c}
Total(data, c) == MapThenSumSet(LAMBDA a : data[a].pnl, Of(data, c))
TotalDay(data, c) == MapThenSumSet(LAMBDA a : data[a].day, Of(data, c))
-----------------------------------------------------------------------------
\* Faulty variant: the best PnL starts from zero.
BestAboveZero(data, c) ==
  LET best == {a \in Of(data, c) : data[a].pnl > 0 /\ \A b \in Of(data, c) : data[b].pnl <= data[a].pnl}
  IN  IF best = {} THEN "none" ELSE CHOOSE a \in best : TRUE

\* The best agent of a creator; which of equal ones depends on the order they come in.
Best(data, c) ==
  CHOOSE a \in Of(data, c) : \A b \in Of(data, c) : data[b].pnl <= data[a].pnl

\* A row of the leaderboard, for a creator all of whose agents may be missing.
Entry(data, c) ==
  [totalAgents |-> Cardinality(Of(data, c)),
   runningAgents |-> Cardinality({a \in Of(data, c) : data[a].running}),
   pnl |-> Total(data, c), day |-> TotalDay(data, c),
   best |-> IF Of(data, c) = {} THEN "none" ELSE Best(data, c)]

\* calculateAndStoreLeaderboard: the creators, their agents, and the transaction.
FindWallets(r) ==
  /\ rebuild[r].stage = "idle"
  /\ \/ rebuild' = [rebuild EXCEPT ![r] =
          [@ EXCEPT !.wallets = Wallets, !.stage = IF Wallets = {} THEN "ended" ELSE "agents"]]
     \/ BoardFaults # {} /\ rebuild' = [rebuild EXCEPT ![r].stage = "ended"]
  /\ UNCHANGED <<board, commits, source, reader, agents>>

FindAgents(r) ==
  /\ rebuild[r].stage = "agents"
  /\ \/ rebuild' = [rebuild EXCEPT ![r] = [@ EXCEPT !.stage = "store",
          !.data = [a \in {x \in Created : CreatorOf[x] \in rebuild[r].wallets} |-> agents[a]]]]
     \/ BoardFaults # {} /\ rebuild' = [rebuild EXCEPT ![r].stage = "ended"]
  /\ UNCHANGED <<board, commits, source, reader, agents>>

\* Rows are inserted or overwritten, never deleted.
Upserted(rows, new) ==
  [c \in DOMAIN rows \cup DOMAIN new |-> IF c \in DOMAIN new THEN new[c] ELSE rows[c]]

\* Faulty variant: the rows are written one after the other.
StoreOne(r) ==
  /\ rebuild[r].stage = "store"
  /\ \E c \in rebuild[r].wallets :
       /\ c \in DOMAIN source => source[c] # r
       /\ board' = Upserted(board, [x \in {c} |-> Entry(rebuild[r].data, x)])
       /\ source' = Upserted(source, [x \in {c} |-> r])
  /\ IF \A c \in rebuild[r].wallets : c \in DOMAIN source' /\ source'[c] = r
     THEN rebuild' = [rebuild EXCEPT ![r].stage = "ended"] /\ commits' = Append(commits, r)
     ELSE UNCHANGED <<rebuild, commits>>
  /\ UNCHANGED <<reader, agents>>

StoreEntries(r) ==
  /\ rebuild[r].stage = "store"
  /\ rebuild' = [rebuild EXCEPT ![r].stage = "ended"]
  /\ \/ /\ board' = Upserted(board, [c \in rebuild[r].wallets |-> Entry(rebuild[r].data, c)])
        /\ source' = Upserted(source, [c \in rebuild[r].wallets |-> r])
        /\ commits' = Append(commits, r)
     \/ BoardFaults # {} /\ UNCHANGED <<board, source, commits>>
  /\ UNCHANGED <<reader, agents>>

RebuildStep(r) == FindAgents(r) \/ StoreEntries(r)

\* getCreatorPerformance, from the rows of the moment: the agents in turn.
getCreatorPerformance(data, c) ==
  LET list == CHOOSE s \in Listings(Of(data, c)) : TRUE
      Upto[i \in 0 .. Len(list)] ==
        IF i = 0 THEN [running |-> 0, pnl |-> 0, day |-> 0, best |-> "none", top |-> 0]
        ELSE LET row == data[list[i]]
                 sum == Upto[i - 1]
                 better == sum.best = "none" \/ row.pnl > sum.top
             IN  [running |-> sum.running + IF row.running THEN 1 ELSE 0,
                  pnl |-> sum.pnl + row.pnl, day |-> sum.day + row.day,
                  best |-> IF better THEN list[i] ELSE sum.best,
                  top |-> IF better THEN row.pnl ELSE sum.top]
  IN  Upto[Len(list)]
-----------------------------------------------------------------------------
(* Pages. *)

Sorts == {"pnlCycle", "pnl24h", "runningAgents", "creators"}
Listed(of) == IF of = "creators" THEN Wallets ELSE DOMAIN board
Ranked(of) == CHOOSE rank \in [Creator -> 1 .. Cardinality(Creator)] : \A c, d \in Creator : rank[c] = rank[d] => c = d
Key(of, c) ==
  CASE of = "pnlCycle" -> -board[c].pnl
    [] of = "pnl24h" -> -board[c].day
    [] of = "runningAgents" -> -board[c].runningAgents
    [] of = "creators" -> Ranked(of)[c]

Keys(of) == [c \in Listed(of) |-> Key(of, c)]
Sorted(of) == {s \in Listings(Listed(of)) : \A i, j \in DOMAIN s : i < j => Key(of, s[i]) <= Key(of, s[j])}

\* Faulty variant: pages are counted from zero.
PageFromZero(s, k) == SubSeq(s, k * PageSize + 1, Min({(k + 1) * PageSize, Len(s)}))

Page(s, k) == SubSeq(s, (k - 1) * PageSize + 1, Min({k * PageSize, Len(s)}))

\* findAllCreators, getCreatorLeaderboard: the next page, of rows that tie in any order, then
\* their count.
ReadPage(of) ==
  /\ reader.of \in {"none", of} /\ ~reader.due
  /\ reader.shown # <<>> => Len(reader.shown) * PageSize < reader.total
  /\ \E s \in Sorted(of) :
       reader' = [reader EXCEPT !.of = of, !.shown = Append(@, Page(s, Len(reader.shown) + 1)),
                                !.due = TRUE,
                                !.basis = IF reader.shown = <<>> THEN Keys(of) ELSE @,
                                !.moved = reader.shown # <<>> /\ (@ \/ reader.basis # Keys(of))]
  /\ UNCHANGED <<board, rebuild, commits, source, agents>>

ReadCount ==
  /\ reader.due
  /\ reader' = [reader EXCEPT !.due = FALSE, !.total = Cardinality(Listed(reader.of)),
                              !.moved = @ \/ reader.basis # Keys(reader.of)]
  /\ UNCHANGED <<board, rebuild, commits, source, agents>>

-----------------------------------------------------------------------------
\* The leaderboard is of one reading, but for creators the last rebuild did not
\* know of: no page shows a row next to one of an older rebuild otherwise.
BoardIsOneReading ==
  commits # <<>> =>
    \A c \in DOMAIN board :
      source[c] = commits[Len(commits)] \/ c \notin rebuild[commits[Len(commits)]].wallets

\* A row says of a creator what its performance page would have said of the same agents.
RowsAgreeWithPerformance ==
  \A c \in DOMAIN board :
    LET data == rebuild[source[c]].data
        page == getCreatorPerformance(data, c)
    IN  /\ board[c].totalAgents = Cardinality(Of(data, c)) /\ board[c].runningAgents = page.running
        /\ board[c].pnl = page.pnl /\ board[c].day = page.day
        /\ board[c].best = "none" <=> page.best = "none"
        /\ board[c].best # "none" => data[board[c].best].pnl = page.top

\* A caller who turns all pages sees everyone once, unless rows changed
\* meanwhile or two of them tied, when they may come in another order each time.
PagesShowEveryoneOnce ==
  reader.of # "none" /\ ~reader.due /\ Len(reader.shown) * PageSize >= reader.total =>
    \/ reader.moved \/ ~IsInjective(reader.basis)
    \/ \A c \in DOMAIN reader.basis :
         Cardinality({k \in DOMAIN reader.shown : c \in Range(reader.shown[k])}) = 1
=============================================================================
