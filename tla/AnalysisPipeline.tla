--------------------------- MODULE AnalysisPipeline ---------------------------
(***************************************************************************)
(* The analyses of the market: the hourly task and requests made by hand   *)
(* have assets analysed in batches and rows of analyses stored, and agents *)
(* are shown the latest row of each asset they selected                    *)
(* (tasks.service.ts, analysis.service.ts, technical.service.ts). What an  *)
(* analysis says is in module TechnicalAnalysis; here it is the time its   *)
(* prices were asked for, and whether it has candlestick patterns.         *)
(***************************************************************************)
EXTENDS AgentTable, SequencesExt, FiniteSetsExt

CONSTANTS
  TradableFile,   \* config/crypto/tradable_crypto.json, and the list used if it cannot be read
  FallbackList,
  ByHand,         \* what is asked for by hand: records of a list and a platform
  BatchSize,      \* 5
  Exchange,       \* the sets of markets Paradex may list, the first ones included
  AvnuTokens,     \* the names configured for AVNU
  Selection,      \* selectedCryptos of each agent
  Preference,     \* analysis_period of the agents that have one
  DbFaults        \* "rejected": a statement fails; "ambiguous": it fails but has been executed

\* A ticker as it is written: in capitals or not, with a space behind it or
\* not, and as a market ("BTC-USD-PERP") or an asset ("BTC").
Ticker == [name : STRING, capital : BOOLEAN, padded : BOOLEAN, market : BOOLEAN]
toUpperCase(id) == [id EXCEPT !.capital = TRUE]
trim(id) == [id EXCEPT !.padded = FALSE]

ASSUME PipelineAssumption ==
  /\ BatchSize \in Nat \ {0} /\ FallbackList # <<>>
  /\ \A listed \in Exchange : \A s \in listed : s \in Ticker /\ s.market /\ s.capital
  /\ DbFaults \subseteq {"rejected", "ambiguous"}

ASSUME ListsAssumption ==
  \A list \in {TradableFile, FallbackList} \cup {asked.list : asked \in ByHand} : list \in Seq(Ticker)

VARIABLES
  markets,   \* the active rows of paradex_markets
  analyses,  \* the rows of analyses
  gen,       \* the request for analyses of each run
  now        \* the clock, which moves when it is read

analysisVars == <<markets, analyses, gen, now>>

\* asked: the batches asked for so far, each of items. The rest is history:
\* when the run began and ended, and whether it gave a request up.
NoGen == [kind |-> "none", platform |-> "paradex", list |-> <<>>, asked |-> <<>>, ended |-> FALSE,
          began |-> 0, over |-> 0, gaveUp |-> FALSE]

\* stage: asked, priced, stamped, then stored, failed (by a fault) or refused.
Item(id) == [id |-> id, stage |-> "asked", data |-> 0, time |-> 0]

AnalysisInit ==
  /\ markets \in Exchange
  /\ analyses = {} /\ now = 0
  /\ gen = [r \in Run |-> NoGen]
-----------------------------------------------------------------------------
(* Who is analysed. *)

\* fetchAndUpdateMarkets: in one transaction all markets become inactive and
\* those the exchange lists active; an error changes nothing.
fetchAndUpdateMarkets ==
  /\ markets' \in Exchange
  /\ UNCHANGED <<analyses, gen, now>>

formatSymbol(id) == IF id.market THEN id ELSE [toUpperCase(id) EXCEPT !.market = TRUE]

getAllSymbols == {trim(s) : s \in markets}
Available(id, platform) ==
  IF platform = "avnu" THEN toUpperCase(id) \in AvnuTokens ELSE formatSymbol(id) \in getAllSymbols

\* Faulty variant: the last batch starts with the last of the one before.
BatchesOverlapping(list) ==
  [k \in 1 .. ((Len(list) + BatchSize - 1) \div BatchSize) |->
     SubSeq(list, IF k = 1 THEN 1 ELSE (k - 1) * BatchSize, Min({k * BatchSize, Len(list)}))]

Batches(list) ==
  [k \in 1 .. ((Len(list) + BatchSize - 1) \div BatchSize) |->
     SubSeq(list, (k - 1) * BatchSize + 1, Min({k * BatchSize, Len(list)}))]

\* The hourly task analyses the list of the file, if it can be read.
generateParadexAnalysis(r) ==
  /\ gen[r].kind = "none"
  /\ \E list \in {TradableFile, FallbackList} :
       gen' = [gen EXCEPT ![r] = [NoGen EXCEPT !.kind = "clock", !.list = list, !.began = now]]
  /\ UNCHANGED <<markets, analyses, now>>
generateAnalysis(r, asked) ==
  /\ gen[r].kind = "none" /\ asked.list # <<>>
  /\ gen' = [gen EXCEPT ![r] = [NoGen EXCEPT !.kind = "hand", !.list = asked.list,
                                             !.platform = asked.platform, !.began = now]]
  /\ UNCHANGED <<markets, analyses, now>>

\* Faulty variant: the next batch does not wait for the one before.
AnsweredAtOnce(r) == TRUE

\* Each asset of the batch asked for last is stored or has failed.
Answered(r) ==
  gen[r].asked # <<>> =>
    \A i \in DOMAIN Last(gen[r].asked) : Last(gen[r].asked)[i].stage \in {"stored", "failed", "refused"}

\* The next batch is asked for when the one before is answered, or when the
\* request of the hourly task has failed, which the server does not notice.
NextBatch(r) ==
  LET batches == Batches(gen[r].list)
      k == Len(gen[r].asked)
  IN  /\ gen[r].kind # "none" /\ ~gen[r].ended
      /\ Answered(r) \/ (gen[r].kind = "clock" /\ DbFaults # {})
      /\ gen' = [gen EXCEPT ![r] =
           [@ EXCEPT !.gaveUp = gen[r].gaveUp \/ ~Answered(r),
                     !.ended = k = Len(batches), !.over = IF k = Len(batches) THEN now ELSE 0,
                     !.asked = IF k = Len(batches) THEN gen[r].asked
                               ELSE Append(gen[r].asked, [i \in DOMAIN batches[k + 1] |-> Item(batches[k + 1][i])])]]
      /\ UNCHANGED <<markets, analyses, now>>
-----------------------------------------------------------------------------
(* analyzeSingleAsset; the assets of a batch go on side by side. *)

Put(r, k, i, item) == gen' = [gen EXCEPT ![r].asked[k][i] = item]
Finish(r, k, i, stage) ==
  Put(r, k, i, [Item(gen[r].asked[k][i].id) EXCEPT !.stage = stage]) /\ UNCHANGED now
Refuse(r, k, i) == Finish(r, k, i, "refused")
Fail(r, k, i) == DbFaults # {} /\ Finish(r, k, i, "failed")

\* The market is looked up, and its prices are asked for.
Find(r, k, i) ==
  LET item == gen[r].asked[k][i] IN
  /\ item.stage = "asked"
  /\ \/ /\ Available(item.id, gen[r].platform)
        /\ Put(r, k, i, [item EXCEPT !.stage = "priced", !.data = now + 1])
        /\ now' = now + 1
     \/ ~Available(item.id, gen[r].platform) /\ Refuse(r, k, i)
     \/ Fail(r, k, i)
  /\ UNCHANGED <<markets, analyses>>

\* analyses[assetId], which was stored under the name in capitals.
Found(id) == toUpperCase(id) = id

\* The prices have come, or not; the row is given its time.
Stamp(r, k, i) ==
  LET item == gen[r].asked[k][i] IN
  /\ item.stage = "priced"
  /\ \/ Found(item.id) /\ Put(r, k, i, [item EXCEPT !.stage = "stamped", !.time = now + 1]) /\ now' = now + 1
     \/ ~Found(item.id) /\ Refuse(r, k, i)
     \/ Fail(r, k, i)
  /\ UNCHANGED <<markets, analyses>>

\* Which prices show candlestick patterns is left to their time.
HasPatterns(data) == data % 2 = 0

\* The row is inserted.
Store(r, k, i) ==
  LET item == gen[r].asked[k][i]
      row == [id |-> item.id, platform |-> gen[r].platform, time |-> item.time,
              data |-> item.data, patterns |-> HasPatterns(item.data), run |-> r]
  IN  /\ item.stage = "stamped"
      /\ \/ /\ analyses' = analyses \cup {row}
            /\ \/ Finish(r, k, i, "stored")
               \/ "ambiguous" \in DbFaults /\ Fail(r, k, i)
         \/ Fail(r, k, i) /\ UNCHANGED analyses
      /\ UNCHANGED markets

AnalysisStep(r) ==
  \/ NextBatch(r)
  \/ \E k \in DOMAIN gen[r].asked : \E i \in DOMAIN gen[r].asked[k] :
       Find(r, k, i) \/ Stamp(r, k, i) \/ Store(r, k, i)
-----------------------------------------------------------------------------
(* What agents are shown. *)

\* The newest row of an asset on a platform, or none.
getLatestAnalysis(id, platform) ==
  LET rows == {x \in analyses : x.id = id /\ x.platform = platform}
  IN  {x \in rows : \A y \in rows : y.time <= x.time}

getLatestAnalyses(ids, platform) == UNION {getLatestAnalysis(id, platform) : id \in Range(ids)}

Preferences == 0 .. 5
analysisPeriod(a) == IF a \notin DOMAIN Preference THEN 2 ELSE Max({0, Min({Preference[a], 5})})

ShortTerm == {"rsi", "macd", "stochastic", "patterns"}
MediumTerm == {"trend", "ichimoku", "adx", "keltnerChannel", "atr"}
Candidates == <<"rsi", "macd", "stochastic", "patterns", "trend", "ichimoku", "adx", "keltnerChannel", "atr">>
Merit == [rsi |-> 10, macd |-> 9, stochastic |-> 8, patterns |-> 7,
          trend |-> 10, ichimoku |-> 9, adx |-> 8, keltnerChannel |-> 7, atr |-> 6]

\* In fiftieths.
Weight(signal, period) ==
  Merit[signal] * (IF signal \in ShortTerm THEN Max({0, 5 - period}) ELSE Min({5, period}))

\* The five heaviest; of equal ones those listed first.
Selected ==
  [patterns \in BOOLEAN, period \in Preferences |->
     LET ranked == SelectSeq(Candidates, LAMBDA s : s # "patterns" \/ patterns)
         Before(i, j) == \/ Weight(ranked[i], period) > Weight(ranked[j], period)
                         \/ Weight(ranked[i], period) = Weight(ranked[j], period) /\ i < j
     IN  {ranked[j] : j \in {x \in DOMAIN ranked : Cardinality({i \in DOMAIN ranked : Before(i, x)}) < 5}}]
selectSignalsByPreference(patterns, period) == Selected[patterns, period]

getLatestAnalysisForAgent(a, platform) ==
  {[row |-> x, signals |-> selectSignalsByPreference(x.patterns, analysisPeriod(a))] :
     x \in getLatestAnalyses(Selection[a], platform)}
-----------------------------------------------------------------------------
\* An agent is shown older prices than there are analyses of only if the two
\* analyses were made by runs that overlapped, or by one that asked twice, or
\* after a request of the earlier run was given up with the server still at it.
OvertakenOnlyByOverlap ==
  \A a \in Agent, platform \in {"paradex", "avnu"} :
    \A shown \in getLatestAnalysisForAgent(a, platform) : \A y \in analyses :
      LET x == shown.row IN
      y.id = x.id /\ y.platform = x.platform /\ y.data > x.data =>
        ~gen[x.run].ended \/ gen[y.run].began <= gen[x.run].over \/ gen[x.run].gaveUp

\* A run that has ended asked for every asset of its list once, whatever
\* became of the batches; and an asset is refused only if it is not spelled in
\* plain capitals, or if its market may be missing from the table.
RunsCoverTheirList ==
  \A r \in Run :
    LET asked == FlattenSeq(gen[r].asked) IN
    /\ gen[r].ended => [i \in DOMAIN asked |-> asked[i].id] = gen[r].list
    /\ \A i \in DOMAIN asked : asked[i].stage = "refused" =>
         \/ asked[i].id # trim(toUpperCase(asked[i].id))
         \/ gen[r].platform = "avnu"
         \/ \E listed \in Exchange : formatSymbol(asked[i].id) \notin listed
=============================================================================
