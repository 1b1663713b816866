------------------------- MODULE TechnicalAnalysis -------------------------
(***************************************************************************)
(* The analysis of one asset (technical.service.ts): the candles of its    *)
(* market go through a price source (services/price), and one report is    *)
(* made of three requests for them, which are awaited together: five       *)
(* minute candles, one hour candles, and one hour candles again for what   *)
(* the report calls four hours. Nothing is kept between two analyses;      *)
(* report is the last answer.                                              *)
(***************************************************************************)
EXTENDS Candlesticks, Indicators

CONSTANTS
  Source,               \* where the asset is traded: "paradex" or "avnu"
  MinuteCandle,         \* the candles the market may print, per timeframe
  HourCandle,
  MaxMinutes, MaxHours, \* bounds of the instance on the candles printed; while there is more
  Rest,                 \* than Rest of one timeframe, there is no more than Rest of the other
  Needs,                \* [short, medium]: 26 and 52, the fewest candles analysed
  Limits,               \* [short, medium, long]: 100, 52 and 30, the most asked for
  Period                \* rsi 14, macdShort 12, macdLong 26, macdSignal 9, stochK 14, stochD 3,
                        \* adx 14, roc 14, tenkan 9, kijun 26, span 52, bands 20, emaShort 12,
                        \* emaLong 26, atr 14, keltnerEma 20, keltnerAtr 10, keltnerWidth 2,
                        \* volume 24, volatility 12, halfHour 6

Candle == [open : Nat \ {0}, high : Nat \ {0}, low : Nat \ {0}, close : Nat \ {0}, volume : Nat]
IsCandle(c) == c \in Candle /\ c.low <= Smaller(c.open, c.close) /\ Larger(c.open, c.close) <= c.high

ASSUME AnalysisAssumption ==
  /\ Source \in {"paradex", "avnu"}
  /\ \A c \in MinuteCandle \cup HourCandle : IsCandle(c)
  /\ MaxMinutes \in Nat /\ MaxHours \in Nat /\ Rest \in Nat
  /\ Needs \in [{"short", "medium"} -> Nat \ {0}]
  /\ Limits \in [{"short", "medium", "long"} -> Nat \ {0}]
  /\ \A p \in DOMAIN Period : Period[p] \in Nat \ {0}

\* Hour candles are analysed when there are more of them than the periods of the rate of
\* change and of the trend strength, and the latter averages more than one (14 and 14 of 52).
ASSUME PeriodsAssumption ==
  /\ {"roc", "adx"} \subseteq DOMAIN Period
  /\ Period.roc < Needs.medium /\ Period.adx < Needs.medium /\ Period.adx > 1

VARIABLES
  minutes, hours,  \* the candles printed so far, oldest first
  report           \* the last answer: Unasked, Failed, or the analysis and what it is made of

vars == <<minutes, hours, report>>

Unasked == [kind |-> "unasked"]
Failed == [kind |-> "failed"]

-----------------------------------------------------------------------------
(* The price sources. *)

\* AVNU has a line of prices: a candle of one price and no volume.
LinePoint(c) == [open |-> c.close, high |-> c.close, low |-> c.close, close |-> c.close, volume |-> 0]
\* It is asked for a window of time, whose two ends may both bear a price, and
\* its answer is taken whole; that of Paradex is cut to the limit.
LineAnswered(candles, limit) == Recent(candles, limit + 1)
avnuPrices(candles, limit) ==
  LET answer == LineAnswered(candles, limit) IN [i \in DOMAIN answer |-> LinePoint(answer[i])]
paradexPrices(candles, limit) == Recent(candles, limit)
getHistoricalPrices(candles, limit) ==
  IF Source = "paradex" THEN paradexPrices(candles, limit) ELSE avnuPrices(candles, limit)

-----------------------------------------------------------------------------
(* One report. *)

\* The change in percent against the close so many candles ago, or the first.
calculatePriceChange(prices, periods) ==
  LET before == prices[Larger(1, Len(prices) - periods)].close
      now == Last(prices).close
  IN  Frac(100 * (now - before), before)

calculateChanges(short, medium, long) ==
  [halfHour |-> calculatePriceChange(short, Period.halfHour),
   oneHour |-> calculatePriceChange(medium, 1),
   fourHours |-> calculatePriceChange(long, 1)]

\* The square of the volatility: the mean of the squared returns of the first candles given.
calculateVolatility(prices, periods) ==
  MeanOf([i \in 1 .. Smaller(periods, Len(prices)) - 1 |->
            Times(calculatePriceChange(SubSeq(prices, 1, i + 1), 1),
                  calculatePriceChange(SubSeq(prices, 1, i + 1), 1))])

defaultShortTerm ==
  [recent |-> <<>>, rsi |-> Whole(50), rsiCondition |-> "neutral", macdSignal |-> "neutral",
   macdStrength |-> Whole(0), stochastic |-> "neutral"]

\* Two patterns at most: those that end last.
analyzeShortTerm(prices) ==
  LET patterns == analyzeCandlestick(prices)
      rsi == Last(calculateRSI(prices, Period.rsi))
      histogram == Last(calculateMACD(prices, Period.macdShort, Period.macdLong, Period.macdSignal).histogram)
      stoch == calculateStochastic(prices, Period.stochK, Period.stochD)
      price == Last(prices).close
  IN  IF Len(prices) < Needs.short THEN defaultShortTerm
      ELSE [recent |-> SubSeq(patterns, 1, Smaller(2, Len(patterns))),
            rsi |-> rsi, rsiCondition |-> getRSICondition(rsi),
            macdSignal |-> getMACDSignal(histogram, price),
            macdStrength |-> getMACDStrength(histogram, price),
            stochastic |-> getStochasticCondition(Last(stoch.k), Last(stoch.d))]

Volumes(prices) == [i \in DOMAIN prices |-> Whole(prices[i].volume)]

\* Bullish, bearish or neutral: the two averages compared.
Direction(prices) ==
  LET short == Last(calculateEMA(prices, Period.emaShort))
      long == Last(calculateEMA(prices, Period.emaLong))
  IN  IF Above(short, long) THEN "up" ELSE IF Below(short, long) THEN "down" ELSE "neutral"

\* The closes within a thousandth of the last close, as rounded to cents.
levelTests(prices) ==
  LET tested == ((2 * Last(prices).close + Cent) \div (2 * Cent)) * Cent
  IN  Cardinality({i \in DOMAIN prices : Below(Frac(Magnitude(prices[i].close - tested), tested), <<1, 1000>>)})

\* The squares of the last two widths, against the squares of 1.05 and 0.95.
volatilityState(prices) ==
  LET width == calculateBollingerBands(prices, Period.bands)
      last == Last(width)
      before == width[Len(width) - 1]
  IN  IF Above(last, Times(before, <<11025, 10000>>)) THEN "expanding"
      ELSE IF Below(last, Times(before, <<9025, 10000>>)) THEN "contracting" ELSE "stable"

Trend(prices) ==
  LET roc == calculateROC(prices, Period.roc)
      atr == calculateNormalizedATR(prices, Period.atr)
      adx == calculateADX(prices, Period.adx)
  IN  [direction |-> Direction(prices),
       strength |-> IF adx.trending THEN Over(adx.adx, Whole(100)) ELSE Whole(0),
       momentum |-> Last(roc),
       sustained |-> calculateSustainedPeriods(roc, <<1, 2>>, IF Above(Last(roc), Whole(0)) THEN "up" ELSE "down"),
       tests |-> levelTests(prices),
       volatility |-> volatilityState(prices),
       atr |-> Last(atr), atrSignal |-> getVolatilitySignal(Last(atr), MeanOf(atr))]

volumeDistribution(concentration) ==
  IF Above(concentration, <<7, 10>>) THEN "high" ELSE IF Below(concentration, <<3, 10>>) THEN "low" ELSE "neutral"

Technicals(prices) ==
  LET roc == calculateROC(prices, Period.roc)
      channel == calculateKeltnerChannels(prices, Period.keltnerEma, Period.keltnerAtr, Period.keltnerWidth)
      volume == analyzeVolume(Volumes(prices), prices, Period.volume)
  IN  [roc |-> Last(roc), rocState |-> getROCSignal(Last(roc)),
       adx |-> calculateADX(prices, Period.adx),
       ichimoku |-> calculateSimplified(prices, Period.tenkan, Period.kijun, Period.span),
       keltner |-> getChannelSignal(Whole(Last(prices).close), Last(channel.upper), Last(channel.lower)),
       levels |-> calculateLevels(Last(prices)),
       volume |-> volume.trend, significance |-> volume.significance,
       distribution |-> volumeDistribution(volume.concentration),
       volumeSustained |-> calculateSustainedPeriods(Volumes(prices), MeanOf(Volumes(prices)),
                             IF volume.trend = "increasing" THEN "up" ELSE "down")]

defaultMediumTerm == [analysed |-> FALSE]
analyzeMediumTerm(prices) ==
  IF Len(prices) < Needs.medium THEN defaultMediumTerm
  ELSE [analysed |-> TRUE, trend |-> Trend(prices), technicals |-> Technicals(prices)]

analyzeAsset(short, medium, long) ==
  IF short = <<>> \/ medium = <<>> \/ long = <<>> THEN Failed
  ELSE [kind |-> "analysed",
        lastPrice |-> Last(short).close,
        changes |-> calculateChanges(short, medium, long),
        shortTerm |-> analyzeShortTerm(short),
        mediumTerm |-> analyzeMediumTerm(medium),
        volatility |-> calculateVolatility(short, Period.volatility),
        made |-> [short |-> short, medium |-> medium, long |-> long]]

-----------------------------------------------------------------------------
Init == minutes = <<>> /\ hours = <<>> /\ report = Unasked

\* The market goes on. (The report goes with the candles it was made of.)
PrintMinute(c) ==
  /\ Len(minutes) < MaxMinutes /\ (Len(minutes) < Rest \/ Len(hours) <= Rest)
  /\ minutes' = Append(minutes, c)
  /\ report' = Unasked
  /\ UNCHANGED hours
PrintHour(c) ==
  /\ Len(hours) < MaxHours /\ (Len(hours) < Rest \/ Len(minutes) <= Rest)
  /\ hours' = Append(hours, c)
  /\ report' = Unasked
  /\ UNCHANGED minutes

\* The three answers. Those about hours need not have the newest candle yet.
AsOf(candles) == {candles, SubSeq(candles, 1, Len(candles) - 1)}
Analyze ==
  /\ report = Unasked
  /\ \E medium \in AsOf(hours), long \in AsOf(hours) :
       report' = analyzeAsset(getHistoricalPrices(minutes, Limits.short),
                              getHistoricalPrices(medium, Limits.medium),
                              getHistoricalPrices(long, Limits.long))
  /\ UNCHANGED <<minutes, hours>>

\* A request fails, and with it the report.
RequestFails == report = Unasked /\ report' = Failed /\ UNCHANGED <<minutes, hours>>

Next ==
  \/ \E c \in MinuteCandle : PrintMinute(c)
  \/ \E c \in HourCandle : PrintHour(c)
  \/ Analyze
  \/ RequestFails

Spec == Init /\ [][Next]_vars

-----------------------------------------------------------------------------
(* The properties. *)

Charted == analyzeCandlestick(getHistoricalPrices(minutes, Limits.short))

\* The strength of a pattern is a number from 0 to 1: no division by an empty body or range.
StrengthsAreGrades ==
  \A k \in DOMAIN Charted :
    LET s == Charted[k].strength IN AtLeast(s, Whole(0)) /\ AtLeast(Whole(1), s)

Rising == {"HAMMER", "ENGULFING_BULLISH", "HARAMI_BULLISH", "PIERCING_LINE", "MORNING_STAR",
           "THREE_WHITE_SOLDIERS", "MARUBOZU_BULLISH"}
Falling == {"SHOOTING_STAR", "ENGULFING_BEARISH", "HARAMI_BEARISH", "DARK_CLOUD_COVER",
            "EVENING_STAR", "THREE_BLACK_CROWS", "MARUBOZU_BEARISH"}
ContradictionsAreHammers ==
  \A j, k \in DOMAIN Charted :
    /\ Charted[j].position = Charted[k].position
    /\ Charted[j].type \in Rising /\ Charted[k].type \in Falling
    => Charted[j].type = "HAMMER" /\ Charted[k].type = "EVENING_STAR"

\* Whatever candles are printed, the fourteen patterns, each with a test of its own
\* (candlestick.service.ts), agree: no strength is NaN or off the scale, and one
\* candle is not read both ways, but for a hammer that ends an evening star.
PatternsMakeSense == StrengthsAreGrades /\ ContradictionsAreHammers

Analysed == report.kind = "analysed" /\ report.mediumTerm.analysed
Technical == report.mediumTerm.technicals

\* Two signals of the report say nothing of a market that moves. The pivots come from
\* the candle they are compared with, so that only one whose range the tolerance covers
\* is reported as a breakout (pivot.service.ts); and the rate of change is cut to
\* [-1, 1] before it is compared with 10 and -10, so that its state is always neutral
\* (momentum.service.ts).
SilentSignals ==
  Analysed =>
    /\ Technical.levels.breakout # "between" => candleRange(Last(report.made.medium)) <= 3 * Epsilon
    /\ Technical.rocState = "neutral"

Quiet(prices) ==
  \A i \in 2 .. Len(prices) : plusDM(prices[i], prices[i - 1]) = 0 /\ minusDM(prices[i], prices[i - 1]) = 0

\* A market whose first period shows no directional movement has no trend strength for as long
\* as those candles are analysed, however it moves since; any other market has one (adx.service.ts).
\* The report then has NaN for a value that its type (technical-analysis.dto.ts:88, 'ADX value from
\* 0 to 1') and its test (technical.service.spec.ts:180-181) put between 0 and 1.
TrendUnknownIffQuietStart ==
  Analysed => (Quiet(SubSeq(report.made.medium, 1, Period.adx + 1)) <=> Technical.adx.adx = NaN)
=============================================================================
