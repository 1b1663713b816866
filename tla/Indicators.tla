----------------------------- MODULE Indicators -----------------------------
(***************************************************************************)
(* The indicators of the analysis: momentum, moving averages, ranges,      *)
(* channels, the cloud, pivots and volume, over a sequence of candles,     *)
(* oldest first. A period is a parameter, as in the code. A value that     *)
(* needs a square root is kept as its square.                              *)
(***************************************************************************)
EXTENDS Ratios

CONSTANTS LevelSize,  \* units in the ten dollars volume is grouped by
          Epsilon     \* units in the tolerance of a breakout
ASSUME IndicatorAssumption == LevelSize \in Nat \ {0} /\ Epsilon \in Nat

Closes(prices) == [i \in DOMAIN prices |-> Whole(prices[i].close)]
Changes(prices) == [i \in 1 .. Len(prices) - 1 |-> prices[i + 1].close - prices[i].close]
HighestHigh(prices) == Max({prices[i].high : i \in DOMAIN prices})
LowestLow(prices) == Min({prices[i].low : i \in DOMAIN prices})
Window(s, i, period) == SubSeq(s, i - period + 1, i)

\* An average that moves by 1/period of the next value: Wilder's.
Smoothed(first, later, period) ==
  FoldLeft(LAMBDA acc, x : Append(acc, Over(Plus(Times(Last(acc), Whole(period - 1)), x), Whole(period))),
           <<first>>, later)

\* Faulty variant: the first value is the average of the whole series.
smoothFromAll(series, period) ==
  Smoothed(MeanOf(series), SubSeq(series, period + 1, Len(series)), period)

smoothSeries(series, period) ==
  Smoothed(Over(SumOf(SubSeq(series, 1, Smaller(period, Len(series)))), Whole(period)),
           SubSeq(series, period + 1, Len(series)), period)

-----------------------------------------------------------------------------
(* momentum.service.ts *)

RSIOf(gain, loss) == Minus(Whole(100), Over(Whole(100), Plus(Whole(1), Over(gain, loss))))
calculateRSI(prices, period) ==
  LET moves == Changes(prices)
      gains == smoothSeries([i \in DOMAIN moves |-> Whole(Larger(moves[i], 0))], period)
      losses == smoothSeries([i \in DOMAIN moves |-> Whole(Larger(-moves[i], 0))], period)
  IN  IF Len(prices) < period + 1 THEN <<>>
      ELSE [i \in DOMAIN gains |-> RSIOf(gains[i], losses[i])]

getRSICondition(rsi) ==
  IF AtLeast(rsi, Whole(70)) THEN "overbought"
  ELSE IF AtLeast(Whole(30), rsi) THEN "oversold" ELSE "neutral"

\* The exponential average, from the first value on.
EMA(values, period) ==
  FoldLeft(LAMBDA acc, x : Append(acc, Plus(Times(x, Frac(2, period + 1)),
                                            Times(Last(acc), Frac(period - 1, period + 1)))),
           <<values[1]>>, Tail(values))

calculateMACD(prices, short, long, signalPeriod) ==
  LET shortEMA == EMA(Closes(prices), short)
      longEMA == EMA(Closes(prices), long)
      macd == [i \in DOMAIN prices |-> Minus(shortEMA[i], longEMA[i])]
      signal == EMA(macd, signalPeriod)
  IN  [macd |-> macd, signal |-> signal,
       histogram |-> [i \in DOMAIN prices |-> Minus(macd[i], signal[i])]]

\* The histogram in percent of the price.
InPercent(histogram, price) == Times(Over(histogram, Whole(price)), Whole(100))
getMACDSignal(histogram, price) ==
  IF Above(InPercent(histogram, price), <<1, 5>>) THEN "buy"
  ELSE IF Below(InPercent(histogram, price), <<-1, 5>>) THEN "sell" ELSE "neutral"
getMACDStrength(histogram, price) ==
  AtMost(Over(Size(InPercent(histogram, price)), <<2, 5>>), Whole(1))

StochasticOf(prices, i, period) ==
  LET window == Window(prices, i, period)
  IN  Frac(100 * (prices[i].close - LowestLow(window)), HighestHigh(window) - LowestLow(window))
calculateStochastic(prices, period, dPeriod) ==
  LET k == [i \in 1 .. Len(prices) - period + 1 |-> StochasticOf(prices, i + period - 1, period)]
  IN  [k |-> k, d |-> [i \in 1 .. Len(k) - dPeriod + 1 |-> MeanOf(Window(k, i + dPeriod - 1, dPeriod))]]

getStochasticCondition(k, d) ==
  IF Above(k, Whole(80)) /\ Above(d, Whole(80)) THEN "overbought"
  ELSE IF Below(k, Whole(20)) /\ Below(d, Whole(20)) THEN "oversold" ELSE "neutral"

\* The change over the period in percent, a tenth of it, cut to [-1, 1].
NormalizedROC(now, before) == Clamp(Over(Frac(100 * (now - before), before), Whole(10)), Whole(-1), Whole(1))
calculateROC(prices, period) ==
  [i \in 1 .. Len(prices) - period |-> NormalizedROC(prices[i + period].close, prices[i].close)]

getROCSignal(roc) ==
  IF Above(roc, Whole(10)) THEN "overbought"
  ELSE IF Below(roc, Whole(-10)) THEN "oversold" ELSE "neutral"

calculateSustainedPeriods(values, threshold, direction) ==
  TrueAtEnd([i \in DOMAIN values |-> IF direction = "up" THEN Above(values[i], threshold)
                                                         ELSE Below(values[i], threshold)])

-----------------------------------------------------------------------------
(* moving-average.service.ts *)

\* The sum of a window is moved along, not computed anew.
MoveWindow(closes, period, sums, i) ==
  Append(sums, Plus(Minus(Last(sums), closes[i - period]), closes[i]))
calculateSMA(prices, period) ==
  LET closes == Closes(prices)
      sums == FoldLeft(LAMBDA acc, i : MoveWindow(closes, period, acc, i),
                       <<SumOf(SubSeq(closes, 1, period))>>,
                       [j \in 1 .. Len(closes) - period |-> j + period])
  IN  [i \in DOMAIN sums |-> Over(sums[i], Whole(period))]

\* The square of the width of the bands, two deviations to each side of the average.
calculateBollingerBands(prices, period) ==
  LET middle == calculateSMA(prices, period)
      closes == Closes(prices)
      SquaredFrom(avg, x) == Times(Minus(x, avg), Minus(x, avg))
      Variance(i) == LET window == Window(closes, i + period - 1, period)
                     IN  MeanOf([j \in DOMAIN window |-> SquaredFrom(middle[i], window[j])])
  IN  [i \in DOMAIN middle |-> Over(Times(Whole(16), Variance(i)), Times(middle[i], middle[i]))]

calculateEMA(prices, period) == EMA(Closes(prices), period)

-----------------------------------------------------------------------------
(* atr.service.ts, keltnerChannel.service.ts *)

TrueRange(candle, before) ==
  Max({candle.high - candle.low, Magnitude(candle.high - before.close), Magnitude(candle.low - before.close)})
TrueRanges(prices) == [i \in 1 .. Len(prices) - 1 |-> Whole(TrueRange(prices[i + 1], prices[i]))]

calculateATR(prices, period) ==
  LET tr == TrueRanges(prices)
  IN  IF tr = <<>> THEN <<>> ELSE Smoothed(tr[1], Tail(tr), period)
calculateNormalizedATR(prices, period) ==
  LET atr == calculateATR(prices, period)
  IN  [i \in DOMAIN atr |-> Times(Over(atr[i], Whole(prices[i + 1].close)), Whole(100))]
getVolatilitySignal(atr, avgATR) ==
  IF Above(atr, Times(avgATR, <<3, 2>>)) THEN "high"
  ELSE IF Below(atr, Times(avgATR, <<1, 2>>)) THEN "low" ELSE "normal"

\* A range is put on the average of the candle before its own.
calculateKeltnerChannels(prices, emaPeriod, atrPeriod, multiplier) ==
  LET ema == calculateEMA(prices, emaPeriod)
      atr == calculateATR(prices, atrPeriod)
  IN  [middle |-> ema,
       upper |-> [i \in DOMAIN atr |-> Plus(ema[i], Times(Whole(multiplier), atr[i]))],
       lower |-> [i \in DOMAIN atr |-> Minus(ema[i], Times(Whole(multiplier), atr[i]))]]
getChannelSignal(price, upper, lower) ==
  IF Above(price, upper) THEN "overbought" ELSE IF Below(price, lower) THEN "oversold" ELSE "neutral"

-----------------------------------------------------------------------------
(* adx.service.ts *)

UpMove(candle, before) == candle.high - before.high
DownMove(candle, before) == before.low - candle.low
plusDM(candle, before) ==
  IF UpMove(candle, before) > Larger(DownMove(candle, before), 0) THEN UpMove(candle, before) ELSE 0
minusDM(candle, before) ==
  IF DownMove(candle, before) > Larger(UpMove(candle, before), 0) THEN DownMove(candle, before) ELSE 0

calculateDMI(prices, period) ==
  LET tr == smoothSeries(TrueRanges(prices), period)
      Moved(dm) == smoothSeries([i \in DOMAIN dm |-> Whole(dm[i])], period)
      plus == Moved([i \in 1 .. Len(prices) - 1 |-> plusDM(prices[i + 1], prices[i])])
      minus == Moved([i \in 1 .. Len(prices) - 1 |-> minusDM(prices[i + 1], prices[i])])
  IN  [plusDI |-> [i \in DOMAIN plus |-> Times(Over(plus[i], tr[i]), Whole(100))],
       minusDI |-> [i \in DOMAIN minus |-> Times(Over(minus[i], tr[i]), Whole(100))]]

calculateADX(prices, period) ==
  LET di == calculateDMI(prices, period)
      dx == [i \in DOMAIN di.plusDI |->
               Times(Over(Size(Minus(di.plusDI[i], di.minusDI[i])), Size(Plus(di.plusDI[i], di.minusDI[i]))),
                     Whole(100))]
      adx == smoothSeries(dx, period)
  IN  [adx |-> Last(adx), trending |-> Above(Last(adx), Whole(25)),
       sustainedPeriods |-> calculateSustainedPeriods(adx, Whole(25), "up")]

-----------------------------------------------------------------------------
(* ichimoku.service.ts *)

calculateLastPeriodHL(prices, period) ==
  LET window == Window(prices, Len(prices), period)
  IN  Frac(HighestHigh(window) + LowestLow(window), 2)

getIchimokuSignal(price, conversion, base, cloudTop, cloudBottom) ==
  CASE Above(price, cloudTop) /\ Above(conversion, base) -> "strong_buy"
    [] Above(price, cloudTop) /\ ~Above(conversion, base) -> "buy"
    [] Below(price, cloudBottom) /\ Below(conversion, base) -> "strong_sell"
    [] Below(price, cloudBottom) /\ ~Below(conversion, base) -> "sell"
    [] OTHER -> "neutral"
getCloudState(price, cloudTop, cloudBottom) ==
  IF Above(price, cloudTop) THEN "above" ELSE IF Below(price, cloudBottom) THEN "below" ELSE "inside"

calculateSimplified(prices, tenkanPeriod, kijunPeriod, spanPeriod) ==
  LET price == Whole(Last(prices).close)
      tenkan == calculateLastPeriodHL(prices, tenkanPeriod)
      kijun == calculateLastPeriodHL(prices, kijunPeriod)
      spanB == calculateLastPeriodHL(prices, spanPeriod)
      spanA == Over(Plus(tenkan, kijun), Whole(2))
      top == IF Above(spanA, spanB) THEN spanA ELSE spanB
      bottom == IF Above(spanA, spanB) THEN spanB ELSE spanA
  IN  [signal |-> getIchimokuSignal(price, tenkan, kijun, top, bottom),
       cloudState |-> getCloudState(price, top, bottom),
       conversion |-> tenkan, base |-> kijun]

-----------------------------------------------------------------------------
(* pivot.service.ts. Three times the pivot point, the resistance and the   *)
(* support are integers.                                                   *)

ThricePivot(c) == c.high + c.low + c.close
\* Faulty variant: high and low are mixed up.
ThriceR1Swapped(c) == 2 * ThricePivot(c) - 3 * c.high

ThriceR1(c) == 2 * ThricePivot(c) - 3 * c.low
ThriceS1(c) == 2 * ThricePivot(c) - 3 * c.high
getBreakoutState(price, thriceR1, thriceS1) ==
  IF 3 * price >= thriceR1 - 3 * Epsilon THEN "above_r1"
  ELSE IF 3 * price <= thriceS1 + 3 * Epsilon THEN "below_s1" ELSE "between"
calculateLevels(c) ==
  [pivot |-> ThricePivot(c), r1 |-> ThriceR1(c), s1 |-> ThriceS1(c),
   breakout |-> getBreakoutState(c.close, ThriceR1(c), ThriceS1(c))]

-----------------------------------------------------------------------------
(* volume.service.ts *)

calculateAverageVolume(volumes, period) ==
  IF Smaller(period, Len(volumes)) < 2 THEN IF volumes = <<>> THEN Whole(0) ELSE Last(volumes)
  ELSE MeanOf(Recent(volumes, period))

PriceLevel(c) == (2 * c.close + LevelSize) \div (2 * LevelSize)
calculateVolumeProfile(volumes, prices) ==
  LET levels == {PriceLevel(prices[i]) : i \in DOMAIN prices}
      VolumeAt(level) == SumOf([i \in DOMAIN prices |-> IF PriceLevel(prices[i]) = level
                                                       THEN volumes[i] ELSE Whole(0)])
      dominant == CHOOSE level \in levels : \A other \in levels : ~Above(VolumeAt(other), VolumeAt(level))
  IN  AtMost(Times(Over(VolumeAt(dominant), SumOf(volumes)), Whole(3)), Whole(1))

\* The second half of the recent volumes against the first, which is the longer one.
calculateTrendStrength(volumes, period) ==
  LET recent == Recent(volumes, period)
      half == Len(recent) \div 2
      ma1 == MeanOf(SubSeq(recent, 1, Len(recent) - half))
      ma2 == MeanOf(SubSeq(recent, Len(recent) - half + 1, Len(recent)))
      change == Over(Minus(ma2, ma1), ma1)
  IN  IF Len(volumes) < 3 \/ change[2] = 0 THEN Whole(0) ELSE Clamp(change, Whole(-1), Whole(1))

getVolumeTrend(strength) ==
  IF Above(strength, <<1, 20>>) THEN "increasing" ELSE IF Below(strength, <<-1, 20>>) THEN "decreasing" ELSE "stable"

analyzeVolume(volumes, prices, period) ==
  LET average == calculateAverageVolume(Front(volumes), period)
      strength == calculateTrendStrength(volumes, period)
  IN  [trend |-> getVolumeTrend(strength), strength |-> Size(strength),
       significance |-> IF Above(average, Whole(0)) THEN AtMost(Over(Last(volumes), average), Whole(1))
                                                    ELSE Whole(1),
       concentration |-> calculateVolumeProfile(volumes, prices)]
=============================================================================
