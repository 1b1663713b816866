---------------------------- MODULE Candlesticks ----------------------------
(***************************************************************************)
(* The chart patterns candlestick.service.ts reports. A candle is a record *)
(* of integer prices, in units so small that every price is one; Cent      *)
(* of them are the 0.01 the code puts in the place of an empty body. A     *)
(* check answers a sequence: the pattern, or nothing (the code's null).    *)
(* c1, c2 and c3 are the last candle, the one before it and the one before *)
(* that, as in the code.                                                   *)
(***************************************************************************)
EXTENDS Ratios

CONSTANT Cent
ASSUME CentAssumption == Cent \in Nat \ {0}

bodySize(c) == Magnitude(c.close - c.open)
candleRange(c) == c.high - c.low
upperShadow(c) == c.high - Larger(c.open, c.close)
lowerShadow(c) == Smaller(c.open, c.close) - c.low
Bullish(c) == c.close > c.open
Bearish(c) == c.close < c.open
\* Math.abs(close - open || 0.01)
bodyOrCent(c) == IF bodySize(c) = 0 THEN Cent ELSE bodySize(c)
\* close against the middle of the body of c
AboveMidpoint(price, c) == 2 * price > c.open + c.close
BelowMidpoint(price, c) == 2 * price < c.open + c.close

-----------------------------------------------------------------------------
isDoji(c) == candleRange(c) > 0 /\ 10 * bodySize(c) < candleRange(c)

\* Faulty variant: a candle without a range is not ruled out.
isHammerOrFlat(c, previous) ==
  /\ lowerShadow(c) >= 2 * bodySize(c)
  /\ 10 * upperShadow(c) <= candleRange(c)
  /\ Bearish(previous)

isHammer(c, previous) ==
  /\ candleRange(c) # 0
  /\ lowerShadow(c) >= 2 * bodySize(c)
  /\ 10 * upperShadow(c) <= candleRange(c)
  /\ Bearish(previous)

isShootingStar(c, previous) ==
  /\ candleRange(c) # 0
  /\ upperShadow(c) >= 2 * bodySize(c)
  /\ 10 * lowerShadow(c) <= 3 * bodySize(c)
  /\ 10 * bodySize(c) < 3 * candleRange(c)
  /\ Bullish(previous)
  /\ Bearish(c)

\* At least 80% of the range, each shadow at most 10% of the body.
LongBody(c) ==
  /\ candleRange(c) # 0
  /\ 10 * bodySize(c) >= 8 * candleRange(c)
  /\ 10 * upperShadow(c) <= bodySize(c)
  /\ 10 * lowerShadow(c) <= bodySize(c)
isBullishMarubozu(c) == Bullish(c) /\ LongBody(c)
isBearishMarubozu(c) == Bearish(c) /\ LongBody(c)

isBullishEngulfing(c, previous) ==
  /\ Bearish(previous) /\ Bullish(c)
  /\ c.open <= previous.close /\ c.close >= previous.open
  /\ bodySize(c) > bodySize(previous)
isBearishEngulfing(c, previous) ==
  /\ Bullish(previous) /\ Bearish(c)
  /\ c.open >= previous.close /\ c.close <= previous.open
  /\ bodySize(c) > bodySize(previous)

isBullishHarami(c, previous) ==
  /\ Bearish(previous) /\ Bullish(c)
  /\ c.open >= previous.close /\ c.close <= previous.open
  /\ 10 * bodySize(c) < 6 * bodySize(previous)
isBearishHarami(c, previous) ==
  /\ Bullish(previous) /\ Bearish(c)
  /\ c.open <= previous.close /\ c.close >= previous.open
  /\ 10 * bodySize(c) < 6 * bodySize(previous)

isDarkCloud(c, previous) ==
  /\ Bullish(previous) /\ Bearish(c)
  /\ c.open > previous.high
  /\ BelowMidpoint(c.close, previous)
  /\ c.close <= previous.open
isPiercingLine(c, previous) ==
  /\ Bearish(previous) /\ Bullish(c)
  /\ c.open < previous.low
  /\ AboveMidpoint(c.close, previous)
  /\ c.close < previous.open

\* A small body between two large ones.
SmallSecond(c2, c3) == 10 * bodySize(c2) < 3 * bodySize(c3)
isMorningStar(c1, c2, c3) ==
  Bearish(c3) /\ SmallSecond(c2, c3) /\ Bullish(c1) /\ AboveMidpoint(c1.close, c3)
isEveningStar(c1, c2, c3) ==
  Bullish(c3) /\ SmallSecond(c2, c3) /\ Bearish(c1) /\ BelowMidpoint(c1.close, c3)

isThreeWhiteSoldiers(c1, c2, c3) ==
  /\ Bullish(c1) /\ Bullish(c2) /\ Bullish(c3)
  /\ c2.open > c3.open /\ 100 * c2.open <= 101 * c3.close
  /\ c1.open > c2.open /\ 100 * c1.open <= 101 * c2.close
  /\ c2.close > c3.close /\ c1.close > c2.close
  /\ \A c \in {c1, c2, c3} : 10 * (c.high - c.close) < bodySize(c)
isThreeBlackCrows(c1, c2, c3) ==
  /\ Bearish(c1) /\ Bearish(c2) /\ Bearish(c3)
  /\ c2.open < c3.open /\ 100 * c2.open >= 99 * c3.close
  /\ c1.open < c2.open /\ 100 * c1.open >= 99 * c2.close
  /\ c2.close < c3.close /\ c1.close < c2.close
  /\ \A c \in {c1, c2, c3} : 10 * (c.close - c.low) < bodySize(c)

-----------------------------------------------------------------------------
Seen(type, position, strength) ==
  <<[type |-> type, position |-> position, strength |-> strength]>>
UpToOne(n, d) == AtMost(Frac(n, d), Whole(1))

checkDoji(c, i) ==
  IF isDoji(c) THEN Seen("DOJI", i, Minus(Whole(1), Frac(bodySize(c), candleRange(c)))) ELSE <<>>
checkHammer(c, previous, i) ==
  IF isHammer(c, previous) THEN Seen("HAMMER", i, UpToOne(lowerShadow(c), 2 * bodySize(c))) ELSE <<>>
checkShootingStar(c, previous, i) ==
  IF isShootingStar(c, previous)
  THEN Seen("SHOOTING_STAR", i, UpToOne(upperShadow(c), 2 * bodySize(c))) ELSE <<>>
checkMarubozu(c, i) ==
  IF isBullishMarubozu(c) \/ isBearishMarubozu(c)
  THEN Seen(IF isBullishMarubozu(c) THEN "MARUBOZU_BULLISH" ELSE "MARUBOZU_BEARISH",
            i, UpToOne(bodySize(c), candleRange(c)))
  ELSE <<>>
checkEngulfing(c, previous, i) ==
  IF isBullishEngulfing(c, previous) \/ isBearishEngulfing(c, previous)
  THEN Seen(IF isBullishEngulfing(c, previous) THEN "ENGULFING_BULLISH" ELSE "ENGULFING_BEARISH",
            i, UpToOne(bodySize(c), bodyOrCent(previous)))
  ELSE <<>>
checkHarami(c, previous, i) ==
  IF isBullishHarami(c, previous) \/ isBearishHarami(c, previous)
  THEN Seen(IF isBullishHarami(c, previous) THEN "HARAMI_BULLISH" ELSE "HARAMI_BEARISH",
            i, Minus(Whole(1), Frac(bodySize(c), bodyOrCent(previous))))
  ELSE <<>>
checkDarkCloud(c, previous, i) ==
  IF isDarkCloud(c, previous)
  THEN Seen("DARK_CLOUD_COVER", i,
            UpToOne(previous.close - c.close, previous.close - previous.open))
  ELSE <<>>
checkPiercingLine(c, previous, i) ==
  IF isPiercingLine(c, previous)
  THEN Seen("PIERCING_LINE", i,
            UpToOne(c.close - previous.close, previous.open - previous.close))
  ELSE <<>>
checkMorningStar(c1, c2, c3, i) ==
  IF isMorningStar(c1, c2, c3)
  THEN Seen("MORNING_STAR", i, UpToOne(bodySize(c3) + bodySize(c1), 2 * bodyOrCent(c2))) ELSE <<>>
checkEveningStar(c1, c2, c3, i) ==
  IF isEveningStar(c1, c2, c3)
  THEN Seen("EVENING_STAR", i, UpToOne(bodySize(c3) + bodySize(c1), 2 * bodyOrCent(c2))) ELSE <<>>
checkThreeWhiteSoldiers(c1, c2, c3, i) ==
  IF isThreeWhiteSoldiers(c1, c2, c3)
  THEN Seen("THREE_WHITE_SOLDIERS", i, UpToOne(bodySize(c1), bodyOrCent(c2))) ELSE <<>>
checkThreeBlackCrows(c1, c2, c3, i) ==
  IF isThreeBlackCrows(c1, c2, c3)
  THEN Seen("THREE_BLACK_CROWS", i, UpToOne(bodySize(c1), bodyOrCent(c2))) ELSE <<>>

\* Every pattern that ends at candle i, in the order of the code's list.
PatternsAt(candles, i) ==
  LET c1 == candles[i]
      c2 == candles[i - 1]
      c3 == candles[i - 2]
  IN  checkDoji(c1, i) \o checkHammer(c1, c2, i) \o checkShootingStar(c1, c2, i)
        \o checkMarubozu(c1, i) \o checkEngulfing(c1, c2, i) \o checkHarami(c1, c2, i)
        \o checkDarkCloud(c1, c2, i) \o checkPiercingLine(c1, c2, i)
        \o checkMorningStar(c1, c2, c3, i) \o checkEveningStar(c1, c2, c3, i)
        \o checkThreeWhiteSoldiers(c1, c2, c3, i) \o checkThreeBlackCrows(c1, c2, c3, i)

\* The newest first; the first two candles end no pattern.
analyzeCandlestick(candles) ==
  FlattenSeq([k \in 1 .. Len(candles) - 2 |-> PatternsAt(candles, Len(candles) + 1 - k)])
=============================================================================
