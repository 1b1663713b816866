------------------------ MODULE MCTechnicalAnalysis ------------------------
(***************************************************************************)
(* Minute candles of every shape the patterns tell apart, hour candles of  *)
(* a quiet and of a moving market, and periods scaled down in their order. *)
(***************************************************************************)
EXTENDS TechnicalAnalysis

C(o, h, l, c, v) == [open |-> o, high |-> h, low |-> l, close |-> c, volume |-> v]
MCMinuteCandle ==
  {C(110, 110, 110, 110, 0),                                                        \* flat
   C(100, 110, 100, 110, 1), C(105, 115, 105, 115, 1), C(110, 120, 110, 120, 1),    \* soldiers
   C(120, 120, 110, 110, 1), C(115, 115, 105, 105, 1), C(110, 110, 100, 100, 1),    \* crows
   C(112, 114, 104, 114, 1), C(104, 104, 94, 102, 1),                               \* hammers
   C(104, 112, 102, 102, 1), C(109, 110, 107, 108, 1),                              \* a star, a small body
   C(110, 115, 105, 110, 1),                                                        \* doji
   C(122, 123, 107, 108, 1), C(98, 107, 97, 107, 1), C(108, 122, 107, 121, 1)}      \* cloud, line, engulfing
MCHourCandle == {C(8, 8, 8, 8, 0), C(8, 12, 8, 11, 1), C(11, 12, 6, 7, 5)}
MCNeeds == [short |-> 3, medium |-> 4]
MCLimits == [short |-> 3, medium |-> 4, long |-> 3]
MCPeriod ==
  [rsi |-> 2, macdShort |-> 1, macdLong |-> 3, macdSignal |-> 2, stochK |-> 2, stochD |-> 2,
   adx |-> 2, roc |-> 2, tenkan |-> 2, kijun |-> 3, span |-> 4, bands |-> 2, emaShort |-> 1,
   emaLong |-> 3, atr |-> 2, keltnerEma |-> 3, keltnerAtr |-> 2, keltnerWidth |-> 2,
   volume |-> 3, volatility |-> 2, halfHour |-> 2]
=============================================================================
