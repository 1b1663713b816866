CONSTANTS
  Cent = 1
  LevelSize = 5
  Epsilon = 0
  Source = "paradex"
  MinuteCandle <- MCMinuteCandle
  HourCandle <- MCHourCandle
  MaxMinutes = 3
  MaxHours = 5
  Rest = 1
  Needs <- MCNeeds
  Limits <- MCLimits
  Period <- MCPeriod
SPECIFICATION Spec
INVARIANTS
  PatternsMakeSense
  SilentSignals
  TrendUnknownIffQuietStart
\* The candles of the instance run out.
CHECK_DEADLOCK FALSE
