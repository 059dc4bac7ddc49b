SPECIFICATION Live
CONSTANTS
  Nil = Nil
  Intervals <- IntervalChoices
  TokenValidity <- Hour
  AppRetry <- HalfMinute
  MaxBackoff <- SixteenMinutes
  Horizon = 7
INVARIANT TypeOK FreshUnlessFailing NoSilentExpiry GaugeIsHonest
PROPERTY Recovers
