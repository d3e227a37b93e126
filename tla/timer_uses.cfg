SPECIFICATION FairSpec
CONSTANTS
  Half = 16
  Delays <- SomeDelays
  Presets <- SomePresets
  Uses <- OneWord
  TimerGap = 2
  MaxUses = 3
INVARIANT TypeOK
INVARIANT NotEarly
INVARIANT NoTickLost
PROPERTY Wakes
