SPECIFICATION Spec
CONSTANTS
  Half = 16
  Delays <- LongDelays
  Presets <- SomePresets
  Uses <- TwoWords
  TimerGap = 2
  MaxUses = 1
INVARIANT NotEarly
