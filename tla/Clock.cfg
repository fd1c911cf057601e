\* Once the timer has seen the last tick before the wrap, it never sends another.
CONSTANTS
  Seconds = 2
  Hundred = 3
  Duration = 1

SPECIFICATION Spec

PROPERTY
  SleepEnds
