\* Two events, each timed up to three times.
SPECIFICATION Spec
CONSTANTS
  k1 = k1
  k2 = k2
  Keys = {k1, k2}
  NoKey = NoKey
  MaxStarts = 3
INVARIANTS
  ArmedAlive
  OrphansAreLate
PROPERTY DeadlineSpec
