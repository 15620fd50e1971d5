\* A Duration of 6 bits stands for one of 64: the fourth delay is 4 * 2^3 = 32.
SPECIFICATION Safety
CONSTANTS
  MaxAttempts = 6
  BaseDelay = 4
  MaxDelay = 20
  Days = {d1, d2}
  Values = {v1, v2}
  Missing = Missing
  Garbled = Garbled
  MaxObs = 0
  Width = 6
INVARIANTS
  DelayFollowsComment
