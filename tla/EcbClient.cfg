\* Four attempts; delays 4, 8 and 16 capped to 10, in a Duration that holds them.
SPECIFICATION Spec
CONSTANTS
  MaxAttempts = 4
  BaseDelay = 4
  MaxDelay = 10
  Days = {d1, d2}
  Values = {v1, v2}
  Missing = Missing
  Garbled = Garbled
  MaxObs = 2
  Width = 8
INVARIANTS
  TypeOK
  AnswerIsPublished
  MetricsMissAtMostTheLast
  DelayFollowsComment
PROPERTIES
  OnlyRetriableIsRetried
  CallSpec
