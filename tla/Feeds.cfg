\* The two streams, each with two windows and room for two frames.
SPECIFICATION FeedsSpec
CONSTANTS
  Windows = {w1, w2}
  Values = {a, b}
  Blank = Blank
  ErrorFrame = ErrorFrame
  Nothing = Nothing
  QueueSize = 2
INVARIANTS
  NewestIsQueued
  NoLostWakeup
PROPERTY WindowsConverge
