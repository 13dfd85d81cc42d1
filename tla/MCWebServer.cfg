SPECIFICATION WebSpec
CONSTANTS
  Streams = {s1, s2}
  Values <- MCValues
  Durations <- MCDurations
  Grace = 2
  MirrorTime = 4
  Window = 3
  MaxTasks = 2
  Ids = {w1, w2, w3}
  Sessions = {a, b}
  Threads = {t1, t2}
  Nothing = Nothing
  MaxTickets = 2
  MaxPerSession = 2
SYMMETRY EitherStream
INVARIANTS
  NewestCommandRules
  DeadClientStops
  AnswersAreKept
