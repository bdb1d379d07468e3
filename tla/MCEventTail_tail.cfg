CONSTANTS
  Producers = {p1, p2}
  Streamers = {s}
  Waiters = {w}
  Items = {a, b}
  NoItem = NoItem
  AfterSeq <- FromStart
  PageLimit = 1
  MaxBatch = 2
  MaxEvents = 2
SPECIFICATION OneReaderSpec
INVARIANTS StreamerComplete NoLostWakeup
PROPERTIES InOrderOnce EventuallyDelivered ClosedReaderLeaves
CHECK_DEADLOCK FALSE
