SPECIFICATION FairSpec
CONSTANTS
  p1 = p1 p2 = p2 c1 = c1 c2 = c2 k1 = k1 m1 = m1 m2 = m2 m3 = m3
  NULL = NULL
  Producers = {p1, p2}
  Consumers = {c1, c2}
  Clearers = {}
  Messages = {m1, m2, m3}
  Capacity = 1
INVARIANTS NoLostWakeup
PROPERTY EveryMessageLeaves
