\* Two requests at a time, a purge, tokens that expire; and three workers,
\* calls that wait and replies that get lost.
SPECIFICATION GuardsSpec
CONSTANTS
  Tokens = {t1, t2, t3}
  Slots = {s1, s2}
  Limit = 1
  Window = 1
  Lifetime = 2
  MaxNow = 3
  Workers = {w1, w2, w3}
  Seconds = 0
  Least = 2
  Most = 3
  LeaseMaxNow = 4
SYMMETRY Alike
INVARIANTS
  ServedOnce
  OverrunBounded
  OneKnows
PROPERTIES
  LiveLeaseIsKept
CHECK_DEADLOCK FALSE
