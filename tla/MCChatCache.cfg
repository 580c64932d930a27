CONSTANTS
  q1 = q1
  q2 = q2
  w1 = w1
  w2 = w2
  k1 = k1
  Query = {q1, q2}
  Writer = {w1}
  Question = {k1}
  Near <- MCNear
  RedisMayFail = TRUE
  MaxVersion = 2
  MaxChanges = 1
SPECIFICATION CacheSpec
SYMMETRY Symmetry
INVARIANTS
  SemanticAnswersFresh
