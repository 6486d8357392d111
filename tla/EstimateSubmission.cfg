CONSTANTS
  t1 = t1
  t2 = t2
  a = a
  b = b
  k1 = k1
  k2 = k2
  k3 = k3
  Tab = {t1, t2}
  Body = {a, b}
  Key = {k1, k2, k3}
  Null = Null
SPECIFICATION SubmissionSpec
SYMMETRY MCSymmetry
INVARIANTS
  AnswersAreTrue
PROPERTIES
  KeyOutlivesDoubt
