SPECIFICATION Spec
CONSTANTS
  Callers = {c1, c2}
  Keys = {k1}
  Ttl = 2
  MaxCall = 1
  MaxTime = 6
  MaxVersion = 2
SYMMETRY CallerSymmetry
INVARIANTS
  TypeOK
  AnswersAreRecent
PROPERTIES
  StepsBackOnlyInARace
CHECK_DEADLOCK FALSE
