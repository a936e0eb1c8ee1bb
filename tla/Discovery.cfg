SPECIFICATION Spec
CONSTANTS
  Operators = {o1, o2, o3}
  NoOperator = NoOperator
  MaxQuorums = 2
  MaxSlots = 2
  MaxChanges = 2
SYMMETRY OperatorSymmetry
INVARIANTS
  TypeOK
  NoDuplicates
PROPERTIES
  CompleteUnlessSpoiled
  ListSpec
