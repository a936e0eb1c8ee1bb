SPECIFICATION Spec
CONSTANTS
  Operators = {o1, o2}
  NoOperator = NoOperator
  MaxQuorums = 2
  MaxSlots = 2
  MaxChanges = 0
PROPERTIES
  Complete
