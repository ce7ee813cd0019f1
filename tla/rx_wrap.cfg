CONSTANTS
  NUM = 4
  IdxMod = 8
  MaxRx = 9
  MaxUsedIdx = 10
SPECIFICATION Spec
INVARIANTS HandledInOrder
CHECK_DEADLOCK FALSE
