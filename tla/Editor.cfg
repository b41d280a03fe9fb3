SPECIFICATION Spec
CONSTANTS
  Files = {f1, f2}
  Bodies = {a}
  MaxUndo = 2
INVARIANTS TypeOK OldTextKept
PROPERTY KeepsPromise
CHECK_DEADLOCK FALSE
