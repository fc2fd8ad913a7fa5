SPECIFICATION Spec
CONSTANTS
  Error <- MCError
  MaxItems = 3
INVARIANTS
  IInv
  NothingLostOrReordered
