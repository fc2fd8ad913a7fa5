SPECIFICATION Spec
CONSTANTS
  Error <- MCError
  MaxItems = 3
INVARIANT
  NothingAfterFatal
