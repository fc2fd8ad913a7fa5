SPECIFICATION Spec
CONSTANTS
  Conn = {c1, c2, c3, c4}
  Main = main
  BlockingThreads = 2
SYMMETRY ConnSymmetry
INVARIANTS
  IInv
  DrainedAtReturn
  NoMissedShutdown
  DrainNeverStuck
PROPERTIES
  RequestsNotCut
  ImplementsGracefulShutdown
