SPECIFICATION AppFairSpec
CONSTANTS
  Conn = {c1, c2}
  Main = server
  BlockingThreads = 1
  CertFiles <- MCCertFiles
  KeyFiles <- MCKeyFiles
INVARIANTS
  AppInv
  ServesUntilInterrupted
  ExitsDrained
  StartupExact
PROPERTIES
  OnlyFailureCuts
  InterruptEndsProcess
