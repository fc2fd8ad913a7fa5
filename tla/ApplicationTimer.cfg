SPECIFICATION AppFairSpec
CONSTANTS
  Conn = {c1}
  Main = server
  BlockingThreads = 1
  CertFiles <- MCCertFiles
  KeyFiles <- MCKeyFiles
PROPERTY
  TimerShutsDown
