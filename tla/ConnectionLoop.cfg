SPECIFICATION FairSpec
INVARIANTS
  IInv
  NoPollAfterCompletion
  NoLostWakeup
  EndsWithConnection
PROPERTIES
  StepsOfServer
  CallsReachHyper
  ToldConnectionEnds
