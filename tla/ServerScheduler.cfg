SPECIFICATION SchedulerSpec
CONSTANTS
  Conn = {c1, c2}
  Main = main
  BlockingThreads = 1
PROPERTIES
  DrainOnlyDescends
  ServedConnectionsTold
  AcceptProgress
