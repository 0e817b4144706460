CONSTANTS
  th1 = th1
  th2 = th2
  NoTxn = NoTxn
  Threads <- MCThreads
  Transactions <- MCTransactions
  Probabilities = {0, 1, 2}
  BlockAt = 2
  ReviewAt = 1
  MinSignals = 2
  MinSeverity = 2
  AmountCap = 1
  Window = 4
  MinCalls = 3
  FailureRate = 50
  HalfOpenCalls = 2
SPECIFICATION FairSpec
INVARIANTS
  FailSafe
  BlocksWithCause
  HalfOpenCanFinish
PROPERTIES
  BreakerRecovers
