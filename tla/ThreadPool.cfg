SPECIFICATION FairLimitedSpec
CONSTANTS
  Workers = {w1, w2, w3}
  Tasks = {t1, t2, t3}
  MaxPoolSize = 1
  HasIdleHandler = TRUE
  Nobody = Nobody
INVARIANTS
  BooksAgree
  NoLostWakeup
  LimitedHasServer
  ThreadsAreJoined
PROPERTIES
  ImplementsTaskPool
  ShutdownReturns
