CONSTANTS
  Threads <- MCThreads
  ThinLockId <- MCThinLockId
  Klass <- MCKlass
  NoThread = NoThread
  MaxRounds = 2
  MaxDepth = 2
SPECIFICATION Spec
INVARIANTS ExitsSucceed
