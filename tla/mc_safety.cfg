CONSTANTS
  SpaceCapacity <- MCSpaceCapacity
  OtherAddrs <- MCOtherAddrs
  ImmuneAddrs <- MCImmuneAddrs
  ObjectSizes <- MCObjectSizes
  RootSlots = {r1}
  LockValues <- MCLockValues
  MaxAllocs <- MCMaxAllocs
  MaxMutations <- MCMaxMutations
  MarkStackInitialCapacity <- MCMarkStackInitialCapacity
  RefIds <- MCRefIds
SPECIFICATION FairSpec
INVARIANTS TypeOK SpaceConsistent UnmovedIntact LockWordsPaired
PROPERTIES HeapSpec GcCompletes
