\* Three NFTs of two collections: every Children map, every owner in the records, every counter.
SPECIFICATION BurnSpec
CONSTANTS
  Account = {a1}
  None = None
  CollectionIdMax = 2
  NftIdMax = 2
  ResourceIdMax = 0
  MaxPriorities = 0
  MaxRecursions = 2
  BaseId = {}
  SlotId = {}
  Key = {}
  Value = {}
  MaxChoices = {None}
  BurnBudgets = {}
  MintedResources <- MCNoResources
  TransferableChoices = {TRUE}
  AcceptanceChoices = {}
  LockChoices = {}
  EquippedChoices = {}
  HashRank <- MCHashRank
  Present <- MCPresent
  Budgets = {2, 7}
INVARIANT RefusedForCause
PROPERTIES BurnIsAtomic BurnEnds
CONSTRAINT OneOddEntry
\* The call ends.
CHECK_DEADLOCK FALSE
