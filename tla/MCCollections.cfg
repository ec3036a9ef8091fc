\* Two collections, two accounts: limits, locking, issuers, burning down and destroying.
SPECIFICATION Spec
CONSTANTS
  a1 = a1
  a2 = a2
  Account = {a1, a2}
  None = None
  CollectionIdMax = 2
  NftIdMax = 2
  ResourceIdMax = 0
  MaxPriorities = 0
  MaxRecursions = 2
  BaseId = {}
  SlotId = {}
  Key = {}
  Value = {}
  MaxChoices <- MCMaxChoices
  BurnBudgets = {2}
  MintedResources <- MCNoResources
  TransferableChoices = {TRUE}
  AcceptanceChoices = {0}
  LockChoices = {}
  EquippedChoices = {}
  HashRank <- MCDescending
INVARIANTS IssuersAgree CountNeverExceedsRecords DestroyedLeavesNothing
PROPERTIES FullStaysFull CapNeverRises
CONSTRAINTS FewNfts Rooted
SYMMETRY Symmetry
VIEW View
\* The bounded identifiers run out, and nobody has to sign anything.
CHECK_DEADLOCK FALSE
