\* Three NFTs of one collection, two accounts: every way to nest, send, accept, reject, burn,
\* to virtual accounts too, and does ownership implement NftOwnership?
SPECIFICATION Spec
CONSTANTS
  a1 = a1
  a2 = a2
  Account = {a1, a2}
  None = None
  CollectionIdMax = 1
  NftIdMax = 3
  ResourceIdMax = 0
  MaxPriorities = 0
  MaxRecursions = 2
  BaseId = {}
  SlotId = {}
  Key = {}
  Value = {}
  MaxChoices = {None}
  BurnBudgets = {3}
  MintedResources <- MCNoResources
  TransferableChoices = {TRUE}
  AcceptanceChoices = {}
  LockChoices = {}
  EquippedChoices = {}
  HashRank <- MCAscending
INVARIANTS TypeOK RecordHasItem
PROPERTIES GoneStaysGone OwnershipPromise RootOwnersConsent LostStaysLost OnlyVirtualAccountsLoop
CONSTRAINTS OneChain OneOdd
ACTION_CONSTRAINT SupplyOpen
SYMMETRY Symmetry
VIEW View
\* The bounded identifiers run out, and nobody has to sign anything.
CHECK_DEADLOCK FALSE
