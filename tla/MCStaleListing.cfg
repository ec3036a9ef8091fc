\* One NFT, two accounts: is what can be bought locked since it was listed?
SPECIFICATION MarketSpec
CONSTANTS
  a1 = a1
  a2 = a2
  Account = {a1, a2}
  None = None
  CollectionIdMax = 1
  NftIdMax = 1
  ResourceIdMax = 0
  MaxPriorities = 0
  MaxRecursions = 2
  BaseId = {}
  SlotId = {}
  Key = {}
  Value = {}
  MaxChoices = {None}
  BurnBudgets = {2}
  MintedResources <- MCNoResources
  TransferableChoices = {TRUE}
  AcceptanceChoices = {}
  LockChoices = {TRUE, FALSE}
  EquippedChoices = {}
  HashRank <- MCAscending
  Amount = {1, 2}
  Expiry <- MCExpiry
  MinimumOfferAmount = 1
  ExistentialDeposit = 1
  InitialBalances <- MCInitialBalances
  LastBlock = 1
INVARIANT ForSaleIsLocked
CONSTRAINTS FewDeals OneEntry
ACTION_CONSTRAINT SupplyOpen
SYMMETRY Symmetry
VIEW View
\* The bounded identifiers run out, and nobody has to sign anything.
CHECK_DEADLOCK FALSE
