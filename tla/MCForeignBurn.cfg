\* Two NFTs, two accounts: does a burn remove only NFTs of the account that asks for it?
SPECIFICATION Spec
CONSTANTS
  a1 = a1
  a2 = a2
  Account = {a1, a2}
  None = None
  CollectionIdMax = 1
  NftIdMax = 2
  ResourceIdMax = 0
  MaxPriorities = 0
  MaxRecursions = 2
  BaseId = {}
  SlotId = {}
  Key = {}
  Value = {}
  MaxChoices = {None}
  BurnBudgets = {3}
  MintedResources <- MCNoResources
  TransferableChoices = {TRUE}
  AcceptanceChoices = {}
  LockChoices = {}
  EquippedChoices = {}
  HashRank <- MCAscending
PROPERTY BurnsOwnOnly
CONSTRAINT OneEntry
ACTION_CONSTRAINT SupplyOpen
SYMMETRY Symmetry
VIEW View
\* The bounded identifiers run out, and nobody has to sign anything.
CHECK_DEADLOCK FALSE
