\* Two NFTs and the id of a third, two accounts, one base: who empties a slot?
SPECIFICATION RuntimeSpec
CONSTANTS
  a1 = a1
  a2 = a2
  Account = {a1, a2}
  None = None
  CollectionIdMax = 1
  NftIdMax = 3
  ResourceIdMax = 2
  MaxPriorities = 1
  MaxRecursions = 2
  BaseId = {0}
  SlotId = {0}
  Key = {"key"}
  Value = {"value"}
  MaxChoices = {None}
  BurnBudgets = {2}
  MintedResources <- MCMintedResources
  TransferableChoices = {TRUE}
  AcceptanceChoices = {}
  LockChoices = {TRUE, FALSE}
  EquippedChoices = {TRUE, FALSE}
  HashRank <- MCAscending
  Amount = {0}
  Expiry = {None}
  MinimumOfferAmount = 1
  ExistentialDeposit = 1
  InitialBalances <- MCInitialBalances
  LastBlock = 1
  BaseIdMax = 1
  PartLists <- MCPartLists
  EquippableLists <- MCEquippableLists
  ThemeName = {"default", "other"}
  DefaultTheme = "default"
  ThemeKey = {"key"}
  MaxPropertiesPerTheme = 1
PROPERTY UnequippedByOwners
CONSTRAINTS OneEntry OneListing Roles BasesFirst TwoAdornments
ACTION_CONSTRAINT SupplyOpen
SYMMETRY Symmetry
VIEW View
\* The bounded identifiers run out, and nobody has to sign anything.
CHECK_DEADLOCK FALSE
