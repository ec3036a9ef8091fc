\* Two NFTs, two accounts, three prices, two blocks: a listing and an offer under an NFT that moves.
SPECIFICATION MarketSpec
CONSTANTS
  a1 = a1
  a2 = a2
  Account = {a1, a2}
  None = None
  CollectionIdMax = 1
  NftIdMax = 2
  ResourceIdMax = 0
  MaxPriorities = 0
  MaxRecursions = 2
  BaseId = {}
  SlotId = {}
  Key = {}
  Value = {}
  MaxChoices = {None}
  BurnBudgets = {2}
  MintedResources <- MCNoResources
  TransferableChoices = {TRUE}
  AcceptanceChoices = {}
  LockChoices = {TRUE, FALSE}
  EquippedChoices = {TRUE}
  HashRank <- MCAscending
  Amount = {0, 1, 2}
  Expiry <- MCExpiry
  MinimumOfferAmount = 1
  ExistentialDeposit = 1
  InitialBalances <- MCInitialBalances
  LastBlock = 1
INVARIANTS MarketTypeOK ReservesCoverOffers LockedAreListed
PROPERTIES OwnersArePaid BuyersAgreed
CONSTRAINTS FewDeals OneEntry NoneEquipped SecondStays
ACTION_CONSTRAINT SupplyOpen
SYMMETRY Symmetry
VIEW View
\* The bounded identifiers run out, and nobody has to sign anything.
CHECK_DEADLOCK FALSE
