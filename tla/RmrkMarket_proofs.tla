--------------------------- MODULE RmrkMarket_proofs ---------------------------
(***************************************************************************)
(* rmrk-core under rmrk-market: every extrinsic of the market is, to the   *)
(* storage of rmrk-core, a lock, a sale or nothing, so that what RmrkCore  *)
(* promises holds with the market around it; the market's own storage      *)
(* keeps its types, no balance ever becoming negative; what is locked can  *)
(* be unlisted; and NFTs and money change hands together, as agreed.       *)
(***************************************************************************)
EXTENDS RmrkMarket, RmrkOwnership_proofs

(* The market's part of MarketTypeOK, without the clock.                     *)
DealsTypeOK ==
    /\ listedNfts \in [Nft -> ListInfo \cup {None}]
    /\ offers \in [Nft -> [Account -> Offer \cup {None}]]
    /\ balance \in [Account -> [free : Nat, reserved : Nat]]

(* The market starts with an empty storage.                                  *)
LEMMA InitMarketType == MarketInit => MarketTypeOK
  BY InitType, MarketAssumption DEF MarketInit, MarketTypeOK, NoOffers

-----------------------------------------------------------------------------
(* Who signs owns or has made an offer, hence has a key.                     *)
LEMMA DealersAreAccounts ==
    ASSUME DealsTypeOK, NEW n \in Nft, NEW a \in Account
    PROVE  /\ listedNfts[n] # None => listedNfts[n] \in ListInfo
           /\ offers[n][a] # None => /\ offers[n][a] \in Offer
                                     /\ offers[n][a].maker \in Account
                                     /\ offers[n][a].amount \in Nat
           /\ listedNfts[n] # None => /\ listedNfts[n].listed_by \in Account
                                      /\ listedNfts[n].amount \in Nat
  <1>1. listedNfts[n] # None => listedNfts[n] \in ListInfo
    BY DEF DealsTypeOK
  <1>2. offers[n][a] # None => offers[n][a] \in Offer
    BY DEF DealsTypeOK
  <1>3. QED
    BY <1>1, <1>2, MarketAssumption DEF ListInfo, Offer

(* A step of the market is to rmrk-core a lock or a sale, or nothing at all.  *)
LEMMA MarketStepIsLockOrSale ==
    ASSUME DealsTypeOK, NEW sender \in Account, MarketExtrinsic(sender)
    PROVE  \/ UNCHANGED vars
           \/ \E owner \in Account, n \in Nft :
                 /\ signer' = owner
                 /\ \/ \E b \in BOOLEAN : SetLock(n, b)
                    \/ \E buyer \in Account : Sell(owner, n, buyer)
  <1>1. PICK n \in Nft :
          \/ /\ signer' = sender
             /\ \/ \E amount \in Amount, expires \in Expiry : List(sender, n, amount, expires)
                \/ Unlist(sender, n)
                \/ \E offerer \in Account : AcceptOffer(sender, n, offerer)
          \/ \E amount \in Amount, expires \in Expiry : MakeOffer(sender, n, amount, expires)
          \/ WithdrawOffer(sender, n)
          \/ signer' = item[n] /\ \E amount \in Amount \cup {None} : Buy(sender, n, amount)
    BY DEF MarketExtrinsic
  <1>2. CASE /\ signer' = sender
             /\ \/ \E amount \in Amount, expires \in Expiry : List(sender, n, amount, expires)
                \/ Unlist(sender, n)
    <2>1. \E b \in BOOLEAN : SetLock(n, b)
      BY <1>2 DEF List, Unlist
    <2>2. QED
      BY <1>2, <2>1
  <1>3. CASE /\ signer' = sender
             /\ \E offerer \in Account : AcceptOffer(sender, n, offerer)
    <2>1. PICK offerer \in Account : AcceptOffer(sender, n, offerer)
      BY <1>3
    <2>2. offers[n][offerer].maker \in Account /\ item[n] = sender
      BY <2>1, DealersAreAccounts DEF AcceptOffer
    <2>3. Sell(sender, n, offers[n][offerer].maker)
      BY <2>1, <2>2 DEF AcceptOffer, DoBuy
    <2>4. QED
      BY <1>3, <2>2, <2>3
  <1>4. CASE \/ \E amount \in Amount, expires \in Expiry : MakeOffer(sender, n, amount, expires)
             \/ WithdrawOffer(sender, n)
    BY <1>4 DEF MakeOffer, WithdrawOffer
  <1>5. CASE signer' = item[n] /\ \E amount \in Amount \cup {None} : Buy(sender, n, amount)
    <2>1. item[n] \in Account
      BY <1>5, DealersAreAccounts DEF Buy, IsForSale
    <2>2. Sell(item[n], n, sender)
      BY <1>5 DEF Buy, DoBuy
    <2>3. QED
      BY <1>5, <2>1, <2>2
  <1>6. QED
    BY <1>1, <1>2, <1>3, <1>4, <1>5

(* rmrk-core knows both of other pallets.                                    *)
LEMMA MarketStepIsCoreStep ==
    ASSUME DealsTypeOK, NEW sender \in Account, MarketExtrinsic(sender)
    PROVE  [Next]_vars
  BY MarketStepIsLockOrSale, MarketAssumption DEF Next, OtherPallets

(* So is every other step.                                                   *)
LEMMA MarketNextIsCoreNext ==
    ASSUME DealsTypeOK, [MarketNext]_<<vars, marketVars>>
    PROVE  [Next]_vars
  <1>1. CASE NextBlock \/ UNCHANGED <<vars, marketVars>>
    BY <1>1 DEF NextBlock
  <1>2. ASSUME NEW sender \in Account, CoreExtrinsic(sender)
        PROVE  Extrinsic(sender) \/ OtherPallets(sender) \/ UNCHANGED vars
    BY <1>2 DEF CoreExtrinsic, OtherPallets
  <1>3. QED
    BY <1>1, <1>2, MarketStepIsCoreStep DEF MarketNext, Next

-----------------------------------------------------------------------------
(* Money                                                                     *)
Balances == [Account -> [free : Nat, reserved : Nat]]

(* What is reserved was free.                                                *)
LEMMA ReserveType ==
    ASSUME NEW b \in Balances, NEW who \in Account, NEW amount \in Nat, amount <= b[who].free
    PROVE  Reserve(b, who, amount) \in Balances
  <1>1. b[who] \in [free : Nat, reserved : Nat]
    BY DEF Balances
  <1>2. b[who].free - amount \in Nat /\ b[who].reserved + amount \in Nat
    BY <1>1
  <1>3. QED
    BY <1>2 DEF Reserve, Balances

(* Never more is given back than is reserved.                                *)
LEMMA UnreserveType ==
    ASSUME NEW b \in Balances, NEW who \in Account, NEW amount \in Nat
    PROVE  Unreserve(b, who, amount) \in Balances
  <1> DEFINE actual == IF amount <= b[who].reserved THEN amount ELSE b[who].reserved
  <1>1. b[who] \in [free : Nat, reserved : Nat]
    BY DEF Balances
  <1>2. b[who].free + actual \in Nat /\ b[who].reserved - actual \in Nat
    BY <1>1
  <1>3. QED
    BY <1>2 DEF Unreserve, Balances

(* Nobody pays what is not free.                                             *)
LEMMA TransferType ==
    ASSUME NEW b \in Balances, NEW from \in Account, NEW to \in Account, from # to,
           NEW amount \in Nat, CanTransfer(b, from, to, amount)
    PROVE  Transfer(b, from, to, amount) \in Balances
  <1>1. /\ b[from] \in [free : Nat, reserved : Nat]
        /\ b[to] \in [free : Nat, reserved : Nat]
    BY DEF Balances
  <1>2. amount <= b[from].free
    BY <1>1 DEF CanTransfer
  <1>3. /\ [b[from] EXCEPT !.free = b[from].free - amount] \in [free : Nat, reserved : Nat]
        /\ [b[to] EXCEPT !.free = b[to].free + amount] \in [free : Nat, reserved : Nat]
    BY <1>1, <1>2
  <1>4. Transfer(b, from, to, amount) =
          [b EXCEPT ![from] = [b[from] EXCEPT !.free = b[from].free - amount],
                    ![to] = [b[to] EXCEPT !.free = b[to].free + amount]]
    BY <1>1 DEF Transfer, Balances
  <1>5. QED
    BY <1>3, <1>4 DEF Balances

(* do_buy moves money that is there, and the core storage keeps its types.   *)
LEMMA DoBuyType ==
    ASSUME TypeOK, NEW buyer \in Account, NEW n \in Nft, item[n] \in Account,
           NEW price \in Nat, NEW b \in Balances, DoBuy(buyer, n, price, b)
    PROVE  balance' \in Balances
  BY TransferType DEF DoBuy

(* Each operation of the market keeps listings, offers and balances typed.   *)
LEMMA MarketStepType ==
    ASSUME TypeOK, DealsTypeOK, NEW sender \in Account, MarketExtrinsic(sender)
    PROVE  DealsTypeOK'
  <1>1. PICK n \in Nft :
          \/ \E amount \in Amount, expires \in Expiry : List(sender, n, amount, expires)
          \/ Unlist(sender, n)
          \/ \E offerer \in Account : AcceptOffer(sender, n, offerer)
          \/ \E amount \in Amount, expires \in Expiry : MakeOffer(sender, n, amount, expires)
          \/ WithdrawOffer(sender, n)
          \/ \E amount \in Amount \cup {None} : Buy(sender, n, amount)
    BY DEF MarketExtrinsic
  <1>2. balance \in Balances
    BY DEF DealsTypeOK, Balances
  <1>3. ASSUME NEW amount \in Amount, NEW expires \in Expiry, List(sender, n, amount, expires)
        PROVE  DealsTypeOK'
    BY <1>3 DEF DealsTypeOK, List, ListInfo
  <1>4. CASE Unlist(sender, n)
    BY <1>4 DEF DealsTypeOK, Unlist
  <1>5. ASSUME NEW offerer \in Account, AcceptOffer(sender, n, offerer)
        PROVE  DealsTypeOK'
    <2> DEFINE offer == offers[n][offerer]
    <2>1. offer.maker \in Account /\ offer.amount \in Nat
      BY <1>5, DealersAreAccounts DEF AcceptOffer
    <2>2. Unreserve(balance, offer.maker, offer.amount) \in Balances
      BY <1>2, <2>1, UnreserveType
    <2>3. item[n] \in Account
      BY <1>5 DEF AcceptOffer
    <2>4. balance' \in Balances
      BY <1>5, <2>1, <2>2, <2>3, DoBuyType DEF AcceptOffer
    <2>5. QED
      BY <1>5, <2>4 DEF DealsTypeOK, AcceptOffer, Balances
  <1>6. ASSUME NEW amount \in Amount, NEW expires \in Expiry,
               MakeOffer(sender, n, amount, expires)
        PROVE  DealsTypeOK'
    <2>1. amount \in Nat
      BY MarketAssumption
    <2>2. balance' \in Balances
      BY <1>2, <1>6, <2>1, ReserveType DEF MakeOffer
    <2>3. [maker |-> sender, amount |-> amount, expires |-> expires] \in Offer
      BY DEF Offer
    <2>4. QED
      BY <1>6, <2>2, <2>3 DEF DealsTypeOK, MakeOffer, Balances
  <1>7. CASE WithdrawOffer(sender, n)
    <2> DEFINE offer == offers[n][sender]
    <2>1. offer.maker \in Account /\ offer.amount \in Nat
      BY <1>7, DealersAreAccounts DEF WithdrawOffer
    <2>2. balance' \in Balances
      BY <1>2, <1>7, <2>1, UnreserveType DEF WithdrawOffer
    <2>3. QED
      BY <1>7, <2>2 DEF DealsTypeOK, WithdrawOffer, Balances
  <1>8. ASSUME NEW amount \in Amount \cup {None}, Buy(sender, n, amount)
        PROVE  DealsTypeOK'
    <2>1. item[n] \in Account /\ listedNfts[n].amount \in Nat
      BY <1>8, DealersAreAccounts DEF Buy, IsForSale
    <2>2. balance' \in Balances
      BY <1>2, <1>8, <2>1, DoBuyType DEF Buy
    <2>3. QED
      BY <1>8, <2>2 DEF DealsTypeOK, Buy, Balances
  <1>9. QED
    BY <1>1, <1>3, <1>4, <1>5, <1>6, <1>7, <1>8

(* Every step keeps the types of core and market.                            *)
LEMMA MarketNextType ==
    ASSUME MarketTypeOK, [MarketNext]_<<vars, marketVars>>
    PROVE  MarketTypeOK'
  <1>1. DealsTypeOK /\ TypeOK
    BY DEF MarketTypeOK, DealsTypeOK
  <1>2. TypeOK'
    BY <1>1, MarketNextIsCoreNext, NextType
  <1>3. DealsTypeOK'
    <2>1. CASE UNCHANGED marketStorage
      BY <1>1, <2>1 DEF marketStorage, DealsTypeOK
    <2>2. CASE \E sender \in Account : MarketExtrinsic(sender)
      BY <1>1, <2>2, MarketStepType
    <2>3. QED
      BY <2>1, <2>2 DEF MarketNext, CoreExtrinsic, NextBlock, marketVars
  <1>4. block' \in Nat /\ caller' \in Account \cup {None}
    BY DEF MarketTypeOK, MarketNext, NextBlock, marketVars
  <1>5. QED
    BY <1>2, <1>3, <1>4 DEF MarketTypeOK, DealsTypeOK

-----------------------------------------------------------------------------
(* Listings, offers and balances keep their types for any number of accounts *)
(* and NFTs: no balance and no reserve ever becomes negative, and whoever is *)
(* recorded as lister or maker is an account that can sign.                  *)
THEOREM MarketTypeCorrect == MarketSpec => []MarketTypeOK
  BY InitMarketType, MarketNextType, PTL DEF MarketSpec

(* rmrk-core with the market around it behaves as RmrkCore says: do_buy only *)
(* ever unlocks an NFT and sends it in the name of its owner.                *)
THEOREM MarketImplementsCore == MarketSpec => MarketKeepsCore
  <1>1. MarketInit => Init
    BY DEF MarketInit
  <1>2. MarketTypeOK /\ [MarketNext]_<<vars, marketVars>> => [Next]_vars
    BY MarketNextIsCoreNext DEF MarketTypeOK, DealsTypeOK
  <1>3. QED
    BY <1>1, <1>2, MarketTypeCorrect, PTL DEF MarketSpec, MarketKeepsCore, Spec

(* So the market's sales keep to the promise about ownership: what an        *)
(* account root-owns, nested NFTs included, is its own until a sale or       *)
(* another extrinsic runs in its name, and what is lost is not sold back.    *)
THEOREM MarketKeepsOwnership ==
    MarketSpec => OwnershipPromise /\ RootOwnersConsent /\ LostStaysLost
  BY MarketImplementsCore, ImplementsOwnership, OnlyRootOwnersGive, NobodyRecoversTheLost, PTL
  DEF MarketKeepsCore

-----------------------------------------------------------------------------
(* Locks and listings                                                        *)

(* Only rmrk-market locks and unlocks.                                       *)
LEMMA CoreLeavesLocks ==
    ASSUME NEW sender \in Account, CoreExtrinsic(sender)
    PROVE  lock' = lock
  <1>1. CASE Extrinsic(sender)
    <2>1. CASE CollectionExtrinsic(sender)
      BY <2>1
      DEF CollectionExtrinsic, CreateCollection, DestroyCollection, LockCollection,
          ChangeCollectionIssuer, AcceptOwnership
    <2>2. CASE NftExtrinsic(sender)
      BY <2>2
      DEF NftExtrinsic, Place, MintNft, MintNftDirectlyToNft, BurnNft, RejectNft, Send, AcceptNft
    <2>3. CASE ResourceExtrinsic(sender)
      BY <2>3
      DEF ResourceExtrinsic, AddBasicResource, AddComposableResource, AddSlotResource,
          AddResource, AcceptResource, RemoveResource, AcceptResourceRemoval, SetPriority
    <2>4. CASE PropertyExtrinsic(sender)
      BY <2>4 DEF PropertyExtrinsic, SetProperty
    <2>5. QED
      BY <1>1, <2>1, <2>2, <2>3, <2>4 DEF Extrinsic
  <1>2. CASE UNCHANGED vars \/ \E n \in Nft, b \in EquippedChoices : SetEquipped(n, b)
    BY <1>2 DEF vars, SetEquipped
  <1>3. QED
    BY <1>1, <1>2 DEF CoreExtrinsic

(* Whatever is locked after an extrinsic of the market was locked before and *)
(* kept its listing, or has just been listed by its owner.                   *)
LEMMA MarketLocks ==
    ASSUME MarketTypeOK, NEW sender \in Account, MarketExtrinsic(sender), NEW n \in Nft, lock'[n]
    PROVE  \/ lock[n] /\ listedNfts'[n] = listedNfts[n]
           \/ /\ item'[n] = item[n]
              /\ listedNfts'[n] # None /\ listedNfts'[n].listed_by = item[n]
  <1>1. /\ lock \in [Nft -> BOOLEAN]
        /\ listedNfts \in [Nft -> ListInfo \cup {None}]
    BY DEF MarketTypeOK, TypeOK
  <1>2. PICK m \in Nft :
          \/ \E amount \in Amount, expires \in Expiry : List(sender, m, amount, expires)
          \/ Unlist(sender, m)
          \/ \E offerer \in Account : AcceptOffer(sender, m, offerer)
          \/ \E amount \in Amount, expires \in Expiry : MakeOffer(sender, m, amount, expires)
          \/ WithdrawOffer(sender, m)
          \/ \E amount \in Amount \cup {None} : Buy(sender, m, amount)
    BY DEF MarketExtrinsic
  <1>3. ASSUME NEW amount \in Amount, NEW expires \in Expiry, List(sender, m, amount, expires)
        PROVE  \/ lock[n] /\ listedNfts'[n] = listedNfts[n]
               \/ /\ item'[n] = item[n]
                  /\ listedNfts'[n] # None /\ listedNfts'[n].listed_by = item[n]
    <2> DEFINE listing == [listed_by |-> sender, amount |-> amount, expires |-> expires]
    <2>1. listing # None /\ listing.listed_by = sender
      BY MarketAssumption DEF ListInfo
    <2>2. /\ listedNfts' = [listedNfts EXCEPT ![m] = listing]
          /\ lock' = [lock EXCEPT ![m] = TRUE]
          /\ item' = item /\ item[m] = sender
      BY <1>3 DEF List, SetLock, uniquesVars
    <2> HIDE DEF listing
    <2>3. QED
      BY <1>1, <2>1, <2>2
  <1>4. CASE Unlist(sender, m)
    BY <1>1, <1>4 DEF Unlist, SetLock
  <1>5. ASSUME NEW offerer \in Account, AcceptOffer(sender, m, offerer)
        PROVE  lock[n] /\ listedNfts'[n] = listedNfts[n]
    BY <1>1, <1>5 DEF AcceptOffer, DoBuy, Sell
  <1>6. CASE \/ \E amount \in Amount, expires \in Expiry : MakeOffer(sender, m, amount, expires)
             \/ WithdrawOffer(sender, m)
    BY <1>6 DEF MakeOffer, WithdrawOffer, vars
  <1>7. ASSUME NEW amount \in Amount \cup {None}, Buy(sender, m, amount)
        PROVE  lock[n] /\ listedNfts'[n] = listedNfts[n]
    BY <1>1, <1>7 DEF Buy, DoBuy, Sell
  <1>8. QED
    BY <1>2, <1>3, <1>4, <1>5, <1>6, <1>7

(* No NFT is locked for ever: while it has an item, its owner is who listed  *)
(* it and can unlist it.  A locked NFT stays with its owner (LocksHold).     *)
THEOREM LockedStayListed == MarketSpec => []LockedAreListed
  <1> DEFINE Stays == \A n \in Nft : (lock[n] /\ lock'[n]) => item'[n] \in {item[n], None}
  <1>1. MarketInit => LockedAreListed
    BY DEF MarketInit, Init, LockedAreListed
  <1>2. ASSUME MarketTypeOK, LockedAreListed, [MarketNext]_<<vars, marketVars>>, [Stays]_vars
        PROVE  LockedAreListed'
    <2>1. Stays
      BY <1>2 DEF vars, uniquesVars
    <2>2. ASSUME NEW n \in Nft, lock'[n], item'[n] # None
          PROVE  listedNfts'[n] # None /\ listedNfts'[n].listed_by = item'[n]
      <3>1. CASE lock[n] /\ listedNfts'[n] = listedNfts[n]
        <4>1. item'[n] = item[n]
          BY <2>1, <2>2, <3>1
        <4>2. QED
          BY <1>2, <2>2, <3>1, <4>1 DEF LockedAreListed
      <3>2. CASE UNCHANGED <<lock, listedNfts>>
        BY <2>2, <3>1, <3>2
      <3>3. ASSUME NEW sender \in Account, MarketExtrinsic(sender)
            PROVE  listedNfts'[n] # None /\ listedNfts'[n].listed_by = item'[n]
        BY <1>2, <2>2, <3>1, <3>3, MarketLocks
      <3>4. ASSUME NEW sender \in Account, CoreExtrinsic(sender)
            PROVE  UNCHANGED <<lock, listedNfts>>
        BY <3>4, CoreLeavesLocks DEF CoreExtrinsic, marketStorage
      <3>5. CASE NextBlock \/ UNCHANGED <<vars, marketVars>>
        BY <3>2, <3>5 DEF NextBlock, vars, marketVars, marketStorage
      <3>6. QED
        BY <1>2, <3>2, <3>3, <3>4, <3>5 DEF MarketNext
    <2>3. QED
      BY <2>2 DEF LockedAreListed
  <1>3. LockedStays => [][Stays]_vars
    <2>1. [\A n \in Nft :
              (lock[n] /\ lock'[n]) =>
                 /\ item'[n] \in {item[n], None}
                 /\ properties'[n] = properties[n]
                 /\ priorities'[n] = priorities[n]
                 /\ nextResourceId'[n] = nextResourceId[n]]_vars => [Stays]_vars
      OBVIOUS
    <2>2. QED
      BY <2>1, PTL DEF LockedStays
  <1>4. MarketSpec => LockedStays
    BY MarketImplementsCore, LocksHold, PTL DEF MarketKeepsCore
  <1>5. QED
    BY <1>1, <1>2, <1>3, <1>4, MarketTypeCorrect, PTL DEF MarketSpec

-----------------------------------------------------------------------------
(* Who pays whom                                                             *)

(* What an account is worth.                                                 *)
LEMMA WorthType ==
    ASSUME NEW b \in Balances, NEW a \in Account
    PROVE  Worth(b, a) \in Nat
  <1>1. b[a] \in [free : Nat, reserved : Nat]
    BY DEF Balances
  <1>2. QED
    BY <1>1 DEF Worth

(* Reserving makes nobody poorer, and giving back nobody richer.             *)
LEMMA ReservedIsOwned ==
    ASSUME NEW b \in Balances, NEW who \in Account, NEW amount \in Nat, NEW a \in Account
    PROVE  /\ Worth(Reserve(b, who, amount), a) = Worth(b, a)
           /\ Worth(Unreserve(b, who, amount), a) = Worth(b, a)
  <1> DEFINE actual == IF amount <= b[who].reserved THEN amount ELSE b[who].reserved
             more == [free |-> b[who].free - amount, reserved |-> b[who].reserved + amount]
             less == [free |-> b[who].free + actual, reserved |-> b[who].reserved - actual]
  <1>1. b[who].free \in Nat /\ b[who].reserved \in Nat
    BY DEF Balances
  <1>2. /\ more.free + more.reserved = b[who].free + b[who].reserved
        /\ less.free + less.reserved = b[who].free + b[who].reserved
    BY <1>1
  <1>3. /\ Reserve(b, who, amount) = [b EXCEPT ![who] = more]
        /\ Unreserve(b, who, amount) = [b EXCEPT ![who] = less]
    BY DEF Reserve, Unreserve
  <1>4. DOMAIN b = Account
    BY DEF Balances
  <1> HIDE DEF more, less
  <1>5. QED
    BY <1>2, <1>3, <1>4 DEF Worth

(* A transfer takes from one and gives to the other.                         *)
LEMMA TransferMoves ==
    ASSUME NEW b \in Balances, NEW from \in Account, NEW to \in Account, from # to,
           NEW amount \in Nat
    PROVE  /\ Worth(Transfer(b, from, to, amount), from) = Worth(b, from) - amount
           /\ Worth(Transfer(b, from, to, amount), to) = Worth(b, to) + amount
           /\ \A a \in Account \ {from, to} :
                 Worth(Transfer(b, from, to, amount), a) = Worth(b, a)
  <1> DEFINE payer == [b[from] EXCEPT !.free = b[from].free - amount]
             payee == [b[to] EXCEPT !.free = b[to].free + amount]
  <1>1. /\ b[from] \in [free : Nat, reserved : Nat]
        /\ b[to] \in [free : Nat, reserved : Nat]
    BY DEF Balances
  <1>2. /\ payer.free + payer.reserved = (b[from].free + b[from].reserved) - amount
        /\ payee.free + payee.reserved = (b[to].free + b[to].reserved) + amount
    BY <1>1
  <1>3. Transfer(b, from, to, amount) = [b EXCEPT ![from] = payer, ![to] = payee]
    BY <1>1 DEF Transfer, Balances
  <1>4. DOMAIN b = Account
    BY DEF Balances
  <1> HIDE DEF payer, payee
  <1>5. QED
    BY <1>2, <1>3, <1>4 DEF Worth

(* do_buy: the NFT goes one way and the price the other, and nothing else    *)
(* changes owner.                                                            *)
LEMMA SaleMoves ==
    ASSUME TypeOK, NEW buyer \in Account, NEW n \in Nft, item[n] \in Account,
           NEW price \in Nat, NEW b \in Balances, DoBuy(buyer, n, price, b)
    PROVE  /\ buyer # item[n]
           /\ item' = [item EXCEPT ![n] = buyer]
           /\ Worth(balance', buyer) = Worth(b, buyer) - price
           /\ Worth(balance', item[n]) = Worth(b, item[n]) + price
           /\ \A a \in Account \ {buyer, item[n]} : Worth(balance', a) = Worth(b, a)
  <1>1. buyer # item[n] /\ balance' = Transfer(b, buyer, item[n], price)
    BY DEF DoBuy
  <1>2. ToAccountId(buyer) = buyer
    BY UniquesAssumption DEF ToAccountId
  <1>3. item' = [item EXCEPT ![n] = buyer]
    BY <1>2 DEF DoBuy, Sell, NftSend, DoTransfer
  <1>4. QED
    BY <1>1, <1>3, TransferMoves

(* rmrk-core takes an NFT from an account only if that account signed.       *)
LEMMA CoreTakesFromSigner ==
    ASSUME CoreInv, NEW sender \in Account, CoreExtrinsic(sender),
           NEW n \in Nft, item[n] \in Account, item'[n] # item[n]
    PROVE  sender = item[n]
  <1>1. TypeOK /\ \A m \in Nft \ UsedIds : OwnerOf[m] = None
    BY DEF CoreInv, FP!Inv
  <1>2. Extrinsic(sender) /\ signer' = sender
    BY DEF CoreExtrinsic, SetEquipped, vars, uniquesVars, Extrinsic
  <1>3. FP!Next
    BY <1>1, <1>2, NextIsNext DEF CoreInv, Next
  <1>4. OwnerOf[n] = item[n] /\ DOMAIN OwnerOf = Nft
    BY DecodeOfEncode DEF OwnerOf, OwnerIn
  <1>5. TypeOK'
    BY <1>1, <1>2, NextType DEF Next
  <1>6. OwnerOf'[n] # OwnerOf[n]
    <2>1. item'[n] \in Account \cup VirtualAccount \cup {None}
      BY <1>5 DEF TypeOK, UniquesTypeOK, AccountId
    <2>2. OwnerOf'[n] = DecodeNftAccountId(item'[n])
      BY DEF OwnerOf, OwnerIn
    <2>3. QED
      BY <1>4, <2>1, <2>2, DecodeOfEncode, UniquesAssumption
  <1>7. FP!RootOwner(n) = item[n]
    <2>1. OwnerOf[n] \notin DOMAIN OwnerOf
      BY <1>4, UniquesAssumption
    <2>2. RootNft(OwnerOf, n) = n /\ ClimbEnds(OwnerOf, n)
      BY <1>4, <2>1, RootNftStep, TopsStep, EndsAtTop
    <2>3. QED
      BY <1>4, <2>2, SameClimbs DEF FP!RootOwner
  <1>8. \A m \in Nft : \A o : m # n => FP!Hang(OwnerOf, m, o)[n] = OwnerOf[n]
    BY <1>4 DEF FP!Hang
  <1>9. \A o : ~FP!Mint(n, o)
    BY <1>1, <1>4, UniquesAssumption DEF FP!Mint
  <1>10. QED
    BY <1>2, <1>3, <1>6, <1>7, <1>8, <1>9
    DEF FP!Next, FP!Other, FP!Retire, FP!Mint, FP!Move

(* A sale: the NFT goes from its owner to the buyer and the price back.      *)
Sale(n, buyer, price) ==
    /\ buyer # item[n]
    /\ item' = [item EXCEPT ![n] = buyer]
    /\ Worth(balance', buyer) = Worth(balance, buyer) - price
    /\ Worth(balance', item[n]) = Worth(balance, item[n]) + price
    /\ \A a \in Account \ {buyer, item[n]} : Worth(balance', a) = Worth(balance, a)

(* What the owner asked for, or the buyer offered.                           *)
Bought(sender, n, buyer, price) ==
    /\ buyer = sender
    /\ listedNfts[n] # None
    /\ listedNfts[n].listed_by = item[n]
    /\ listedNfts[n].amount = price
    /\ InTime(listedNfts[n])

Offered(sender, n, buyer, price) ==
    /\ sender = item[n]
    /\ offers[n][buyer] # None
    /\ offers[n][buyer].amount = price
    /\ InTime(offers[n][buyer])

(* An offer is filed under the account that made it.                         *)
OffersAreSigned ==
    \A n \in Nft, a \in Account : offers[n][a] # None => offers[n][a].maker = a

(* What has not expired is in time.                                          *)
LEMMA NotExpired ==
    ASSUME NEW x, x.expires \in Expiry, block \in Nat, ~Expired(x)
    PROVE  InTime(x)
  <1>1. x.expires = None \/ x.expires \in Nat
    BY MarketAssumption
  <1>2. QED
    BY <1>1 DEF Expired, InTime

(* Nobody else's NFT is sold and nobody else's money spent: an extrinsic of  *)
(* the market leaves owners and fortunes alone or is one sale, at the price  *)
(* of the owner's listing or of the buyer's offer.                           *)
LEMMA MarketStepIsSale ==
    ASSUME MarketTypeOK, OffersAreSigned, NEW sender \in Account, MarketExtrinsic(sender)
    PROVE  \/ /\ item' = item
              /\ \A a \in Account : Worth(balance', a) = Worth(balance, a)
           \/ \E n \in Nft, buyer \in Account, price \in Nat :
                 /\ item[n] \in Account
                 /\ Sale(n, buyer, price)
                 /\ Bought(sender, n, buyer, price) \/ Offered(sender, n, buyer, price)
  <1>1. PICK n \in Nft :
          \/ \E amount \in Amount, expires \in Expiry : List(sender, n, amount, expires)
          \/ Unlist(sender, n)
          \/ \E offerer \in Account : AcceptOffer(sender, n, offerer)
          \/ \E amount \in Amount, expires \in Expiry : MakeOffer(sender, n, amount, expires)
          \/ WithdrawOffer(sender, n)
          \/ \E amount \in Amount \cup {None} : Buy(sender, n, amount)
    BY DEF MarketExtrinsic
  <1>2. TypeOK /\ DealsTypeOK /\ balance \in Balances /\ block \in Nat
    BY DEF MarketTypeOK, DealsTypeOK, Balances
  <1>3. CASE \/ \E amount \in Amount, expires \in Expiry : List(sender, n, amount, expires)
             \/ Unlist(sender, n)
    BY <1>3 DEF List, Unlist, SetLock, uniquesVars
  <1>4. ASSUME NEW amount \in Amount, NEW expires \in Expiry,
               MakeOffer(sender, n, amount, expires)
        PROVE  item' = item /\ \A a \in Account : Worth(balance', a) = Worth(balance, a)
    BY <1>2, <1>4, ReservedIsOwned, MarketAssumption DEF MakeOffer, vars, uniquesVars
  <1>5. CASE WithdrawOffer(sender, n)
    BY <1>2, <1>5, ReservedIsOwned, DealersAreAccounts DEF WithdrawOffer, vars, uniquesVars
  <1>6. ASSUME NEW offerer \in Account, AcceptOffer(sender, n, offerer)
        PROVE  \E buyer \in Account, price \in Nat :
                 /\ item[n] \in Account
                 /\ Sale(n, buyer, price)
                 /\ Offered(sender, n, buyer, price)
    <2> DEFINE price == offers[n][offerer].amount
               b == Unreserve(balance, offerer, price)
    <2>1. /\ offers[n][offerer] # None
          /\ offers[n][offerer] \in Offer
          /\ offers[n][offerer].maker = offerer
          /\ price \in Nat
      BY <1>2, <1>6, DealersAreAccounts DEF AcceptOffer, OffersAreSigned
    <2>2. item[n] = sender /\ DoBuy(offerer, n, price, b)
      BY <1>6, <2>1 DEF AcceptOffer
    <2>3. InTime(offers[n][offerer])
      BY <1>2, <1>6, <2>1, NotExpired DEF AcceptOffer, Offer
    <2>4. b \in Balances /\ \A a \in Account : Worth(b, a) = Worth(balance, a)
      BY <1>2, <2>1, UnreserveType, ReservedIsOwned
    <2>5. Offered(sender, n, offerer, price)
      BY <2>1, <2>2, <2>3 DEF Offered
    <2> HIDE DEF b, price
    <2>6. QED
      BY <1>2, <2>1, <2>2, <2>4, <2>5, SaleMoves DEF Sale
  <1>7. ASSUME NEW amount \in Amount \cup {None}, Buy(sender, n, amount)
        PROVE  \E buyer \in Account, price \in Nat :
                 /\ item[n] \in Account
                 /\ Sale(n, buyer, price)
                 /\ Bought(sender, n, buyer, price)
    <2> DEFINE price == listedNfts[n].amount
    <2>1. /\ listedNfts[n] # None
          /\ listedNfts[n] \in ListInfo
          /\ item[n] = listedNfts[n].listed_by
          /\ item[n] \in Account
          /\ price \in Nat
      BY <1>2, <1>7, DealersAreAccounts DEF Buy, IsForSale
    <2>2. DoBuy(sender, n, price, balance)
      BY <1>7 DEF Buy
    <2>3. InTime(listedNfts[n])
      BY <1>2, <1>7, <2>1, NotExpired DEF Buy, IsForSale, ListInfo
    <2>4. Bought(sender, n, sender, price)
      BY <2>1, <2>3 DEF Bought
    <2> HIDE DEF price
    <2>5. QED
      BY <1>2, <2>1, <2>2, <2>4, SaleMoves DEF Sale
  <1>8. QED
    BY <1>1, <1>3, <1>4, <1>5, <1>6, <1>7

(* Every offer is made, and stays, under the key of its maker.               *)
LEMMA OffersStaySigned == MarketSpec => []OffersAreSigned
  <1>1. MarketInit => OffersAreSigned
    BY DEF MarketInit, OffersAreSigned, NoOffers
  <1>2. ASSUME MarketTypeOK, OffersAreSigned, [MarketNext]_<<vars, marketVars>>
        PROVE  OffersAreSigned'
    <2>1. offers \in [Nft -> [Account -> Offer \cup {None}]]
      BY <1>2 DEF MarketTypeOK
    <2>2. CASE offers' = offers
      BY <1>2, <2>2 DEF OffersAreSigned
    <2>3. ASSUME NEW sender \in Account, NEW n \in Nft, NEW amount, NEW expires,
                 MakeOffer(sender, n, amount, expires)
          PROVE  OffersAreSigned'
      <3> DEFINE offer == [maker |-> sender, amount |-> amount, expires |-> expires]
      <3>1. offer.maker = sender /\ offers' = [offers EXCEPT ![n][sender] = offer]
        BY <2>3 DEF MakeOffer
      <3> HIDE DEF offer
      <3>2. QED
        BY <1>2, <2>1, <3>1 DEF OffersAreSigned
    <2>4. ASSUME NEW a \in Account, NEW n \in Nft, offers' = [offers EXCEPT ![n][a] = None]
          PROVE  OffersAreSigned'
      BY <1>2, <2>1, <2>4 DEF OffersAreSigned
    <2>5. ASSUME NEW sender \in Account, MarketExtrinsic(sender)
          PROVE  OffersAreSigned'
      BY <2>2, <2>3, <2>4, <2>5
      DEF MarketExtrinsic, List, Unlist, AcceptOffer, WithdrawOffer, Buy
    <2>6. QED
      BY <1>2, <2>2, <2>5 DEF MarketNext, CoreExtrinsic, NextBlock, marketVars, marketStorage
  <1>3. QED
    BY <1>1, <1>2, MarketTypeCorrect, PTL DEF MarketSpec

(* The invariant of rmrk-core holds with the market around it.               *)
LEMMA MarketKeepsCoreInv == MarketSpec => []CoreInv
  BY MarketImplementsCore, CoreInvariant, PTL DEF MarketKeepsCore

(* A step of the chain is a sale or moves neither NFTs of others nor money.  *)
LEMMA StepIsSaleOrOwn ==
    ASSUME MarketTypeOK, CoreInv, OffersAreSigned, [MarketNext]_<<vars, marketVars>>
    PROVE  \/ /\ \A n \in Nft : (item[n] \in Account /\ item'[n] # item[n]) => caller' = item[n]
              /\ \A a \in Account : Worth(balance', a) = Worth(balance, a)
           \/ \E n \in Nft, buyer \in Account, price \in Nat :
                 /\ item[n] \in Account
                 /\ Sale(n, buyer, price)
                 /\ Bought(caller', n, buyer, price) \/ Offered(caller', n, buyer, price)
  <1>1. CASE NextBlock \/ UNCHANGED <<vars, marketVars>>
    BY <1>1 DEF NextBlock, vars, uniquesVars, marketVars, marketStorage
  <1>2. ASSUME NEW sender \in Account, caller' = sender, MarketExtrinsic(sender)
        PROVE  \/ item' = item /\ \A a \in Account : Worth(balance', a) = Worth(balance, a)
               \/ \E n \in Nft, buyer \in Account, price \in Nat :
                     /\ item[n] \in Account
                     /\ Sale(n, buyer, price)
                     /\ Bought(caller', n, buyer, price) \/ Offered(caller', n, buyer, price)
    BY <1>2, MarketStepIsSale
  <1>3. ASSUME NEW sender \in Account, caller' = sender, CoreExtrinsic(sender)
        PROVE  /\ \A n \in Nft : (item[n] \in Account /\ item'[n] # item[n]) => caller' = item[n]
               /\ \A a \in Account : Worth(balance', a) = Worth(balance, a)
    BY <1>3, CoreTakesFromSigner DEF CoreExtrinsic, marketStorage
  <1>4. QED
    BY <1>1, <1>2, <1>3 DEF MarketNext

(* An account loses an NFT without signing only to its own listing, in time  *)
(* and at the price it asked for (lib.rs:483-500).                           *)
THEOREM OwnersGetTheirPrice == MarketSpec => OwnersArePaid
  <1> DEFINE Paid(n) ==
        (item[n] \in Account /\ item'[n] # item[n] /\ caller' # item[n]) =>
             LET listing == listedNfts[n] owner == item[n] IN
             /\ listing # None
             /\ listing.listed_by = owner
             /\ InTime(listing)
             /\ Worth(balance', owner) = Worth(balance, owner) + listing.amount
  <1>1. ASSUME MarketTypeOK, CoreInv, OffersAreSigned, [MarketNext]_<<vars, marketVars>>,
               NEW n \in Nft, item[n] \in Account, item'[n] # item[n], caller' # item[n]
        PROVE  Paid(n)
    <2>1. PICK m \in Nft, buyer \in Account, price \in Nat :
             /\ item[m] \in Account
             /\ Sale(m, buyer, price)
             /\ Bought(caller', m, buyer, price) \/ Offered(caller', m, buyer, price)
      BY <1>1, StepIsSaleOrOwn
    <2>2. m = n
      BY <1>1, <2>1 DEF Sale, MarketTypeOK, TypeOK, UniquesTypeOK
    <2>3. Bought(caller', n, buyer, price)
      BY <1>1, <2>1, <2>2 DEF Offered
    <2>4. QED
      BY <2>1, <2>2, <2>3 DEF Sale, Bought
  <1>2. MarketTypeOK /\ CoreInv /\ OffersAreSigned /\ [MarketNext]_<<vars, marketVars>> =>
          [\A n \in Nft : Paid(n)]_<<vars, marketVars>>
    BY <1>1
  <1>3. QED
    BY <1>2, MarketTypeCorrect, MarketKeepsCoreInv, OffersStaySigned, PTL
    DEF MarketSpec, OwnersArePaid

(* Whoever loses money gets an NFT for exactly that money from its owner,    *)
(* and has signed the purchase or made an offer of that amount, still in     *)
(* storage and in time (lib.rs:427-436, 512-520).                            *)
THEOREM BuyersHaveAgreed == MarketSpec => BuyersAgreed
  <1> DEFINE Agreed(a) ==
        LET paid == Worth(balance, a) - Worth(balance', a) IN
          paid > 0 =>
             \E n \in Nft :
                /\ item[n] \in Account \ {a} /\ item'[n] = a
                /\ Worth(balance', item[n]) = Worth(balance, item[n]) + paid
                /\ caller' = a \/ /\ offers[n][a] # None
                                  /\ offers[n][a].amount = paid
                                  /\ InTime(offers[n][a])
  <1>1. ASSUME MarketTypeOK, MarketTypeOK', CoreInv, OffersAreSigned,
               [MarketNext]_<<vars, marketVars>>, NEW a \in Account
        PROVE  Agreed(a)
    <2> DEFINE before == Worth(balance, a)
               after == Worth(balance', a)
    <2>1. before \in Nat /\ after \in Nat
      BY <1>1, WorthType DEF MarketTypeOK, Balances
    <2>2. CASE after = before
      BY <2>1, <2>2
    <2>3. CASE after # before
      <3>1. PICK n \in Nft, buyer \in Account, price \in Nat :
               /\ item[n] \in Account
               /\ Sale(n, buyer, price)
               /\ Bought(caller', n, buyer, price) \/ Offered(caller', n, buyer, price)
        BY <1>1, <2>3, StepIsSaleOrOwn
      <3>2. CASE a = item[n]
        BY <2>1, <3>1, <3>2 DEF Sale
      <3>3. CASE a = buyer
        <4>1. before - after = price
          BY <2>1, <3>1, <3>3 DEF Sale
        <4>2. /\ item[n] \in Account \ {a} /\ item'[n] = a
              /\ Worth(balance', item[n]) = Worth(balance, item[n]) + price
          BY <1>1, <3>1, <3>3 DEF Sale, MarketTypeOK, TypeOK, UniquesTypeOK
        <4>3. caller' = a \/ /\ offers[n][a] # None
                             /\ offers[n][a].amount = price
                             /\ InTime(offers[n][a])
          BY <3>1, <3>3 DEF Bought, Offered
        <4>4. QED
          BY <4>1, <4>2, <4>3
      <3>4. QED
        BY <2>3, <3>1, <3>2, <3>3 DEF Sale
    <2>4. QED
      BY <2>2, <2>3
  <1>2. MarketTypeOK /\ MarketTypeOK' /\ CoreInv /\ OffersAreSigned
           /\ [MarketNext]_<<vars, marketVars>> =>
          [\A a \in Account : Agreed(a)]_<<vars, marketVars>>
    BY <1>1
  <1>3. QED
    BY <1>2, MarketTypeCorrect, MarketKeepsCoreInv, OffersStaySigned, PTL
    DEF MarketSpec, BuyersAgreed

-----------------------------------------------------------------------------
(* Sums.  MapThenSumSet folds a set in an order of its own: what it adds up  *)
(* to is shown not to depend on that order.                                  *)

\* The equation of the fold behind MapThenSumSet.
First(s) == CHOOSE x \in s : TRUE
SumOnce(g, w, S) ==
    [s \in SUBSET S |-> IF s = {} THEN 0 ELSE w[First(s)] + g[s \ {First(s)}]]
Sums(g, w, S) == g = SumOnce(g, w, S)

(* A set that is not empty has a first element.                              *)
LEMMA FirstIsIn == ASSUME NEW s, s # {} PROVE First(s) \in s
  BY DEF First

(* Over a finite set there is a solution: it can be approximated for the      *)
(* subsets of any size.                                                      *)
LEMMA SumsExist ==
    ASSUME NEW S, IsFiniteSet(S), NEW w
    PROVE  \E g : Sums(g, w, S)
  <1> DEFINE Upto(g, k) == /\ g = [s \in SUBSET S |-> g[s]]
                           /\ \A s \in SUBSET S : Cardinality(s) <= k => g[s] = SumOnce(g, w, S)[s]
             Bad == {k \in Nat : ~ \E g : Upto(g, k)}
  <1>1. \A s \in SUBSET S : IsFiniteSet(s) /\ Cardinality(s) \in Nat
                             /\ Cardinality(s) <= Cardinality(S)
    BY FS_Subset, FS_CardinalityType
  <1>2. Bad = {}
    <2> SUFFICES ASSUME Bad # {} PROVE FALSE
      OBVIOUS
    <2>1. PICK k \in Bad : \A j \in Bad : k <= j
      <3>1. Bad \in SUBSET Nat
        OBVIOUS
      <3> HIDE DEF Bad
      <3>2. QED BY <3>1, LeastNatural
    <2>2. CASE k = 0
      <3> DEFINE g == [s \in SUBSET S |-> 0]
      <3>1. \A s \in SUBSET S : Cardinality(s) <= 0 => s = {}
        BY <1>1, FS_EmptySet
      <3>2. Upto(g, 0)
        BY <3>1 DEF SumOnce
      <3>3. QED
        BY <2>2, <3>2
    <2>3. CASE k > 0
      <3>1. k - 1 \in Nat /\ k - 1 \notin Bad
        <4>1. k \in Nat
          OBVIOUS
        <4> HIDE DEF Bad
        <4>2. QED BY <2>1, <2>3, <4>1
      <3>2. PICK g : Upto(g, k - 1)
        BY <3>1
      <3> DEFINE h == SumOnce(g, w, S)
      <3>3. h = [s \in SUBSET S |-> h[s]]
        BY DEF SumOnce
      <3>4. ASSUME NEW s \in SUBSET S, Cardinality(s) <= k, s # {}
            PROVE  h[s] = SumOnce(h, w, S)[s]
        <4> DEFINE t == s \ {First(s)}
        <4>1. t \in SUBSET S /\ Cardinality(t) <= k - 1
          BY <1>1, <2>1, <3>4, FirstIsIn, FS_RemoveElement
        <4>2. g[t] = h[t]
          BY <3>2, <4>1
        <4>3. h[s] = w[First(s)] + g[t] /\ SumOnce(h, w, S)[s] = w[First(s)] + h[t]
          BY <3>4 DEF SumOnce
        <4>4. QED
          BY <4>2, <4>3
      <3>5. h[{}] = SumOnce(h, w, S)[{}]
        BY DEF SumOnce
      <3>6. Upto(h, k)
        <4> HIDE DEF h
        <4> QED BY <3>3, <3>4, <3>5
      <3>7. QED
        BY <3>6
    <2>4. QED
      BY <2>1, <2>2, <2>3
  <1>3. Cardinality(S) \in Nat
    BY FS_CardinalityType
  <1>4. PICK g : Upto(g, Cardinality(S))
    BY <1>2, <1>3
  <1>5. g = SumOnce(g, w, S)
    BY <1>1, <1>4 DEF SumOnce
  <1>6. QED
    BY <1>5 DEF Sums

(* Two solutions agree on the sets that both know and that both weigh alike. *)
LEMMA SumsAgree ==
    ASSUME NEW S, NEW T, NEW v, NEW w, NEW g, NEW h, Sums(g, v, S), Sums(h, w, T),
           NEW A \in SUBSET (S \cap T), IsFiniteSet(A), \A x \in A : v[x] = w[x]
    PROVE  g[A] = h[A]
  <1> DEFINE F == {s \in SUBSET A : g[s] # h[s]}
  <1> SUFFICES ASSUME F # {} PROVE FALSE
    OBVIOUS
  <1>1. PICK s \in F : \A x \in s : s \ {x} \notin F
    <2>1. F \in SUBSET SUBSET A
      OBVIOUS
    <2> HIDE DEF F
    <2>2. QED BY <2>1, MinimalSubset
  <1>2. \A r \in SUBSET A :
           /\ g[r] = IF r = {} THEN 0 ELSE v[First(r)] + g[r \ {First(r)}]
           /\ h[r] = IF r = {} THEN 0 ELSE w[First(r)] + h[r \ {First(r)}]
    <2> TAKE r \in SUBSET A
    <2>1. r \in SUBSET S /\ r \in SUBSET T
      OBVIOUS
    <2>2. g[r] = SumOnce(g, v, S)[r] /\ h[r] = SumOnce(h, w, T)[r]
      BY DEF Sums
    <2>3. QED
      BY <2>1, <2>2 DEF SumOnce
  <1>3. s # {}
    BY <1>2
  <1>4. First(s) \in s
    BY <1>3, FirstIsIn
  <1>5. g[s \ {First(s)}] = h[s \ {First(s)}]
    BY <1>1, <1>4
  <1>6. QED
    BY <1>2, <1>3, <1>4, <1>5

Sum(w, S) == MapThenSumSet(LAMBDA n : w[n], S)

(* Any solution gives the sum.                                               *)
LEMMA SumIsSolution ==
    ASSUME NEW S, IsFiniteSet(S), NEW w, NEW g, Sums(g, w, S)
    PROVE  Sum(w, S) = g[S]
  <1> DEFINE c == CHOOSE h : Sums(h, w, S)
  <1>1. Sum(w, S) = c[S]
    BY DEF Sum, MapThenSumSet, MapThenFoldSet, Sums, SumOnce, First
  <1>2. Sums(c, w, S)
    BY SumsExist
  <1> HIDE DEF c
  <1>3. QED
    BY <1>1, <1>2, SumsAgree

(* The sum depends on the weights in the set only.                           *)
LEMMA SumSame ==
    ASSUME NEW S, IsFiniteSet(S), NEW v, NEW w, \A x \in S : v[x] = w[x]
    PROVE  Sum(v, S) = Sum(w, S)
  <1>1. PICK g : Sums(g, v, S)
    BY SumsExist
  <1>2. PICK h : Sums(h, w, S)
    BY SumsExist
  <1>3. g[S] = h[S]
    BY <1>1, <1>2, SumsAgree
  <1>4. QED
    BY <1>1, <1>2, <1>3, SumIsSolution

(* Nothing sums up to nothing, and the first element is added to the rest.   *)
LEMMA SumUnfolds ==
    ASSUME NEW S, IsFiniteSet(S), NEW w
    PROVE  Sum(w, S) = IF S = {} THEN 0 ELSE w[First(S)] + Sum(w, S \ {First(S)})
  <1>1. PICK g : Sums(g, w, S)
    BY SumsExist
  <1>2. Sum(w, S) = g[S]
    BY <1>1, SumIsSolution
  <1>3. g[S] = IF S = {} THEN 0 ELSE w[First(S)] + g[S \ {First(S)}]
    <2>1. g[S] = SumOnce(g, w, S)[S]
      BY <1>1 DEF Sums
    <2>2. QED
      BY <2>1 DEF SumOnce
  <1> DEFINE T == S \ {First(S)}
  <1>4. g[T] = Sum(w, T)
    <2>1. IsFiniteSet(T)
      BY FS_RemoveElement
    <2>2. T \in SUBSET (S \cap T)
      OBVIOUS
    <2> HIDE DEF T
    <2>3. PICK h : Sums(h, w, T)
      BY <2>1, SumsExist
    <2>4. g[T] = h[T]
      BY <1>1, <2>1, <2>2, <2>3, SumsAgree
    <2>5. QED
      BY <2>1, <2>3, <2>4, SumIsSolution
  <1>5. QED
    BY <1>2, <1>3, <1>4

(* The sum of naturals is one.                                               *)
LEMMA SumType ==
    ASSUME NEW S, IsFiniteSet(S), NEW w, \A x \in S : w[x] \in Nat
    PROVE  Sum(w, S) \in Nat
  <1> DEFINE F == {s \in SUBSET S : Sum(w, s) \notin Nat}
  <1> SUFFICES ASSUME F # {} PROVE FALSE
    OBVIOUS
  <1>1. PICK s \in F : \A x \in s : s \ {x} \notin F
    <2>1. F \in SUBSET SUBSET S
      OBVIOUS
    <2> HIDE DEF F
    <2>2. QED BY <2>1, MinimalSubset
  <1>2. IsFiniteSet(s)
    BY FS_Subset
  <1>3. s # {} /\ Sum(w, s) = w[First(s)] + Sum(w, s \ {First(s)})
    <2>1. Sum(w, s) = IF s = {} THEN 0 ELSE w[First(s)] + Sum(w, s \ {First(s)})
      BY <1>2, SumUnfolds
    <2>2. Sum(w, s) \notin Nat
      OBVIOUS
    <2>3. QED
      BY <2>1, <2>2
  <1>4. First(s) \in s
    BY <1>3, FirstIsIn
  <1>5. Sum(w, s \ {First(s)}) \in Nat
    BY <1>1, <1>4
  <1>6. QED
    BY <1>3, <1>4, <1>5

(* Any element can be taken out of a sum.                                    *)
LEMMA SumTake ==
    ASSUME NEW S, IsFiniteSet(S), NEW w, \A x \in S : w[x] \in Nat, NEW y \in S
    PROVE  Sum(w, S) = w[y] + Sum(w, S \ {y})
  <1> DEFINE F == {s \in SUBSET S : \E z \in s : Sum(w, s) # w[z] + Sum(w, s \ {z})}
  <1> SUFFICES ASSUME F # {} PROVE FALSE
    OBVIOUS
  <1>1. PICK s \in F : \A x \in s : s \ {x} \notin F
    <2>1. F \in SUBSET SUBSET S
      OBVIOUS
    <2> HIDE DEF F
    <2>2. QED BY <2>1, MinimalSubset
  <1>2. PICK z \in s : Sum(w, s) # w[z] + Sum(w, s \ {z})
    OBVIOUS
  <1> DEFINE x == First(s)
  <1>3. IsFiniteSet(s) /\ s # {} /\ x \in s
    BY FS_Subset, FirstIsIn
  <1>4. Sum(w, s) = w[x] + Sum(w, s \ {x})
    BY <1>3, SumUnfolds
  <1>5. x # z
    BY <1>2, <1>4
  <1>6. Sum(w, s \ {x}) = w[z] + Sum(w, (s \ {x}) \ {z})
    BY <1>1, <1>3, <1>5
  <1>7. Sum(w, s \ {z}) = w[x] + Sum(w, (s \ {z}) \ {x})
    BY <1>1, <1>3, <1>5
  <1>8. (s \ {x}) \ {z} = (s \ {z}) \ {x}
    OBVIOUS
  <1>9. Sum(w, (s \ {x}) \ {z}) \in Nat /\ w[x] \in Nat /\ w[z] \in Nat
    <2>1. IsFiniteSet((s \ {x}) \ {z})
      BY <1>3, FS_RemoveElement
    <2>2. \A y1 \in (s \ {x}) \ {z} : w[y1] \in Nat
      OBVIOUS
    <2>3. QED
      BY <1>3, <2>1, <2>2, SumType
  <1> DEFINE rest == Sum(w, (s \ {x}) \ {z})
  <1>10. /\ Sum(w, s) = w[x] + (w[z] + rest)
         /\ Sum(w, s \ {z}) = w[x] + rest
         /\ rest \in Nat /\ w[x] \in Nat /\ w[z] \in Nat
    <2> HIDE DEF F, x
    <2> QED BY <1>4, <1>6, <1>7, <1>8, <1>9
  <1> HIDE DEF F, x, rest
  <1>11. QED
    BY <1>2, <1>10

-----------------------------------------------------------------------------
(* Reserves                                                                  *)

\* The offers of an account, and what they add up to.
OffersBy(o, a) == {n \in Nft : o[n][a] # None}
Amounts(o, a) == [n \in Nft |-> o[n][a].amount]
Owed(o, a) == Sum(Amounts(o, a), OffersBy(o, a))
OfferMap == [Nft -> [Account -> Offer \cup {None}]]

(* The sum over offers is one over a function.                               *)
LEMMA OffersAddUp ==
    ASSUME NEW o, NEW a
    PROVE  MapThenSumSet(LAMBDA n : o[n][a].amount, {n \in Nft : o[n][a] # None}) = Owed(o, a)
  <1> DEFINE S == OffersBy(o, a)
             w == Amounts(o, a)
             Once(g) == [s \in SUBSET S |-> IF s = {} THEN 0
                                            ELSE o[First(s)][a].amount + g[s \ {First(s)}]]
             c == CHOOSE g : g = Once(g)
  <1>1. MapThenSumSet(LAMBDA n : o[n][a].amount, S) = c[S]
    BY DEF MapThenSumSet, MapThenFoldSet, First
  <1>2. ASSUME NEW g PROVE Once(g) = SumOnce(g, w, S)
    <2>1. ASSUME NEW s \in SUBSET S, s # {} PROVE w[First(s)] = o[First(s)][a].amount
      BY <2>1, FirstIsIn DEF Amounts, OffersBy
    <2> HIDE DEF S, w
    <2>2. QED
      BY <2>1 DEF SumOnce
  <1>3. IsFiniteSet(S)
    BY FinitelyManyNfts, FS_Subset DEF OffersBy
  <1>4. Sums(c, w, S)
    <2>1. PICK g : Sums(g, w, S)
      <3> HIDE DEF w, S
      <3> QED BY <1>3, SumsExist
    <2>2. g = Once(g)
      BY <1>2, <2>1 DEF Sums
    <2> HIDE DEF Once
    <2>3. c = Once(c)
      BY <2>2
    <2>4. QED
      BY <1>2, <2>3 DEF Sums
  <1> HIDE DEF c, w, S
  <1>5. Sum(w, S) = c[S]
    BY <1>3, <1>4, SumIsSolution
  <1>6. QED
    BY <1>1, <1>5 DEF Owed, w, S, OffersBy

(* What an offer adds to the sum of its maker, and to no other.              *)
LEMMA OneOfferMore ==
    ASSUME NEW o \in OfferMap, NEW p \in OfferMap, NEW n \in Nft, NEW a \in Account,
           o[n][a] = None, p[n][a] # None,
           \A m \in Nft : \A c \in Account : m # n \/ c # a => p[m][c] = o[m][c]
    PROVE  /\ Owed(o, a) \in Nat /\ p[n][a].amount \in Nat
           /\ Owed(p, a) = p[n][a].amount + Owed(o, a)
           /\ \A c \in Account : c # a => Owed(p, c) = Owed(o, c)
  <1>1. \A q \in OfferMap, c \in Account :
           /\ OffersBy(q, c) \in SUBSET Nft
           /\ \A m \in OffersBy(q, c) : Amounts(q, c)[m] = q[m][c].amount
                                        /\ q[m][c].amount \in Nat
    <2> SUFFICES ASSUME NEW q \in OfferMap, NEW c \in Account, NEW m \in Nft, q[m][c] # None
                 PROVE  q[m][c].amount \in Nat
      BY DEF OffersBy, Amounts
    <2>1. q[m][c] \in Offer
      BY DEF OfferMap
    <2>2. QED
      BY <2>1, MarketAssumption DEF Offer
  <1>2. \A q \in OfferMap, c \in Account : IsFiniteSet(OffersBy(q, c))
    BY <1>1, FinitelyManyNfts, FS_Subset
  <1>3. n \in OffersBy(p, a) /\ OffersBy(p, a) \ {n} = OffersBy(o, a)
    BY DEF OffersBy
  <1>4. Owed(p, a) = Amounts(p, a)[n] + Sum(Amounts(p, a), OffersBy(o, a))
    <2>1. \A m \in OffersBy(p, a) : Amounts(p, a)[m] \in Nat
      BY <1>1
    <2>2. Sum(Amounts(p, a), OffersBy(p, a)) =
            Amounts(p, a)[n] + Sum(Amounts(p, a), OffersBy(p, a) \ {n})
      BY <1>2, <1>3, <2>1, SumTake
    <2>3. QED
      BY <1>3, <2>2 DEF Owed
  <1>5. \A m \in OffersBy(o, a) : Amounts(p, a)[m] = Amounts(o, a)[m]
    BY <1>1, <1>3 DEF OffersBy, Amounts
  <1>6. Sum(Amounts(p, a), OffersBy(o, a)) = Owed(o, a)
    BY <1>2, <1>5, SumSame DEF Owed
  <1>7. Owed(o, a) \in Nat
    BY <1>1, <1>2, SumType DEF Owed
  <1>8. ASSUME NEW c \in Account, c # a PROVE Owed(p, c) = Owed(o, c)
    <2>1. OffersBy(p, c) = OffersBy(o, c)
      BY <1>8 DEF OffersBy
    <2>2. \A m \in OffersBy(o, c) : Amounts(p, c)[m] = Amounts(o, c)[m]
      BY <1>8 DEF OffersBy, Amounts
    <2>3. QED
      BY <1>2, <2>1, <2>2, SumSame DEF Owed
  <1>9. QED
    BY <1>1, <1>3, <1>4, <1>6, <1>7, <1>8

\* Every reserve is what the offers of its account add up to.
Backed(o, b) == \A a \in Account : b[a].reserved = Owed(o, a)

(* That is what ReservesCoverOffers says.                                    *)
LEMMA ReservesAreSums == ReservesCoverOffers <=> Backed(offers, balance)
  BY OffersAddUp DEF ReservesCoverOffers, Backed


Covered == Backed(offers, balance)

(* To reserve adds to one reserve what to give back takes away, and a payment *)
(* touches no reserve.                                                       *)
LEMMA ReservesMove ==
    ASSUME NEW b \in Balances, NEW who \in Account, NEW amount \in Nat, NEW a \in Account
    PROVE  /\ Reserve(b, who, amount)[a].reserved =
                b[a].reserved + (IF a = who THEN amount ELSE 0)
           /\ amount <= b[who].reserved =>
                Unreserve(b, who, amount)[a].reserved =
                   b[a].reserved - (IF a = who THEN amount ELSE 0)
           /\ \A to \in Account : Transfer(b, who, to, amount)[a].reserved = b[a].reserved
  <1>1. b[a] \in [free : Nat, reserved : Nat] /\ b[who] \in [free : Nat, reserved : Nat]
    BY DEF Balances
  <1>2. Reserve(b, who, amount)[a].reserved = b[a].reserved + (IF a = who THEN amount ELSE 0)
    BY <1>1 DEF Reserve, Balances
  <1>3. amount <= b[who].reserved =>
          Unreserve(b, who, amount)[a].reserved = b[a].reserved - (IF a = who THEN amount ELSE 0)
    BY <1>1 DEF Unreserve, Balances
  <1>4. ASSUME NEW to \in Account
        PROVE  Transfer(b, who, to, amount)[a].reserved = b[a].reserved
    <2>1. b[to] \in [free : Nat, reserved : Nat]
      BY DEF Balances
    <2>2. QED
      BY <1>1, <2>1 DEF Transfer, Balances
  <1>5. QED
    BY <1>2, <1>3, <1>4

(* An offer that is withdrawn or accepted gives back all of its amount,      *)
(* which is still reserved.                                                  *)
LEMMA OfferGivenBack ==
    ASSUME DealsTypeOK, OffersAreSigned, Covered, NEW n \in Nft, NEW a \in Account,
           offers[n][a] # None, offers' = [offers EXCEPT ![n][a] = None]
    PROVE  Backed(offers', Unreserve(balance, offers[n][a].maker, offers[n][a].amount))
  <1> DEFINE amount == offers[n][a].amount
  <1>1. offers \in OfferMap /\ balance \in Balances /\ offers[n][a].maker = a
    BY DEF DealsTypeOK, OfferMap, Balances, OffersAreSigned
  <1> DEFINE p == offers'
  <1>2. p \in OfferMap /\ p[n][a] = None
        /\ \A m \in Nft : \A c \in Account : m # n \/ c # a => offers[m][c] = p[m][c]
    BY <1>1 DEF OfferMap
  <1> HIDE DEF p
  <1>3. /\ Owed(p, a) \in Nat /\ amount \in Nat
        /\ Owed(offers, a) = amount + Owed(p, a)
        /\ \A c \in Account : c # a => Owed(offers, c) = Owed(p, c)
    BY <1>1, <1>2, OneOfferMore
  <1>4. amount <= balance[a].reserved
    BY <1>3 DEF Covered, Backed
  <1> HIDE DEF amount
  <1>5. \A c \in Account : Unreserve(balance, a, amount)[c].reserved =
                             balance[c].reserved - (IF c = a THEN amount ELSE 0)
    BY <1>1, <1>3, <1>4, ReservesMove
  <1>6. \A c \in Account : balance[c].reserved \in Nat
    BY <1>1 DEF Balances
  <1>7. \A c \in Account : balance[c].reserved = Owed(offers, c)
    BY DEF Covered, Backed
  <1>8. \A c \in Account : Unreserve(balance, a, amount)[c].reserved = Owed(p, c)
    <2> TAKE c \in Account
    <2>1. CASE c = a
      BY <1>3, <1>5, <1>6, <1>7, <2>1
    <2>2. CASE c # a
      BY <1>3, <1>5, <1>6, <1>7, <2>2
    <2>3. QED
      BY <2>1, <2>2
  <1>9. QED
    BY <1>1, <1>8 DEF Backed, amount, p

(* A purchase moves free money only.                                         *)
LEMMA DoBuyKeepsReserves ==
    ASSUME NEW b \in Balances, NEW buyer \in Account, NEW n \in Nft, item[n] \in Account,
           NEW price \in Nat, NEW o, Backed(o, b), DoBuy(buyer, n, price, b)
    PROVE  Backed(o, balance')
  <1>1. balance' = Transfer(b, buyer, item[n], price)
    BY DEF DoBuy
  <1>2. QED
    BY <1>1, ReservesMove DEF Backed

(* An extrinsic of the market keeps the reserves at what the offers add up   *)
(* to.                                                                       *)
LEMMA MarketReserves ==
    ASSUME DealsTypeOK, OffersAreSigned, Covered, NEW sender \in Account, MarketExtrinsic(sender)
    PROVE  Backed(offers', balance')
  <1>1. PICK n \in Nft :
          \/ \E amount \in Amount, expires \in Expiry : List(sender, n, amount, expires)
          \/ Unlist(sender, n)
          \/ \E offerer \in Account : AcceptOffer(sender, n, offerer)
          \/ \E amount \in Amount, expires \in Expiry : MakeOffer(sender, n, amount, expires)
          \/ WithdrawOffer(sender, n)
          \/ \E amount \in Amount \cup {None} : Buy(sender, n, amount)
    BY DEF MarketExtrinsic
  <1>2. balance \in Balances /\ Backed(offers, balance) /\ offers \in OfferMap
    BY DEF DealsTypeOK, Balances, Covered, OfferMap
  <1>3. ASSUME NEW amount \in Amount, NEW expires \in Expiry, List(sender, n, amount, expires)
        PROVE  Backed(offers', balance')
    BY <1>2, <1>3 DEF List
  <1>4. CASE Unlist(sender, n)
    BY <1>2, <1>4 DEF Unlist
  <1>5. ASSUME NEW offerer \in Account, AcceptOffer(sender, n, offerer)
        PROVE  Backed(offers', balance')
    <2> DEFINE offer == offers[n][offerer]
               b == Unreserve(balance, offer.maker, offer.amount)
    <2>1. offer.maker \in Account /\ offer.amount \in Nat /\ offer # None
      BY <1>5, DealersAreAccounts DEF AcceptOffer
    <2>2. b \in Balances
      BY <1>2, <2>1, UnreserveType
    <2>3. item[n] \in Account /\ DoBuy(offer.maker, n, offer.amount, b)
          /\ offers' = [offers EXCEPT ![n][offerer] = None]
      BY <1>5 DEF AcceptOffer
    <2>4. Backed(offers', b)
      BY <2>1, <2>3, OfferGivenBack
    <2> HIDE DEF b
    <2>5. QED
      BY <2>1, <2>2, <2>3, <2>4, DoBuyKeepsReserves
  <1>6. ASSUME NEW amount \in Amount, NEW expires \in Expiry,
               MakeOffer(sender, n, amount, expires)
        PROVE  Backed(offers', balance')
    <2> DEFINE offer == [maker |-> sender, amount |-> amount, expires |-> expires]
    <2>1. amount \in Nat /\ offer \in Offer /\ offer # None /\ offer.amount = amount
      BY MarketAssumption DEF Offer
    <2>2. offers[n][sender] = None /\ offers' = [offers EXCEPT ![n][sender] = offer]
          /\ balance' = Reserve(balance, sender, amount)
      BY <1>6 DEF MakeOffer
    <2> HIDE DEF offer
    <2> DEFINE p == offers'
    <2>3. p \in OfferMap /\ p[n][sender] = offer
          /\ \A m \in Nft : \A c \in Account :
                m # n \/ c # sender => p[m][c] = offers[m][c]
      BY <1>2, <2>1, <2>2 DEF OfferMap
    <2> HIDE DEF p
    <2>4. /\ Owed(offers, sender) \in Nat
          /\ Owed(p, sender) = amount + Owed(offers, sender)
          /\ \A c \in Account : c # sender => Owed(p, c) = Owed(offers, c)
      BY <1>2, <2>1, <2>2, <2>3, OneOfferMore
    <2>5. \A c \in Account : balance'[c].reserved =
                               balance[c].reserved + (IF c = sender THEN amount ELSE 0)
      BY <1>2, <2>1, <2>2, ReservesMove
    <2>6. \A c \in Account : balance[c].reserved = Owed(offers, c) /\ balance[c].reserved \in Nat
      BY <1>2 DEF Backed, Balances
    <2>7. QED
      BY <2>1, <2>4, <2>5, <2>6 DEF Backed, p
  <1>7. CASE WithdrawOffer(sender, n)
    BY <1>7, OfferGivenBack DEF WithdrawOffer
  <1>8. ASSUME NEW amount \in Amount \cup {None}, Buy(sender, n, amount)
        PROVE  Backed(offers', balance')
    <2>1. item[n] \in Account /\ listedNfts[n].amount \in Nat
      BY <1>8, DealersAreAccounts DEF Buy, IsForSale
    <2>2. DoBuy(sender, n, listedNfts[n].amount, balance) /\ offers' = offers
      BY <1>8 DEF Buy
    <2>3. QED
      BY <1>2, <2>1, <2>2, DoBuyKeepsReserves
  <1>9. QED
    BY <1>1, <1>3, <1>4, <1>5, <1>6, <1>7, <1>8

(* No account has more reserved than its offers, and none of an offer is     *)
(* gone before it is withdrawn or accepted: what unreserve is asked for is   *)
(* always there (lib.rs:337, 391, 435).                                      *)
THEOREM ReservesAreOwed == MarketSpec => []ReservesCoverOffers
  <1>1. MarketInit => Covered
    <2> SUFFICES ASSUME MarketInit, NEW a \in Account
                 PROVE  balance[a].reserved = Owed(offers, a)
      BY DEF Covered, Backed
    <2>1. balance[a].reserved = 0 /\ OffersBy(offers, a) = {}
      BY DEF MarketInit, NoOffers, OffersBy
    <2>2. Owed(offers, a) = 0
      BY <2>1, FS_EmptySet, SumUnfolds DEF Owed
    <2>3. QED
      BY <2>1, <2>2
  <1>2. ASSUME MarketTypeOK, OffersAreSigned, Covered, [MarketNext]_<<vars, marketVars>>
        PROVE  Covered'
    <2>1. CASE UNCHANGED marketStorage
      BY <1>2, <2>1 DEF marketStorage, Covered, Backed
    <2>2. ASSUME NEW sender \in Account, MarketExtrinsic(sender)
          PROVE  Covered'
      <3>1. Backed(offers', balance')
        BY <1>2, <2>2, MarketReserves DEF MarketTypeOK, DealsTypeOK
      <3>2. QED
        BY <3>1 DEF Covered, Backed
    <2>3. QED
      BY <1>2, <2>1, <2>2 DEF MarketNext, CoreExtrinsic, NextBlock, marketVars
  <1>3. Covered => ReservesCoverOffers
    BY ReservesAreSums DEF Covered
  <1>4. QED
    BY <1>1, <1>2, <1>3, MarketTypeCorrect, OffersStaySigned, PTL DEF MarketSpec
=============================================================================
