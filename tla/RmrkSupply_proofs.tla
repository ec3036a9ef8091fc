--------------------------- MODULE RmrkSupply_proofs ---------------------------
(***************************************************************************)
(* What rmrk-core and uniques each know about collections and items stays  *)
(* in agreement, for any number of accounts, collections and NFTs.         *)
(***************************************************************************)
EXTENDS RmrkCore_proofs

(* The number of items uniques keeps for a class, which destroy_collection    *)
(* shows as its witness (lib.rs:547-549), is the number there really is.      *)
ItemsCounted ==
    \A c \in CollectionId : class[c] # None => class[c].items = Cardinality(ItemsOf(c))

\* A class that does not exist has no items: without it a new class could find some.
ItemsHaveClass == \A c \in CollectionId : class[c] = None => ItemsOf(c) = {}

SupplyInv == IssuersAgree /\ ItemsCounted /\ ItemsHaveClass /\ RecordHasItem

(* The empty storage agrees with itself.                                     *)
LEMMA InitSupply == Init => SupplyInv
  <1> SUFFICES ASSUME Init PROVE SupplyInv
    OBVIOUS
  <1>1. IssuersAgree /\ ItemsCounted /\ ItemsHaveClass
    BY DEF Init, UniquesInit, IssuersAgree, ItemsCounted, ItemsHaveClass, ItemsOf
  <1>2. RecordHasItem
    BY DEF Init, RecordHasItem
  <1>3. QED
    BY <1>1, <1>2 DEF SupplyInv

(* Items can be counted.                                                     *)
LEMMA ItemsFinite == \A c : IsFiniteSet(ItemsOf(c)) /\ Cardinality(ItemsOf(c)) \in Nat
  <1>1. \A c : ItemsOf(c) \subseteq Nft
    BY DEF ItemsOf
  <1>2. QED
    BY <1>1, FinitelyManyNfts, FS_Subset, FS_CardinalityType

-----------------------------------------------------------------------------
(* Most steps are quiet: nothing comes into being, only records may go.      *)
SameIssuers ==
    \A c \in CollectionId :
        /\ collections'[c] = None <=> collections[c] = None
        /\ collections[c] # None => collections'[c].issuer = collections[c].issuer
NoNewRecord == \A n \in Nft : nfts'[n] # None => nfts[n] # None
SameItems == \A n \in Nft : item'[n] = None <=> item[n] = None
Quiet == SameIssuers /\ NoNewRecord /\ SameItems /\ UNCHANGED class

(* A quiet step keeps the agreement.                                         *)
LEMMA QuietSupply ==
    ASSUME SupplyInv, Quiet
    PROVE  SupplyInv'
  <1>1. \A c : ItemsOf(c)' = ItemsOf(c)
    BY DEF Quiet, SameItems, ItemsOf
  <1>2. IssuersAgree'
    BY DEF SupplyInv, IssuersAgree, Quiet, SameIssuers
  <1>3. ItemsCounted' /\ ItemsHaveClass'
    BY <1>1 DEF SupplyInv, ItemsCounted, ItemsHaveClass, Quiet
  <1>4. RecordHasItem'
    BY DEF SupplyInv, RecordHasItem, Quiet, NoNewRecord, SameItems
  <1>5. QED
    BY <1>2, <1>3, <1>4 DEF SupplyInv

(* nft_burn removes records, that of n among them, and no collection.         *)
LEMMA NftBurnIsQuiet ==
    ASSUME TypeOK, NEW n \in Nft, NEW budget, NEW edges \in SUBSET children,
           NftBurn(n, budget, edges)
    PROVE  SameIssuers /\ NoNewRecord /\ nfts'[n] = None
  <1> DEFINE drained == BurnWalk(n, budget, edges).drained \cap edges
             burned == {n} \cup {e[2] : e \in drained}
  <1>1. nfts' = [m \in Nft |-> IF m \in burned THEN None ELSE nfts[m]]
    BY DEF NftBurn
  <1>2. n \in burned
    OBVIOUS
  <1> HIDE DEF burned
  <1>3. NoNewRecord /\ nfts'[n] = None
    BY <1>1, <1>2 DEF NoNewRecord
  <1>4. SameIssuers
    BY NftBurnType DEF SameIssuers
  <1>5. QED
    BY <1>3, <1>4

(* The steps that are quiet.                                                 *)
LEMMA ResourceStepIsQuiet ==
    ASSUME UNCHANGED <<class, item, collections, nfts>>
    PROVE  Quiet
  BY DEF Quiet, SameIssuers, NoNewRecord, SameItems

(* lock_collection writes max only.                                          *)
LEMMA LockCollectionIsQuiet ==
    ASSUME TypeOK, NEW sender, NEW c \in CollectionId, LockCollection(sender, c)
    PROVE  Quiet
  <1>1. collections[c] \in CollectionInfo
    BY DEF TypeOK, LockCollection
  <1>2. [collections[c] EXCEPT !.max = collections[c].nfts_count] \in CollectionInfo
    BY <1>1 DEF CollectionInfo
  <1>3. SameIssuers
    BY <1>1, <1>2, CoreAssumption DEF TypeOK, LockCollection, SameIssuers, CollectionInfo
  <1>4. QED
    BY <1>3 DEF LockCollection, Quiet, NoNewRecord, SameItems, nftVars, uniquesVars

(* reject_nft removes records and no item.                                   *)
LEMMA RejectNftIsQuiet ==
    ASSUME TypeOK, NEW sender, NEW n \in Nft, RejectNft(sender, n)
    PROVE  Quiet
  <1> DEFINE edges == children \ {<<OwnerOf[n], n>>}
  <1>1. NftBurn(n, MaxRecursions, edges) /\ edges \in SUBSET children
    BY DEF RejectNft
  <1>2. SameIssuers /\ NoNewRecord
    <2> HIDE DEF edges
    <2> QED BY <1>1, NftBurnIsQuiet
  <1>3. QED
    BY <1>2 DEF RejectNft, Quiet, SameItems, uniquesVars

(* send and accept_nft give an item to somebody and burn none.               *)
LEMMA MoveIsQuiet ==
    ASSUME TypeOK, NEW sender, NEW n \in Nft, NEW to \in AccountId \cup Nft,
           \/ Send(sender, n, to)
           \/ AcceptNft(sender, n, to)
           \/ to \in AccountId /\ Sell(sender, n, to)
    PROVE  Quiet
  <1>1. ToAccountId(to) # None
    BY ToAccountIdType, UniquesAssumption DEF AccountId
  <1>2. SameItems /\ UNCHANGED class
    BY <1>1 DEF TypeOK, UniquesTypeOK, Send, Sell, NftSend, AcceptNft, DoTransfer, SameItems
  <1>3. NoNewRecord
    BY DEF TypeOK, Send, Sell, NftSend, AcceptNft, NoNewRecord
  <1>4. QED
    BY <1>2, <1>3 DEF Send, Sell, NftSend, AcceptNft, Quiet, SameIssuers, collectionVars

(* rmrk-market and rmrk-equip write flags only.                              *)
LEMMA OtherPalletsAreQuiet ==
    ASSUME TypeOK, NEW sender \in Account, OtherPallets(sender)
    PROVE  Quiet
  <1>1. PICK n \in Nft : \/ \E b \in LockChoices : SetLock(n, b)
                         \/ \E b \in EquippedChoices : SetEquipped(n, b)
                         \/ \E buyer \in Account : Sell(sender, n, buyer)
    BY DEF OtherPallets
  <1>2. CASE \E buyer \in Account : Sell(sender, n, buyer)
    BY <1>2, MoveIsQuiet DEF AccountId
  <1>3. ASSUME NEW b, SetLock(n, b) \/ SetEquipped(n, b) PROVE Quiet
    BY <1>3 DEF TypeOK, SetLock, SetEquipped, Quiet, SameIssuers, NoNewRecord, SameItems,
                uniquesVars, collectionVars, nftVars
  <1>4. QED
    BY <1>1, <1>2, <1>3

-----------------------------------------------------------------------------
(* The steps that are not.                                                   *)

(* create_collection makes a collection and a class of the same issuer.      *)
LEMMA CreateCollectionSupply ==
    ASSUME TypeOK, SupplyInv, NEW sender \in Account, NEW max \in MaxChoices,
           CreateCollection(sender, max)
    PROVE  SupplyInv'
  <1> DEFINE k == collectionIndex
             new == [issuer |-> sender, max |-> max, nfts_count |-> 0]
  <1>1. k \in CollectionId
    BY UniquesAssumption DEF TypeOK, CreateCollection, CollectionId
  <1>2. new \in CollectionInfo
    BY CoreAssumption DEF CollectionInfo
  <1>3. IssuersAgree'
    <2>1. collections' = [collections EXCEPT ![k] = new]
      BY DEF CreateCollection
    <2>2. class' = [class EXCEPT ![k] = [owner |-> sender, items |-> 0]]
      BY DEF CreateCollection, DoCreateCollection
    <2>3. [owner |-> sender, items |-> 0] # None /\ new # None
      BY <1>2, CoreAssumption, UniquesAssumption DEF ClassInfo
    <2>4. QED
      BY <1>1, <2>1, <2>2, <2>3 DEF TypeOK, UniquesTypeOK, SupplyInv, IssuersAgree
  <1>4. \A c : ItemsOf(c)' = ItemsOf(c)
    BY DEF CreateCollection, DoCreateCollection, ItemsOf
  <1>5. ItemsOf(k) = {} /\ Cardinality({}) = 0
    BY <1>1, FS_EmptySet DEF SupplyInv, ItemsHaveClass, CreateCollection, DoCreateCollection
  <1>6. ItemsCounted' /\ ItemsHaveClass'
    BY <1>1, <1>4, <1>5
    DEF TypeOK, UniquesTypeOK, SupplyInv, ItemsCounted, ItemsHaveClass, CreateCollection,
        DoCreateCollection
  <1>7. RecordHasItem'
    BY DEF SupplyInv, RecordHasItem, CreateCollection, DoCreateCollection, nftVars
  <1>8. QED
    BY <1>3, <1>6, <1>7 DEF SupplyInv

(* The witness of destroy_collection holds: there is no item to clear.       *)
LEMMA DestroyCollectionItems ==
    ASSUME TypeOK, SupplyInv, NEW sender, NEW c \in CollectionId, DestroyCollection(sender, c)
    PROVE  ItemsOf(c) = {} /\ item' = item
  <1>1. class[c] # None /\ class[c].items = 0
    BY DEF DestroyCollection, DoDestroyCollection
  <1>2. ItemsOf(c) = {}
    BY <1>1, ItemsFinite, FS_EmptySet DEF SupplyInv, ItemsCounted
  <1>3. \A n \in Nft : n[1] = c => item[n] = None
    BY <1>2 DEF ItemsOf
  <1>4. item' = [n \in Nft |-> IF n[1] = c THEN None ELSE item[n]]
    BY DEF DestroyCollection, DoDestroyCollection
  <1>5. item' = item
    BY <1>3, <1>4 DEF TypeOK, UniquesTypeOK
  <1>6. QED
    BY <1>2, <1>5

(* destroy_collection removes the collection together with its class.        *)
LEMMA DestroyCollectionSupply ==
    ASSUME TypeOK, SupplyInv, NEW sender, NEW c \in CollectionId, DestroyCollection(sender, c)
    PROVE  SupplyInv'
  <1>1. ItemsOf(c) = {} /\ item' = item
    BY DestroyCollectionItems
  <1>2. \A d : ItemsOf(d)' = ItemsOf(d)
    BY <1>1 DEF ItemsOf
  <1>3. class' = [class EXCEPT ![c] = None] /\ collections' = [collections EXCEPT ![c] = None]
    BY DEF DestroyCollection, DoDestroyCollection
  <1>4. IssuersAgree'
    BY <1>3 DEF TypeOK, UniquesTypeOK, SupplyInv, IssuersAgree
  <1>5. ItemsCounted' /\ ItemsHaveClass'
    BY <1>1, <1>2, <1>3 DEF TypeOK, UniquesTypeOK, SupplyInv, ItemsCounted, ItemsHaveClass
  <1>6. RecordHasItem'
    BY <1>1 DEF SupplyInv, RecordHasItem, DestroyCollection, nftVars
  <1>7. QED
    BY <1>4, <1>5, <1>6 DEF SupplyInv

(* change_collection_issuer changes both sides, or neither.                  *)
LEMMA ChangeCollectionIssuerSupply ==
    ASSUME TypeOK, SupplyInv, NEW sender \in Account, NEW c \in CollectionId,
           NEW new \in Account, ChangeCollectionIssuer(sender, c, new)
    PROVE  SupplyInv'
  <1>1. collections[c] \in CollectionInfo /\ class[c] \in ClassInfo
    BY DEF TypeOK, UniquesTypeOK, ChangeCollectionIssuer, TransferOwnership
  <1>2. collections' = [collections EXCEPT ![c] = [collections[c] EXCEPT !.issuer = new]]
    BY DEF ChangeCollectionIssuer
  <1>3. class' = [class EXCEPT ![c] = [class[c] EXCEPT !.owner = new]]
    <2>1. CASE new = sender
      <3>1. class' = class /\ class[c].owner = new
        BY <2>1 DEF ChangeCollectionIssuer, TransferOwnership
      <3>2. QED
        BY <1>1, <3>1 DEF TypeOK, UniquesTypeOK, ClassInfo
    <2>2. CASE new # sender
      BY <2>2 DEF ChangeCollectionIssuer, TransferOwnership
    <2>3. QED
      BY <2>1, <2>2
  <1>4. /\ [collections[c] EXCEPT !.issuer = new] # None
        /\ [collections[c] EXCEPT !.issuer = new].issuer = new
    <2>1. [collections[c] EXCEPT !.issuer = new] \in CollectionInfo
      BY <1>1 DEF CollectionInfo
    <2>2. QED
      BY <1>1, <2>1, CoreAssumption DEF CollectionInfo
  <1>5. /\ [class[c] EXCEPT !.owner = new] # None
        /\ [class[c] EXCEPT !.owner = new].owner = new
        /\ [class[c] EXCEPT !.owner = new].items = class[c].items
    BY <1>1, UniquesAssumption DEF ClassInfo
  <1>6. IssuersAgree'
    BY <1>2, <1>3, <1>4, <1>5 DEF TypeOK, UniquesTypeOK, SupplyInv, IssuersAgree
  <1>7. \A d : ItemsOf(d)' = ItemsOf(d)
    BY DEF ItemsOf, ChangeCollectionIssuer, TransferOwnership
  <1>8. class[c] # None
    BY DEF ChangeCollectionIssuer, TransferOwnership
  <1>9. ItemsCounted' /\ ItemsHaveClass'
    BY <1>3, <1>5, <1>7, <1>8
    DEF TypeOK, UniquesTypeOK, SupplyInv, ItemsCounted, ItemsHaveClass
  <1>10. RecordHasItem'
    BY DEF SupplyInv, RecordHasItem, ChangeCollectionIssuer, TransferOwnership, nftVars
  <1>11. QED
    BY <1>6, <1>9, <1>10 DEF SupplyInv

(* An item more, or less, is counted.                                        *)
LEMMA OneMore ==
    ASSUME TypeOK, NEW n \in Nft, NEW who \in AccountId, DoMint(n, who)
    PROVE  /\ ItemsOf(n[1])' = ItemsOf(n[1]) \cup {n}
           /\ n \notin ItemsOf(n[1])
           /\ \A c \in CollectionId : c # n[1] => ItemsOf(c)' = ItemsOf(c)
  <1>1. who # None
    BY UniquesAssumption DEF AccountId
  <1>2. item[n] = None /\ item' = [item EXCEPT ![n] = who]
    BY DEF DoMint
  <1>3. QED
    BY <1>1, <1>2 DEF TypeOK, UniquesTypeOK, ItemsOf

(* What do_burn takes away was there.                                        *)
LEMMA OneLess ==
    ASSUME TypeOK, NEW n \in Nft, DoBurn(n)
    PROVE  /\ ItemsOf(n[1])' = ItemsOf(n[1]) \ {n}
           /\ n \in ItemsOf(n[1])
           /\ \A c \in CollectionId : c # n[1] => ItemsOf(c)' = ItemsOf(c)
  <1>1. item[n] # None /\ item' = [item EXCEPT ![n] = None]
    BY DEF DoBurn
  <1>2. QED
    BY <1>1 DEF TypeOK, UniquesTypeOK, ItemsOf

(* What uniques mints or burns, it counts.                                   *)
LEMMA DoMintSupply ==
    ASSUME TypeOK, ItemsCounted, ItemsHaveClass, NEW n \in Nft,
           NEW who \in AccountId, DoMint(n, who)
    PROVE  ItemsCounted' /\ ItemsHaveClass'
  <1> DEFINE c == n[1]
             more == [class[c] EXCEPT !.items = @ + 1]
  <1>1. c \in CollectionId /\ class[c] \in ClassInfo
    BY DEF Nft, TypeOK, UniquesTypeOK, DoMint
  <1>2. more # None /\ more.items = class[c].items + 1
    BY <1>1, UniquesAssumption DEF ClassInfo
  <1>3. class' = [class EXCEPT ![c] = more]
    BY DEF DoMint
  <1>4. Cardinality(ItemsOf(c) \cup {n}) = Cardinality(ItemsOf(c)) + 1
    BY OneMore, ItemsFinite, FS_AddElement
  <1>5. class[c].items = Cardinality(ItemsOf(c))
    BY <1>1, UniquesAssumption DEF ItemsCounted
  <1> HIDE DEF c, more
  <1>6. ItemsOf(c)' = ItemsOf(c) \cup {n} /\ \A d \in CollectionId : d # c => ItemsOf(d)' = ItemsOf(d)
    BY OneMore DEF c
  <1>7. QED
    BY <1>1, <1>2, <1>3, <1>4, <1>5, <1>6 DEF TypeOK, UniquesTypeOK, ItemsCounted, ItemsHaveClass

(* do_burn takes one from the count, which is not zero.                      *)
LEMMA DoBurnSupply ==
    ASSUME TypeOK, ItemsCounted, ItemsHaveClass, NEW n \in Nft, DoBurn(n)
    PROVE  ItemsCounted' /\ ItemsHaveClass'
  <1> DEFINE c == n[1]
             less == [class[c] EXCEPT !.items = IF @ = 0 THEN 0 ELSE @ - 1]
  <1>1. c \in CollectionId /\ class[c] \in ClassInfo
    BY DEF Nft, TypeOK, UniquesTypeOK, DoBurn
  <1>2. class[c].items = Cardinality(ItemsOf(c))
    BY <1>1, UniquesAssumption DEF ItemsCounted
  <1>3. Cardinality(ItemsOf(c) \ {n}) = Cardinality(ItemsOf(c)) - 1 /\ Cardinality(ItemsOf(c)) # 0
    BY OneLess, ItemsFinite, FS_RemoveElement, FS_EmptySet
  <1>4. less.items = class[c].items - 1 /\ less \in ClassInfo
    BY <1>1, <1>2, <1>3 DEF ClassInfo
  <1>5. less # None
    BY <1>4, UniquesAssumption
  <1>6. class' = [class EXCEPT ![c] = less]
    BY DEF DoBurn
  <1> HIDE DEF c, less
  <1>7. ItemsOf(c)' = ItemsOf(c) \ {n} /\ \A d \in CollectionId : d # c => ItemsOf(d)' = ItemsOf(d)
    BY OneLess DEF c
  <1>8. QED
    BY <1>1, <1>2, <1>3, <1>4, <1>5, <1>6, <1>7
    DEF TypeOK, UniquesTypeOK, ItemsCounted, ItemsHaveClass

(* The two mints make a record and an item, and count the item.              *)
LEMMA MintSupply ==
    ASSUME TypeOK, SupplyInv, NEW sender \in Account, NEW c \in CollectionId,
           NEW transferable, NEW rs,
           \/ \E owner \in AccountId : MintNft(sender, owner, c, transferable, rs)
           \/ \E parent \in Nft : MintNftDirectlyToNft(sender, parent, c, transferable, rs)
    PROVE  SupplyInv'
  <1> DEFINE n == <<c, nextNftId[c]>>
  <1>1. PICK who \in AccountId : DoMint(n, who)
    BY DEF MintNft, MintNftDirectlyToNft, AccountId, VirtualAccount
  <1>2. PICK o, p : NftMint(c, o, p, transferable)
    BY DEF MintNft, MintNftDirectlyToNft
  <1>3. n \in Nft
    BY <1>2, NextIds DEF NftMint
  <1>4. ItemsCounted' /\ ItemsHaveClass'
    <2> HIDE DEF n
    <2> QED BY <1>1, <1>3, DoMintSupply DEF SupplyInv
  <1>5. collections' = [collections EXCEPT ![c] = [collections[c] EXCEPT !.nfts_count = @ + 1]]
    BY <1>2 DEF NftMint
  <1>6. /\ [collections[c] EXCEPT !.nfts_count = @ + 1] # None
        /\ [collections[c] EXCEPT !.nfts_count = @ + 1].issuer = collections[c].issuer
    <2>1. collections[c] \in CollectionInfo
      BY <1>2 DEF NftMint, TypeOK
    <2>2. [collections[c] EXCEPT !.nfts_count = @ + 1] \in CollectionInfo
      BY <2>1 DEF CollectionInfo
    <2>3. QED
      BY <2>1, <2>2, CoreAssumption DEF CollectionInfo
  <1>7. /\ class' = [class EXCEPT ![c] = [class[c] EXCEPT !.items = @ + 1]]
        /\ [class[c] EXCEPT !.items = @ + 1] # None
        /\ [class[c] EXCEPT !.items = @ + 1].owner = class[c].owner
    <2>1. class[c] \in ClassInfo
      BY <1>1 DEF TypeOK, UniquesTypeOK, DoMint
    <2>2. QED
      BY <1>1, <2>1, UniquesAssumption DEF DoMint, ClassInfo
  <1>8. collections[c] # None /\ class[c] # None
    BY <1>1, <1>2 DEF NftMint, DoMint
  <1>9. IssuersAgree'
    BY <1>5, <1>6, <1>7, <1>8 DEF TypeOK, UniquesTypeOK, SupplyInv, IssuersAgree
  <1>10. RecordHasItem'
    <2>1. item' = [item EXCEPT ![n] = who] /\ who # None
      BY <1>1, UniquesAssumption DEF DoMint, AccountId
    <2>2. \A m \in Nft : m # n => nfts'[m] = nfts[m]
      BY <1>2 DEF NftMint, TypeOK
    <2> HIDE DEF n
    <2>3. QED
      BY <1>3, <2>1, <2>2 DEF SupplyInv, RecordHasItem, TypeOK, UniquesTypeOK
  <1>11. QED
    BY <1>4, <1>9, <1>10 DEF SupplyInv

(* burn_nft removes record and item of n, and records only below it.         *)
LEMMA BurnNftSupply ==
    ASSUME TypeOK, SupplyInv, NEW sender, NEW n \in Nft, NEW max_burns,
           BurnNft(sender, n, max_burns)
    PROVE  SupplyInv'
  <1>1. NftBurn(n, max_burns, children) /\ DoBurn(n)
    BY DEF BurnNft
  <1>2. SameIssuers /\ NoNewRecord /\ nfts'[n] = None
    BY <1>1, NftBurnIsQuiet
  <1>3. ItemsCounted' /\ ItemsHaveClass'
    BY <1>1, DoBurnSupply DEF SupplyInv
  <1>4. RecordHasItem'
    BY <1>1, <1>2 DEF SupplyInv, RecordHasItem, NoNewRecord, DoBurn, TypeOK, UniquesTypeOK
  <1>5. \A c \in CollectionId :
           /\ class'[c] = None <=> class[c] = None
           /\ class[c] # None => class'[c].owner = class[c].owner
    <2> DEFINE k == n[1]
               i == IF class[k].items = 0 THEN 0 ELSE class[k].items - 1
               less == [class[k] EXCEPT !.items = i]
    <2>1. k \in CollectionId /\ class[k] \in ClassInfo
      BY <1>1 DEF Nft, TypeOK, UniquesTypeOK, DoBurn
    <2>2. i \in Nat
      BY <2>1 DEF ClassInfo
    <2>3. class' = [class EXCEPT ![k] = less]
      BY <1>1 DEF DoBurn
    <2>4. less # None /\ less.owner = class[k].owner
      <3> HIDE DEF i
      <3> QED BY <2>1, <2>2, UniquesAssumption DEF ClassInfo
    <2> HIDE DEF k, less
    <2>5. QED
      BY <2>1, <2>3, <2>4, UniquesAssumption DEF TypeOK, UniquesTypeOK
  <1>6. IssuersAgree'
    BY <1>2, <1>5 DEF SupplyInv, IssuersAgree, SameIssuers
  <1>7. QED
    BY <1>3, <1>4, <1>6 DEF SupplyInv

-----------------------------------------------------------------------------
(* The agreement is inductive, given the types.                              *)
LEMMA NextSupply == TypeOK /\ SupplyInv /\ [Next]_vars => SupplyInv'
  <1> SUFFICES ASSUME TypeOK, SupplyInv, [Next]_vars PROVE SupplyInv'
    OBVIOUS
  <1>1. ASSUME NEW sender \in Account, Extrinsic(sender) PROVE SupplyInv'
    <2>1. CASE CollectionExtrinsic(sender)
      <3>1. ASSUME NEW c, AcceptOwnership(sender, c) PROVE Quiet
        BY <3>1, ResourceStepIsQuiet
        DEF AcceptOwnership, SetAcceptOwnership, collectionVars, nftVars
      <3>2. QED
        BY <2>1, <3>1, CreateCollectionSupply, DestroyCollectionSupply, LockCollectionIsQuiet,
           ChangeCollectionIssuerSupply, QuietSupply DEF CollectionExtrinsic
    <2>2. CASE NftExtrinsic(sender)
      BY <2>2, MintSupply, BurnNftSupply, RejectNftIsQuiet, MoveIsQuiet, QuietSupply
      DEF NftExtrinsic, Place
    <2>3. CASE ResourceExtrinsic(sender)
      <3>1. UNCHANGED <<class, item, collections, nfts>>
        BY <2>3 DEF ResourceExtrinsic, AddBasicResource, AddComposableResource, AddSlotResource,
           AddResource, AcceptResource, RemoveResource, AcceptResourceRemoval, SetPriority,
           uniquesVars, collectionVars, nftVars
      <3>2. QED
        BY <3>1, ResourceStepIsQuiet, QuietSupply
    <2>4. CASE PropertyExtrinsic(sender)
      <3>1. UNCHANGED <<class, item, collections, nfts>>
        BY <2>4 DEF PropertyExtrinsic, SetProperty, uniquesVars, collectionVars, nftVars
      <3>2. QED
        BY <3>1, ResourceStepIsQuiet, QuietSupply
    <2>5. QED
      BY <1>1, <2>1, <2>2, <2>3, <2>4 DEF Extrinsic
  <1>2. ASSUME NEW sender \in Account, OtherPallets(sender) PROVE SupplyInv'
    BY <1>2, OtherPalletsAreQuiet, QuietSupply
  <1>3. CASE UNCHANGED vars
    BY <1>3, ResourceStepIsQuiet, QuietSupply DEF vars, uniquesVars, collectionVars, nftVars
  <1>4. QED
    BY <1>1, <1>2, <1>3 DEF Next

(* The agreement holds always.                                               *)
LEMMA SupplyInvariant == Spec => []SupplyInv
  BY InitType, NextType, InitSupply, NextSupply, PTL DEF Spec

(* rmrk-core and uniques agree on the collections there are and on their     *)
(* issuers.                                                                  *)
THEOREM IssuersStayInAgreement == Spec => []IssuersAgree
  <1>1. SupplyInv => IssuersAgree
    BY DEF SupplyInv
  <1>2. QED
    BY <1>1, SupplyInvariant, PTL

(* The witness destroy_collection shows to uniques is the number of items.   *)
THEOREM ItemsStayCounted == Spec => []ItemsCounted
  <1>1. SupplyInv => ItemsCounted
    BY DEF SupplyInv
  <1>2. QED
    BY <1>1, SupplyInvariant, PTL

(* Every record of an NFT is backed by an item.                              *)
THEOREM RecordsKeepItems == Spec => []RecordHasItem
  <1>1. SupplyInv => RecordHasItem
    BY DEF SupplyInv
  <1>2. QED
    BY <1>1, SupplyInvariant, PTL

(* What is left of a destroyed collection, or was never created, has neither *)
(* items nor records, although nfts_count may be too low.                    *)
THEOREM NothingIsLeftBehind == Spec => []DestroyedLeavesNothing
  <1>1. SupplyInv => DestroyedLeavesNothing
    <2> SUFFICES ASSUME SupplyInv, NEW c \in CollectionId, collections[c] = None
                 PROVE  ItemsOf(c) = {} /\ RecordsOf(c) = {}
      BY DEF DestroyedLeavesNothing
    <2>1. ItemsOf(c) = {}
      BY DEF SupplyInv, IssuersAgree, ItemsHaveClass
    <2>2. RecordsOf(c) = {}
      BY <2>1 DEF SupplyInv, RecordHasItem, RecordsOf, ItemsOf
    <2>3. QED
      BY <2>1, <2>2
  <1>2. QED
    BY <1>1, SupplyInvariant, PTL
-----------------------------------------------------------------------------
(* Limits                                                                    *)

(* What a step may do to a collection that is there after it: nothing but a   *)
(* lower count, a lock at the count, or one more NFT below the limit.        *)
Kept(c) == /\ nextNftId'[c] = nextNftId[c]
           /\ collections'[c].max = collections[c].max
           /\ collections'[c].nfts_count <= collections[c].nfts_count
Locked(c) == /\ nextNftId'[c] = nextNftId[c]
             /\ collections'[c].max = collections[c].nfts_count
             /\ collections'[c].nfts_count = collections[c].nfts_count
Minted(c) == /\ nextNftId'[c] = nextNftId[c] + 1
             /\ collections[c].max # None => nextNftId[c] < collections[c].max
             /\ collections'[c].max = collections[c].max
             /\ collections'[c].nfts_count = collections[c].nfts_count + 1
Limited(c) ==
    IF collections[c] = None
    THEN /\ nextNftId'[c] = nextNftId[c]
         /\ collections'[c] # None => collections'[c].nfts_count = 0
    ELSE IF collections'[c] = None THEN nextNftId'[c] = nextNftId[c]
    ELSE Kept(c) \/ Locked(c) \/ Minted(c)

(* Nothing at all is such a step.                                            *)
LEMMA StillLimited ==
    ASSUME TypeOK, NEW c \in CollectionId, nextNftId'[c] = nextNftId[c],
           collections'[c] = collections[c]
    PROVE  Limited(c)
  <1>1. collections[c] # None => collections[c].nfts_count \in Nat
    BY DEF TypeOK, CollectionInfo
  <1>2. QED
    BY <1>1 DEF Limited, Kept

(* Every step of rmrk-core is.                                               *)
LEMMA StepsAreLimited ==
    ASSUME TypeOK, SupplyInv, [Next]_vars, NEW c \in CollectionId
    PROVE  Limited(c)
  <1>1. CASE UNCHANGED <<collections, nextNftId>>
    BY <1>1, StillLimited
  <1>2. ASSUME NEW sender \in Account, NEW max \in MaxChoices, CreateCollection(sender, max)
        PROVE  Limited(c)
    <2>1. class[collectionIndex] = None /\ collectionIndex \in CollectionId
      <3>1. collectionIndex \in CollectionId
        BY <1>2, NextIds DEF TypeOK, CreateCollection
      <3>2. QED
        BY <1>2, <3>1 DEF CreateCollection, DoCreateCollection
    <2>2. collections[collectionIndex] = None
      BY <2>1 DEF SupplyInv, IssuersAgree
    <2>3. CASE c = collectionIndex
      BY <1>2, <2>1, <2>2, <2>3 DEF CreateCollection, TypeOK, Limited
    <2>4. CASE c # collectionIndex
      BY <1>2, <2>1, <2>4, StillLimited DEF CreateCollection, TypeOK
    <2>5. QED
      BY <2>3, <2>4
  <1>3. ASSUME NEW sender \in Account, NEW d \in CollectionId, DestroyCollection(sender, d)
        PROVE  Limited(c)
    <2>1. CASE c = d
      BY <1>3, <2>1 DEF DestroyCollection, TypeOK, Limited
    <2>2. CASE c # d
      BY <1>3, <2>2, StillLimited DEF DestroyCollection, TypeOK
    <2>3. QED
      BY <2>1, <2>2
  <1>4. ASSUME NEW sender \in Account, NEW d \in CollectionId, NEW new \in Account,
               ChangeCollectionIssuer(sender, d, new)
        PROVE  Limited(c)
    <2>1. CASE c = d
      <3>1. collections[d] \in CollectionInfo
        BY <1>4 DEF ChangeCollectionIssuer, TypeOK
      <3>2. collections'[d] = [collections[d] EXCEPT !.issuer = new]
        BY <1>4 DEF ChangeCollectionIssuer, TypeOK
      <3>3. nextNftId' = nextNftId
        BY <1>4 DEF ChangeCollectionIssuer
      <3>4. collections[d] # None
        BY <1>4 DEF ChangeCollectionIssuer
      <3>5. QED
        BY <2>1, <3>1, <3>2, <3>3, <3>4 DEF Limited, Kept, CollectionInfo
    <2>2. CASE c # d
      BY <1>4, <2>2, StillLimited DEF ChangeCollectionIssuer, TypeOK
    <2>3. QED
      BY <2>1, <2>2
  <1>5. ASSUME NEW sender \in Account, NEW d \in CollectionId, LockCollection(sender, d)
        PROVE  Limited(c)
    <2>1. CASE c = d
      <3>1. collections[d] \in CollectionInfo
        BY <1>5 DEF LockCollection, TypeOK
      <3>2. collections'[d] = [collections[d] EXCEPT !.max = collections[d].nfts_count]
        BY <1>5 DEF LockCollection, TypeOK
      <3>3. nextNftId' = nextNftId /\ collections[d] # None
        BY <1>5 DEF LockCollection
      <3>4. QED
        BY <2>1, <3>1, <3>2, <3>3 DEF Limited, Locked, CollectionInfo
    <2>2. CASE c # d
      BY <1>5, <2>2, StillLimited DEF LockCollection, TypeOK
    <2>3. QED
      BY <2>1, <2>2
  <1>6. ASSUME NEW d \in CollectionId, NEW owner, NEW pending, NEW t, NftMint(d, owner, pending, t)
        PROVE  Limited(c)
    <2>1. CASE c = d
      <3>1. collections[d] \in CollectionInfo /\ collections[d] # None
        BY <1>6 DEF NftMint, TypeOK
      <3>2. /\ collections'[d].nfts_count = collections[d].nfts_count + 1
            /\ collections'[d].max = collections[d].max
            /\ collections'[d] # None
        <4>1. collections'[d] = [collections[d] EXCEPT !.nfts_count = collections[d].nfts_count + 1]
          BY <1>6 DEF NftMint, TypeOK
        <4>2. collections'[d] \in CollectionInfo
          BY <3>1, <4>1 DEF CollectionInfo
        <4>3. QED
          BY <3>1, <4>1, <4>2, CoreAssumption DEF CollectionInfo
      <3>3. /\ nextNftId'[d] = nextNftId[d] + 1
            /\ collections[d].max # None => nextNftId[d] < collections[d].max
        BY <1>6 DEF NftMint, TypeOK
      <3>4. QED
        BY <2>1, <3>1, <3>2, <3>3 DEF Limited, Minted, CollectionInfo
    <2>2. CASE c # d
      BY <1>6, <2>2, StillLimited DEF NftMint, TypeOK
    <2>3. QED
      BY <2>1, <2>2
  <1>7. ASSUME NEW n \in Nft, NEW budget, NEW edges \in SUBSET children,
               NftBurn(n, budget, edges), UNCHANGED nextNftId
        PROVE  Limited(c)
    BY <1>7, NftBurnType DEF Limited, Kept
  <1>8. ASSUME NEW sender \in Account, Extrinsic(sender) PROVE Limited(c)
    <2>1. CASE CollectionExtrinsic(sender)
      BY <1>1, <1>2, <1>3, <1>4, <1>5, <2>1
      DEF CollectionExtrinsic, AcceptOwnership, collectionVars
    <2>2. CASE NftExtrinsic(sender)
      <3>1. ASSUME NEW n \in Nft, NEW k, BurnNft(sender, n, k) \/ RejectNft(sender, n)
            PROVE  Limited(c)
        <4>1. \E budget : \E edges \in SUBSET children : NftBurn(n, budget, edges)
          BY <3>1 DEF BurnNft, RejectNft
        <4>2. QED
          BY <1>7, <3>1, <4>1 DEF BurnNft, RejectNft
      <3>2. ASSUME NEW n \in Nft, NEW to, Send(sender, n, to) \/ AcceptNft(sender, n, to)
            PROVE  Limited(c)
        BY <1>1, <3>2 DEF Send, NftSend, AcceptNft, collectionVars
      <3>3. QED
        BY <1>6, <2>2, <3>1, <3>2 DEF NftExtrinsic, Place, MintNft, MintNftDirectlyToNft
    <2>3. CASE ResourceExtrinsic(sender) \/ PropertyExtrinsic(sender)
      BY <1>1, <2>3
      DEF ResourceExtrinsic, AddBasicResource, AddComposableResource, AddSlotResource,
          AddResource, AcceptResource, RemoveResource, AcceptResourceRemoval, SetPriority,
          PropertyExtrinsic, SetProperty, collectionVars
    <2>4. QED
      BY <1>8, <2>1, <2>2, <2>3 DEF Extrinsic
  <1>9. ASSUME NEW sender \in Account, OtherPallets(sender) PROVE Limited(c)
    BY <1>1, <1>9 DEF OtherPallets, SetLock, SetEquipped, Sell, NftSend, collectionVars
  <1>10. CASE UNCHANGED vars
    BY <1>1, <1>10 DEF vars, collectionVars
  <1>11. QED
    BY <1>8, <1>9, <1>10 DEF Next

(* The count is below the limit and below the next id: a lock at the count   *)
(* lowers the limit, and what is minted has room.                            *)
CountCapped ==
    \A c \in CollectionId : collections[c] # None =>
        /\ collections[c].nfts_count <= nextNftId[c]
        /\ collections[c].max # None => collections[c].nfts_count <= collections[c].max

LEMMA CountStaysCapped == Spec => []CountCapped
  <1>1. Init => CountCapped
    BY DEF Init, CountCapped
  <1>2. ASSUME TypeOK, TypeOK', SupplyInv, CountCapped, [Next]_vars
        PROVE  CountCapped'
    <2> SUFFICES ASSUME NEW c \in CollectionId, collections'[c] # None
                 PROVE  /\ collections'[c].nfts_count <= nextNftId'[c]
                        /\ collections'[c].max # None =>
                              collections'[c].nfts_count <= collections'[c].max
      BY DEF CountCapped
    <2>1. Limited(c)
      BY <1>2, StepsAreLimited
    <2>2. /\ nextNftId[c] \in Nat /\ nextNftId'[c] \in Nat
          /\ collections'[c].nfts_count \in Nat /\ collections'[c].max \in Nat \cup {None}
          /\ collections[c] # None => /\ collections[c].nfts_count \in Nat
                                      /\ collections[c].max \in Nat \cup {None}
      BY <1>2 DEF TypeOK, CollectionInfo
    <2>3. QED
      BY <1>2, <2>1, <2>2, UniquesAssumption DEF Limited, Kept, Locked, Minted, CountCapped
  <1>3. QED
    BY <1>1, <1>2, TypeCorrect, SupplyInvariant, PTL DEF Spec

(* A collection that is full or locked gives no id any more, whatever is     *)
(* burned in it.                                                             *)
THEOREM FullNeverMints == Spec => FullStaysFull
  <1>1. ASSUME TypeOK, SupplyInv, CountCapped, [Next]_vars,
               NEW c \in CollectionId, collections[c] # None, Full(c)
        PROVE  nextNftId'[c] = nextNftId[c] /\ (collections'[c] # None => Full(c)')
    <2>1. Limited(c)
      BY <1>1, StepsAreLimited
    <2>2. /\ nextNftId[c] \in Nat
          /\ collections[c].nfts_count \in Nat /\ collections[c].max \in Nat
          /\ collections[c].nfts_count <= nextNftId[c]
      BY <1>1, UniquesAssumption DEF TypeOK, CollectionInfo, Full, CountCapped
    <2>3. nextNftId'[c] = nextNftId[c]
      BY <1>1, <2>1, <2>2 DEF Limited, Kept, Locked, Minted, Full
    <2>4. ASSUME collections'[c] # None PROVE Full(c)'
      BY <1>1, <2>1, <2>2, <2>4, UniquesAssumption DEF Limited, Kept, Locked, Minted, Full
    <2>5. QED
      BY <2>3, <2>4
  <1>2. TypeOK /\ SupplyInv /\ CountCapped /\ [Next]_vars =>
          [\A c \in CollectionId : (collections[c] # None /\ Full(c)) =>
              /\ nextNftId'[c] = nextNftId[c]
              /\ collections'[c] # None => Full(c)']_vars
    BY <1>1
  <1>3. QED
    BY <1>2, TypeCorrect, SupplyInvariant, CountStaysCapped, PTL DEF Spec, FullStaysFull

(* Locking never raises a limit, since the count never passed it.            *)
THEOREM LimitNeverRises == Spec => CapNeverRises
  <1>1. ASSUME TypeOK, SupplyInv, CountCapped, [Next]_vars,
               NEW c \in CollectionId, collections[c] # None, collections'[c] # None,
               collections[c].max # None
        PROVE  collections'[c].max # None /\ collections'[c].max <= collections[c].max
    <2>1. Limited(c)
      BY <1>1, StepsAreLimited
    <2>2. /\ collections[c].nfts_count \in Nat /\ collections[c].max \in Nat
          /\ collections[c].nfts_count <= collections[c].max
      BY <1>1 DEF TypeOK, CollectionInfo, CountCapped
    <2>3. QED
      BY <1>1, <2>1, <2>2, UniquesAssumption DEF Limited, Kept, Locked, Minted
  <1>2. TypeOK /\ SupplyInv /\ CountCapped /\ [Next]_vars =>
          [\A c \in CollectionId :
              (collections[c] # None /\ collections'[c] # None /\ collections[c].max # None)
                => collections'[c].max # None /\ collections'[c].max <= collections[c].max]_vars
    BY <1>1
  <1>3. QED
    BY <1>2, TypeCorrect, SupplyInvariant, CountStaysCapped, PTL DEF Spec, CapNeverRises

-----------------------------------------------------------------------------
(* What is gone                                                              *)

(* A record that was removed does not come back and the item that is left    *)
(* behind is not moved: only NFTs with a record are, and ids are given once. *)
THEOREM GoneForGood == Spec => GoneStaysGone
  <1> DEFINE Away(n) == nfts'[n] = None /\ item'[n] \in {item[n], None}
  <1>1. ASSUME TypeOK, [Next]_vars, NEW n \in UsedIds, nfts[n] = None
        PROVE  Away(n)
    <2>0. n \in Nft /\ nextNftId \in [CollectionId -> Nat]
      BY <1>1 DEF UsedIds, TypeOK
    <2>1. CASE UNCHANGED <<nfts, item>>
      BY <1>1, <2>1
    <2>2. ASSUME NEW sender, NEW c \in CollectionId, NEW t, NEW rs, NEW o,
                 MintNft(sender, o, c, t, rs) \/ MintNftDirectlyToNft(sender, o, c, t, rs)
          PROVE  Away(n)
      <3> DEFINE m == <<c, nextNftId[c]>>
      <3>1. n # m
        BY <1>1, <2>0, <2>2 DEF UsedIds
      <3>2. \E record : nfts' = [nfts EXCEPT ![m] = record]
        BY <2>2 DEF MintNft, MintNftDirectlyToNft, NftMint
      <3>3. \E a : item' = [item EXCEPT ![m] = a]
        BY <2>2 DEF MintNft, MintNftDirectlyToNft, DoMint
      <3>4. QED
        BY <1>1, <2>0, <3>1, <3>2, <3>3 DEF TypeOK, UniquesTypeOK
    <2>3. ASSUME NEW sender, NEW m \in Nft, NEW k, BurnNft(sender, m, k) \/ RejectNft(sender, m)
          PROVE  Away(n)
      <3>1. \E budget, edges : NftBurn(m, budget, edges)
        BY <2>3 DEF BurnNft, RejectNft
      <3>2. nfts'[n] \in {None, nfts[n]}
        BY <2>0, <3>1 DEF NftBurn
      <3>3. item'[n] \in {None, item[n]}
        BY <1>1, <2>0, <2>3 DEF BurnNft, RejectNft, DoBurn, uniquesVars, TypeOK, UniquesTypeOK
      <3>4. QED
        BY <1>1, <3>2, <3>3
    <2>4. ASSUME NEW sender, NEW m \in Nft, NEW to, NEW locked,
                 NftSend(sender, m, to, locked) \/ AcceptNft(sender, m, to)
          PROVE  Away(n)
      BY <1>1, <2>0, <2>4 DEF NftSend, AcceptNft, DoTransfer, TypeOK, UniquesTypeOK
    <2>5. ASSUME NEW m \in Nft, NEW b, SetLock(m, b) \/ SetEquipped(m, b) PROVE Away(n)
      BY <1>1, <2>0, <2>5 DEF SetLock, SetEquipped, uniquesVars, nftVars, TypeOK
    <2>6. ASSUME NEW sender \in Account, CollectionExtrinsic(sender) PROVE Away(n)
      BY <1>1, <2>0, <2>6
      DEF CollectionExtrinsic, CreateCollection, DoCreateCollection, DestroyCollection,
          DoDestroyCollection, LockCollection, ChangeCollectionIssuer, TransferOwnership,
          AcceptOwnership, SetAcceptOwnership, uniquesVars, nftVars
    <2>7. ASSUME NEW sender \in Account, NftExtrinsic(sender) PROVE Away(n)
      BY <2>2, <2>3, <2>4, <2>7 DEF NftExtrinsic, Place, Send
    <2>8. ASSUME NEW sender \in Account, ResourceExtrinsic(sender) \/ PropertyExtrinsic(sender)
          PROVE  Away(n)
      BY <2>1, <2>8
      DEF ResourceExtrinsic, AddBasicResource, AddComposableResource, AddSlotResource,
          AddResource, AcceptResource, RemoveResource, AcceptResourceRemoval, SetPriority,
          PropertyExtrinsic, SetProperty, uniquesVars, nftVars
    <2>9. ASSUME NEW sender \in Account, OtherPallets(sender) PROVE Away(n)
      BY <2>4, <2>5, <2>9 DEF OtherPallets, Sell
    <2>10. CASE UNCHANGED vars
      BY <2>1, <2>10 DEF vars, uniquesVars, nftVars
    <2>11. QED
      BY <1>1, <2>6, <2>7, <2>8, <2>9, <2>10 DEF Next, Extrinsic
  <1>2. TypeOK /\ [Next]_vars =>
          [\A n \in UsedIds : nfts[n] = None =>
              nfts'[n] = None /\ item'[n] \in {item[n], None}]_vars
    BY <1>1
  <1>3. QED
    BY <1>2, TypeCorrect, PTL DEF Spec, GoneStaysGone

-----------------------------------------------------------------------------
(* Counts                                                                    *)

(* Records can be counted.                                                   *)
LEMMA RecordsFinite == \A c : IsFiniteSet(RecordsOf(c)) /\ Cardinality(RecordsOf(c)) \in Nat
  <1>1. \A c : RecordsOf(c) \subseteq Nft
    BY DEF RecordsOf
  <1>2. QED
    BY <1>1, FinitelyManyNfts, FS_Subset, FS_CardinalityType

(* A burn visits a collection at least once for each of its NFTs that it     *)
(* removes: more often when two entries lead to the same NFT.                *)
LEMMA BurnedAreVisited ==
    ASSUME NEW n \in Nft, NEW drained \in SUBSET (Nft \X Nft), NEW c, NEW gone,
           gone = {m \in {n} \cup {e[2] : e \in drained} : m[1] = c}
    PROVE  IsFiniteSet(gone) /\ Cardinality(gone) <= Visits(n, drained, c)
  <1> DEFINE D == {e \in drained : e[2][1] = c}
             T == {e[2] : e \in D}
             f == [e \in D |-> e[2]]
  <1>1. IsFiniteSet(D)
    BY FinitelyManyNfts, FS_Product, FS_Subset
  <1>2. f \in Surjection(D, T)
    BY DEF Surjection
  <1>3. gone \subseteq T \cup (IF n[1] = c THEN {n} ELSE {})
    OBVIOUS
  <1>4. Visits(n, drained, c) = Cardinality(D) + (IF n[1] = c THEN 1 ELSE 0)
    BY DEF Visits
  <1> HIDE DEF D, T, f
  <1>5. /\ IsFiniteSet(T) /\ Cardinality(T) <= Cardinality(D)
        /\ Cardinality(T) \in Nat /\ Cardinality(D) \in Nat
    BY <1>1, <1>2, FS_Surjection, FS_CardinalityType
  <1>6. IsFiniteSet(T \cup {n}) /\ Cardinality(T \cup {n}) \in Nat
        /\ Cardinality(T \cup {n}) <= Cardinality(T) + 1
    BY <1>5, FS_AddElement, FS_CardinalityType
  <1>7. CASE n[1] = c
    <2>1. gone \in SUBSET (T \cup {n})
      BY <1>3, <1>7
    <2>2. IsFiniteSet(gone) /\ Cardinality(gone) <= Cardinality(T \cup {n})
          /\ Cardinality(gone) \in Nat
      BY <1>6, <2>1, FS_Subset, FS_CardinalityType
    <2>3. QED
      BY <1>4, <1>5, <1>6, <1>7, <2>2
  <1>8. CASE n[1] # c
    <2>1. gone \in SUBSET T
      BY <1>3, <1>8
    <2>2. IsFiniteSet(gone) /\ Cardinality(gone) <= Cardinality(T) /\ Cardinality(gone) \in Nat
      BY <1>5, <2>1, FS_Subset, FS_CardinalityType
    <2>3. QED
      BY <1>4, <1>5, <1>8, <2>2
  <1>9. QED
    BY <1>7, <1>8

(* nft_burn takes no less from a count than records from its collection.     *)
LEMMA NftBurnCounts ==
    ASSUME TypeOK, CountNeverExceedsRecords, NEW n \in Nft, NEW budget,
           NEW edges \in SUBSET children, NftBurn(n, budget, edges)
    PROVE  CountNeverExceedsRecords'
  <1> DEFINE drained == BurnWalk(n, budget, edges).drained \cap edges
             burned == {n} \cup {e[2] : e \in drained}
             left(c) == IF Visits(n, drained, c) >= collections[c].nfts_count
                        THEN 0 ELSE collections[c].nfts_count - Visits(n, drained, c)
  <1>1. /\ nfts' = [m \in Nft |-> IF m \in burned THEN None ELSE nfts[m]]
        /\ collections' = [c \in CollectionId |->
                              IF collections[c] = None \/ \A m \in burned : m[1] # c
                              THEN collections[c]
                              ELSE [collections[c] EXCEPT !.nfts_count = left(c)]]
    BY DEF NftBurn
  <1>2. drained \in SUBSET (Nft \X Nft)
    BY DEF TypeOK
  <1> SUFFICES ASSUME NEW c \in CollectionId, collections'[c] # None
               PROVE  collections'[c].nfts_count <= Cardinality(RecordsOf(c)')
    BY DEF CountNeverExceedsRecords
  <1> DEFINE gone == {m \in burned : m[1] = c}
             visits == Visits(n, drained, c)
             R == RecordsOf(c)
  <1>3. IsFiniteSet(gone) /\ Cardinality(gone) <= visits
    <2> HIDE DEF drained
    <2> QED BY <1>2, BurnedAreVisited
  <1>4. visits \in Nat
    <2> HIDE DEF drained
    <2> QED BY <1>2, VisitsType
  <1> HIDE DEF drained
  <1>5. RecordsOf(c)' = R \ gone
    BY <1>1 DEF RecordsOf
  <1> HIDE DEF burned
  <1>6. collections[c] # None
    BY <1>1
  <1>7. collections[c].nfts_count \in Nat
    BY <1>6 DEF TypeOK, CollectionInfo
  <1>8. collections[c].nfts_count <= Cardinality(R) /\ Cardinality(R) \in Nat /\ IsFiniteSet(R)
    BY <1>6, RecordsFinite DEF CountNeverExceedsRecords
  <1>9. CASE \A m \in burned : m[1] # c
    <2>1. RecordsOf(c)' = R /\ collections'[c] = collections[c]
      BY <1>1, <1>5, <1>9
    <2>2. QED
      BY <1>8, <2>1
  <1>10. CASE ~ \A m \in burned : m[1] # c
    <2>1. collections'[c] = [collections[c] EXCEPT !.nfts_count = left(c)]
      BY <1>1, <1>6, <1>10
    <2>2. left(c) = IF visits >= collections[c].nfts_count
                    THEN 0 ELSE collections[c].nfts_count - visits
      OBVIOUS
    <2> HIDE DEF left, gone, visits, R
    <2>3. collections'[c].nfts_count = left(c)
      BY <1>6, <2>1 DEF TypeOK, CollectionInfo
    <2>4. /\ Cardinality(R \ gone) = Cardinality(R) - Cardinality(R \cap gone)
          /\ Cardinality(R \ gone) \in Nat
      BY <1>8, FS_Difference, FS_CardinalityType
    <2>5. R \cap gone \in SUBSET gone
      OBVIOUS
    <2>6. /\ Cardinality(R \cap gone) <= Cardinality(gone)
          /\ Cardinality(R \cap gone) \in Nat /\ Cardinality(gone) \in Nat
      BY <1>3, <2>5, FS_Subset, FS_CardinalityType
    <2>7. left(c) <= Cardinality(R \ gone)
      BY <1>3, <1>4, <1>7, <1>8, <2>2, <2>4, <2>6
    <2>8. QED
      BY <1>5, <2>3, <2>7
  <1>11. QED
    BY <1>9, <1>10

(* A mint counts one, and writes one record more.                            *)
LEMMA MintCounts ==
    ASSUME TypeOK, RecordHasItem, CountNeverExceedsRecords, NEW c \in CollectionId,
           NEW owner \in AccountId \cup Nft, NEW pending \in BOOLEAN, NEW t \in BOOLEAN,
           NEW who, NftMint(c, owner, pending, t), DoMint(<<c, nextNftId[c]>>, who)
    PROVE  CountNeverExceedsRecords'
  <1> DEFINE n == <<c, nextNftId[c]>>
             record == [owner |-> owner, equipped |-> FALSE, pending |-> pending,
                        transferable |-> t]
             more == [collections[c] EXCEPT !.nfts_count = collections[c].nfts_count + 1]
  <1>1. n \in Nft /\ n[1] = c
    BY NextIds DEF NftMint
  <1>2. nfts[n] = None
    BY <1>1 DEF DoMint, RecordHasItem
  <1>3. record # None
    <2>1. record \in NftInfo
      BY DEF NftInfo
    <2>2. QED
      BY <2>1, CoreAssumption
  <1>4. nfts' = [nfts EXCEPT ![n] = record]
    BY DEF NftMint
  <1>5. collections[c] # None /\ collections' = [collections EXCEPT ![c] = more]
    BY DEF NftMint
  <1>6. more.nfts_count = collections[c].nfts_count + 1 /\ collections[c].nfts_count \in Nat
    BY <1>5 DEF TypeOK, CollectionInfo
  <1> HIDE DEF n, record, more
  <1>7. RecordsOf(c)' = RecordsOf(c) \cup {n} /\ n \notin RecordsOf(c)
    BY <1>1, <1>2, <1>3, <1>4 DEF RecordsOf, TypeOK
  <1>8. \A d \in CollectionId : d # c => RecordsOf(d)' = RecordsOf(d)
    BY <1>1, <1>4 DEF RecordsOf, TypeOK
  <1>9. Cardinality(RecordsOf(c)') = Cardinality(RecordsOf(c)) + 1
    BY <1>7, RecordsFinite, FS_AddElement
  <1> SUFFICES ASSUME NEW d \in CollectionId, collections'[d] # None
               PROVE  collections'[d].nfts_count <= Cardinality(RecordsOf(d)')
    BY DEF CountNeverExceedsRecords
  <1>10. CASE d = c
    BY <1>5, <1>6, <1>9, <1>10, RecordsFinite DEF CountNeverExceedsRecords, TypeOK
  <1>11. CASE d # c
    BY <1>5, <1>8, <1>11 DEF CountNeverExceedsRecords, TypeOK
  <1>12. QED
    BY <1>10, <1>11

(* No other step removes a record or raises a count.                         *)
LEMMA OtherCounts ==
    ASSUME TypeOK, SupplyInv, CountNeverExceedsRecords, [Next]_vars, nextNftId' = nextNftId,
           \A n \in Nft : nfts'[n] = None => nfts[n] = None
    PROVE  CountNeverExceedsRecords'
  <1> SUFFICES ASSUME NEW c \in CollectionId, collections'[c] # None
               PROVE  collections'[c].nfts_count <= Cardinality(RecordsOf(c)')
    BY DEF CountNeverExceedsRecords
  <1>1. Limited(c)
    BY StepsAreLimited
  <1>2. nextNftId[c] \in Nat
    BY DEF TypeOK
  <1>3. Cardinality(RecordsOf(c)) <= Cardinality(RecordsOf(c)')
    <2>1. RecordsOf(c) \in SUBSET RecordsOf(c)' /\ RecordsOf(c)' \in SUBSET Nft
      BY DEF RecordsOf
    <2>2. QED
      BY <2>1, FinitelyManyNfts, FS_Subset
  <1>4. Cardinality(RecordsOf(c)) \in Nat /\ Cardinality(RecordsOf(c)') \in Nat
    <2>1. RecordsOf(c)' \in SUBSET Nft
      BY DEF RecordsOf
    <2>2. QED
      BY <2>1, RecordsFinite, FinitelyManyNfts, FS_Subset, FS_CardinalityType
  <1>5. CASE collections[c] = None
    BY <1>1, <1>4, <1>5 DEF Limited
  <1>6. CASE collections[c] # None
    <2>1. collections'[c].nfts_count <= collections[c].nfts_count
          /\ collections'[c].nfts_count \in Nat
      <3>1. collections'[c].nfts_count \in Nat /\ collections[c].nfts_count \in Nat
        BY <1>6, NextType DEF TypeOK, CollectionInfo
      <3>2. QED
        BY <1>1, <1>2, <1>6, <3>1 DEF Limited, Kept, Locked, Minted
    <2>2. collections[c].nfts_count <= Cardinality(RecordsOf(c)) /\ collections[c].nfts_count \in Nat
      BY <1>6 DEF TypeOK, CollectionInfo, CountNeverExceedsRecords
    <2>3. QED
      BY <1>3, <1>4, <2>1, <2>2
  <1>7. QED
    BY <1>5, <1>6

(* nfts_count never claims more NFTs than there are records: destroying a    *)
(* collection is never blocked by NFTs that are gone.                        *)
THEOREM CountsAreBacked == Spec => []CountNeverExceedsRecords
  <1> DEFINE Inv == CountNeverExceedsRecords
  <1>1. Init => Inv
    BY DEF Init, CountNeverExceedsRecords
  <1>2. ASSUME TypeOK, TypeOK', SupplyInv, Inv, [Next]_vars PROVE Inv'
    <2>1. ASSUME nextNftId' = nextNftId, \A n \in Nft : nfts'[n] = None => nfts[n] = None
          PROVE  Inv'
      BY <1>2, <2>1, OtherCounts
    <2>2. CASE UNCHANGED <<nextNftId, nfts>>
      BY <2>1, <2>2
    <2>3. ASSUME NEW sender \in Account, CollectionExtrinsic(sender) PROVE Inv'
      BY <2>2, <2>3
      DEF CollectionExtrinsic, CreateCollection, DestroyCollection, LockCollection,
          ChangeCollectionIssuer, AcceptOwnership, collectionVars, nftVars
    <2>4. ASSUME NEW sender \in Account, NEW c \in CollectionId, NEW t \in TransferableChoices,
                 NEW rs, NEW o, \/ o \in AccountId /\ MintNft(sender, o, c, t, rs)
                                \/ o \in Nft /\ MintNftDirectlyToNft(sender, o, c, t, rs)
          PROVE  Inv'
      <3>1. t \in BOOLEAN /\ RecordHasItem
        BY <1>2, CoreAssumption DEF SupplyInv
      <3>2. /\ \E pending \in BOOLEAN : NftMint(c, o, pending, t)
            /\ \E who : DoMint(<<c, nextNftId[c]>>, who)
        BY <2>4 DEF MintNft, MintNftDirectlyToNft
      <3>3. QED
        BY <1>2, <2>4, <3>1, <3>2, MintCounts
    <2>5. ASSUME NEW sender, NEW n \in Nft, NEW k, BurnNft(sender, n, k) \/ RejectNft(sender, n)
          PROVE  Inv'
      <3>1. \E budget : \E edges \in SUBSET children : NftBurn(n, budget, edges)
        BY <2>5 DEF BurnNft, RejectNft
      <3>2. QED
        BY <1>2, <3>1, NftBurnCounts
    <2>6. ASSUME NEW sender, NEW n \in Nft, NEW to \in AccountId \cup Nft, NEW locked,
                 NftSend(sender, n, to, locked) \/ AcceptNft(sender, n, to)
          PROVE  Inv'
      <3>1. nextNftId' = nextNftId
        BY <2>6 DEF NftSend, AcceptNft, collectionVars
      <3>2. nfts[n] \in NftInfo
        BY <1>2, <2>6 DEF TypeOK, NftSend, AcceptNft
      <3>3. PICK record \in NftInfo : nfts' = [nfts EXCEPT ![n] = record]
        <4>1. /\ [nfts[n] EXCEPT !.pending = TRUE] \in NftInfo
              /\ [nfts[n] EXCEPT !.pending = FALSE] \in NftInfo
              /\ [nfts[n] EXCEPT !.owner = to] \in NftInfo
          BY <3>2 DEF NftInfo
        <4>2. \/ nfts' = [nfts EXCEPT ![n] = [nfts[n] EXCEPT !.pending = TRUE]]
              \/ nfts' = [nfts EXCEPT ![n] = [nfts[n] EXCEPT !.pending = FALSE]]
              \/ nfts' = [nfts EXCEPT ![n] = [nfts[n] EXCEPT !.owner = to]]
          BY <2>6 DEF NftSend, AcceptNft
        <4>3. QED
          BY <4>1, <4>2
      <3>4. QED
        BY <1>2, <2>1, <3>1, <3>3, CoreAssumption DEF TypeOK
    <2>7. ASSUME NEW n \in Nft, NEW b \in BOOLEAN, SetLock(n, b) \/ SetEquipped(n, b) PROVE Inv'
      <3>1. CASE SetLock(n, b)
        BY <2>2, <3>1 DEF SetLock, collectionVars, nftVars
      <3>2. CASE SetEquipped(n, b)
        <4>1. nextNftId' = nextNftId /\ nfts' = [nfts EXCEPT ![n] = [nfts[n] EXCEPT !.equipped = b]]
          BY <3>2 DEF SetEquipped, collectionVars
        <4>2. [nfts[n] EXCEPT !.equipped = b] \in NftInfo
          <5>1. nfts[n] \in NftInfo
            BY <1>2, <3>2 DEF SetEquipped, TypeOK
          <5>2. QED
            BY <5>1 DEF NftInfo
        <4>3. QED
          BY <1>2, <2>1, <4>1, <4>2, CoreAssumption DEF TypeOK
      <3>3. QED
        BY <2>7, <3>1, <3>2
    <2>8. ASSUME NEW sender \in Account, NftExtrinsic(sender) PROVE Inv'
      BY <2>4, <2>5, <2>6, <2>8 DEF NftExtrinsic, Place, Send
    <2>9. ASSUME NEW sender \in Account, ResourceExtrinsic(sender) \/ PropertyExtrinsic(sender)
          PROVE  Inv'
      BY <2>2, <2>9
      DEF ResourceExtrinsic, AddBasicResource, AddComposableResource, AddSlotResource,
          AddResource, AcceptResource, RemoveResource, AcceptResourceRemoval, SetPriority,
          PropertyExtrinsic, SetProperty, collectionVars, nftVars
    <2>10. ASSUME NEW sender \in Account, OtherPallets(sender) PROVE Inv'
      BY <2>6, <2>7, <2>10, CoreAssumption DEF OtherPallets, Sell, AccountId
    <2>11. CASE UNCHANGED vars
      BY <2>2, <2>11 DEF vars, collectionVars, nftVars
    <2>12. QED
      BY <1>2, <2>3, <2>8, <2>9, <2>10, <2>11 DEF Next, Extrinsic
  <1>3. QED
    BY <1>1, <1>2, TypeCorrect, SupplyInvariant, PTL DEF Spec
=============================================================================
