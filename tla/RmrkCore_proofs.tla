---------------------------- MODULE RmrkCore_proofs ----------------------------
(***************************************************************************)
(* Proofs about rmrk-core for any number of accounts, collections, NFTs,   *)
(* resources and priorities.                                               *)
(***************************************************************************)
EXTENDS RmrkCore, Integers, FiniteSetTheorems, WellFoundedInduction, TLAPS

-----------------------------------------------------------------------------
(* Sets of naturals, and finite sets.  The induction theorems of the library  *)
(* take an operator; these take the set, and rest on the strict subsets of a  *)
(* finite set being well founded.                                             *)

(* The least-number principle, for sets.                                     *)
LEMMA LeastNatural ==
    ASSUME NEW S \in SUBSET Nat, S # {}
    PROVE  \E m \in S : \A j \in S : m <= j
  <1>1. PICK n \in S : TRUE
    OBVIOUS
  <1> DEFINE W == 0..n
             T == {0..i : i \in {j \in S : j <= n}}
  <1>2. IsFiniteSet(W)
    BY FS_Interval
  <1>3. T \subseteq SUBSET W /\ T # {}
    <2>1. \A i \in S : i <= n => 0..i \subseteq W
      OBVIOUS
    <2>2. 0..n \in T
      OBVIOUS
    <2>3. QED BY <2>1, <2>2
  <1>4. IsWellFoundedOn(StrictSubsetOrdering(W), SUBSET W)
    BY <1>2, FS_StrictSubsetOrderingWellFounded, FS_FiniteSubsetsOfFinite
  <1>5. PICK x \in T : \A y \in T : ~(<<y, x>> \in StrictSubsetOrdering(W))
    <2> HIDE DEF T, W
    <2>1. QED BY <1>3, <1>4, WFMin
  <1>6. PICK m \in S : m <= n /\ x = 0..m
    OBVIOUS
  <1>7. \A j \in S : m <= j
    <2> SUFFICES ASSUME NEW j \in S, j < m PROVE FALSE
      OBVIOUS
    <2>1. j <= n /\ 0..j \in T
      BY <1>6
    <2>2. 0..j \subseteq 0..m /\ m \in 0..m /\ m \notin 0..j
      OBVIOUS
    <2>3. <<0..j, x>> \in StrictSubsetOrdering(W)
      BY <1>3, <1>6, <2>1, <2>2 DEF StrictSubsetOrdering
    <2>4. QED BY <1>5, <2>1, <2>3
  <1>8. QED
    BY <1>7

(* A non-empty set of positions has a last one.                              *)
LEMMA MaxExists ==
    ASSUME NEW k \in Nat, NEW S \in SUBSET (1..k), S # {}
    PROVE  \E m \in S : \A j \in S : j <= m
  <1> DEFINE T == {k - i : i \in S}
  <1>1. T \in SUBSET Nat /\ T # {}
    <2>1. \A i \in S : k - i \in Nat
      OBVIOUS
    <2>2. QED BY <2>1
  <1>2. PICK x \in T : \A y \in T : x <= y
    <2> HIDE DEF T
    <2>1. QED BY <1>1, LeastNatural
  <1>3. PICK i \in S : x = k - i
    OBVIOUS
  <1>4. \A j \in S : x <= k - j
    BY <1>2
  <1>5. QED
    BY <1>3, <1>4

(* A non-empty family of subsets of a finite set has a minimal member.       *)
LEMMA MinimalSubset ==
    ASSUME NEW A, IsFiniteSet(A), NEW F \in SUBSET SUBSET A, F # {}
    PROVE  \E s \in F : \A x \in s : s \ {x} \notin F
  <1> DEFINE K == {Cardinality(s) : s \in F}
  <1>1. \A s \in F : IsFiniteSet(s) /\ Cardinality(s) \in Nat
    BY FS_Subset, FS_CardinalityType
  <1>2. K \in SUBSET Nat /\ K # {}
    BY <1>1
  <1>3. PICK k \in K : \A j \in K : k <= j
    <2> HIDE DEF K
    <2> QED BY <1>2, LeastNatural
  <1>4. PICK s \in F : Cardinality(s) = k
    OBVIOUS
  <1>5. ASSUME NEW x \in s, s \ {x} \in F PROVE FALSE
    <2>1. Cardinality(s \ {x}) = Cardinality(s) - 1
      BY <1>1, FS_RemoveElement
    <2>2. Cardinality(s) \in Nat /\ Cardinality(s \ {x}) \in K
      BY <1>1, <1>5
    <2> HIDE DEF K
    <2>3. QED
      BY <1>3, <1>4, <2>1, <2>2
  <1>6. QED
    BY <1>5

-----------------------------------------------------------------------------
(* Type correctness *)

(* Identifiers given by a counter are identifiers.                           *)
LEMMA NextIds ==
    ASSUME TypeOK, NEW c \in CollectionId
    PROVE  /\ nextNftId[c] < NftIdMax => <<c, nextNftId[c]>> \in Nft
           /\ collectionIndex # CollectionIdMax => collectionIndex \in CollectionId
  BY UniquesAssumption DEF TypeOK, CollectionId, NftId, Nft

(* The empty storage is well typed.                                          *)
LEMMA InitType == Init => TypeOK
  <1> SUFFICES ASSUME Init PROVE TypeOK
    OBVIOUS
  <1>1. UniquesTypeOK
    BY UniquesAssumption DEF Init, UniquesInit, UniquesTypeOK
  <1>2. QED
    BY <1>1, UniquesAssumption, CoreAssumption
    DEF Init, TypeOK, NoResources, NoProperties, CollectionId, NftId, ResourceId

(* create_collection keeps the types.                                        *)
LEMMA CreateCollectionType ==
    ASSUME TypeOK, NEW sender \in Account, NEW max \in MaxChoices,
           CreateCollection(sender, max), signer' \in Account \cup {None}
    PROVE  TypeOK'
  <1>1. collectionIndex \in CollectionId
    BY UniquesAssumption DEF TypeOK, CreateCollection, CollectionId
  <1>2. UniquesTypeOK'
    BY <1>1 DEF ClassInfo, TypeOK, UniquesTypeOK, CreateCollection, DoCreateCollection
  <1>3. collectionIndex' \in 0..CollectionIdMax
    BY <1>1, UniquesAssumption DEF CreateCollection, CollectionId
  <1>4. collections' \in [CollectionId -> CollectionInfo \cup {None}]
    BY <1>1, CoreAssumption DEF TypeOK, CreateCollection, CollectionInfo
  <1>5. QED
    BY <1>2, <1>3, <1>4 DEF TypeOK, CreateCollection, nftVars, resourceVars, metaVars

(* destroy_collection keeps the types.                                       *)
LEMMA DestroyCollectionType ==
    ASSUME TypeOK, NEW sender \in Account, NEW c \in CollectionId,
           DestroyCollection(sender, c), signer' \in Account \cup {None}
    PROVE  TypeOK'
  <1>1. UniquesTypeOK'
    BY DEF TypeOK, UniquesTypeOK, DestroyCollection, DoDestroyCollection
  <1>2. collections' \in [CollectionId -> CollectionInfo \cup {None}]
    BY DEF TypeOK, DestroyCollection
  <1>3. QED
    BY <1>1, <1>2 DEF TypeOK, DestroyCollection, nftVars, resourceVars, metaVars

(* change_collection_issuer keeps the types.                                 *)
LEMMA ChangeCollectionIssuerType ==
    ASSUME TypeOK, NEW sender \in Account, NEW c \in CollectionId, NEW new \in Account,
           ChangeCollectionIssuer(sender, c, new), signer' \in Account \cup {None}
    PROVE  TypeOK'
  <1>1. collections[c] \in CollectionInfo
    BY DEF TypeOK, ChangeCollectionIssuer
  <1>2. collections' \in [CollectionId -> CollectionInfo \cup {None}]
    BY <1>1 DEF TypeOK, ChangeCollectionIssuer, CollectionInfo
  <1>3. UniquesTypeOK'
    <2>1. class[c] \in ClassInfo
      BY DEF TypeOK, UniquesTypeOK, ChangeCollectionIssuer, TransferOwnership
    <2>2. class' \in [CollectionId -> ClassInfo \cup {None}]
      BY <2>1 DEF ClassInfo, TypeOK, UniquesTypeOK, ChangeCollectionIssuer, TransferOwnership
    <2>3. QED
      BY <2>2 DEF TypeOK, UniquesTypeOK, ChangeCollectionIssuer, TransferOwnership
  <1>4. QED
    BY <1>2, <1>3 DEF TypeOK, ChangeCollectionIssuer, nftVars, resourceVars, metaVars

(* lock_collection keeps the types.                                          *)
LEMMA LockCollectionType ==
    ASSUME TypeOK, NEW sender \in Account, NEW c \in CollectionId,
           LockCollection(sender, c), signer' \in Account \cup {None}
    PROVE  TypeOK'
  <1>1. collections[c] \in CollectionInfo
    BY DEF TypeOK, LockCollection
  <1>2. collections' \in [CollectionId -> CollectionInfo \cup {None}]
    BY <1>1 DEF TypeOK, LockCollection, CollectionInfo
  <1>3. QED
    BY <1>2 DEF TypeOK, UniquesTypeOK, LockCollection, uniquesVars, nftVars, resourceVars,
                metaVars

-----------------------------------------------------------------------------
(* Resources *)

(* Adding a list of resources keeps the storage of resources typed.          *)
LEMMA ResourceAddType ==
    ASSUME TypeOK, NEW sender, NEW n \in Nft, NEW rs \in Seq(ResourceType), NEW root,
           NEW adding_on_mint \in BOOLEAN, ResourceAdd(sender, n, rs, root, adding_on_mint)
    PROVE  /\ nextResourceId' \in [Nft -> 0..ResourceIdMax]
           /\ resources' \in [Nft -> [ResourceId -> ResourceInfo \cup {None}]]
           /\ equippableBases' \in SUBSET (Nft \X BaseId)
           /\ equippableSlots' \in SUBSET (Nft \X ResourceId \X Slot)
  <1> DEFINE next == nextResourceId[n]
             last == next + Len(rs) - 1
             added(i) == [resource |-> rs[i], pending |-> root # sender /\ ~adding_on_mint,
                          pending_removal |-> FALSE]
  <1>1. next \in Nat /\ next + Len(rs) <= ResourceIdMax /\ Len(rs) \in Nat
    BY CoreAssumption DEF TypeOK, ResourceAdd
  <1>2. \A i \in DOMAIN rs : rs[i] \in ResourceType /\ next + i - 1 \in ResourceId
    BY <1>1, CoreAssumption DEF ResourceId
  <1>3. nextResourceId' \in [Nft -> 0..ResourceIdMax]
    BY <1>1, CoreAssumption DEF TypeOK, ResourceAdd
  <1>4. \A i \in DOMAIN rs : added(i) \in ResourceInfo
    BY <1>2 DEF ResourceInfo
  <1>5. \A r \in ResourceId : r \in next..last => r - next + 1 \in DOMAIN rs
    BY <1>1, CoreAssumption DEF ResourceId
  <1>6. resources' \in [Nft -> [ResourceId -> ResourceInfo \cup {None}]]
    <2>1. resources' = [resources EXCEPT ![n] = [r \in ResourceId |->
                            IF r \in next..last THEN added(r - next + 1) ELSE resources[n][r]]]
      BY DEF ResourceAdd
    <2>2. resources[n] \in [ResourceId -> ResourceInfo \cup {None}]
      BY DEF TypeOK
    <2> HIDE DEF added, next, last
    <2>3. [r \in ResourceId |-> IF r \in next..last THEN added(r - next + 1) ELSE resources[n][r]]
             \in [ResourceId -> ResourceInfo \cup {None}]
      BY <1>4, <1>5, <2>2
    <2>4. QED
      BY <2>1, <2>3 DEF TypeOK
  <1>7. Bases(n, rs) \subseteq Nft \X BaseId
    BY <1>2 DEF Bases, ResourceType
  <1>8. Slots(n, rs) \subseteq Nft \X ResourceId \X Slot
    BY <1>2 DEF Slots, ResourceType
  <1>9. QED
    BY <1>3, <1>6, <1>7, <1>8 DEF TypeOK, ResourceAdd

(* The three calls that add a resource to an existing NFT keep the types.    *)
LEMMA AddResourceType ==
    ASSUME TypeOK, NEW sender \in Account, NEW n \in Nft, NEW r \in ResourceType,
           AddResource(sender, n, r), signer' \in Account \cup {None}
    PROVE  TypeOK'
  <1>1. <<r>> \in Seq(ResourceType)
    OBVIOUS
  <1>2. ResourceAdd(sender, n, <<r>>, LookupRootOwner(n), FALSE)
    BY DEF AddResource
  <1>3. /\ nextResourceId' \in [Nft -> 0..ResourceIdMax]
        /\ resources' \in [Nft -> [ResourceId -> ResourceInfo \cup {None}]]
        /\ equippableBases' \in SUBSET (Nft \X BaseId)
        /\ equippableSlots' \in SUBSET (Nft \X ResourceId \X Slot)
    BY <1>1, <1>2, ResourceAddType
  <1>4. QED
    BY <1>3 DEF TypeOK, UniquesTypeOK, AddResource, uniquesVars, collectionVars, nftVars, metaVars

(* accept_resource, remove_resource and accept_resource_removal keep them.   *)
LEMMA ResourceDecisionType ==
    ASSUME TypeOK, NEW sender \in Account, NEW n \in Nft, NEW r \in ResourceId,
           \/ AcceptResource(sender, n, r)
           \/ RemoveResource(sender, n, r)
           \/ AcceptResourceRemoval(sender, n, r),
           signer' \in Account \cup {None}
    PROVE  TypeOK'
  <1>1. resources[n] \in [ResourceId -> ResourceInfo \cup {None}] /\ resources[n][r] \in ResourceInfo
    BY DEF TypeOK, AcceptResource, RemoveResource, AcceptResourceRemoval
  <1>2. /\ [resources[n][r] EXCEPT !.pending = FALSE] \in ResourceInfo
        /\ [resources[n][r] EXCEPT !.pending_removal = TRUE] \in ResourceInfo
    BY <1>1 DEF ResourceInfo
  <1>3. \A v \in ResourceInfo \cup {None} :
           [resources EXCEPT ![n][r] = v] \in [Nft -> [ResourceId -> ResourceInfo \cup {None}]]
    BY <1>1 DEF TypeOK
  <1>4. \/ resources' = [resources EXCEPT ![n][r] = [resources[n][r] EXCEPT !.pending = FALSE]]
        \/ resources' = [resources EXCEPT ![n][r] = [resources[n][r] EXCEPT !.pending_removal = TRUE]]
        \/ resources' = [resources EXCEPT ![n][r] = None]
    BY <1>1 DEF TypeOK, AcceptResource, RemoveResource, AcceptResourceRemoval
  <1>5. resources' \in [Nft -> [ResourceId -> ResourceInfo \cup {None}]]
    BY <1>2, <1>3, <1>4
  <1>6. QED
    BY <1>5 DEF TypeOK, UniquesTypeOK, AcceptResource, RemoveResource, AcceptResourceRemoval,
                uniquesVars, collectionVars, nftVars, metaVars

(* A resource that is listed has its last position, counted from zero.       *)
LEMMA PriorityOfType ==
    ASSUME NEW list \in PriorityLists, NEW r
    PROVE  PriorityOf(list, r) \in Nat \cup {None}
  <1> DEFINE at == {i \in DOMAIN list : list[i] = r}
  <1>1. PICK k \in Nat : DOMAIN list = 1..k
    BY CoreAssumption DEF PriorityLists
  <1>2. CASE at = {}
    BY <1>2 DEF PriorityOf
  <1>3. CASE at # {}
    <2>1. at \in SUBSET (1..k)
      BY <1>1
    <2>2. \E i \in at : \A j \in at : j <= i
      <3> HIDE DEF at
      <3>1. QED BY <1>3, <2>1, MaxExists
    <2> DEFINE last == CHOOSE i \in at : \A j \in at : j <= i
    <2>3. last \in at
      BY <2>2
    <2>4. PriorityOf(list, r) = last - 1
      BY <1>3 DEF PriorityOf
    <2> HIDE DEF at, last
    <2>5. last \in 1..k
      BY <2>1, <2>3
    <2>6. QED BY <2>4, <2>5
  <1>4. QED
    BY <1>2, <1>3

(* set_priority keeps the types.                                             *)
LEMMA SetPriorityType ==
    ASSUME TypeOK, NEW sender \in Account, NEW n \in Nft, NEW list \in PriorityLists,
           SetPriority(sender, n, list), signer' \in Account \cup {None}
    PROVE  TypeOK'
  <1>1. \A r \in ResourceId : PriorityOf(list, r) \in Nat \cup {None}
    BY PriorityOfType
  <1>2. priorities' \in [Nft -> [ResourceId -> Nat \cup {None}]]
    BY <1>1 DEF TypeOK, SetPriority
  <1>3. QED
    BY <1>2 DEF TypeOK, UniquesTypeOK, SetPriority, uniquesVars, collectionVars, nftVars, resourceVars

(* set_property keeps the types.                                             *)
LEMMA SetPropertyType ==
    ASSUME TypeOK, NEW sender \in Account, NEW s \in Scope, NEW k \in Key, NEW v \in Value,
           SetProperty(sender, s, k, v), signer' \in Account \cup {None}
    PROVE  TypeOK'
  <1>1. properties' \in [Scope -> [Key -> Value \cup {None}]]
    BY DEF TypeOK, SetProperty
  <1>2. QED
    BY <1>1 DEF TypeOK, UniquesTypeOK, SetProperty, uniquesVars, collectionVars, nftVars, resourceVars

-----------------------------------------------------------------------------
(* Minting, burning, moving *)

(* The record, the item and the resources of a new NFT are typed.            *)
LEMMA MintType ==
    ASSUME TypeOK, NEW sender \in Account, NEW c \in CollectionId,
           NEW transferable \in TransferableChoices, NEW rs \in MintedResources,
           \/ \E owner \in AccountId : MintNft(sender, owner, c, transferable, rs)
           \/ \E parent \in Nft : MintNftDirectlyToNft(sender, parent, c, transferable, rs),
           signer' \in Account \cup {None}
    PROVE  TypeOK'
  <1> DEFINE n == <<c, nextNftId[c]>>
  <1>1. PICK o \in AccountId \cup Nft, p \in BOOLEAN, a \in AccountId :
            /\ NftMint(c, o, p, transferable)
            /\ DoMint(n, a)
            /\ \E root : ResourceAdd(sender, n, rs, root, TRUE)
            /\ UNCHANGED <<collectionIndex, children, metaVars, lock>>
    <2>1. CASE \E owner \in AccountId : MintNft(sender, owner, c, transferable, rs)
      <3>1. PICK owner \in AccountId : MintNft(sender, owner, c, transferable, rs)
        BY <2>1
      <3>2. (owner # sender) \in BOOLEAN
        OBVIOUS
      <3>3. QED
        BY <3>1, <3>2 DEF MintNft
    <2>2. CASE \E parent \in Nft : MintNftDirectlyToNft(sender, parent, c, transferable, rs)
      <3>1. PICK parent \in Nft : MintNftDirectlyToNft(sender, parent, c, transferable, rs)
        BY <2>2
      <3>2. (LookupRootOwner(parent) # sender) \in BOOLEAN /\ NftToAccountId(parent) \in AccountId
        BY DEF AccountId, VirtualAccount
      <3>3. QED
        BY <3>1, <3>2 DEF MintNftDirectlyToNft
    <2>3. QED
      BY <2>1, <2>2
  <1>2. n \in Nft /\ nextNftId[c] \in 0..(NftIdMax - 1)
    BY <1>1, NextIds, UniquesAssumption DEF NftMint, TypeOK
  <1>3. nfts' \in [Nft -> NftInfo \cup {None}]
    BY <1>1, <1>2, CoreAssumption DEF TypeOK, NftMint, NftInfo
  <1>4. collections' \in [CollectionId -> CollectionInfo \cup {None}]
    <2>1. collections[c] \in CollectionInfo
      BY <1>1 DEF TypeOK, NftMint
    <2>2. [collections[c] EXCEPT !.nfts_count = @ + 1] \in CollectionInfo
      BY <2>1 DEF CollectionInfo
    <2>3. collections' = [collections EXCEPT ![c] = [collections[c] EXCEPT !.nfts_count = @ + 1]]
      BY <1>1 DEF NftMint
    <2>4. QED
      BY <2>2, <2>3 DEF TypeOK
  <1>5. nextNftId' \in [CollectionId -> 0..NftIdMax]
    BY <1>1, <1>2, UniquesAssumption DEF TypeOK, NftMint
  <1>6. UniquesTypeOK'
    <2>1. class[c] \in ClassInfo
      BY <1>1, <1>2 DEF TypeOK, UniquesTypeOK, DoMint
    <2>2. [class[c] EXCEPT !.items = @ + 1] \in ClassInfo
      BY <2>1 DEF ClassInfo
    <2>3. class' = [class EXCEPT ![c] = [class[c] EXCEPT !.items = @ + 1]]
      BY <1>1 DEF DoMint
    <2>4. QED
      BY <1>1, <1>2, <2>2, <2>3 DEF TypeOK, UniquesTypeOK, DoMint
  <1>7. rs \in Seq(ResourceType)
    BY CoreAssumption
  <1>8. /\ nextResourceId' \in [Nft -> 0..ResourceIdMax]
        /\ resources' \in [Nft -> [ResourceId -> ResourceInfo \cup {None}]]
        /\ equippableBases' \in SUBSET (Nft \X BaseId)
        /\ equippableSlots' \in SUBSET (Nft \X ResourceId \X Slot)
    BY <1>1, <1>2, <1>7, ResourceAddType
  <1>9. QED
    BY <1>1, <1>3, <1>4, <1>5, <1>6, <1>8 DEF TypeOK, metaVars

(* There are finitely many NFTs.                                             *)
LEMMA FinitelyManyNfts == IsFiniteSet(Nft)
  <1>1. IsFiniteSet(CollectionId) /\ IsFiniteSet(NftId)
    BY UniquesAssumption, FS_Interval DEF CollectionId, NftId
  <1>2. QED
    BY <1>1, FS_Product DEF Nft

(* nfts_count stays a natural number, however often a collection is visited. *)
LEMMA VisitsType ==
    ASSUME NEW n, NEW drained \in SUBSET (Nft \X Nft), NEW c
    PROVE  Visits(n, drained, c) \in Nat
  <1>1. IsFiniteSet(drained)
    BY FinitelyManyNfts, FS_Product, FS_Subset
  <1>2. IsFiniteSet({e \in drained : e[2][1] = c})
    BY <1>1, FS_Subset
  <1>3. QED
    BY <1>2, FS_CardinalityType DEF Visits

(* nft_burn keeps records, edges, resources and collections typed, whatever  *)
(* the walk over Children drains; of a collection only nfts_count changes,   *)
(* and never upwards.                                                        *)
LEMMA NftBurnType ==
    ASSUME TypeOK, NEW n \in Nft, NEW budget, NEW edges \in SUBSET children,
           NftBurn(n, budget, edges)
    PROVE  /\ nfts' \in [Nft -> NftInfo \cup {None}]
           /\ children' \in SUBSET (Nft \X Nft)
           /\ resources' \in [Nft -> [ResourceId -> ResourceInfo \cup {None}]]
           /\ collections' \in [CollectionId -> CollectionInfo \cup {None}]
           /\ \A c \in CollectionId :
                 /\ collections'[c] = None <=> collections[c] = None
                 /\ collections[c] # None =>
                       /\ collections'[c].issuer = collections[c].issuer
                       /\ collections'[c].max = collections[c].max
                       /\ collections'[c].nfts_count <= collections[c].nfts_count
  <1> DEFINE drained == BurnWalk(n, budget, edges).drained \cap edges
             burned == {n} \cup {e[2] : e \in drained}
             left(c) == IF Visits(n, drained, c) >= collections[c].nfts_count
                        THEN 0 ELSE collections[c].nfts_count - Visits(n, drained, c)
  <1>1. /\ nfts' = [m \in Nft |-> IF m \in burned THEN None ELSE nfts[m]]
        /\ resources' = [m \in Nft |-> IF m \in burned THEN NoResources ELSE resources[m]]
        /\ children' \subseteq edges
        /\ collections' = [c \in CollectionId |->
                              IF collections[c] = None \/ \A m \in burned : m[1] # c
                              THEN collections[c]
                              ELSE [collections[c] EXCEPT !.nfts_count = left(c)]]
    BY DEF NftBurn
  <1>2. drained \in SUBSET (Nft \X Nft)
    BY DEF TypeOK
  <1>3. \A c \in CollectionId : Visits(n, drained, c) \in Nat
    <2> HIDE DEF drained
    <2> QED BY <1>2, VisitsType
  <1>4. \A c \in CollectionId : collections[c] # None =>
            /\ [collections[c] EXCEPT !.nfts_count = left(c)] \in CollectionInfo
            /\ [collections[c] EXCEPT !.nfts_count = left(c)].issuer = collections[c].issuer
            /\ [collections[c] EXCEPT !.nfts_count = left(c)].max = collections[c].max
            /\ [collections[c] EXCEPT !.nfts_count = left(c)].nfts_count <= collections[c].nfts_count
    <2> TAKE c \in CollectionId
    <2> HAVE collections[c] # None
    <2>1. collections[c] \in CollectionInfo
      BY DEF TypeOK
    <2>2. collections[c].nfts_count \in Nat /\ Visits(n, drained, c) \in Nat
      BY <1>3, <2>1 DEF CollectionInfo
    <2> HIDE DEF drained
    <2>3. left(c) \in Nat /\ left(c) <= collections[c].nfts_count
      BY <2>2
    <2> HIDE DEF left
    <2>4. QED BY <2>1, <2>3 DEF CollectionInfo
  <1> HIDE DEF burned, left
  <1>5. collections' \in [CollectionId -> CollectionInfo \cup {None}]
    BY <1>1, <1>4 DEF TypeOK
  <1>6. NoResources \in [ResourceId -> ResourceInfo \cup {None}]
    BY DEF NoResources
  <1>7. resources' \in [Nft -> [ResourceId -> ResourceInfo \cup {None}]]
    BY <1>1, <1>6 DEF TypeOK
  <1>8. \A c \in CollectionId :
           /\ collections'[c] = None <=> collections[c] = None
           /\ collections[c] # None =>
                 /\ collections'[c].issuer = collections[c].issuer
                 /\ collections'[c].max = collections[c].max
                 /\ collections'[c].nfts_count <= collections[c].nfts_count
    <2> TAKE c \in CollectionId
    <2>1. CASE collections[c] = None
      BY <1>1, <2>1
    <2>2. CASE collections[c] # None /\ collections'[c] = collections[c]
      <3>1. collections[c].nfts_count \in Nat
        BY <2>2 DEF TypeOK, CollectionInfo
      <3>2. QED
        BY <2>2, <3>1
    <2>3. CASE collections[c] # None /\ collections'[c] = [collections[c] EXCEPT !.nfts_count = left(c)]
      BY <1>4, <2>3, CoreAssumption
    <2>4. QED
      BY <1>1, <2>1, <2>2, <2>3
  <1>9. QED
    BY <1>1, <1>5, <1>7, <1>8 DEF TypeOK

(* burn_nft keeps the types.                                                 *)
LEMMA BurnNftType ==
    ASSUME TypeOK, NEW sender \in Account, NEW n \in Nft, NEW max_burns,
           BurnNft(sender, n, max_burns), signer' \in Account \cup {None}
    PROVE  TypeOK'
  <1>1. NftBurn(n, max_burns, children)
    BY DEF BurnNft
  <1>2. /\ nfts' \in [Nft -> NftInfo \cup {None}]
        /\ children' \in SUBSET (Nft \X Nft)
        /\ resources' \in [Nft -> [ResourceId -> ResourceInfo \cup {None}]]
        /\ collections' \in [CollectionId -> CollectionInfo \cup {None}]
    BY <1>1, NftBurnType
  <1>3. UniquesTypeOK'
    <2> DEFINE c == n[1]
    <2>1. c \in CollectionId /\ class[c] \in ClassInfo
      BY DEF TypeOK, UniquesTypeOK, BurnNft, DoBurn, Nft
    <2>2. (IF class[c].items = 0 THEN 0 ELSE class[c].items - 1) \in Nat
      BY <2>1 DEF ClassInfo
    <2>3. PICK k \in Nat : class' = [class EXCEPT ![c] = [class[c] EXCEPT !.items = k]]
      BY <2>2 DEF BurnNft, DoBurn
    <2>4. [class[c] EXCEPT !.items = k] \in ClassInfo
      BY <2>1 DEF ClassInfo
    <2>5. class' \in [CollectionId -> ClassInfo \cup {None}]
      BY <2>1, <2>3, <2>4 DEF TypeOK, UniquesTypeOK
    <2>6. QED
      BY <2>5 DEF TypeOK, UniquesTypeOK, BurnNft, DoBurn
  <1>4. QED
    BY <1>2, <1>3 DEF TypeOK, BurnNft, metaVars

(* reject_nft keeps the types.                                               *)
LEMMA RejectNftType ==
    ASSUME TypeOK, NEW sender \in Account, NEW n \in Nft,
           RejectNft(sender, n), signer' \in Account \cup {None}
    PROVE  TypeOK'
  <1> DEFINE edges == children \ {<<OwnerOf[n], n>>}
  <1>1. NftBurn(n, MaxRecursions, edges) /\ edges \in SUBSET children
    BY DEF RejectNft
  <1>2. /\ nfts' \in [Nft -> NftInfo \cup {None}]
        /\ children' \in SUBSET (Nft \X Nft)
        /\ resources' \in [Nft -> [ResourceId -> ResourceInfo \cup {None}]]
        /\ collections' \in [CollectionId -> CollectionInfo \cup {None}]
    <2> HIDE DEF edges
    <2> QED BY <1>1, NftBurnType
  <1>3. QED
    BY <1>2 DEF TypeOK, UniquesTypeOK, RejectNft, uniquesVars, metaVars

(* Whatever an owner argument is, uniques is given an account.               *)
LEMMA ToAccountIdType ==
    ASSUME NEW to \in AccountId \cup Nft
    PROVE  ToAccountId(to) \in AccountId
  BY DEF ToAccountId, AccountId, VirtualAccount

(* send and accept_nft keep the types.                                       *)
LEMMA MoveType ==
    ASSUME TypeOK, NEW sender \in Account, NEW n \in Nft, NEW to \in AccountId \cup Nft,
           \/ Send(sender, n, to)
           \/ AcceptNft(sender, n, to)
           \/ to \in Account /\ Sell(sender, n, to),
           signer' \in Account \cup {None}
    PROVE  TypeOK'
  <1>1. nfts[n] \in NftInfo
    BY DEF TypeOK, Send, Sell, NftSend, AcceptNft
  <1>2. /\ [nfts[n] EXCEPT !.pending = TRUE] \in NftInfo
        /\ [nfts[n] EXCEPT !.pending = FALSE] \in NftInfo
        /\ [nfts[n] EXCEPT !.owner = to] \in NftInfo
    BY <1>1 DEF NftInfo
  <1>3. \/ nfts' = [nfts EXCEPT ![n] = [nfts[n] EXCEPT !.pending = TRUE]]
        \/ nfts' = [nfts EXCEPT ![n] = [nfts[n] EXCEPT !.pending = FALSE]]
        \/ nfts' = [nfts EXCEPT ![n] = [nfts[n] EXCEPT !.owner = to]]
    BY DEF Send, Sell, NftSend, AcceptNft
  <1>4. nfts' \in [Nft -> NftInfo \cup {None}]
    BY <1>2, <1>3 DEF TypeOK
  <1>5. children' \in SUBSET (Nft \X Nft)
    <2>1. ChildEntry(to, n) \in SUBSET (Nft \X Nft)
      BY DEF ChildEntry
    <2>2. \/ children' = (children \ {<<OwnerOf[n], n>>}) \cup ChildEntry(to, n)
          \/ children' = children
      BY DEF Send, Sell, NftSend, AcceptNft
    <2>3. QED
      BY <2>1, <2>2 DEF TypeOK
  <1>6. UniquesTypeOK'
    <2>1. item' = [item EXCEPT ![n] = ToAccountId(to)] /\ UNCHANGED <<class, acceptance>>
      BY DEF Send, Sell, NftSend, AcceptNft, DoTransfer
    <2>2. ToAccountId(to) \in AccountId
      BY ToAccountIdType
    <2>3. QED
      BY <2>1, <2>2 DEF TypeOK, UniquesTypeOK
  <1>7. lock' \in [Nft -> BOOLEAN]
    BY DEF TypeOK, Send, Sell, AcceptNft
  <1>8. QED
    BY <1>4, <1>5, <1>6, <1>7
    DEF TypeOK, Send, Sell, NftSend, AcceptNft, collectionVars, resourceVars, metaVars

(* Whoever is given an NFT, the types are kept.                              *)
LEMMA PlaceType ==
    ASSUME TypeOK, NEW sender \in Account, NEW to \in AccountId \cup Nft, Place(sender, to),
           signer' \in Account \cup {None}
    PROVE  TypeOK'
  BY MintType, MoveType DEF Place

(* What the other pallets write keeps the types.                             *)
LEMMA OtherPalletsType ==
    ASSUME TypeOK, NEW sender \in Account, OtherPallets(sender)
    PROVE  TypeOK'
  <1>1. PICK n \in Nft : \/ \E b \in LockChoices : SetLock(n, b)
                         \/ \E b \in EquippedChoices : SetEquipped(n, b)
                         \/ \E buyer \in Account : Sell(sender, n, buyer)
    BY DEF OtherPallets
  <1>2. CASE \E b \in LockChoices : SetLock(n, b)
    <2>1. PICK b \in BOOLEAN : SetLock(n, b)
      BY <1>2, CoreAssumption
    <2>2. lock' \in [Nft -> BOOLEAN]
      BY <2>1 DEF TypeOK, SetLock
    <2>3. QED
      BY <2>1, <2>2 DEF TypeOK, UniquesTypeOK, OtherPallets, SetLock, uniquesVars,
                        collectionVars, nftVars, resourceVars, metaVars
  <1>3. CASE \E b \in EquippedChoices : SetEquipped(n, b)
    <2>1. PICK b \in BOOLEAN : SetEquipped(n, b)
      BY <1>3, CoreAssumption
    <2>2. [nfts[n] EXCEPT !.equipped = b] \in NftInfo
      BY <2>1 DEF TypeOK, SetEquipped, NftInfo
    <2>3. nfts' = [nfts EXCEPT ![n] = [nfts[n] EXCEPT !.equipped = b]]
      BY <2>1 DEF SetEquipped
    <2>4. nfts' \in [Nft -> NftInfo \cup {None}]
      BY <2>2, <2>3 DEF TypeOK
    <2>5. QED
      BY <2>1, <2>4 DEF TypeOK, UniquesTypeOK, OtherPallets, SetEquipped, uniquesVars,
                        collectionVars, resourceVars, metaVars
  <1>4. CASE \E buyer \in Account : Sell(sender, n, buyer)
    BY <1>4, MoveType DEF OtherPallets, AccountId
  <1>5. QED
    BY <1>1, <1>2, <1>3, <1>4

(* set_accept_ownership keeps the types.                                     *)
LEMMA AcceptOwnershipType ==
    ASSUME TypeOK, NEW sender \in Account, NEW c \in AcceptanceChoices,
           AcceptOwnership(sender, c), signer' \in Account \cup {None}
    PROVE  TypeOK'
  <1>1. UniquesTypeOK'
    BY CoreAssumption DEF TypeOK, UniquesTypeOK, AcceptOwnership, SetAcceptOwnership
  <1>2. QED
    BY <1>1 DEF TypeOK, AcceptOwnership, collectionVars, nftVars, resourceVars, metaVars

-----------------------------------------------------------------------------
(* Every step keeps the types.                                               *)
LEMMA NextType == TypeOK /\ [Next]_vars => TypeOK'
  <1> SUFFICES ASSUME TypeOK, [Next]_vars PROVE TypeOK'
    OBVIOUS
  <1>1. ASSUME NEW sender \in Account, Extrinsic(sender) PROVE TypeOK'
    <2>1. signer' \in Account \cup {None}
      BY <1>1 DEF Extrinsic
    <2>2. CASE CollectionExtrinsic(sender)
      BY <2>1, <2>2, CreateCollectionType, DestroyCollectionType, LockCollectionType,
         ChangeCollectionIssuerType, AcceptOwnershipType DEF CollectionExtrinsic
    <2>3. CASE NftExtrinsic(sender)
      BY <2>1, <2>3, PlaceType, BurnNftType, RejectNftType DEF NftExtrinsic
    <2>4. CASE ResourceExtrinsic(sender)
      BY <2>1, <2>4, AddResourceType, ResourceDecisionType, SetPriorityType
      DEF ResourceExtrinsic, AddBasicResource, AddComposableResource, AddSlotResource,
          BasicResource, ComposableResource, SlotResource
    <2>5. CASE PropertyExtrinsic(sender)
      BY <2>1, <2>5, SetPropertyType DEF PropertyExtrinsic
    <2>6. QED
      BY <1>1, <2>2, <2>3, <2>4, <2>5 DEF Extrinsic
  <1>2. CASE UNCHANGED vars
    BY <1>2 DEF TypeOK, UniquesTypeOK, vars, uniquesVars, collectionVars, nftVars, resourceVars,
                metaVars
  <1>3. QED
    BY <1>1, <1>2, OtherPalletsType DEF Next

(* The storage of rmrk-core and of uniques keeps its types: in particular    *)
(* every identifier a counter gives fits, Children only links NFTs, uniques  *)
(* is only given accounts, and nfts_count never becomes negative.            *)
THEOREM TypeCorrect == Spec => []TypeOK
  BY InitType, NextType, PTL DEF Spec
=============================================================================
