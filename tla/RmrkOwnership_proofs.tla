------------------------- MODULE RmrkOwnership_proofs -------------------------
(***************************************************************************)
(* rmrk-core implements NftOwnership: for any number of accounts,          *)
(* collections and NFTs, every extrinsic is a mint, a move or a retirement *)
(* signed by the root owner, or leaves ownership alone.  NFTs can end up   *)
(* in a circle, by way of a virtual account only.  What belongs to an NFT  *)
(* follows: new ids are clean, locks hold, slots and priorities stay in    *)
(* order, and resources change by consent.                                 *)
(***************************************************************************)
EXTENDS RmrkSupply_proofs, NftForest_proofs

FP == INSTANCE NftOwnership_proofs WITH Nft <- Nft, owner <- OwnerOf, used <- UsedIds

(* The sorts of the abstract specification are apart in this one.            *)
LEMMA SortsAreApart == FP!Sorts
  BY UniquesAssumption DEF FP!Sorts

(* The climbs of the abstract specification are those of this one.           *)
LEMMA SameClimbs ==
    ASSUME NEW parent
    PROVE  /\ \A n : FP!ClimbEnds(parent, n) = ClimbEnds(parent, n)
           /\ \A n : FP!RootNft(parent, n) = RootNft(parent, n)
           /\ \A n, q : FP!Hang(parent, n, q) = Hang(parent, n, q)
  <1>1. \A n : FP!ClimbEnds(parent, n) = ClimbEnds(parent, n)
    BY DEF FP!ClimbEnds, ClimbEnds, FP!Nested, Nested
  <1>2. \A n : FP!RootNft(parent, n) = RootNft(parent, n)
    BY DEF FP!RootNft, RootNft
  <1>3. \A n, q : FP!Hang(parent, n, q) = Hang(parent, n, q)
    BY DEF FP!Hang, Hang
  <1>4. QED
    BY <1>1, <1>2, <1>3

(* decode_nft_account_id undoes nft_to_account_id, finds an NFT in every     *)
(* virtual account, and leaves the accounts that sign alone.                 *)
LEMMA DecodeOfEncode ==
    /\ \A n \in Nft : DecodeNftAccountId(NftToAccountId(n)) = n
    /\ \A a \in Account \cup {None} : DecodeNftAccountId(a) = a
    /\ \A a \in VirtualAccount : DecodeNftAccountId(a) \in Nft
    /\ \A a \in AccountId : DecodeNftAccountId(a) \in Account \cup Nft
    /\ \A to \in AccountId \cup Nft : DecodeNftAccountId(ToAccountId(to)) \in Account \cup Nft
    /\ \A to \in Account \cup Nft : DecodeNftAccountId(ToAccountId(to)) = to
  <1>1. ASSUME NEW n \in Nft
        PROVE  /\ NftToAccountId(n) \in VirtualAccount
               /\ DecodeNftAccountId(NftToAccountId(n)) = n
    <2>1. n = <<n[1], n[2]>>
      BY DEF Nft
    <2>2. NftToAccountId(n) \in VirtualAccount
      BY DEF VirtualAccount
    <2>3. NftToAccountId(n)[2] = n[1] /\ NftToAccountId(n)[3] = n[2]
      BY DEF NftToAccountId
    <2>4. QED
      BY <2>1, <2>2, <2>3 DEF DecodeNftAccountId
  <1>2. \A a \in Account \cup {None} : DecodeNftAccountId(a) = a
    BY UniquesAssumption DEF DecodeNftAccountId
  <1>3. \A a \in VirtualAccount : DecodeNftAccountId(a) \in Nft
    BY <1>1 DEF VirtualAccount
  <1>4. \A a \in AccountId : DecodeNftAccountId(a) \in Account \cup Nft
    BY <1>2, <1>3 DEF AccountId
  <1>5. \A to \in AccountId \cup Nft : DecodeNftAccountId(ToAccountId(to)) \in Account \cup Nft
    BY <1>4, ToAccountIdType
  <1>6. \A to \in Account \cup Nft : DecodeNftAccountId(ToAccountId(to)) = to
    BY <1>1, <1>2, UniquesAssumption DEF ToAccountId
  <1>7. QED
    BY <1>1, <1>2, <1>3, <1>4, <1>5, <1>6

(* And nft_to_account_id undoes decode_nft_account_id where it finds an NFT. *)
LEMMA EncodeOfDecode ==
    ASSUME NEW a \in AccountId, DecodeNftAccountId(a) \in Nft
    PROVE  NftToAccountId(DecodeNftAccountId(a)) = a
  <1>1. a \in VirtualAccount
    BY DecodeOfEncode, UniquesAssumption DEF AccountId
  <1>2. PICK n \in Nft : a = NftToAccountId(n)
    BY <1>1 DEF VirtualAccount
  <1>3. QED
    BY <1>2, DecodeOfEncode

(* The owner of every NFT is an account, an NFT or nobody.                   *)
LEMMA OwnerOfType ==
    ASSUME TypeOK
    PROVE  /\ OwnerOf \in [Nft -> Account \cup Nft \cup {None}]
           /\ \A n \in Nft : OwnerOf[n] = DecodeNftAccountId(item[n])
           /\ \A n \in Nft : OwnerOf[n] = None <=> item[n] = None
           /\ \A n \in Nft : OwnerOf[n] \notin Nft => OwnerOf[n] = item[n]
  <1>1. \A n \in Nft : item[n] \in Account \cup VirtualAccount \cup {None}
    BY DEF TypeOK, UniquesTypeOK, AccountId
  <1>2. \A n \in Nft : OwnerOf[n] = DecodeNftAccountId(item[n])
    BY DEF OwnerOf, OwnerIn
  <1>3. \A n \in Nft : OwnerOf[n] \in Account \cup Nft \cup {None}
    BY <1>1, <1>2, DecodeOfEncode
  <1>4. \A n \in Nft : OwnerOf[n] = None <=> item[n] = None
    BY <1>1, <1>2, DecodeOfEncode, UniquesAssumption
  <1>5. \A n \in Nft : OwnerOf[n] \notin Nft => OwnerOf[n] = item[n]
    BY <1>1, <1>2, DecodeOfEncode
  <1>6. OwnerOf \in [Nft -> Account \cup Nft \cup {None}]
    BY <1>3 DEF OwnerOf, OwnerIn
  <1>7. QED
    BY <1>2, <1>4, <1>5, <1>6

(* lookup_root_owner returns the account at the top, or there is none.       *)
LEMMA LookupIsRootOwner ==
    ASSUME TypeOK, NEW n \in Nft
    PROVE  /\ LookupRootOwner(n) = FP!RootOwner(n)
           /\ LookupRootOwner(n) # None => LookupRootOwner(n) \in Account /\ ClimbEnds(OwnerOf, n)
           /\ item[n] = None => LookupRootOwner(n) = None
  <1> DEFINE root == RootNft(OwnerOf, n)
  <1>1. DOMAIN OwnerOf = Nft
    BY OwnerOfType
  <1>2. LookupRootOwner(n) = IF ClimbEnds(OwnerOf, n) THEN item[root] ELSE None
    BY DEF LookupRootOwner, LookupIn, OwnerOf
  <1>3. FP!RootOwner(n) = IF ClimbEnds(OwnerOf, n) THEN OwnerOf[root] ELSE None
    BY SameClimbs DEF FP!RootOwner
  <1>4. ClimbEnds(OwnerOf, n) => root \in Nft /\ OwnerOf[root] \notin Nft
    BY <1>1, RootNftOnTop
  <1>5. ClimbEnds(OwnerOf, n) => item[root] \in Account \cup {None} /\ OwnerOf[root] = item[root]
    <2> HIDE DEF root
    <2>1. QED
      BY <1>4, OwnerOfType
  <1>6. item[n] = None => root = n
    BY <1>1, RootNftStep, OwnerOfType, UniquesAssumption
  <1>7. QED
    BY <1>2, <1>3, <1>5, <1>6

(* Giving an item to somebody hangs the NFT under its new owner.             *)
LEMMA ItemToOwner ==
    ASSUME TypeOK, NEW n \in Nft, NEW a, item' = [item EXCEPT ![n] = a]
    PROVE  OwnerOf' = Hang(OwnerOf, n, DecodeNftAccountId(a))
  BY DEF TypeOK, UniquesTypeOK, OwnerOf, OwnerIn, Hang

-----------------------------------------------------------------------------
(* The actions                                                               *)

(* A mint gives the next id of a collection, one that was never given.       *)
LEMMA MintIsNew ==
    ASSUME TypeOK, NEW c \in CollectionId, nextNftId[c] < NftIdMax
    PROVE  <<c, nextNftId[c]>> \in Nft \ UsedIds
  BY UniquesAssumption DEF TypeOK, Nft, NftId, UsedIds

(* mint_nft and mint_nft_directly_to_nft hang a new NFT under an owner.      *)
LEMMA MintHangs ==
    ASSUME TypeOK, NEW sender \in Account, NEW to \in AccountId \cup Nft,
           NEW c \in CollectionId, NEW transferable, NEW rs,
           \/ to \in AccountId /\ MintNft(sender, to, c, transferable, rs)
           \/ to \in Nft /\ MintNftDirectlyToNft(sender, to, c, transferable, rs)
    PROVE  /\ OwnerOf' = Hang(OwnerOf, <<c, nextNftId[c]>>, DecodeNftAccountId(ToAccountId(to)))
           /\ <<c, nextNftId[c]>> \in Nft \ UsedIds
           /\ item[<<c, nextNftId[c]>>] = None
           /\ UsedIds' = UsedIds \cup {<<c, nextNftId[c]>>}
           /\ to \in Nft => LookupRootOwner(to) # None
  <1> DEFINE n == <<c, nextNftId[c]>>
  <1>1. DoMint(n, ToAccountId(to)) /\ (to \in Nft => LookupRootOwner(to) # None)
    <2>1. CASE to \in AccountId /\ MintNft(sender, to, c, transferable, rs)
      BY <2>1, UniquesAssumption DEF MintNft, ToAccountId, AccountId
    <2>2. CASE to \in Nft /\ MintNftDirectlyToNft(sender, to, c, transferable, rs)
      BY <2>2 DEF MintNftDirectlyToNft, ToAccountId
    <2>3. QED
      BY <2>1, <2>2
  <1>2. nextNftId' = [nextNftId EXCEPT ![c] = @ + 1] /\ nextNftId[c] < NftIdMax
    BY DEF MintNft, MintNftDirectlyToNft, NftMint
  <1>3. n \in Nft \ UsedIds
    BY <1>2, MintIsNew
  <1>4. UsedIds' = UsedIds \cup {n}
    <2>1. \A m \in Nft : m[1] \in CollectionId /\ m[2] \in Nat /\ m = <<m[1], m[2]>>
      BY DEF Nft, NftId
    <2>2. \A k \in CollectionId : nextNftId[k] \in Nat
      BY UniquesAssumption DEF TypeOK
    <2>3. \A m \in Nft : m[2] < nextNftId'[m[1]] <=> (m[2] < nextNftId[m[1]] \/ m = n)
      BY <1>2, <2>1, <2>2 DEF TypeOK
    <2>4. QED
      BY <1>3, <2>3 DEF UsedIds
  <1>5. OwnerOf' = Hang(OwnerOf, n, DecodeNftAccountId(ToAccountId(to))) /\ item[n] = None
    <2> HIDE DEF n
    <2> QED BY <1>1, <1>3, ItemToOwner DEF DoMint
  <1>6. QED
    BY <1>1, <1>3, <1>4, <1>5

LEMMA MintIsMint ==
    ASSUME TypeOK, NEW sender \in Account, signer' = sender, NEW to \in AccountId \cup Nft,
           NEW c \in CollectionId, NEW transferable, NEW rs,
           \/ to \in AccountId /\ MintNft(sender, to, c, transferable, rs)
           \/ to \in Nft /\ MintNftDirectlyToNft(sender, to, c, transferable, rs)
    PROVE  FP!Next
  <1> DEFINE n == <<c, nextNftId[c]>>
             o == DecodeNftAccountId(ToAccountId(to))
  <1>1. /\ OwnerOf' = Hang(OwnerOf, n, o)
        /\ n \in Nft \ UsedIds
        /\ UsedIds' = UsedIds \cup {n}
    BY MintHangs
  <1>2. o \in Account \cup Nft
    BY DecodeOfEncode
  <1> HIDE DEF n, o
  <1>3. FP!Mint(n, o)
    BY <1>1, SameClimbs DEF FP!Mint
  <1>4. QED
    BY <1>1, <1>2, <1>3 DEF FP!Next, FP!Owner

(* send, accept_nft and a sale hang an NFT elsewhere, in its root owner's    *)
(* name.                                                                     *)
LEMMA MoveHangs ==
    ASSUME TypeOK, NEW sender \in Account, NEW n \in Nft, NEW to \in AccountId \cup Nft,
           \/ Send(sender, n, to)
           \/ AcceptNft(sender, n, to)
           \/ to \in AccountId /\ Sell(sender, n, to)
    PROVE  /\ LookupRootOwner(n) = sender
           /\ to \in Nft => CanNest(n, to)
           /\ OwnerOf' = Hang(OwnerOf, n, DecodeNftAccountId(ToAccountId(to)))
           /\ UNCHANGED <<nextNftId, UsedIds>>
  <1>1. /\ LookupRootOwner(n) = sender
        /\ to \in Nft => CanNest(n, to)
        /\ item' = [item EXCEPT ![n] = ToAccountId(to)]
        /\ UNCHANGED nextNftId
    BY DEF Send, Sell, NftSend, AcceptNft, DoTransfer, collectionVars
  <1>2. QED
    BY <1>1, ItemToOwner DEF UsedIds

LEMMA MoveIsMove ==
    ASSUME TypeOK, NEW sender \in Account, signer' = sender,
           NEW n \in Nft, NEW to \in AccountId \cup Nft,
           \/ Send(sender, n, to)
           \/ AcceptNft(sender, n, to)
           \/ to \in AccountId /\ Sell(sender, n, to)
    PROVE  FP!Next
  <1> DEFINE o == DecodeNftAccountId(ToAccountId(to))
  <1>1. /\ LookupRootOwner(n) = sender
        /\ OwnerOf' = Hang(OwnerOf, n, o)
        /\ UNCHANGED UsedIds
    BY MoveHangs
  <1>2. o \in Account \cup Nft /\ FP!RootOwner(n) = sender
    BY <1>1, DecodeOfEncode, LookupIsRootOwner
  <1> HIDE DEF o
  <1>3. FP!Move(n, o)
    BY <1>1, <1>2, SameClimbs DEF FP!Move
  <1>4. QED
    BY <1>2, <1>3 DEF FP!Next, FP!Owner

(* burn_nft retires one NFT, whatever records its walk removes.              *)
LEMMA BurnIsRetire ==
    ASSUME TypeOK, NEW sender \in Account, signer' = sender,
           NEW n \in Nft, NEW max_burns, BurnNft(sender, n, max_burns)
    PROVE  FP!Next
  <1>1. /\ LookupRootOwner(n) = sender
        /\ item' = [item EXCEPT ![n] = None]
        /\ UNCHANGED nextNftId
    BY DEF BurnNft, DoBurn
  <1>2. OwnerOf' = Hang(OwnerOf, n, None)
    BY <1>1, ItemToOwner, DecodeOfEncode
  <1>3. FP!RootOwner(n) = sender
    BY <1>1, LookupIsRootOwner
  <1>4. UNCHANGED UsedIds
    BY <1>1 DEF UsedIds
  <1>5. FP!Retire(n)
    BY <1>2, <1>3, <1>4, SameClimbs DEF FP!Retire
  <1>6. QED
    BY <1>5 DEF FP!Next

(* Whatever touches neither items nor ids leaves ownership alone.            *)
LEMMA RestIsOther ==
    ASSUME signer' \in Account \cup {None}, UNCHANGED <<item, nextNftId>>
    PROVE  UNCHANGED <<OwnerOf, UsedIds>> /\ FP!Next
  <1>1. UNCHANGED <<OwnerOf, UsedIds>>
    BY DEF OwnerOf, OwnerIn, UsedIds
  <1>2. QED
    BY <1>1 DEF FP!Next, FP!Other

(* Every extrinsic, and every step of the other pallets, is one of these.    *)
LEMMA NextIsNext ==
    ASSUME TypeOK, SupplyInv, Next
    PROVE  FP!Next
  <1>1. ASSUME NEW sender \in Account, Extrinsic(sender) PROVE FP!Next
    <2>0. signer' = sender /\ signer' \in Account \cup {None}
      BY <1>1 DEF Extrinsic
    <2>1. CASE CollectionExtrinsic(sender)
      <3>1. ASSUME NEW c \in CollectionId, DestroyCollection(sender, c)
            PROVE  UNCHANGED <<item, nextNftId>>
        BY <3>1, DestroyCollectionItems DEF DestroyCollection
      <3>2. UNCHANGED <<item, nextNftId>>
        BY <2>1, <3>1
        DEF CollectionExtrinsic, CreateCollection, DoCreateCollection, LockCollection,
            ChangeCollectionIssuer, TransferOwnership, AcceptOwnership, SetAcceptOwnership,
            uniquesVars, collectionVars
      <3>3. QED
        BY <2>0, <3>2, RestIsOther
    <2>2. CASE NftExtrinsic(sender)
      <3>1. ASSUME NEW n \in Nft, RejectNft(sender, n) PROVE FP!Next
        <4>1. UNCHANGED <<item, nextNftId>>
          BY <3>1 DEF RejectNft, uniquesVars
        <4>2. QED
          BY <2>0, <4>1, RestIsOther
      <3>2. QED
        BY <2>0, <2>2, <3>1, MintIsMint, MoveIsMove, BurnIsRetire DEF NftExtrinsic, Place
    <2>3. CASE ResourceExtrinsic(sender)
      <3>1. UNCHANGED <<item, nextNftId>>
        BY <2>3 DEF ResourceExtrinsic, AddBasicResource, AddComposableResource, AddSlotResource,
           AddResource, AcceptResource, RemoveResource, AcceptResourceRemoval, SetPriority,
           uniquesVars, collectionVars
      <3>2. QED
        BY <2>0, <3>1, RestIsOther
    <2>4. CASE PropertyExtrinsic(sender)
      <3>1. UNCHANGED <<item, nextNftId>>
        BY <2>4 DEF PropertyExtrinsic, SetProperty, uniquesVars, collectionVars
      <3>2. QED
        BY <2>0, <3>1, RestIsOther
    <2>5. QED
      BY <1>1, <2>1, <2>2, <2>3, <2>4 DEF Extrinsic
  <1>2. ASSUME NEW sender \in Account, OtherPallets(sender) PROVE FP!Next
    <2>1. signer' = sender
      BY <1>2 DEF OtherPallets
    <2>2. ASSUME NEW n \in Nft, NEW b, SetLock(n, b) \/ SetEquipped(n, b)
          PROVE  UNCHANGED <<item, nextNftId>>
      BY <2>2 DEF SetLock, SetEquipped, uniquesVars, collectionVars
    <2>3. QED
      BY <1>2, <2>1, <2>2, RestIsOther, MoveIsMove DEF OtherPallets, AccountId
  <1>3. QED
    BY <1>1, <1>2 DEF Next

(* In genesis nobody owns anything.                                          *)
LEMMA InitIsInit == Init => FP!Init
  <1> SUFFICES ASSUME Init PROVE FP!Init
    OBVIOUS
  <1>1. OwnerOf = [n \in Nft |-> None]
    BY DecodeOfEncode DEF Init, UniquesInit, OwnerOf, OwnerIn
  <1>2. UsedIds = {}
    <2>1. \A n \in Nft : n[1] \in CollectionId /\ n[2] \in Nat
      BY DEF Nft, NftId
    <2>2. QED
      BY <2>1 DEF Init, UsedIds
  <1>3. QED
    BY <1>1, <1>2 DEF Init, FP!Init

(* A step, or no step, of rmrk-core is one of the abstract specification.    *)
LEMMA StepIsStep ==
    ASSUME TypeOK, SupplyInv, [Next]_vars
    PROVE  [FP!Next]_FP!vars
  <1>1. CASE UNCHANGED vars
    BY <1>1 DEF vars, uniquesVars, collectionVars, FP!vars, OwnerOf, OwnerIn, UsedIds
  <1>2. CASE Next
    BY <1>2, NextIsNext
  <1>3. QED
    BY <1>1, <1>2

(* So every behaviour of rmrk-core is one of the abstract specification.     *)
LEMMA BehavesAsOwnership == Spec => FP!Spec /\ []FP!Inv
  <1>1. Init => FP!Init
    BY InitIsInit
  <1>2. TypeOK /\ SupplyInv /\ [Next]_vars => [FP!Next]_FP!vars
    BY StepIsStep
  <1>3. FP!Init => FP!Inv
    BY FP!InitInv
  <1>4. FP!Inv /\ [FP!Next]_FP!vars => FP!Inv'
    BY SortsAreApart, FP!NextInv
  <1>5. QED
    BY <1>1, <1>2, <1>3, <1>4, TypeCorrect, SupplyInvariant, PTL DEF Spec, FP!Spec

-----------------------------------------------------------------------------
(* Ownership *)

(* The ownership rmrk-core keeps in uniques through virtual accounts is that *)
(* of the abstract specification: whoever is named as the new owner, an NFT  *)
(* is given once, and from then on by its root owner alone.                  *)
THEOREM ImplementsOwnership == Spec => OwnershipPromise
  <1>1. FP!Init => Ownership!Init
    BY DEF FP!Init, Ownership!Init
  <1>2. [FP!Next]_FP!vars => [Ownership!Next]_Ownership!vars
    BY DEF FP!Next, FP!Mint, FP!Move, FP!Retire, FP!Other, FP!Owner, FP!RootOwner, FP!vars,
           FP!Hang, FP!RootNft, FP!ClimbEnds, FP!Nested,
           Ownership!Next, Ownership!Mint, Ownership!Move, Ownership!Retire, Ownership!Other,
           Ownership!Owner, Ownership!RootOwner, Ownership!vars, Ownership!Hang,
           Ownership!RootNft, Ownership!ClimbEnds, Ownership!Nested
  <1>3. QED
    BY <1>1, <1>2, BehavesAsOwnership, PTL DEF OwnershipPromise, FP!Spec, Ownership!Spec

(* Whatever nft_send, nft_accept, nft_reject and nft_burn check on the way,  *)
(* what an account root-owns stays its own until that account signs.         *)
THEOREM OnlyRootOwnersGive == Spec => RootOwnersConsent
  <1>1. FP!Spec => FP!RootOwnerConsents
    BY SortsAreApart, FP!ConsentIsAsked
  <1>2. FP!RootOwnerConsents => Ownership!RootOwnerConsents
    BY DEF FP!RootOwnerConsents, FP!RootOwner, FP!vars, FP!RootNft, FP!ClimbEnds, FP!Nested,
           Ownership!RootOwnerConsents, Ownership!RootOwner, Ownership!vars,
           Ownership!RootNft, Ownership!ClimbEnds, Ownership!Nested
  <1>3. QED
    BY <1>1, <1>2, BehavesAsOwnership, PTL DEF RootOwnersConsent

(* An NFT that has gone in a circle, or whose root is burned, never has a    *)
(* root owner again.                                                         *)
THEOREM NobodyRecoversTheLost == Spec => LostStaysLost
  <1>1. FP!Spec => FP!LostStaysLost
    BY SortsAreApart, FP!LostForGood
  <1>2. FP!LostStaysLost => Ownership!LostStaysLost
    BY DEF FP!LostStaysLost, FP!Lost, FP!vars, FP!RootNft, FP!ClimbEnds, FP!Nested,
           Ownership!LostStaysLost, Ownership!Lost, Ownership!vars,
           Ownership!RootNft, Ownership!ClimbEnds, Ownership!Nested
  <1>3. QED
    BY <1>1, <1>2, BehavesAsOwnership, PTL DEF LostStaysLost

-----------------------------------------------------------------------------
(* Circles *)

\* No climb stops ending.
NoNewLoop == \A n \in Nft : ClimbEnds(OwnerOf, n) => ClimbEnds(OwnerOf, n)'

(* Hanging an NFT elsewhere breaks no climb if its own ends there.           *)
LEMMA HangMakesNoLoop ==
    ASSUME TypeOK, NEW n \in Nft, NEW q, OwnerOf' = Hang(OwnerOf, n, q),
           ClimbEnds(Hang(OwnerOf, n, q), n)
    PROVE  NoNewLoop
  <1>1. DOMAIN OwnerOf = Nft
    BY OwnerOfType
  <1>2. ASSUME NEW m \in Nft, ClimbEnds(OwnerOf, m) PROVE ClimbEnds(OwnerOf, m)'
    <2>1. ClimbEnds(Hang(OwnerOf, n, q), m)
      BY <1>1, <1>2, HangElsewhere, HangCarries
    <2>2. ClimbEnds(OwnerOf', m)
      BY <2>1
    <2>3. QED
      BY <2>2 DEF ClimbEnds, Nested
  <1>3. QED
    BY <1>2 DEF NoNewLoop

(* Nothing that ends at another root is below an NFT without an owner.       *)
LEMMA NotBelowTheUnowned ==
    ASSUME TypeOK, NEW n \in Nft, item[n] = None, NEW m \in Nft, LookupRootOwner(m) # None
    PROVE  m # n /\ ~IsDescendant(OwnerOf, m, n)
  <1>1. DOMAIN OwnerOf = Nft /\ OwnerOf[n] \notin Nft /\ ClimbEnds(OwnerOf, m)
    BY OwnerOfType, LookupIsRootOwner, UniquesAssumption
  <1>2. n \notin Chain(OwnerOf, m)
    <2> SUFFICES ASSUME n \in Chain(OwnerOf, m) PROVE FALSE
      OBVIOUS
    <2>1. RootNft(OwnerOf, m) = n
      BY <1>1, SameRoot, RootNftStep
    <2>2. QED
      BY <2>1 DEF LookupRootOwner, LookupIn, OwnerOf
  <1>3. QED
    BY <1>1, <1>2, IsDescendantIsAbove, ChainUpClosed, ChainOfChild

(* Named by its tuple, or by an account that signs, an owner is checked well *)
(* enough: the tests for self and descendants leave no way into a circle.    *)
LEMMA CheckedPlacesMakeNoLoop ==
    ASSUME TypeOK, NEW sender \in Account, NEW to \in Account \cup Nft, Place(sender, to)
    PROVE  NoNewLoop
  <1> DEFINE Hung(n) == ClimbEnds(Hang(OwnerOf, n, to), n)
  <1>1. /\ DOMAIN OwnerOf = Nft
        /\ DecodeNftAccountId(ToAccountId(to)) = to
        /\ to \in AccountId \cup Nft
        /\ to \in Account => to \notin Nft
        /\ to \in Nft /\ LookupRootOwner(to) # None => ClimbEnds(OwnerOf, to)
    BY OwnerOfType, DecodeOfEncode, LookupIsRootOwner, UniquesAssumption DEF AccountId
  <1>2. ASSUME NEW n \in Nft, to \in Nft =>
                  LookupRootOwner(to) # None /\ to # n /\ ~IsDescendant(OwnerOf, to, n)
        PROVE  Hung(n)
    BY <1>1, <1>2, HangFree, HangBelow
  <1>3. ASSUME NEW c \in CollectionId, NEW t, NEW rs,
               \/ to \in AccountId /\ MintNft(sender, to, c, t, rs)
               \/ to \in Nft /\ MintNftDirectlyToNft(sender, to, c, t, rs)
        PROVE  NoNewLoop
    <2> DEFINE n == <<c, nextNftId[c]>>
    <2>1. /\ OwnerOf' = Hang(OwnerOf, n, to) /\ n \in Nft /\ item[n] = None
          /\ to \in Nft => LookupRootOwner(to) # None
      BY <1>1, <1>3, MintHangs
    <2> HIDE DEF n
    <2>2. Hung(n)
      BY <1>2, <2>1, NotBelowTheUnowned
    <2>3. QED
      BY <2>1, <2>2, HangMakesNoLoop
  <1>4. ASSUME NEW n \in Nft, Send(sender, n, to) \/ AcceptNft(sender, n, to)
        PROVE  NoNewLoop
    <2>1. OwnerOf' = Hang(OwnerOf, n, to) /\ (to \in Nft => CanNest(n, to))
      BY <1>1, <1>4, MoveHangs
    <2>2. Hung(n)
      BY <1>2, <2>1 DEF CanNest, IsXDescendentOfY
    <2>3. QED
      BY <2>1, <2>2, HangMakesNoLoop
  <1>5. QED
    BY <1>3, <1>4 DEF Place

(* Whatever is no placement makes no circle either.                          *)
LEMMA OnlyPlacesMakeLoops ==
    ASSUME TypeOK, SupplyInv, Next
    PROVE  /\ signer' \in Account
           /\ NoNewLoop \/ \E to \in AccountId \cup Nft : Place(signer', to)
  <1>1. ASSUME UNCHANGED item PROVE NoNewLoop
    BY <1>1 DEF NoNewLoop, ClimbEnds, Nested, OwnerOf, OwnerIn
  <1>2. ASSUME NEW n \in Nft, NEW a \in Account \cup {None}, OwnerOf' = Hang(OwnerOf, n, a)
        PROVE  NoNewLoop
    BY <1>2, OwnerOfType, UniquesAssumption, HangFree, HangMakesNoLoop
  <1>3. ASSUME NEW sender \in Account, Extrinsic(sender)
        PROVE  NoNewLoop \/ \E to \in AccountId \cup Nft : Place(sender, to)
    <2>1. CASE CollectionExtrinsic(sender)
      <3>1. ASSUME NEW c \in CollectionId, DestroyCollection(sender, c) PROVE UNCHANGED item
        BY <3>1, DestroyCollectionItems DEF DestroyCollection
      <3>2. UNCHANGED item
        BY <2>1, <3>1
        DEF CollectionExtrinsic, CreateCollection, DoCreateCollection, LockCollection,
            ChangeCollectionIssuer, TransferOwnership, AcceptOwnership, SetAcceptOwnership,
            uniquesVars
      <3>3. QED
        BY <1>1, <3>2
    <2>2. CASE NftExtrinsic(sender)
      <3>1. ASSUME NEW n \in Nft, NEW k, BurnNft(sender, n, k) PROVE NoNewLoop
        <4>1. item' = [item EXCEPT ![n] = None]
          BY <3>1 DEF BurnNft, DoBurn
        <4>2. OwnerOf' = Hang(OwnerOf, n, None)
          BY <4>1, ItemToOwner, DecodeOfEncode
        <4>3. QED
          BY <1>2, <4>2
      <3>2. ASSUME NEW n \in Nft, RejectNft(sender, n) PROVE NoNewLoop
        BY <1>1, <3>2 DEF RejectNft, uniquesVars
      <3>3. QED
        BY <2>2, <3>1, <3>2 DEF NftExtrinsic
    <2>3. CASE ResourceExtrinsic(sender) \/ PropertyExtrinsic(sender)
      BY <1>1, <2>3 DEF ResourceExtrinsic, AddBasicResource, AddComposableResource,
         AddSlotResource, AddResource, AcceptResource, RemoveResource, AcceptResourceRemoval,
         SetPriority, PropertyExtrinsic, SetProperty, uniquesVars
    <2>4. QED
      BY <1>3, <2>1, <2>2, <2>3 DEF Extrinsic
  <1>4. ASSUME NEW sender \in Account, OtherPallets(sender) PROVE NoNewLoop
    <2>1. ASSUME NEW n \in Nft, NEW b, SetLock(n, b) \/ SetEquipped(n, b) PROVE NoNewLoop
      BY <1>1, <2>1 DEF SetLock, SetEquipped, uniquesVars
    <2>2. ASSUME NEW n \in Nft, NEW buyer \in Account, Sell(sender, n, buyer) PROVE NoNewLoop
      BY <1>2, <2>2, MoveHangs, DecodeOfEncode DEF AccountId
    <2>3. QED
      BY <1>4, <2>1, <2>2 DEF OtherPallets
  <1>5. QED
    BY <1>3, <1>4 DEF Next, Extrinsic, OtherPallets

(* The climbs that lookup_root_owner and is_x_descendent_of_y make stop      *)
(* ending only by a mint, a send or an acceptance that names the virtual     *)
(* account of an NFT.                                                        *)
THEOREM LoopsTakeVirtualAccounts == Spec => OnlyVirtualAccountsLoop
  <1> DEFINE A == (\E n \in Nft : ~ClimbEnds(OwnerOf, n)' /\ ClimbEnds(OwnerOf, n)) =>
                     /\ \E to \in VirtualAccount : Place(signer', to)
                     /\ ~\E to \in Account \cup Nft : Place(signer', to)
  <1>1. ASSUME TypeOK, SupplyInv, Next PROVE A
    <2>1. \A to \in Account \cup Nft : Place(signer', to) => NoNewLoop
      BY <1>1, OnlyPlacesMakeLoops, CheckedPlacesMakeNoLoop
    <2>2. QED
      BY <1>1, <2>1, OnlyPlacesMakeLoops DEF NoNewLoop, AccountId
  <1>2. TypeOK /\ SupplyInv /\ [Next]_vars => [A]_vars
    BY <1>1
  <1>3. QED
    BY <1>2, TypeCorrect, SupplyInvariant, PTL DEF Spec, OnlyVirtualAccountsLoop

-----------------------------------------------------------------------------
(* What belongs to an NFT                                                    *)

\* Together these hold always and are all the theorems below need.
CoreInv == TypeOK /\ SupplyInv /\ FP!Inv

LEMMA CoreInvariant == Spec => []CoreInv
  BY TypeCorrect, SupplyInvariant, BehavesAsOwnership, PTL DEF CoreInv

(* Who has a root owner has an item, hence an id that was given.             *)
LEMMA OwnedIsUsed ==
    ASSUME CoreInv, NEW n \in Nft
    PROVE  /\ LookupRootOwner(n) # None => item[n] # None
           /\ nfts[n] # None => item[n] # None
           /\ item[n] # None => n \in UsedIds
  <1>1. LookupRootOwner(n) # None => item[n] # None
    BY LookupIsRootOwner DEF CoreInv
  <1>2. nfts[n] # None => item[n] # None
    BY DEF CoreInv, SupplyInv, RecordHasItem
  <1>3. n \notin UsedIds => OwnerOf[n] = None
    BY DEF CoreInv, FP!Inv
  <1>4. QED
    BY <1>1, <1>2, <1>3, OwnerOfType DEF CoreInv

(* What a step leaves of an NFT that it does not touch.                      *)
Untouched(n) ==
    /\ nextResourceId'[n] = nextResourceId[n]
    /\ resources'[n] = resources[n]
    /\ priorities'[n] = priorities[n]
    /\ properties'[n] = properties[n]
    /\ lock'[n] = lock[n]
    /\ \A e \in children' : e[2] = n => e \in children
    /\ \A e \in equippableBases' : e[1] = n => e \in equippableBases
    /\ \A e \in equippableSlots' : e[1] = n => e \in equippableSlots

(* resource_add gives resources to one NFT.                                  *)
LEMMA ResourceAddElsewhere ==
    ASSUME TypeOK, NEW sender, NEW m \in Nft, NEW rs, NEW root, NEW on_mint,
           ResourceAdd(sender, m, rs, root, on_mint), NEW n \in Nft, n # m
    PROVE  /\ nextResourceId'[n] = nextResourceId[n]
           /\ resources'[n] = resources[n]
           /\ \A e \in equippableBases' : e[1] = n => e \in equippableBases
           /\ \A e \in equippableSlots' : e[1] = n => e \in equippableSlots
  <1>1. /\ \A e \in Bases(m, rs) : e[1] = m
        /\ \A e \in Slots(m, rs) : e[1] = m
    BY DEF Bases, Slots
  <1>2. nextResourceId'[n] = nextResourceId[n] /\ resources'[n] = resources[n]
    BY DEF ResourceAdd, TypeOK
  <1>3. /\ \A e \in equippableBases' : e \in equippableBases \/ e \in Bases(m, rs)
        /\ \A e \in equippableSlots' : e \in equippableSlots \/ e \in Slots(m, rs)
    BY DEF ResourceAdd
  <1>4. QED
    BY <1>1, <1>2, <1>3

(* Whatever an extrinsic writes about an NFT, the NFT has an item, or it is  *)
(* the one just minted.                                                      *)
LEMMA UnusedIsUntouched ==
    ASSUME CoreInv, FreshIdsAreClean, [Next]_vars,
           NEW n \in Nft, n \notin UsedIds, n \notin UsedIds'
    PROVE  Untouched(n)
  <1>0. TypeOK /\ item[n] = None /\ nfts[n] = None /\ resources[n] = NoResources
    BY DEF CoreInv, FreshIdsAreClean, NoTrace
  <1>1. CASE UNCHANGED <<resourceVars, metaVars, lock, children>>
    BY <1>1 DEF resourceVars, metaVars, Untouched
  <1>2. ASSUME NEW sender, NEW c \in CollectionId, NEW t, NEW rs, NEW o,
               MintNft(sender, o, c, t, rs) \/ MintNftDirectlyToNft(sender, o, c, t, rs)
        PROVE  Untouched(n)
    <2> DEFINE m == <<c, nextNftId[c]>>
    <2>1. nextNftId' = [nextNftId EXCEPT ![c] = nextNftId[c] + 1] /\ nextNftId[c] < NftIdMax
      BY <1>2 DEF MintNft, MintNftDirectlyToNft, NftMint
    <2>2. m \in Nft /\ m \in UsedIds'
      BY <1>0, <2>1, MintIsNew, UniquesAssumption DEF TypeOK, UsedIds
    <2>3. n # m
      BY <2>2
    <2>4. \E root : ResourceAdd(sender, m, rs, root, TRUE)
      BY <1>2 DEF MintNft, MintNftDirectlyToNft
    <2>5. UNCHANGED <<children, metaVars, lock>>
      BY <1>2 DEF MintNft, MintNftDirectlyToNft
    <2> HIDE DEF m
    <2>6. QED
      BY <1>0, <2>2, <2>3, <2>4, <2>5, ResourceAddElsewhere DEF Untouched, metaVars
  <1>3. ASSUME NEW sender \in Account, NEW m \in Nft, NEW k,
               BurnNft(sender, m, k) \/ RejectNft(sender, m)
        PROVE  Untouched(n)
    <2>1. \E budget : \E edges \in SUBSET children : NftBurn(m, budget, edges)
      BY <1>3 DEF BurnNft, RejectNft
    <2>2. resources'[n] \in {NoResources, resources[n]} /\ children' \subseteq children
      BY <2>1 DEF NftBurn
    <2>3. UNCHANGED <<nextResourceId, equippableBases, equippableSlots, metaVars, lock>>
      BY <1>3 DEF BurnNft, RejectNft
    <2>4. QED
      BY <1>0, <2>2, <2>3 DEF Untouched, metaVars
  <1>4. ASSUME NEW sender \in Account, NEW m \in Nft, NEW to \in AccountId \cup Nft, NEW locked,
               NftSend(sender, m, to, locked), lock'[n] = lock[n]
        PROVE  Untouched(n)
    <2>1. m # n
      BY <1>0, <1>4 DEF NftSend
    <2>2. \A e \in children' : e \in children \/ e[2] = m
      BY <1>4 DEF NftSend, ChildEntry
    <2>3. UNCHANGED <<resourceVars, metaVars>>
      BY <1>4 DEF NftSend
    <2>4. QED
      BY <1>4, <2>1, <2>2, <2>3 DEF Untouched, resourceVars, metaVars
  <1>5. ASSUME NEW sender \in Account, NEW m \in Nft, NEW to, AcceptNft(sender, m, to)
        PROVE  Untouched(n)
    BY <1>1, <1>5 DEF AcceptNft
  <1>6. ASSUME NEW sender \in Account, NEW m \in Nft, LookupRootOwner(m) # None, n = m
        PROVE  FALSE
    BY <1>0, <1>6, OwnedIsUsed
  <1>7. ASSUME NEW sender \in Account, NEW m \in Nft, NEW r, AddResource(sender, m, r)
        PROVE  Untouched(n)
    <2>1. n # m
      BY <1>6, <1>7 DEF AddResource
    <2>2. \E root : ResourceAdd(sender, m, <<r>>, root, FALSE)
      BY <1>7 DEF AddResource
    <2>3. UNCHANGED <<children, metaVars, lock>>
      BY <1>7 DEF AddResource, nftVars
    <2>4. QED
      BY <1>0, <2>1, <2>2, <2>3, ResourceAddElsewhere DEF Untouched, metaVars
  <1>8. ASSUME NEW sender \in Account, NEW m \in Nft, NEW r,
               \/ AcceptResource(sender, m, r)
               \/ RemoveResource(sender, m, r)
               \/ AcceptResourceRemoval(sender, m, r)
        PROVE  Untouched(n)
    <2>1. n # m
      BY <1>6, <1>8, UniquesAssumption DEF AcceptResource, RemoveResource, AcceptResourceRemoval
    <2>2. resources'[n] = resources[n]
      BY <1>0, <1>8, <2>1 DEF AcceptResource, RemoveResource, AcceptResourceRemoval, TypeOK
    <2>3. UNCHANGED <<nextResourceId, equippableBases, equippableSlots, children, metaVars, lock>>
      BY <1>8 DEF AcceptResource, RemoveResource, AcceptResourceRemoval, nftVars
    <2>4. QED
      BY <2>2, <2>3 DEF Untouched, metaVars
  <1>9. ASSUME NEW sender \in Account, NEW m \in Nft, NEW list, SetPriority(sender, m, list)
        PROVE  Untouched(n)
    <2>1. n # m
      BY <1>6, <1>9, UniquesAssumption DEF SetPriority
    <2>2. QED
      BY <1>0, <1>9, <2>1 DEF SetPriority, Untouched, TypeOK, nftVars, resourceVars
  <1>10. ASSUME NEW sender \in Account, NEW scope \in Scope, NEW k, NEW v,
                SetProperty(sender, scope, k, v)
         PROVE  Untouched(n)
    <2>1. n # scope
      BY <1>6, <1>10, UniquesAssumption DEF SetProperty
    <2>2. n \in Scope
      BY DEF Nft, Scope
    <2>3. QED
      BY <1>0, <1>10, <2>1, <2>2 DEF SetProperty, Untouched, TypeOK, nftVars, resourceVars
  <1>11. ASSUME NEW sender \in Account, Extrinsic(sender) PROVE Untouched(n)
    <2>1. CASE CollectionExtrinsic(sender)
      BY <1>1, <2>1
      DEF CollectionExtrinsic, CreateCollection, DestroyCollection, LockCollection,
          ChangeCollectionIssuer, AcceptOwnership, nftVars
    <2>2. CASE NftExtrinsic(sender)
      BY <1>2, <1>3, <1>4, <1>5, <2>2 DEF NftExtrinsic, Place, Send
    <2>3. CASE ResourceExtrinsic(sender)
      BY <1>7, <1>8, <1>9, <2>3
      DEF ResourceExtrinsic, AddBasicResource, AddComposableResource, AddSlotResource
    <2>4. CASE PropertyExtrinsic(sender)
      BY <1>10, <2>4 DEF PropertyExtrinsic
    <2>5. QED
      BY <1>11, <2>1, <2>2, <2>3, <2>4 DEF Extrinsic
  <1>12. ASSUME NEW sender \in Account, OtherPallets(sender) PROVE Untouched(n)
    <2>1. ASSUME NEW m \in Nft, NEW b, SetLock(m, b) PROVE Untouched(n)
      BY <1>0, <2>1 DEF SetLock, Untouched, TypeOK, nftVars, resourceVars, metaVars
    <2>2. ASSUME NEW m \in Nft, NEW b, SetEquipped(m, b) PROVE Untouched(n)
      BY <1>1, <2>2 DEF SetEquipped
    <2>3. ASSUME NEW m \in Nft, NEW buyer \in Account, Sell(sender, m, buyer) PROVE Untouched(n)
      <3>1. n # m
        BY <1>0, <2>3 DEF Sell, NftSend
      <3>2. lock'[n] = lock[n]
        BY <1>0, <2>3, <3>1 DEF Sell, TypeOK
      <3>3. QED
        BY <1>4, <2>3, <3>2 DEF Sell, AccountId
    <2>4. QED
      BY <1>12, <2>1, <2>2, <2>3 DEF OtherPallets
  <1>13. CASE UNCHANGED vars
    BY <1>1, <1>13 DEF vars, nftVars
  <1>14. QED
    BY <1>11, <1>12, <1>13 DEF Next

(* What waits below an id that was not given has no root owner that could    *)
(* move it.                                                                  *)
WaitsBelow(n) == \A e \in children : e[1] = n => item[e[2]] = NftToAccountId(n)

LEMMA WaitingWait ==
    ASSUME CoreInv, [Next]_vars, NEW n \in Nft \ UsedIds, WaitsBelow(n)
    PROVE  WaitsBelow(n)'
  <1> DEFINE Stuck(m) == item[m] # None /\ LookupRootOwner(m) = None
             Stayed == \A m \in Nft : Stuck(m) => item'[m] = item[m]
  <1>0. TypeOK /\ SupplyInv /\ item[n] = None /\ OwnerOf[n] = None
    BY OwnedIsUsed, OwnerOfType DEF CoreInv
  <1>1. ASSUME NEW e \in children, e[1] = n PROVE e[2] \in Nft /\ Stuck(e[2])
    <2>1. e[2] \in Nft /\ item[e[2]] = NftToAccountId(n)
      BY <1>0, <1>1 DEF TypeOK, WaitsBelow
    <2>2. OwnerOf[e[2]] = n /\ item[e[2]] # None
      BY <1>0, <2>1, OwnerOfType, DecodeOfEncode, UniquesAssumption DEF VirtualAccount
    <2>3. DOMAIN OwnerOf = Nft /\ n \in Nft /\ OwnerOf[n] \notin Nft
      BY <1>0, OwnerOfType, UniquesAssumption
    <2>4. RootNft(OwnerOf, e[2]) = n
      BY <2>1, <2>2, <2>3, RootNftStep
    <2>5. QED
      BY <1>0, <2>1, <2>2, <2>4 DEF LookupRootOwner, LookupIn, OwnerOf
  <1>2. ASSUME children' \subseteq children, Stayed PROVE WaitsBelow(n)'
    <2> HIDE DEF Stuck
    <2> QED BY <1>1, <1>2 DEF WaitsBelow
  <1>3. ASSUME UNCHANGED item, children' \subseteq children PROVE WaitsBelow(n)'
    BY <1>2, <1>3
  <1>4. ASSUME NEW sender \in Account, NEW m \in Nft, NEW to \in AccountId \cup Nft, NEW locked,
               NftSend(sender, m, to, locked)
        PROVE  WaitsBelow(n)'
    <2> DEFINE parent == DecodeNftAccountId(ToAccountId(to))
    <2>1. item' = [item EXCEPT ![m] = ToAccountId(to)] /\ LookupRootOwner(m) # None
      BY <1>4, UniquesAssumption DEF NftSend, DoTransfer
    <2>2. Stayed
      BY <1>0, <2>1 DEF TypeOK, UniquesTypeOK
    <2>3. \A e \in children' : e \in children \/ (e = <<parent, m>> /\ parent \in Nft)
      BY <1>4 DEF NftSend, ChildEntry
    <2>4. parent \in Nft => item'[m] = NftToAccountId(parent)
      <3>1. ToAccountId(to) \in AccountId
        BY ToAccountIdType
      <3>2. item'[m] = ToAccountId(to)
        BY <1>0, <2>1 DEF TypeOK, UniquesTypeOK
      <3>3. QED
        BY <3>1, <3>2, EncodeOfDecode
    <2> HIDE DEF parent, Stuck
    <2>5. QED
      BY <1>1, <2>2, <2>3, <2>4 DEF WaitsBelow
  <1>5. ASSUME NEW sender \in Account, NEW m \in Nft, NEW to, AcceptNft(sender, m, to)
        PROVE  WaitsBelow(n)'
    <2>1. LookupRootOwner(m) # None /\ UNCHANGED children
      BY <1>5, UniquesAssumption DEF AcceptNft
    <2>2. \E a : item' = [item EXCEPT ![m] = a]
      BY <1>5 DEF AcceptNft, DoTransfer
    <2>3. QED
      BY <1>0, <1>2, <2>1, <2>2 DEF TypeOK, UniquesTypeOK
  <1>6. ASSUME NEW sender \in Account, NEW m \in Nft, NEW k,
               BurnNft(sender, m, k) \/ RejectNft(sender, m)
        PROVE  WaitsBelow(n)'
    <2>1. \E budget : \E edges \in SUBSET children : NftBurn(m, budget, edges)
      BY <1>6 DEF BurnNft, RejectNft
    <2>2. children' \subseteq children
      BY <2>1 DEF NftBurn
    <2>3. LookupRootOwner(m) # None
      BY <1>6, UniquesAssumption DEF BurnNft, RejectNft
    <2>4. item' = item \/ item' = [item EXCEPT ![m] = None]
      BY <1>6 DEF BurnNft, RejectNft, DoBurn, uniquesVars
    <2>5. QED
      BY <1>0, <1>2, <2>2, <2>3, <2>4 DEF TypeOK, UniquesTypeOK
  <1>7. ASSUME NEW sender \in Account, NEW c \in CollectionId, NEW t, NEW rs, NEW o,
               MintNft(sender, o, c, t, rs) \/ MintNftDirectlyToNft(sender, o, c, t, rs)
        PROVE  WaitsBelow(n)'
    <2>1. UNCHANGED children
      BY <1>7 DEF MintNft, MintNftDirectlyToNft
    <2>2. \E a, m : item[m] = None /\ item' = [item EXCEPT ![m] = a]
      BY <1>7 DEF MintNft, MintNftDirectlyToNft, DoMint
    <2>3. QED
      BY <1>0, <1>2, <2>1, <2>2 DEF TypeOK, UniquesTypeOK
  <1>8. ASSUME NEW sender \in Account, Extrinsic(sender) PROVE WaitsBelow(n)'
    <2>1. CASE CollectionExtrinsic(sender)
      <3>1. ASSUME NEW c \in CollectionId, DestroyCollection(sender, c)
            PROVE  UNCHANGED <<item, children>>
        BY <1>0, <3>1, DestroyCollectionItems DEF DestroyCollection, nftVars
      <3>2. UNCHANGED <<item, children>>
        BY <2>1, <3>1
        DEF CollectionExtrinsic, CreateCollection, DoCreateCollection, LockCollection,
            ChangeCollectionIssuer, TransferOwnership, AcceptOwnership, SetAcceptOwnership,
            uniquesVars, nftVars
      <3>3. QED
        BY <1>3, <3>2
    <2>2. CASE NftExtrinsic(sender)
      BY <1>4, <1>5, <1>6, <1>7, <2>2 DEF NftExtrinsic, Place, Send
    <2>3. CASE ResourceExtrinsic(sender)
      BY <1>3, <2>3 DEF ResourceExtrinsic, AddBasicResource, AddComposableResource,
         AddSlotResource, AddResource, AcceptResource, RemoveResource, AcceptResourceRemoval,
         SetPriority, uniquesVars, nftVars
    <2>4. CASE PropertyExtrinsic(sender)
      BY <1>3, <2>4 DEF PropertyExtrinsic, SetProperty, uniquesVars, nftVars
    <2>5. QED
      BY <1>8, <2>1, <2>2, <2>3, <2>4 DEF Extrinsic
  <1>9. ASSUME NEW sender \in Account, OtherPallets(sender) PROVE WaitsBelow(n)'
    <2>1. ASSUME NEW m \in Nft, NEW b, SetLock(m, b) \/ SetEquipped(m, b) PROVE WaitsBelow(n)'
      BY <1>3, <2>1 DEF SetLock, SetEquipped, uniquesVars, nftVars
    <2>2. QED
      BY <1>4, <1>9, <2>1 DEF OtherPallets, Sell, AccountId
  <1>10. CASE UNCHANGED vars
    BY <1>3, <1>10 DEF vars, uniquesVars, nftVars
  <1>11. QED
    BY <1>8, <1>9, <1>10 DEF Next

(* Nothing is known of an id before it is given, except what was sent to its *)
(* virtual account and is still there: what a burn leaves behind never meets *)
(* a new NFT.                                                                *)
THEOREM FreshIdsStayClean == Spec => []FreshIdsAreClean
  <1>1. Init => FreshIdsAreClean
    BY DEF Init, UniquesInit, FreshIdsAreClean, NoTrace, UsedIds, Nft, Scope
  <1>2. CoreInv => \A n \in Nft \ UsedIds : item[n] = None /\ nfts[n] = None
    BY OwnedIsUsed
  <1>3. ASSUME CoreInv, FreshIdsAreClean, [Next]_vars,
               (\A n \in Nft \ UsedIds : item[n] = None /\ nfts[n] = None)'
        PROVE  FreshIdsAreClean'
    <2>1. ASSUME NEW n \in Nft, n \notin UsedIds' PROVE NoTrace(n)'
      <3>1. n \notin UsedIds
        <4>1. \A c \in CollectionId : nextNftId[c] <= nextNftId'[c] /\ nextNftId[c] \in Nat
                                      /\ nextNftId'[c] \in Nat
          <5>1. \A c \in CollectionId : Limited(c)
            BY <1>3, StepsAreLimited DEF CoreInv
          <5>2. nextNftId \in [CollectionId -> Nat]
            BY <1>3 DEF CoreInv, TypeOK
          <5>3. QED
            BY <5>1, <5>2 DEF Limited, Kept, Locked, Minted
        <4>2. n[1] \in CollectionId /\ n[2] \in Nat
          BY DEF Nft, NftId
        <4>3. QED
          BY <2>1, <4>1, <4>2 DEF UsedIds
      <3>2. NoTrace(n)
        BY <1>3, <3>1 DEF FreshIdsAreClean
      <3>3. Untouched(n)
        BY <1>3, <2>1, <3>1, UnusedIsUntouched
      <3>4. item'[n] = None /\ nfts'[n] = None
        BY <1>3, <2>1
      <3>5. WaitsBelow(n)'
        BY <1>3, <3>1, <3>2, WaitingWait DEF NoTrace, WaitsBelow
      <3>6. QED
        BY <3>2, <3>3, <3>4, <3>5 DEF NoTrace, Untouched, WaitsBelow
    <2>2. QED
      BY <2>1 DEF FreshIdsAreClean
  <1>4. QED
    BY <1>1, <1>2, <1>3, CoreInvariant, PTL DEF Spec

-----------------------------------------------------------------------------
(* Locks                                                                     *)

(* Until it is unlocked or burned, a locked NFT keeps its owner, properties  *)
(* and priorities and is given no resource, whichever extrinsic tries.       *)
THEOREM LocksHold == Spec => LockedStays
  <1> DEFINE Held(n) == /\ item'[n] \in {item[n], None}
                        /\ properties'[n] = properties[n]
                        /\ priorities'[n] = priorities[n]
                        /\ nextResourceId'[n] = nextResourceId[n]
  <1>1. ASSUME CoreInv, FreshIdsAreClean, [Next]_vars, NEW n \in Nft, lock[n], lock'[n]
        PROVE  Held(n)
    <2>0. TypeOK /\ n \in UsedIds
      BY <1>1 DEF CoreInv, FreshIdsAreClean, NoTrace
    <2>1. CASE UNCHANGED <<item, metaVars, nextResourceId>>
      BY <2>1 DEF metaVars
    <2>2. ASSUME NEW sender, NEW c \in CollectionId, NEW t, NEW rs, NEW o,
                 MintNft(sender, o, c, t, rs) \/ MintNftDirectlyToNft(sender, o, c, t, rs)
          PROVE  Held(n)
      <3> DEFINE m == <<c, nextNftId[c]>>
      <3>1. nextNftId[c] < NftIdMax
        BY <2>2 DEF MintNft, MintNftDirectlyToNft, NftMint
      <3>2. m \in Nft /\ n # m
        BY <2>0, <3>1, MintIsNew
      <3>3. \E a : item' = [item EXCEPT ![m] = a]
        BY <2>2 DEF MintNft, MintNftDirectlyToNft, DoMint
      <3>4. \E root : ResourceAdd(sender, m, rs, root, TRUE)
        BY <2>2 DEF MintNft, MintNftDirectlyToNft
      <3>5. UNCHANGED metaVars
        BY <2>2 DEF MintNft, MintNftDirectlyToNft
      <3> HIDE DEF m
      <3>6. QED
        BY <2>0, <3>2, <3>3, <3>4, <3>5, ResourceAddElsewhere DEF metaVars, TypeOK, UniquesTypeOK
    <2>3. ASSUME NEW sender, NEW m \in Nft, NEW k, BurnNft(sender, m, k) \/ RejectNft(sender, m)
          PROVE  Held(n)
      BY <2>0, <2>3
      DEF BurnNft, RejectNft, DoBurn, uniquesVars, metaVars, TypeOK, UniquesTypeOK
    <2>4. ASSUME NEW sender, NEW m \in Nft, NEW to, Send(sender, m, to) \/ AcceptNft(sender, m, to)
          PROVE  Held(n)
      BY <1>1, <2>0, <2>4
      DEF Send, NftSend, AcceptNft, DoTransfer, IsLocked, resourceVars, metaVars,
          TypeOK, UniquesTypeOK
    <2>5. ASSUME NEW sender, NEW m \in Nft, NEW r, AddResource(sender, m, r) PROVE Held(n)
      <3>1. \E root : ResourceAdd(sender, m, <<r>>, root, FALSE)
        BY <2>5 DEF AddResource
      <3>2. n # m
        BY <1>1, <3>1 DEF ResourceAdd, IsLocked
      <3>3. QED
        BY <2>0, <2>5, <3>1, <3>2, ResourceAddElsewhere DEF AddResource, uniquesVars, metaVars
    <2>6. ASSUME NEW sender, NEW m \in Nft, NEW list, SetPriority(sender, m, list) PROVE Held(n)
      BY <1>1, <2>0, <2>6 DEF SetPriority, IsLocked, uniquesVars, resourceVars, TypeOK
    <2>7. ASSUME NEW sender, NEW scope \in Scope, NEW k, NEW v, SetProperty(sender, scope, k, v)
          PROVE  Held(n)
      <3>1. n # scope
        BY <1>1, <2>7 DEF SetProperty, IsLocked
      <3>2. n \in Scope
        BY DEF Nft, Scope
      <3>3. QED
        BY <2>0, <2>7, <3>1, <3>2 DEF SetProperty, uniquesVars, resourceVars, TypeOK
    <2>8. ASSUME NEW sender \in Account, Extrinsic(sender) PROVE Held(n)
      <3>1. CASE CollectionExtrinsic(sender)
        BY <2>0, <3>1
        DEF CollectionExtrinsic, CreateCollection, DoCreateCollection, DestroyCollection,
            DoDestroyCollection, LockCollection, ChangeCollectionIssuer, TransferOwnership,
            AcceptOwnership, SetAcceptOwnership, uniquesVars, resourceVars, metaVars
      <3>2. CASE NftExtrinsic(sender)
        BY <2>2, <2>3, <2>4, <3>2 DEF NftExtrinsic, Place
      <3>3. CASE ResourceExtrinsic(sender)
        BY <2>1, <2>5, <2>6, <3>3
        DEF ResourceExtrinsic, AddBasicResource, AddComposableResource, AddSlotResource,
            AcceptResource, RemoveResource, AcceptResourceRemoval, uniquesVars
      <3>4. CASE PropertyExtrinsic(sender)
        BY <2>7, <3>4 DEF PropertyExtrinsic
      <3>5. QED
        BY <2>8, <3>1, <3>2, <3>3, <3>4 DEF Extrinsic
    <2>9. ASSUME NEW sender \in Account, OtherPallets(sender) PROVE Held(n)
      <3>1. ASSUME NEW m \in Nft, NEW b, SetLock(m, b) \/ SetEquipped(m, b) PROVE Held(n)
        BY <2>1, <3>1 DEF SetLock, SetEquipped, uniquesVars, resourceVars
      <3>2. ASSUME NEW m \in Nft, NEW buyer, Sell(sender, m, buyer) PROVE Held(n)
        <4>1. n # m
          BY <1>1, <2>0, <3>2 DEF Sell, TypeOK
        <4>2. QED
          BY <2>0, <3>2, <4>1
          DEF Sell, NftSend, DoTransfer, resourceVars, metaVars, TypeOK, UniquesTypeOK
      <3>3. QED
        BY <2>9, <3>1, <3>2 DEF OtherPallets
    <2>10. CASE UNCHANGED vars
      BY <2>1, <2>10 DEF vars, uniquesVars, resourceVars
    <2>11. QED
      BY <1>1, <2>8, <2>9, <2>10 DEF Next
  <1>2. CoreInv /\ FreshIdsAreClean /\ [Next]_vars =>
          [\A n \in Nft : (lock[n] /\ lock'[n]) => Held(n)]_vars
    BY <1>1
  <1>3. QED
    BY <1>2, CoreInvariant, FreshIdsStayClean, PTL DEF Spec, LockedStays

-----------------------------------------------------------------------------
(* Resources and priorities                                                  *)

(* The slots EquippableSlots has for a resource.                             *)
SlotsOf(n, r) == {e[3] : e \in {x \in equippableSlots : x[1] = n /\ x[2] = r}}

(* Resources and their entries have ids that were given: what is added next  *)
(* meets no entry of an earlier resource.                                    *)
SlotInv ==
    /\ \A n \in Nft, r \in ResourceId : resources[n][r] # None => r < nextResourceId[n]
    /\ \A e \in equippableSlots : e[2] < nextResourceId[e[1]]
    /\ SlotEntriesMatch

(* Accepting, removing and burning resources leave the entries as they are.  *)
LEMMA FewerResources ==
    ASSUME TypeOK, SlotInv, UNCHANGED <<nextResourceId, equippableSlots>>,
           \A n \in Nft, r \in ResourceId : resources'[n][r] # None =>
              resources[n][r] # None /\ resources'[n][r].resource = resources[n][r].resource
    PROVE  SlotInv'
  BY DEF SlotInv, SlotEntriesMatch

(* resource_add gives new ids, and an entry to each resource with a slot.    *)
LEMMA AddedResources ==
    ASSUME TypeOK, SlotInv, NEW sender, NEW m \in Nft, NEW rs \in Seq(ResourceType), NEW root,
           NEW on_mint, ResourceAdd(sender, m, rs, root, on_mint)
    PROVE  SlotInv'
  <1> DEFINE next == nextResourceId[m]
             new == next..(next + Len(rs) - 1)
  <1>1. next \in Nat /\ Len(rs) \in Nat /\ DOMAIN rs = 1..Len(rs)
    BY CoreAssumption DEF TypeOK
  <1>2. /\ nextResourceId'[m] = next + Len(rs)
        /\ \A n \in Nft : n # m => nextResourceId'[n] = nextResourceId[n]
    BY DEF ResourceAdd, TypeOK
  <1>3. /\ \A r \in ResourceId : r \in new => resources'[m][r].resource = rs[r - next + 1]
        /\ \A r \in ResourceId : r \notin new => resources'[m][r] = resources[m][r]
        /\ \A n \in Nft : n # m => resources'[n] = resources[n]
    BY DEF ResourceAdd, TypeOK
  <1>4. equippableSlots' = equippableSlots \cup Slots(m, rs)
    BY DEF ResourceAdd
  <1>5. \A n \in Nft, r \in ResourceId : resources'[n][r] # None => r < nextResourceId'[n]
    <2>1. ASSUME NEW n \in Nft, NEW r \in ResourceId, resources'[n][r] # None
          PROVE  r < nextResourceId'[n]
      <3>1. CASE n # m
        BY <1>2, <1>3, <2>1, <3>1 DEF SlotInv
      <3>2. CASE n = m /\ r \in new
        BY <1>1, <1>2, <3>2
      <3>3. CASE n = m /\ r \notin new
        <4>1. r < next
          BY <1>3, <2>1, <3>3 DEF SlotInv
        <4>2. r \in Int
          BY DEF ResourceId
        <4>3. QED
          BY <1>1, <1>2, <3>3, <4>1, <4>2
      <3>4. QED
        BY <3>1, <3>2, <3>3
    <2>2. QED
      BY <2>1
  <1>6. \A e \in Slots(m, rs) : \E i \in 1..Len(rs) :
           rs[i].slot # None /\ e = <<m, next + i - 1, rs[i].slot>>
    BY <1>1 DEF Slots
  <1>7. \A e \in equippableSlots' : e[2] < nextResourceId'[e[1]]
    <2>1. ASSUME NEW e \in equippableSlots PROVE e[2] < nextResourceId'[e[1]]
      <3>1. e[1] \in Nft /\ e[2] \in Int /\ e[2] < nextResourceId[e[1]]
        BY DEF SlotInv, TypeOK, ResourceId
      <3>2. QED
        BY <1>1, <1>2, <3>1
    <2>2. ASSUME NEW e \in Slots(m, rs) PROVE e[2] < nextResourceId'[e[1]]
      BY <1>1, <1>2, <1>6
    <2>3. QED
      BY <1>4, <2>1, <2>2
  <1>8. ASSUME NEW n \in Nft, NEW r \in ResourceId, resources'[n][r] # None
        PROVE  SlotsOf(n, r)' = {resources'[n][r].resource.slot} \ {None}
    <2> DEFINE at == {x \in equippableSlots : x[1] = n /\ x[2] = r}
               at1 == {x \in equippableSlots' : x[1] = n /\ x[2] = r}
    <2>1. CASE ~(n = m /\ r \in new)
      <3>1. resources'[n][r] = resources[n][r]
        BY <1>3, <2>1
      <3>2. \A e \in Slots(m, rs) : ~(e[1] = n /\ e[2] = r)
        BY <1>1, <1>6, <2>1
      <3>3. at1 = at
        BY <1>4, <3>2
      <3>4. QED
        BY <1>8, <3>1, <3>3 DEF SlotInv, SlotEntriesMatch, SlotsOf
    <2>2. CASE n = m /\ r \in new
      <3> DEFINE i == r - next + 1
      <3>1. i \in 1..Len(rs) /\ next + i - 1 = r
        BY <1>1, <2>2
      <3>2. at = {}
        BY <1>1, <2>2 DEF SlotInv
      <3>3. at1 = {x \in Slots(m, rs) : x[2] = r}
        <4>1. \A x \in Slots(m, rs) : x[1] = m
          BY <1>6
        <4>2. QED
          BY <1>4, <2>2, <3>2, <4>1
      <3>4. rs[i].slot # None => at1 = {<<m, r, rs[i].slot>>}
        <4>1. rs[i].slot # None => <<m, r, rs[i].slot>> \in Slots(m, rs)
          BY <1>1, <3>1 DEF Slots
        <4>2. \A x \in Slots(m, rs) : x[2] = r => x = <<m, r, rs[i].slot>>
          <5>1. ASSUME NEW j \in 1..Len(rs), next + j - 1 = r PROVE j = i
            BY <1>1, <3>1, <5>1
          <5>2. QED
            BY <1>6, <5>1
        <4>3. QED
          BY <3>3, <4>1, <4>2
      <3>5. rs[i].slot = None => at1 = {}
        <4>1. ASSUME NEW j \in 1..Len(rs), next + j - 1 = r PROVE j = i
          BY <1>1, <3>1, <4>1
        <4>2. QED
          BY <1>6, <3>3, <4>1
      <3>6. resources'[n][r].resource.slot = rs[i].slot
        BY <1>3, <2>2
      <3> HIDE DEF i, at, at1
      <3>7. SlotsOf(n, r)' = {e[3] : e \in at1}
        BY DEF SlotsOf, at1
      <3>8. CASE rs[i].slot = None
        BY <3>5, <3>6, <3>7, <3>8
      <3>9. CASE rs[i].slot # None
        <4>1. SlotsOf(n, r)' = {rs[i].slot}
          <5> DEFINE x == <<m, r, rs[i].slot>>
          <5>1. x[3] = rs[i].slot
            OBVIOUS
          <5>2. at1 = {x}
            BY <3>4, <3>9
          <5> HIDE DEF x
          <5>3. {e[3] : e \in at1} = {x[3]}
            BY <5>2
          <5>4. QED
            BY <3>7, <5>1, <5>3
        <4>2. QED
          BY <3>6, <3>9, <4>1
      <3>10. QED
        BY <3>8, <3>9
    <2>3. QED
      BY <2>1, <2>2
  <1>9. QED
    BY <1>5, <1>7, <1>8 DEF SlotInv, SlotEntriesMatch, SlotsOf

(* However resources are added, accepted, removed and burned, the entries of *)
(* a living one are its own.                                                 *)
THEOREM SlotEntriesStayRight == Spec => []SlotEntriesMatch
  <1>1. Init => SlotInv
    BY DEF Init, SlotInv, SlotEntriesMatch, NoResources
  <1>2. ASSUME TypeOK, SlotInv, [Next]_vars PROVE SlotInv'
    <2>1. CASE UNCHANGED resourceVars
      BY <1>2, <2>1 DEF resourceVars, SlotInv, SlotEntriesMatch
    <2>2. ASSUME NEW sender, NEW n \in Nft, NEW budget, NEW edges, NftBurn(n, budget, edges),
                 UNCHANGED <<nextResourceId, equippableSlots>>
          PROVE  SlotInv'
      <3>1. \A m \in Nft : resources'[m] \in {NoResources, resources[m]}
        BY <2>2 DEF NftBurn
      <3>2. QED
        BY <1>2, <2>2, <3>1, FewerResources DEF NoResources
    <2>3. ASSUME NEW sender, NEW n \in Nft, NEW r \in ResourceId,
                 \/ AcceptResource(sender, n, r)
                 \/ RemoveResource(sender, n, r)
                 \/ AcceptResourceRemoval(sender, n, r)
          PROVE  SlotInv'
      <3>1. UNCHANGED <<nextResourceId, equippableSlots>>
        BY <2>3 DEF AcceptResource, RemoveResource, AcceptResourceRemoval
      <3>2. resources[n][r] \in ResourceInfo
        BY <1>2, <2>3 DEF AcceptResource, RemoveResource, AcceptResourceRemoval, TypeOK
      <3>3. /\ resources[n][r] # None
            /\ \/ resources' = [resources EXCEPT ![n][r].pending = FALSE]
               \/ resources' = [resources EXCEPT ![n][r].pending_removal = TRUE]
               \/ resources' = [resources EXCEPT ![n][r] = None]
        BY <2>3 DEF AcceptResource, RemoveResource, AcceptResourceRemoval
      <3>4. resources \in [Nft -> [ResourceId -> ResourceInfo \cup {None}]]
        BY <1>2 DEF TypeOK
      <3>5. resources'[n][r] # None => resources'[n][r].resource = resources[n][r].resource
        BY <3>2, <3>3, <3>4 DEF ResourceInfo
      <3>6. \A m \in Nft, q \in ResourceId : (m # n \/ q # r) => resources'[m][q] = resources[m][q]
        BY <3>3, <3>4
      <3>7. \A m \in Nft, q \in ResourceId : resources'[m][q] # None =>
               /\ resources[m][q] # None
               /\ resources'[m][q].resource = resources[m][q].resource
        BY <3>3, <3>5, <3>6
      <3>8. QED
        BY <1>2, <3>1, <3>7, FewerResources
    <2>4. ASSUME NEW sender, NEW c \in CollectionId, NEW t, NEW rs \in MintedResources, NEW o,
                 MintNft(sender, o, c, t, rs) \/ MintNftDirectlyToNft(sender, o, c, t, rs)
          PROVE  SlotInv'
      <3>1. <<c, nextNftId[c]>> \in Nft
        BY <1>2, <2>4, MintIsNew DEF MintNft, MintNftDirectlyToNft, NftMint
      <3>2. rs \in Seq(ResourceType)
        BY CoreAssumption
      <3>3. \E root : ResourceAdd(sender, <<c, nextNftId[c]>>, rs, root, TRUE)
        BY <2>4 DEF MintNft, MintNftDirectlyToNft
      <3>4. QED
        BY <1>2, <3>1, <3>2, <3>3, AddedResources
    <2>5. ASSUME NEW sender, NEW n \in Nft, NEW r \in ResourceType, AddResource(sender, n, r)
          PROVE  SlotInv'
      <3>1. \E root : ResourceAdd(sender, n, <<r>>, root, FALSE)
        BY <2>5 DEF AddResource
      <3>2. <<r>> \in Seq(ResourceType)
        OBVIOUS
      <3>3. QED
        BY <1>2, <3>1, <3>2, AddedResources
    <2>6. ASSUME NEW sender \in Account, Extrinsic(sender) PROVE SlotInv'
      <3>1. CASE CollectionExtrinsic(sender)
        BY <2>1, <3>1
        DEF CollectionExtrinsic, CreateCollection, DestroyCollection, LockCollection,
            ChangeCollectionIssuer, AcceptOwnership
      <3>2. CASE NftExtrinsic(sender)
        <4>1. ASSUME NEW n \in Nft, NEW k, BurnNft(sender, n, k) \/ RejectNft(sender, n)
              PROVE  SlotInv'
          BY <2>2, <4>1 DEF BurnNft, RejectNft
        <4>2. ASSUME NEW n \in Nft, NEW to, Send(sender, n, to) \/ AcceptNft(sender, n, to)
              PROVE  SlotInv'
          BY <2>1, <4>2 DEF Send, NftSend, AcceptNft
        <4>3. QED
          BY <2>4, <3>2, <4>1, <4>2 DEF NftExtrinsic, Place
      <3>3. CASE ResourceExtrinsic(sender)
        <4>1. ASSUME NEW n \in Nft, NEW list, SetPriority(sender, n, list) PROVE SlotInv'
          BY <2>1, <4>1 DEF SetPriority
        <4>2. QED
          BY <2>3, <2>5, <3>3, <4>1
          DEF ResourceExtrinsic, AddBasicResource, AddComposableResource, AddSlotResource,
              BasicResource, ComposableResource, SlotResource
      <3>4. CASE PropertyExtrinsic(sender)
        BY <2>1, <3>4 DEF PropertyExtrinsic, SetProperty
      <3>5. QED
        BY <2>6, <3>1, <3>2, <3>3, <3>4 DEF Extrinsic
    <2>7. ASSUME NEW sender \in Account, OtherPallets(sender) PROVE SlotInv'
      BY <2>1, <2>7 DEF OtherPallets, SetLock, SetEquipped, Sell, NftSend
    <2>8. CASE UNCHANGED vars
      BY <2>1, <2>8 DEF vars
    <2>9. QED
      BY <1>2, <2>6, <2>7, <2>8 DEF Next
  <1>3. SlotInv => SlotEntriesMatch
    BY DEF SlotInv
  <1>4. QED
    BY <1>1, <1>2, <1>3, TypeCorrect, PTL DEF Spec

(* Two resources in one list have different positions, also when the list    *)
(* names them several times.                                                 *)
LEMMA PriorityIsAPlace ==
    ASSUME NEW list \in PriorityLists, NEW r, NEW q,
           PriorityOf(list, r) = PriorityOf(list, q), PriorityOf(list, r) # None
    PROVE  r = q
  <1>1. PICK k \in 0..MaxPriorities : list \in [1..k -> ResourceId]
    BY DEF PriorityLists
  <1>2. ASSUME NEW p, PriorityOf(list, p) # None
        PROVE  \E i \in 1..k : list[i] = p /\ PriorityOf(list, p) = i - 1
    <2> DEFINE at == {i \in DOMAIN list : list[i] = p}
               last == CHOOSE i \in at : \A j \in at : j <= i
    <2>1. at # {} /\ at \in SUBSET (1..k) /\ k \in Nat
      <3>1. at # {}
        BY <1>2 DEF PriorityOf
      <3>2. DOMAIN list = 1..k /\ k \in Nat
        BY <1>1, CoreAssumption
      <3>3. QED
        BY <3>1, <3>2
    <2>2. \E i \in at : \A j \in at : j <= i
      <3> HIDE DEF at
      <3>1. QED
        BY <2>1, MaxExists
    <2>3. last \in at
      <3> HIDE DEF at
      <3>1. QED
        BY <2>2
    <2>4. PriorityOf(list, p) = last - 1
      BY <2>1 DEF PriorityOf
    <2>5. last \in 1..k /\ list[last] = p
      <3> HIDE DEF last
      <3>1. QED
        BY <1>1, <2>3
    <2>6. QED
      BY <2>4, <2>5
  <1>3. PICK i \in 1..k : list[i] = r /\ PriorityOf(list, r) = i - 1
    BY <1>2
  <1>4. PICK j \in 1..k : list[j] = q /\ PriorityOf(list, q) = j - 1
    BY <1>2
  <1>5. i = j
    <2>1. i \in Int /\ j \in Int
      OBVIOUS
    <2>2. i - 1 = j - 1
      BY <1>3, <1>4
    <2>3. QED
      BY <2>1, <2>2
  <1>6. QED
    BY <1>3, <1>4, <1>5

(* No order of resources ever puts two of them at one place.                 *)
THEOREM PrioritiesStayDifferent == Spec => []PrioritiesDiffer
  <1>1. Init => PrioritiesDiffer
    BY DEF Init, PrioritiesDiffer, NoResources
  <1>2. ASSUME TypeOK, PrioritiesDiffer, [Next]_vars PROVE PrioritiesDiffer'
    <2>1. CASE UNCHANGED priorities
      BY <1>2, <2>1 DEF PrioritiesDiffer
    <2>2. ASSUME NEW sender, NEW m \in Nft, NEW list \in PriorityLists, SetPriority(sender, m, list)
          PROVE  PrioritiesDiffer'
      <3>1. /\ \A r \in ResourceId : priorities'[m][r] = PriorityOf(list, r)
            /\ \A n \in Nft : n # m => priorities'[n] = priorities[n]
        BY <1>2, <2>2 DEF SetPriority, TypeOK
      <3>2. ASSUME NEW n \in Nft, NEW r \in ResourceId, NEW q \in ResourceId,
                   priorities'[n][r] = priorities'[n][q], priorities'[n][r] # None
            PROVE  r = q
        <4>1. CASE n = m
          BY <3>1, <3>2, <4>1, PriorityIsAPlace
        <4>2. CASE n # m
          BY <1>2, <3>1, <3>2, <4>2 DEF PrioritiesDiffer
        <4>3. QED
          BY <4>1, <4>2
      <3>3. QED
        BY <3>2 DEF PrioritiesDiffer
    <2>3. ASSUME NEW sender \in Account, Extrinsic(sender) PROVE PrioritiesDiffer'
      <3>1. CASE CollectionExtrinsic(sender)
        BY <2>1, <3>1
        DEF CollectionExtrinsic, CreateCollection, DestroyCollection, LockCollection,
            ChangeCollectionIssuer, AcceptOwnership, metaVars
      <3>2. CASE NftExtrinsic(sender)
        BY <2>1, <3>2
        DEF NftExtrinsic, Place, MintNft, MintNftDirectlyToNft, BurnNft, RejectNft, Send, NftSend,
            AcceptNft, metaVars
      <3>3. CASE ResourceExtrinsic(sender)
        BY <2>1, <2>2, <3>3
        DEF ResourceExtrinsic, AddBasicResource, AddComposableResource, AddSlotResource,
            AddResource, AcceptResource, RemoveResource, AcceptResourceRemoval, metaVars
      <3>4. CASE PropertyExtrinsic(sender)
        BY <2>1, <3>4 DEF PropertyExtrinsic, SetProperty
      <3>5. QED
        BY <2>3, <3>1, <3>2, <3>3, <3>4 DEF Extrinsic
    <2>4. ASSUME NEW sender \in Account, OtherPallets(sender) PROVE PrioritiesDiffer'
      BY <2>1, <2>4 DEF OtherPallets, SetLock, SetEquipped, Sell, NftSend, metaVars
    <2>5. CASE UNCHANGED vars
      BY <2>1, <2>5 DEF vars, metaVars
    <2>6. QED
      BY <1>2, <2>3, <2>4, <2>5 DEF Next
  <1>3. QED
    BY <1>1, <1>2, TypeCorrect, PTL DEF Spec

(* No issuer changes what another account's NFT shows: a resource comes to   *)
(* count, or goes, in the name of the root owner.                            *)
THEOREM ResourcesNeedConsent == Spec => RootOwnerConsentsToResources
  <1> DEFINE Turned(n, r) == \/ ~Active(n, r) /\ Active(n, r)'
                             \/ resources[n][r] # None /\ resources'[n][r] = None
  <1>1. ASSUME CoreInv, [Next]_vars, NEW n \in Nft, NEW r \in ResourceId,
               nfts[n] # None, nfts'[n] # None, Turned(n, r)
        PROVE  signer' = LookupRootOwner(n)
    <2>0. /\ TypeOK /\ item[n] # None
          /\ resources'[n][r] # resources[n][r] /\ resources'[n] # resources[n]
      BY <1>1, OwnedIsUsed DEF CoreInv, Active
    <2>1. ASSUME UNCHANGED resources PROVE FALSE
      BY <2>0, <2>1
    <2>2. ASSUME NEW sender, NEW c \in CollectionId, NEW t, NEW rs, NEW o,
                 MintNft(sender, o, c, t, rs) \/ MintNftDirectlyToNft(sender, o, c, t, rs)
          PROVE  FALSE
      <3> DEFINE m == <<c, nextNftId[c]>>
      <3>1. item[m] = None
        BY <2>2 DEF MintNft, MintNftDirectlyToNft, DoMint
      <3>2. m \in Nft /\ n # m
        BY <2>0, <2>2, <3>1, MintIsNew DEF MintNft, MintNftDirectlyToNft, NftMint
      <3>3. \E root : ResourceAdd(sender, m, rs, root, TRUE)
        BY <2>2 DEF MintNft, MintNftDirectlyToNft
      <3> HIDE DEF m
      <3>4. QED
        BY <2>0, <3>2, <3>3, ResourceAddElsewhere
    <2>3. ASSUME NEW sender, NEW m \in Nft, NEW k, BurnNft(sender, m, k) \/ RejectNft(sender, m)
          PROVE  FALSE
      <3>1. \E budget, edges : NftBurn(m, budget, edges)
        BY <2>3 DEF BurnNft, RejectNft
      <3>2. nfts'[n] # None => resources'[n] = resources[n]
        BY <3>1 DEF NftBurn
      <3>3. QED
        BY <1>1, <2>0, <3>2
    <2>4. ASSUME NEW sender, NEW m \in Nft, NEW s \in ResourceType, AddResource(sender, m, s)
          PROVE  sender = LookupRootOwner(n)
      <3> DEFINE root == LookupRootOwner(m)
      <3>1. ResourceAdd(sender, m, <<s>>, root, FALSE)
        BY <2>4 DEF AddResource
      <3>2. n = m
        BY <2>0, <3>1, ResourceAddElsewhere
      <3>3. resources'[n][r] = [resource |-> s, pending |-> root # sender,
                                pending_removal |-> FALSE]
        <4> DEFINE next == nextResourceId[n]
        <4>1. next \in Int /\ Len(<<s>>) = 1 /\ r \in Int
          BY <2>0, CoreAssumption DEF TypeOK, ResourceId
        <4>2. r \notin next..(next + Len(<<s>>) - 1) => resources'[n][r] = resources[n][r]
          BY <2>0, <3>1, <3>2 DEF ResourceAdd, TypeOK
        <4>3. r \in next..(next + Len(<<s>>) - 1) =>
                 resources'[n][r] = [resource |-> <<s>>[r - next + 1],
                                     pending |-> root # sender /\ ~FALSE,
                                     pending_removal |-> FALSE]
          BY <2>0, <3>1, <3>2 DEF ResourceAdd, TypeOK
        <4>4. r \in next..(next + Len(<<s>>) - 1)
          BY <2>0, <4>2
        <4>5. r = next
          BY <4>1, <4>4
        <4>6. <<s>>[r - next + 1] = s
          BY <4>1, <4>5
        <4>7. QED
          BY <4>3, <4>4, <4>6
      <3>4. resources'[n][r] \in ResourceInfo
        BY <3>3 DEF ResourceInfo
      <3>5. resources'[n][r] # None
        BY <3>4, CoreAssumption
      <3>6. Active(n, r)'
        BY <1>1, <3>5
      <3>7. ~resources'[n][r].pending
        BY <3>6 DEF Active
      <3>8. resources'[n][r].pending = (root # sender)
        BY <3>3
      <3>9. QED
        BY <3>2, <3>7, <3>8
    <2>5. ASSUME NEW sender, NEW m \in Nft, NEW q \in ResourceId,
                 \/ AcceptResource(sender, m, q)
                 \/ RemoveResource(sender, m, q)
                 \/ AcceptResourceRemoval(sender, m, q)
          PROVE  sender = LookupRootOwner(n)
      <3>1. n = m /\ r = q /\ resources[n][r] \in ResourceInfo
        BY <2>0, <2>5 DEF AcceptResource, RemoveResource, AcceptResourceRemoval, TypeOK
      <3>2. CASE AcceptResource(sender, m, q) \/ AcceptResourceRemoval(sender, m, q)
        BY <3>1, <3>2 DEF AcceptResource, AcceptResourceRemoval
      <3>3. CASE RemoveResource(sender, m, q) /\ LookupRootOwner(m) # sender
        <4>1. resources'[n][r] = [resources[n][r] EXCEPT !.pending_removal = TRUE]
          BY <2>0, <3>1, <3>3 DEF RemoveResource, TypeOK
        <4>2. resources'[n][r] \in ResourceInfo /\ resources'[n][r].pending = resources[n][r].pending
          BY <3>1, <4>1 DEF ResourceInfo
        <4>3. QED
          BY <1>1, <3>1, <4>2, CoreAssumption DEF Active
      <3>4. QED
        BY <2>5, <3>1, <3>2, <3>3
    <2>6. ASSUME NEW sender \in Account, Extrinsic(sender) PROVE sender = LookupRootOwner(n)
      <3>1. CASE CollectionExtrinsic(sender)
        BY <2>1, <3>1
        DEF CollectionExtrinsic, CreateCollection, DestroyCollection, LockCollection,
            ChangeCollectionIssuer, AcceptOwnership, resourceVars
      <3>2. CASE NftExtrinsic(sender)
        BY <2>1, <2>2, <2>3, <3>2 DEF NftExtrinsic, Place, Send, NftSend, AcceptNft, resourceVars
      <3>3. CASE ResourceExtrinsic(sender)
        BY <2>1, <2>4, <2>5, <3>3
        DEF ResourceExtrinsic, AddBasicResource, AddComposableResource, AddSlotResource,
            BasicResource, ComposableResource, SlotResource, SetPriority, resourceVars
      <3>4. CASE PropertyExtrinsic(sender)
        BY <2>1, <3>4 DEF PropertyExtrinsic, SetProperty, resourceVars
      <3>5. QED
        BY <2>6, <3>1, <3>2, <3>3, <3>4 DEF Extrinsic
    <2>7. ASSUME NEW sender \in Account, OtherPallets(sender) PROVE FALSE
      BY <2>1, <2>7 DEF OtherPallets, SetLock, SetEquipped, Sell, NftSend, resourceVars
    <2>8. ASSUME UNCHANGED vars PROVE FALSE
      BY <2>1, <2>8 DEF vars, resourceVars
    <2>9. QED
      BY <1>1, <2>6, <2>7, <2>8 DEF Next, Extrinsic
  <1>2. CoreInv /\ [Next]_vars =>
          [\A n \in Nft, r \in ResourceId :
              (/\ nfts[n] # None /\ nfts'[n] # None
               /\ Turned(n, r))
                 => signer' = LookupRootOwner(n)]_vars
    BY <1>1
  <1>3. QED
    BY <1>2, CoreInvariant, PTL DEF Spec, RootOwnerConsentsToResources
=============================================================================
