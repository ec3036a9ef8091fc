---------------------------- MODULE MCRmrkRuntime ----------------------------
(***************************************************************************)
(* Small instances of RmrkRuntime.  Accounts are interchangeable.  What no *)
(* guard reads is left out of the view: signer, caller, what was worn in a *)
(* slot that is empty now, and the block number, since nothing listed or   *)
(* offered in these instances expires.                                     *)
(***************************************************************************)
EXTENDS RmrkRuntime, TLC

CONSTANTS a1, a2

Symmetry == Permutations({a1, a2})
InSlots == [e \in Nft |-> [x \in Slot |-> IF equippings[e][x] = None THEN None ELSE worn[e][x]]]
View == <<uniquesVars, collectionVars, nftVars, resourceVars, metaVars, lock,
          marketStorage, baseVars, equippings, InSlots>>

MCAscending == [n \in Nft |-> n[2]]
MCInitialBalances == {[a \in Account |-> 1]}

ShowsBase == [base |-> 0, slot |-> None]
ForSlot == [base |-> None, slot |-> <<0, 0>>]

\* The resources given to a mint: none, or one that shows the base or one for its slot.
MCMintedResources == {<<>>, <<ShowsBase>>, <<ForSlot>>}

\* One part, under id 0: a slot for the only collection, or fixed; and a list where a fixed
\* part is overwritten by a slot that takes nothing.
SlotPart(l) == [id |-> 0, part |-> [slot |-> TRUE, equippable |-> l]]
FixedPart == [id |-> 0, part |-> [slot |-> FALSE, equippable |-> {}]]
MCPartLists == {<<SlotPart({0})>>, <<FixedPart, SlotPart({})>>, <<SlotPart({0}), FixedPart>>}
MCEquippableLists == {{}, {0}}

-----------------------------------------------------------------------------
(* Bounds *)

OneEntry == Cardinality(children) <= 1
OneListing == Cardinality({n \in Nft : listedNfts[n] # None}) <= 1

\* A base, its themes and its issuer come before the NFTs, whose collection somebody else
\* issues; what it has is a slot by then, which is opened and closed at any time.
BasesFirst ==
    /\ themes # {} => collectionIndex = 0
    /\ (UsedIds # {} /\ collections[0] # None) => \A b \in BaseId :
          /\ bases[b] \in Account \ {collections[0].issuer}
          /\ parts[b][0].slot

\* The first NFT wears, the second is worn.  The one belongs to an account, once there are
\* two, until it is burned, and shows the base from its mint on; the other has resources for
\* the slot, did not go to a virtual account, other than by acceptance, and not into itself.
Wearer == <<0, 0>>
Worn == <<0, 1>>
Roles ==
    /\ Worn \in UsedIds => item[Wearer] \in Account /\ nfts[Wearer] # None
    /\ nfts[Worn] # None => nfts[Worn].owner \notin VirtualAccount
    /\ ClimbEnds(OwnerOf, Worn)
    /\ nextResourceId[Wearer] <= 1
    /\ resources[Wearer][0] \in {None, [resource |-> ShowsBase, pending |-> FALSE,
                                       pending_removal |-> FALSE]}
    /\ \A r \in ResourceId : resources[Worn][r] # None => resources[Worn][r].resource = ForSlot
    /\ priorities[Wearer] = NoResources
    /\ properties[Wearer] = NoProperties /\ properties[<<0, None>>] = NoProperties

\* At most two of all resources, a property and an order of priorities, which is one of one
\* resource (longer lists are checked, what comes after them is not followed).
TwoAdornments ==
    /\ \A r \in ResourceId : priorities[Worn][r] \in {None, 0}
    /\ nextResourceId[Wearer] + nextResourceId[Worn]
         + Cardinality({k \in Key : properties[Worn][k] # None})
         + Cardinality({r \in ResourceId : priorities[Worn][r] # None}) <= 2

\* The run follows the NFTs of one collection that is neither locked nor destroyed and
\* keeps its issuer.
SupplyOpen ==
    \A c \in CollectionId : collections[c] # None =>
        /\ collections'[c] # None
        /\ collections'[c].max = collections[c].max
        /\ collections'[c].issuer = collections[c].issuer
=============================================================================
