----------------------------- MODULE MCRmrkCore -----------------------------
(***************************************************************************)
(* Small instances of RmrkCore.  Accounts are interchangeable (symmetry);  *)
(* signer is left out of the view: no guard reads it, so states that       *)
(* differ only in it have the same future, and the action properties that  *)
(* name it are checked on every step all the same.                         *)
(***************************************************************************)
EXTENDS RmrkCore, TLC

CONSTANTS a1, a2

Symmetry == Permutations({a1, a2})
View == <<uniquesVars, collectionVars, nftVars, resourceVars, metaVars, lock>>

\* The order of the hashes of the NFT ids: ascending, or descending.
MCAscending == [n \in Nft |-> n[2]]
MCDescending == [n \in Nft |-> NftIdMax - n[2]]

\* No limit, or a limit of one NFT.
MCMaxChoices == {None, 0, 1}

\* No NFT is minted with resources.
MCNoResources == {<<>>}

-----------------------------------------------------------------------------
(* Bounds *)

\* One entry, true or stale, or two that chain three NFTs.  A burn over any set of entries
\* is for MCRmrkBurn.
OneEntry == Cardinality(children) <= 1
OneChain ==
    \/ OneEntry
    \/ Cardinality(children) = 2 /\ \E e, f \in children : e[2] = f[1]

\* Of the NFTs that have a record only one at a time is pending, has a stale owner in its
\* record, has gone to a virtual account directly or has no root owner, and at most one NFT
\* has lost its record.
Odd(n) ==
    \/ nfts[n].pending
    \/ nfts[n].owner \in VirtualAccount
    \/ DecodeNftAccountId(nfts[n].owner) # OwnerOf[n]
    \/ LookupRootOwner(n) = None
OneOdd ==
    /\ Cardinality({n \in UsedIds : nfts[n] # None /\ Odd(n)}) <= 1
    /\ Cardinality({n \in UsedIds : nfts[n] = None}) <= 1

\* No extrinsic is followed once an NFT has no root owner or has gone to a virtual account
\* directly.
Rooted ==
    \A n \in Nft :
       /\ item[n] # None => LookupRootOwner(n) # None
       /\ nfts[n] # None => nfts[n].owner \notin VirtualAccount

\* No extrinsic is followed once a third NFT is minted.
FewNfts == Cardinality(UsedIds) <= 2

\* The run follows the NFTs of one collection that is neither locked nor destroyed.
SupplyOpen ==
    \A c \in CollectionId : collections[c] # None =>
        collections'[c] # None /\ collections'[c].max = collections[c].max
=============================================================================
