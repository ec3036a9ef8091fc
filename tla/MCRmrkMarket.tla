---------------------------- MODULE MCRmrkMarket ----------------------------
(***************************************************************************)
(* Small instances of RmrkMarket.  Accounts are interchangeable; the two   *)
(* history variables are left out of the view, no guard reads them.        *)
(***************************************************************************)
EXTENDS RmrkMarket, TLC

CONSTANTS a1, a2

Symmetry == Permutations({a1, a2})
View == <<uniquesVars, collectionVars, nftVars, resourceVars, metaVars, lock,
          marketStorage, block>>

MCAscending == [n \in Nft |-> n[2]]
MCNoResources == {<<>>}
MCExpiry == {None, 1}

\* Everybody can reserve the higher price, but nobody can pay it before a first sale.
MCInitialBalances == {[a \in Account |-> 2]}

-----------------------------------------------------------------------------
(* Bounds *)

\* Only the first NFT is dealt with, with one offer at a time beside its listing; the
\* second one is its owner, its child or a stranger.
FewDeals ==
    /\ \A n \in Nft : n[2] > 0 => listedNfts[n] = None /\ offers[n] = NoOffers
    /\ Cardinality({d \in Nft \X Account : offers[d[1]][d[2]] # None}) <= 1

\* It stays with the issuer or in an NFT, to which it did not go by a virtual account, and its
\* record says so.
SecondStays ==
    \A n \in Nft : n[2] > 0 /\ nfts[n] # None =>
        /\ ~nfts[n].pending
        /\ item[n] \notin Account \ {collections[n[1]].issuer}
        /\ nfts[n].owner = OwnerOf[n]

OneEntry == Cardinality(children) <= 1

\* No extrinsic is followed once an NFT is equipped.
NoneEquipped == \A n \in Nft : nfts[n] # None => ~nfts[n].equipped

\* The run follows the NFTs of one collection that is neither locked nor destroyed and
\* keeps its issuer.
SupplyOpen ==
    \A c \in CollectionId : collections[c] # None =>
        /\ collections'[c] # None
        /\ collections'[c].max = collections[c].max
        /\ collections'[c].issuer = collections[c].issuer
=============================================================================
