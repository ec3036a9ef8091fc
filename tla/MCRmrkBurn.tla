----------------------------- MODULE MCRmrkBurn -----------------------------
(***************************************************************************)
(* All burns among three NFTs of two collections.                          *)
(***************************************************************************)
EXTENDS RmrkBurn

MCPresent == {<<0, 0>>, <<0, 1>>, <<1, 0>>}
MCNoResources == {<<>>}

\* The hash order mixes the collections.
MCHashRank == [n \in Nft |-> 2 * n[2] + n[1]]

-----------------------------------------------------------------------------
(* Bound: one of the entries the call finds may be that of an NFT of itself,*)
(* or of an NFT without a record, if there are at most three of them; when  *)
(* none is, there may be all six.                                           *)
OneOddEntry ==
    LET odd == {e \in before.children : e[1] = e[2] \/ before.nfts[e[1]] = None} IN
    odd = {} \/ (Cardinality(odd) = 1 /\ Cardinality(before.children) <= 3)
=============================================================================
