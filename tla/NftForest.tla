------------------------------ MODULE NftForest ------------------------------
(***************************************************************************)
(* Nesting as a graph.  "parent" is a function that gives, for every NFT,  *)
(* the NFT that owns it, or a value outside DOMAIN parent when an account  *)
(* (or nobody) owns it.  pallets/rmrk-core climbs this graph recursively,  *)
(* through the virtual accounts kept by pallet_uniques, and without a      *)
(* depth limit.  Nothing makes the graph a forest: NFTs may own each other *)
(* in a circle, and then the climb from them never ends.                   *)
(***************************************************************************)

\* lookup_root_owner climbs from n to the NFT that no NFT owns.
RootNft(parent, n) ==
    LET root[m \in DOMAIN parent] ==
            IF parent[m] \in DOMAIN parent THEN root[parent[m]] ELSE m
    IN root[n]

\* is_x_descendent_of_y climbs from x and looks for y among the owners it meets.
IsDescendant(parent, x, y) ==
    LET below[m \in DOMAIN parent] ==
            IF parent[m] \in DOMAIN parent THEN parent[m] = y \/ below[parent[m]] ELSE FALSE
    IN below[x]

\* The climb from n meets an NFT that no NFT owns, and so both recursions return: n is in no
\* set of NFTs that are all owned by NFTs of that set.
Nested(parent) == {m \in DOMAIN parent : parent[m] \in DOMAIN parent}
ClimbEnds(parent, n) ==
    \A S \in SUBSET Nested(parent) : n \in S => \E m \in S : parent[m] \notin S

\* The graph with n hung under q (an NFT, or a value that is none).
Hang(parent, n, q) == [parent EXCEPT ![n] = q]

-----------------------------------------------------------------------------
(* For the proofs: what the climb from n meets, n included.                 *)

UpClosed(parent, S) ==
    \A m \in S : parent[m] \in DOMAIN parent => parent[m] \in S

Chain(parent, n) ==
    {m \in DOMAIN parent :
        \A S \in SUBSET DOMAIN parent : (n \in S /\ UpClosed(parent, S)) => m \in S}
=============================================================================
