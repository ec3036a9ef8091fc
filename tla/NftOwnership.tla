----------------------------- MODULE NftOwnership -----------------------------
(***************************************************************************)
(* What rmrk-core promises about ownership, and nothing of how: an NFT is  *)
(* given to any account or NFT whatsoever, itself included, but only the   *)
(* account at the root of what it belongs to gives it away or retires it.  *)
(* An NFT that belongs to itself, or in the end to a retired NFT, has no   *)
(* such account.  There are no pending flags, Children edges, records,     *)
(* collections or locks here.                                              *)
(***************************************************************************)
EXTENDS NftForest

CONSTANTS Account,  \* the accounts that sign extrinsics
          Nft,      \* every NFT that can ever exist
          None      \* no owner: never minted, or retired

VARIABLES owner,    \* the account or NFT that owns each NFT
          used,     \* the NFTs minted so far: an identifier is never used twice
          signer    \* who signed the last extrinsic

vars == <<owner, used, signer>>

Owner == Account \cup Nft

TypeOK ==
    /\ owner \in [Nft -> Owner \cup {None}]
    /\ used \in SUBSET Nft
    /\ signer \in Account \cup {None}

\* The account n belongs to in the end, if there is one.
RootOwner(n) == IF ClimbEnds(owner, n) THEN owner[RootNft(owner, n)] ELSE None

Init ==
    /\ owner = [n \in Nft |-> None]
    /\ used = {}
    /\ signer = None

Mint(n, o) ==
    /\ n \notin used
    /\ used' = used \cup {n}
    /\ owner' = Hang(owner, n, o)
    /\ signer' \in Account

Move(n, o) ==
    /\ owner' = Hang(owner, n, o)
    /\ signer' = RootOwner(n)
    /\ signer' \in Account
    /\ UNCHANGED used

\* What n owned stays where it is, under an owner that no longer exists.
Retire(n) ==
    /\ owner' = Hang(owner, n, None)
    /\ signer' = RootOwner(n)
    /\ signer' \in Account
    /\ UNCHANGED used

\* Whatever leaves ownership alone: resources, properties, locks, offers...
Other ==
    /\ signer' \in Account \cup {None}
    /\ UNCHANGED <<owner, used>>

Next ==
    \/ Other
    \/ \E n \in Nft : Retire(n)
    \/ \E n \in Nft, o \in Owner : Mint(n, o) \/ Move(n, o)

Spec == Init /\ [][Next]_vars

(* Root owner consent: an account that does not sign keeps all that belongs   *)
(* to it in the end, and nothing of it is retired.                            *)
RootOwnerConsents ==
    [][\A n \in Nft :
          (RootOwner(n) \in Account /\ RootOwner(n) # signer')
             => RootOwner(n)' = RootOwner(n)]_vars

(* An NFT is lost when the climb from it goes round in a circle, or ends at   *)
(* an NFT that is retired.  What is lost stays lost: no account ever becomes  *)
(* its root owner again.                                                      *)
Lost(n) ==
    \/ ~ClimbEnds(owner, n)
    \/ owner[RootNft(owner, n)] = None /\ RootNft(owner, n) \in used

LostStaysLost == [][\A n \in Nft : Lost(n) => Lost(n)']_vars
=============================================================================
