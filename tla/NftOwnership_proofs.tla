------------------------- MODULE NftOwnership_proofs -------------------------
(***************************************************************************)
(* The abstract specification keeps its promises for any set of accounts   *)
(* and of NFTs.                                                            *)
(***************************************************************************)
EXTENDS NftOwnership, NftForest_proofs

\* Accounts, NFTs and None are told apart.
Sorts == Account \cap Nft = {} /\ None \notin Account /\ None \notin Nft

\* Inductive: an NFT not minted yet has no owner, although others may belong to it already.
\* They have no root owner either, so that minting it takes nothing from anybody.
Inv == TypeOK /\ \A n \in Nft \ used : owner[n] = None

(* Nothing has an owner at first.                                            *)
LEMMA InitInv == Init => Inv
  BY DEF Init, Inv, TypeOK

(* So the climb from it ends at once, without a root owner.                  *)
LEMMA UnusedIsARoot ==
    ASSUME Sorts, Inv, NEW n \in Nft \ used
    PROVE  ClimbEnds(owner, n) /\ RootNft(owner, n) = n /\ RootOwner(n) = None
  <1>1. n \in DOMAIN owner /\ owner[n] = None /\ None \notin DOMAIN owner
    BY DEF Sorts, Inv, TypeOK
  <1>2. ClimbEnds(owner, n) /\ RootNft(owner, n) = n
    BY <1>1, TopsStep, EndsAtTop, RootNftStep
  <1>3. QED
    BY <1>1, <1>2 DEF RootOwner

(* The invariant is inductive.                                               *)
LEMMA NextInv == Sorts /\ Inv /\ [Next]_vars => Inv'
  <1> SUFFICES ASSUME Sorts, Inv, [Next]_vars PROVE Inv'
    OBVIOUS
  <1>1. ASSUME NEW n \in Nft, NEW o \in Owner, Mint(n, o) PROVE Inv'
    BY <1>1 DEF Inv, TypeOK, Mint, Hang
  <1>2. ASSUME NEW n \in Nft, NEW o \in Owner \cup {None},
               owner' = Hang(owner, n, o), signer' = RootOwner(n), signer' \in Account,
               UNCHANGED used
        PROVE  Inv'
    <2>1. n \in used
      BY <1>2, UnusedIsARoot DEF Sorts
    <2>2. QED
      BY <1>2, <2>1 DEF Inv, TypeOK, Hang
  <1>3. CASE Other
    BY <1>3 DEF Inv, TypeOK, Other
  <1>4. CASE UNCHANGED vars
    BY <1>4 DEF Inv, TypeOK, vars
  <1>5. QED
    BY <1>1, <1>2, <1>3, <1>4 DEF Next, Move, Retire

-----------------------------------------------------------------------------
(* One NFT changes hands *)

(* The others keep where their climbs end, unless they were below it.        *)
LEMMA OthersKeepTheirRoot ==
    ASSUME Inv, NEW n \in Nft, NEW o, owner' = Hang(owner, n, o),
           NEW m \in Nft, n \notin Chain(owner, m)
    PROVE  /\ RootOwner(m)' = RootOwner(m)
           /\ ClimbEnds(owner, m)' <=> ClimbEnds(owner, m)
           /\ ClimbEnds(owner, m) =>
                 /\ RootNft(owner, m)' = RootNft(owner, m)
                 /\ owner'[RootNft(owner, m)] = owner[RootNft(owner, m)]
  <1>1. DOMAIN owner = Nft
    BY DEF Inv, TypeOK
  <1>2. /\ ClimbEnds(Hang(owner, n, o), m) <=> ClimbEnds(owner, m)
        /\ ClimbEnds(owner, m) =>
              /\ RootNft(Hang(owner, n, o), m) = RootNft(owner, m)
              /\ RootNft(owner, m) # n
    BY <1>1, HangElsewhere
  <1>3. ClimbEnds(owner, m) => RootNft(owner, m) \in Nft
    BY <1>1, RootNftOnTop
  <1>4. ClimbEnds(owner, m) => owner'[RootNft(owner, m)] = owner[RootNft(owner, m)]
    BY <1>1, <1>2, <1>3 DEF Hang
  <1>5. ClimbEnds(owner', m) <=> ClimbEnds(owner, m)
    BY <1>2
  <1>6. ClimbEnds(owner, m) => RootNft(owner', m) = RootNft(owner, m)
    BY <1>2
  <1>7. RootOwner(m)' = IF ClimbEnds(owner', m) THEN owner'[RootNft(owner', m)] ELSE None
    BY DEF RootOwner
  <1>8. RootOwner(m)' = RootOwner(m)
    BY <1>4, <1>5, <1>6, <1>7 DEF RootOwner
  <1>9. QED
    BY <1>4, <1>5, <1>6, <1>8

(* What is below it has its root and root owner.                             *)
LEMMA BelowIsTheSame ==
    ASSUME Inv, NEW n \in Nft, NEW m \in Nft, n \in Chain(owner, m)
    PROVE  /\ RootOwner(m) = RootOwner(n)
           /\ ClimbEnds(owner, m) <=> ClimbEnds(owner, n)
           /\ RootNft(owner, m) = RootNft(owner, n)
  BY SameEnd, SameRoot DEF Inv, TypeOK, RootOwner

(* No NFT passes to another root owner, and none is retired, unless its root *)
(* owner signed.                                                             *)
THEOREM ConsentIsAsked ==
    ASSUME Sorts
    PROVE  Spec => RootOwnerConsents
  <1> DEFINE A == \A n \in Nft :
                     (RootOwner(n) \in Account /\ RootOwner(n) # signer')
                        => RootOwner(n)' = RootOwner(n)
  <1>1. Inv /\ [Next]_vars => [A]_vars
    <2> SUFFICES ASSUME Inv, Next, NEW m \in Nft,
                        RootOwner(m) \in Account, RootOwner(m) # signer'
                 PROVE  RootOwner(m)' = RootOwner(m)
      OBVIOUS
    <2>1. ASSUME NEW n \in Nft, NEW o, owner' = Hang(owner, n, o),
                 RootOwner(n) \in {None, signer'}
          PROVE  RootOwner(m)' = RootOwner(m)
      <3>1. RootOwner(m) # RootOwner(n)
        BY <2>1 DEF Sorts
      <3>2. n \notin Chain(owner, m)
        BY <3>1, BelowIsTheSame
      <3>3. QED
        BY <2>1, <3>2, OthersKeepTheirRoot
    <2>2. ASSUME NEW n \in Nft, NEW o, Mint(n, o) PROVE RootOwner(m)' = RootOwner(m)
      BY <2>1, <2>2, UnusedIsARoot DEF Mint
    <2>3. ASSUME NEW n \in Nft, NEW o, Move(n, o) PROVE RootOwner(m)' = RootOwner(m)
      BY <2>1, <2>3 DEF Move
    <2>4. ASSUME NEW n \in Nft, Retire(n) PROVE RootOwner(m)' = RootOwner(m)
      BY <2>1, <2>4 DEF Retire
    <2>5. CASE Other
      BY <2>5 DEF Other, RootOwner
    <2>6. QED
      BY <2>2, <2>3, <2>4, <2>5 DEF Next
  <1>2. QED
    BY <1>1, InitInv, NextInv, PTL DEF Spec, RootOwnerConsents

(* What has no root owner any more is out of reach for good.                 *)
THEOREM LostForGood ==
    ASSUME Sorts
    PROVE  Spec => LostStaysLost
  <1> DEFINE A == \A n \in Nft : Lost(n) => Lost(n)'
  <1>1. Inv /\ [Next]_vars => [A]_vars
    <2> SUFFICES ASSUME Inv, Next, NEW m \in Nft, Lost(m) PROVE Lost(m)'
      OBVIOUS
    <2>1. RootOwner(m) = None
      BY DEF Lost, RootOwner
    <2>2. ASSUME NEW n \in Nft, NEW o, owner' = Hang(owner, n, o), used \subseteq used',
                 n \notin Chain(owner, m)
          PROVE  Lost(m)'
      BY <2>2, OthersKeepTheirRoot DEF Lost
    <2>3. ASSUME NEW n \in Nft, NEW o, owner' = Hang(owner, n, o), UNCHANGED used,
                 RootOwner(n) \in Account
          PROVE  Lost(m)'
      <3>1. n \notin Chain(owner, m)
        BY <2>1, <2>3, BelowIsTheSame DEF Sorts
      <3>2. QED
        BY <2>2, <2>3, <3>1
    <2>4. ASSUME NEW n \in Nft, NEW o, Mint(n, o) PROVE Lost(m)'
      <3>1. ClimbEnds(owner, n) /\ RootNft(owner, n) = n
        BY <2>4, UnusedIsARoot DEF Mint
      <3>2. n \notin Chain(owner, m)
        BY <2>4, <3>1, BelowIsTheSame DEF Lost, Mint
      <3>3. QED
        BY <2>2, <2>4, <3>2 DEF Mint
    <2>5. CASE Other
      BY <2>5 DEF Other, Lost
    <2>6. QED
      BY <2>3, <2>4, <2>5 DEF Next, Move, Retire
  <1>2. QED
    BY <1>1, InitInv, NextInv, PTL DEF Spec, LostStaysLost
=============================================================================
