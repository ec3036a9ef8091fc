------------------------------ MODULE RmrkMarket ------------------------------
(***************************************************************************)
(* pallets/rmrk-market over rmrk-core: owners list NFTs at a price, others *)
(* reserve money for offers, and a sale moves the money and the NFT in one *)
(* extrinsic.  Listings and offers live in maps of their own, which        *)
(* nothing else in the runtime clears: NFTs are sent, burned and rejected  *)
(* under them, and blocks pass.                                            *)
(*                                                                         *)
(* Everything else an account can do is rmrk-core's (Extrinsic), with      *)
(* rmrk-equip's flag still set at will.  "caller" is a history variable:   *)
(* the account that signed; in a purchase rmrk-core acts in the name of    *)
(* the seller (signer) and the buyer signs.                                *)
(***************************************************************************)
EXTENDS RmrkCore, FiniteSetsExt

CONSTANTS Amount,              \* prices and offers
          Expiry,              \* the "expires" arguments: block numbers or None
          MinimumOfferAmount,  \* Config::MinimumOfferAmount
          ExistentialDeposit,  \* pallet_balances: an account keeps at least this
          InitialBalances,     \* what accounts own in genesis
          LastBlock            \* bound of a run: no block follows

VARIABLES listedNfts,          \* ListedNfts: listed_by, amount, expires
          offers,              \* Offers, of an NFT by an account: maker, amount, expires
          balance,             \* pallet_balances: free and reserved
          block,               \* frame_system's block number
          caller               \* history: who signed the last extrinsic

marketStorage == <<listedNfts, offers, balance>>
marketVars == <<marketStorage, block, caller>>

ListInfo == [listed_by : Account, amount : Amount, expires : Expiry]
Offer == [maker : Account, amount : Amount, expires : Expiry]
NoOffers == [a \in Account |-> None]

ASSUME MarketAssumption ==
    /\ Amount \subseteq Nat
    /\ Expiry \subseteq Nat \cup {None}
    /\ MinimumOfferAmount \in Nat
    /\ ExistentialDeposit \in Nat
    /\ InitialBalances \subseteq [Account -> Nat]
    /\ LastBlock \in Nat
    /\ LockChoices = BOOLEAN
    /\ None \notin ListInfo \cup Offer

MarketTypeOK ==
    /\ TypeOK
    /\ listedNfts \in [Nft -> ListInfo \cup {None}]
    /\ offers \in [Nft -> [Account -> Offer \cup {None}]]
    /\ balance \in [Account -> [free : Nat, reserved : Nat]]
    /\ block \in Nat
    /\ caller \in Account \cup {None}

MarketInit ==
    /\ Init
    /\ listedNfts = [n \in Nft |-> None]
    /\ offers = [n \in Nft |-> NoOffers]
    /\ \E worth \in InitialBalances :
          balance = [a \in Account |-> [free |-> worth[a], reserved |-> 0]]
    /\ block = 0
    /\ caller = None

-----------------------------------------------------------------------------
(* pallet_balances, as far as the market uses it *)
Worth(b, who) == b[who].free + b[who].reserved

Reserve(b, who, amount) ==
    [b EXCEPT ![who] = [free |-> @.free - amount, reserved |-> @.reserved + amount]]

\* unreserve gives back what is there and reports the rest, which nobody looks at.
Unreserve_nothing(b, who, amount) == b

Unreserve(b, who, amount) ==
    LET actual == IF amount <= b[who].reserved THEN amount ELSE b[who].reserved IN
    [b EXCEPT ![who] = [free |-> @.free + actual, reserved |-> @.reserved - actual]]

CanTransfer_reserved(b, from, to, amount) ==
    amount > 0 =>
       /\ Worth(b, from) - amount >= ExistentialDeposit
       /\ Worth(b, to) + amount >= ExistentialDeposit

\* transfer with KeepAlive, between different accounts; nothing is asked for nothing.
CanTransfer(b, from, to, amount) ==
    amount > 0 =>
       /\ amount <= b[from].free
       /\ Worth(b, from) - amount >= ExistentialDeposit
       /\ Worth(b, to) + amount >= ExistentialDeposit

Transfer(b, from, to, amount) ==
    [b EXCEPT ![from].free = @ - amount, ![to].free = @ + amount]

-----------------------------------------------------------------------------
(* Listings and purchases *)
Expired_never(x) == FALSE

Expired(x) == x.expires # None /\ x.expires <= block

List(sender, n, amount, expires) ==
    /\ item[n] = sender
    /\ nfts[n] # None
    /\ nfts[n].transferable
    /\ SetLock(n, TRUE)
    /\ listedNfts' = [listedNfts EXCEPT
                         ![n] = [listed_by |-> sender, amount |-> amount, expires |-> expires]]
    /\ UNCHANGED <<offers, balance>>

Unlist_keepsLock(sender, n) ==
    /\ listedNfts[n] # None
    /\ item[n] = sender
    /\ SetLock(n, lock[n])
    /\ listedNfts' = [listedNfts EXCEPT ![n] = None]
    /\ UNCHANGED <<offers, balance>>

\* Also of a listing that a former owner left behind.
Unlist(sender, n) ==
    /\ listedNfts[n] # None
    /\ item[n] = sender
    /\ SetLock(n, FALSE)
    /\ listedNfts' = [listedNfts EXCEPT ![n] = None]
    /\ UNCHANGED <<offers, balance>>

\* do_buy, once the price is known: b is what the accounts own by now.
DoBuy(buyer, n, price, b) ==
    LET owner == item[n] IN
    /\ buyer # owner
    /\ CanTransfer(b, buyer, owner, price)
    /\ Sell(owner, n, buyer)
    /\ balance' = Transfer(b, buyer, owner, price)

IsForSale_byAnybody(n) ==
    /\ listedNfts[n] # None
    /\ item[n] \in Account
    /\ ~Expired(listedNfts[n])

\* The listing of a former owner does not count.
IsForSale(n) ==
    /\ listedNfts[n] # None
    /\ item[n] = listedNfts[n].listed_by
    /\ ~Expired(listedNfts[n])

\* The buyer may name the price it expects.
Buy(sender, n, amount) ==
    /\ IsForSale(n)
    /\ amount \in {None, listedNfts[n].amount}
    /\ DoBuy(sender, n, listedNfts[n].amount, balance)
    /\ listedNfts' = [listedNfts EXCEPT ![n] = None]
    /\ UNCHANGED offers

-----------------------------------------------------------------------------
(* Offers *)

\* One at a time, on an NFT that is somebody else's or another NFT's.
MakeOffer(sender, n, amount, expires) ==
    /\ amount >= MinimumOfferAmount
    /\ item[n] \notin {None, sender}
    /\ offers[n][sender] = None
    /\ amount <= balance[sender].free
    /\ balance' = Reserve(balance, sender, amount)
    /\ offers' = [offers EXCEPT
                     ![n][sender] = [maker |-> sender, amount |-> amount, expires |-> expires]]
    /\ UNCHANGED <<listedNfts, vars>>

\* The NFT must still have an item.
WithdrawOffer(sender, n) ==
    LET offer == offers[n][sender] IN
    /\ offer # None
    /\ item[n] # None
    /\ sender \in {item[n], offer.maker}
    /\ balance' = Unreserve(balance, offer.maker, offer.amount)
    /\ offers' = [offers EXCEPT ![n][sender] = None]
    /\ UNCHANGED <<listedNfts, vars>>

\* The listing, if there is one, stays, and the NFT is not locked any more.
AcceptOffer(sender, n, offerer) ==
    LET offer == offers[n][offerer] IN
    /\ item[n] = sender
    /\ offer # None
    /\ ~Expired(offer)
    /\ DoBuy(offer.maker, n, offer.amount, Unreserve(balance, offer.maker, offer.amount))
    /\ offers' = [offers EXCEPT ![n][offerer] = None]
    /\ UNCHANGED listedNfts

-----------------------------------------------------------------------------
\* A purchase runs in rmrk-core in the name of the seller, the rest in the caller's.
MarketExtrinsic(sender) ==
    \E n \in Nft :
       \/ /\ signer' = sender
          /\ \/ \E amount \in Amount, expires \in Expiry : List(sender, n, amount, expires)
             \/ Unlist(sender, n)
             \/ \E offerer \in Account : AcceptOffer(sender, n, offerer)
       \/ \E amount \in Amount, expires \in Expiry : MakeOffer(sender, n, amount, expires)
       \/ WithdrawOffer(sender, n)
       \/ signer' = item[n] /\ \E amount \in Amount \cup {None} : Buy(sender, n, amount)

\* What the other pallets offer to the caller; of rmrk-equip only the flag is seen here.
CoreExtrinsic(sender) ==
    /\ \/ Extrinsic(sender)
       \/ /\ signer' = sender
          /\ \E n \in Nft, b \in EquippedChoices : SetEquipped(n, b)
       \/ UNCHANGED vars
    /\ UNCHANGED marketStorage

NextBlock ==
    /\ block < LastBlock
    /\ block' = block + 1
    /\ UNCHANGED <<vars, marketStorage, caller>>

MarketNext ==
    \/ \E sender \in Account :
          /\ caller' = sender
          /\ MarketExtrinsic(sender) \/ CoreExtrinsic(sender)
          /\ UNCHANGED block
    \/ NextBlock

MarketSpec == MarketInit /\ [][MarketNext]_<<vars, marketVars>>

-----------------------------------------------------------------------------
(* Properties *)

(* To rmrk-core the market is nothing but locks and sends in the name of     *)
(* owners: with listings, offers and money around it, all that RmrkCore       *)
(* promises still holds (lib.rs:505-520 goes through rmrk-core's send).       *)
(* Proved, not run: TLC would try all of Next on every step.                  *)
MarketKeepsCore == Spec

(* What an account has reserved is what its offers in storage add up to:     *)
(* offers that expired or whose NFT is gone included, and no reserve is       *)
(* released twice (lib.rs:337, 391, 435).                                     *)
ReservesCoverOffers ==
    \A a \in Account :
        balance[a].reserved = MapThenSumSet(LAMBDA n : offers[n][a].amount,
                                            {n \in Nft : offers[n][a] # None})

(* No NFT is locked for ever: as long as it has an item, its owner is the one *)
(* that listed it and can unlist it (lib.rs:256, 295, 506; only unlist and    *)
(* do_buy unlock).                                                            *)
LockedAreListed ==
    \A n \in Nft : (lock[n] /\ item[n] # None) =>
        listedNfts[n] # None /\ listedNfts[n].listed_by = item[n]

InTime(x) == x.expires = None \/ block < x.expires

(* An account loses an NFT without signing only if it listed it itself, the  *)
(* listing has not expired, and it gets the price it asked for               *)
(* (lib.rs:483-500).                                                          *)
OwnersArePaid ==
    [][\A n \in Nft :
          (item[n] \in Account /\ item'[n] # item[n] /\ caller' # item[n]) =>
             LET listing == listedNfts[n] owner == item[n] IN
             /\ listing # None
             /\ listing.listed_by = owner
             /\ InTime(listing)
             /\ Worth(balance', owner) = Worth(balance, owner) + listing.amount
      ]_<<vars, marketVars>>

(* Whoever loses money gets an NFT for it, from somebody who gets exactly    *)
(* that money, and has signed the purchase or made, and not withdrawn, an     *)
(* offer of that amount that has not expired (lib.rs:427-436, 512-520).       *)
BuyersAgreed ==
    [][\A a \in Account :
          LET paid == Worth(balance, a) - Worth(balance', a) IN
          paid > 0 =>
             \E n \in Nft :
                /\ item[n] \in Account \ {a} /\ item'[n] = a
                /\ Worth(balance', item[n]) = Worth(balance, item[n]) + paid
                /\ caller' = a \/ /\ offers[n][a] # None
                                  /\ offers[n][a].amount = paid
                                  /\ InTime(offers[n][a])
      ]_<<vars, marketVars>>

(* lib.rs:255: a listed NFT is locked "to prevent transfers or interactions"; *)
(* lib.rs:196-197: one that can be bought has not been purchased or sent.     *)
ForSaleIsLocked == \A n \in Nft : IsForSale(n) => lock[n]
=============================================================================
