# RMRK in TLA+

Specifications of the RMRK pallets of this repository: NFTs that own NFTs, their resources, and
the marketplace and the equipping built on them. What can be checked on small instances is checked
with TLC, what matters most is proved with TLAPS for every number of accounts, collections, NFTs
and resources.

All three pallets are modelled completely, each in a module of its own, and composed as the runtime
composes them. The one recursion of the code that writes, `nft_burn`, is modelled a second time from
the inside.

## 1. The system

RMRK is a set of FRAME pallets. A pallet is a state machine: storage maps and extrinsics signed by
accounts. A block executes extrinsics one after the other, in one thread, so extrinsics never
overlap; **what interleaves is the extrinsics of different accounts**, in any order and with
anything in between. The extrinsics of rmrk-core and rmrk-market are `#[transactional]`: one that
returns an error leaves no trace. Those of rmrk-equip are not, but none writes before its last check.
There is no I/O, no message and no timer at this level, and nothing to recover after a crash: a block
is executed as a whole or not at all.

| component | state | operations | talks to |
|---|---|---|---|
| **rmrk-core: nesting** (`pallets/rmrk-core`) | `Nfts`, `Children`, `NextNftId`, `Lock` | mint_nft, mint_nft_directly_to_nft, burn_nft, send, accept_nft, reject_nft | uniques (mint, burn, transfer, who owns) |
| **rmrk-core: collections** | `CollectionIndex`, `Collections` | create, destroy, lock, change_collection_issuer | uniques (classes, ownership acceptance) |
| **rmrk-core: resources, priorities, properties** | `NextResourceId`, `Resources`, `EquippableBases`, `EquippableSlots`, `Priorities`, `Properties` | add_basic/composable/slot_resource, accept_resource, remove_resource, accept_resource_removal, set_priority, set_property | root owner lookup |
| **traits** (`traits/src`) | none | the records and interfaces the pallets share | |
| **pallet_uniques** (external) | class, item, acceptance | create, destroy, mint, burn, transfer | asks rmrk-core's `Lock` before a transfer (runtime `Locker`) |
| **rmrk-market** | `ListedNfts`, `Offers`, reserved balances | list, unlist, buy, make_offer, withdraw_offer, accept_offer | sets `Lock`, calls nft_send |
| **rmrk-equip** | `NextBaseId`, `Bases`, `Parts`, `Equippings`, `Themes` | create_base, change_base_issuer, equip, equippable, theme_add | reads records, locks and the indexes of resources, looks up root owners, sets `equipped` |
| **runtime** (`runtime/src/lib.rs`) | none | composes the pallets, filters calls, sets their parameters | all of them |
| node, template pallet | | Substrate boilerplate | |

How ownership works is the key to everything else. uniques only knows accounts. An NFT that owns
another does so through a *virtual account* computed from its ids (`nft_to_account_id`), and the
account at the top of a tree, its *root owner*, is found by climbing from owner to owner
(`lookup_root_owner`). Beside that, rmrk-core keeps the owner again in the record of the NFT
(`Nfts`), and the reverse edges in `Children`. Neither copy always follows: a send that needs
approval moves the item and the edge and leaves the record; an accept moves the item only.

Nobody can sign for a virtual account, but anybody can *name* one. send, accept_nft and mint_nft take an
NFT as a tuple or any account id, and look at what they are given only when it is a tuple
(`functions.rs:466-490`, `543-566`; `lib.rs:377`). An account id that is the virtual account of an NFT
nests as well, with no check that the NFT exists, has an owner who approves, or is not the NFT that is
sent or one below it. So **ownership is a graph and not always a forest**: an NFT can own itself, or two each other, and then
`lookup_root_owner` does not return for it. NFTs can be sent below an id before it is minted, too.

### What is hard, and what makes each part correct

* *Nesting.* Two accounts move trees under one another's NFTs, with approvals pending, or anything to
  any virtual account; climbs have no depth limit, and from below a circle they never end. A burn
  follows `Children` in hash order, with a budget, and removes records by way of the owner in the
  record, which may be stale; only the top item is burned. Correct means: nobody but the root owner
  moves or burns what is his, whatever the graph looks like; nothing but a virtual account given as an
  argument closes a circle; what is lost in one, or below a burned NFT, is out of everybody's reach for
  good; a record never outlives its item; what is gone never comes back.
* *Collections.* The issuer is kept twice, and half of the calls ask one copy, half the other.
  `nfts_count` decides about destroying and locking and is decreased with saturation once per visit
  of a burn, also for NFTs that are gone. Correct means: both copies agree, the limit is never
  raised or passed, and destroying never deletes an NFT.
* *Resources.* Whether a resource needs approval is decided when it is added; the NFT may have
  another root owner when it is accepted or removed. Entries of the indexes stay when resources go.
  Correct means: nothing shows on an account's NFT without its consent, and ids are not reused.
* *Locks.* Every extrinsic checks the lock on its own, some do not, and uniques asks for transfers.
  Correct means: until it is unlocked or burned, a locked NFT keeps its owner, properties and priorities,
  gets no new resource, and its slots and equipped flag stay. (A resource that waits can still be
  accepted, and one it has removed, while it is locked: those extrinsics do not ask.)
* *Market.* An offer reserves money that must be released exactly once; listings and offers survive
  burns, sends and expiry, and a sale moves an NFT in the name of an owner who did not sign. Correct
  means: nobody loses an NFT without its price nor money without an NFT, neither without having
  agreed; reserves add up; and no NFT is locked that its owner cannot unlist.
* *Equip.* A slot remembers the resource it shows, not the NFT that is in it, so a call that names any
  NFT and an occupied slot takes something off; the record's owner and the indexes it consults may be
  stale; the issuer of the base, the owner of the NFTs and a buyer may act while the slot is occupied.
  Correct means: an NFT is equipped into its immediate parent (which the code does not keep, see `equip_place`);
  what is equipped is not sold or sent away; what is in a slot stays explained by what was allowed;
  a lock holds slots and flags too; and a base is shaped by nobody but its present issuer.
* *The burn from the inside.* `nft_burn` calls itself while it drains `Children`, whose entries may be
  stale, go round in circles or lead into a collection that is gone, and its inner calls remove records
  and entries the outer ones have yet to come to. Correct means: it ends, what it does is what one
  step of `RmrkCore` does, and it fails only for a reason that was there when it was called.

`PROJECT.json` lists each hazard at its line, with the property that covers it or what is missing.

## 2. Modules

| module | models |
|---|---|
| `NftForest` | nesting as a graph: `lookup_root_owner` (`RootNft`) and `is_x_descendent_of_y` (`IsDescendant`), recursive functions as in the code; when a climb ends (`ClimbEnds`), and what proofs say about it |
| `NftOwnership` | the abstract specification: mint, move to any owner whatsoever, retire, consented by the root owner; no pending flag, record, edge, collection or lock |
| `RmrkUniques` | pallet_uniques as rmrk-core uses it, virtual accounts included |
| `RmrkCore` | all of rmrk-core over it, and the properties |
| `RmrkMarket` | all of rmrk-market over it: listings, offers, balances with reserves, blocks |
| `RmrkEquip` | all of rmrk-equip over rmrk-core: bases, parts, themes, equippings |
| `RmrkRuntime` | extends the last two: the three pallets and uniques under the call filter |
| `RmrkBurn` | `nft_burn` call by call, and `RmrkCore`'s burn as what it has to come to |
| `MCRmrkCore`, `MCRmrkMarket`, `MCRmrkRuntime`, `MCRmrkBurn` | instances for TLC |
| `NftForest_proofs`, `NftOwnership_proofs`, `RmrkCore_proofs`, `RmrkSupply_proofs`, `RmrkOwnership_proofs`, `RmrkMarket_proofs`, `RmrkRuntime_proofs`, `RmrkBurn_proofs` | proofs |

Three specifications say of rmrk-core's storage what happens to it: `Spec` of `RmrkCore`, where any NFT
may be locked, sold or get another equipped flag at any time; `MarketSpec`, where locks and sales are
rmrk-market's own; and `EquipSpec`, where the flag is rmrk-equip's own. `RuntimeSpec` is the real
composition, and is proved to implement all of them.

### How RmrkCore corresponds to the code

A variable is a storage item of the same name, a storage map is a total function with `None` for no
entry, a double map to the unit is a set of keys. **An extrinsic is one action**, from its `ensure`s
to its last write: every error becomes a guard, since a failing extrinsic is rolled back.
`signer` is a history variable, the account in whose name the last extrinsic ran; no guard reads it.

A virtual account is a triple that `NftToAccountId` makes of the ids and `DecodeNftAccountId` takes apart;
`AccountId` is the accounts that sign and the virtual ones together. Where the code takes an account id
unchecked, so do the actions: the new owner of `Send` and `AcceptNft` and the owner of `MintNft` range over
`AccountId` (and `Nft`, for tuples), virtual accounts of the NFT itself, of what is below it, of other
accounts' NFTs and of ids not given yet included; `ChildEntry` decodes the account as lines 518-521 do. So may
the issuer of a base. Where the code makes the account sign or accept first (signers, and issuers of a
collection, who need `set_accept_ownership`), it is an `Account`. `LookupRootOwner` is `None` when there is no root
owner: at the top is no item, or the climb does not end. An extrinsic that has to make a climb that
does not end is not a step.

| code | here |
|---|---|
| `nft_mint`, `nft_mint_directly_to_nft` + extrinsics | `MintNft`, `MintNftDirectlyToNft`, with the resources of the call added in the same step (`ResourceAdd`) |
| `nft_send`, `nft_accept`, `nft_reject`, `nft_burn` | `Send`, `AcceptNft`, `RejectNft`, `BurnNft` |
| the recursion of `nft_burn` | `BurnWalk`: the recursion with its stack spelled out, so that draining a map while nested calls remove entries from it, and the budget, are as in the code; `NftBurn` is its effect |
| hash order of `Children` | the constant `HashRank` (a collections run descends, the others ascend) |
| `collection_*` | `CreateCollection`, `DestroyCollection`, `LockCollection`, `ChangeCollectionIssuer` |
| `resource_*`, `accept_removal` | `AddBasicResource` ..., `AcceptResource`, `RemoveResource`, `AcceptResourceRemoval` |
| `priority_set`, `property_set` | `SetPriority`, `SetProperty` |
| `Locker::is_locked`, asked by uniques' transfer and by each extrinsic that checks it | `IsLocked` |
| rmrk-market locking and selling, rmrk-equip equipping | `SetLock`, `Sell`, `SetEquipped`: *any* existing NFT at *any* time, which covers whatever those pallets do |
| uniques' `set_accept_ownership`, open to accounts | `AcceptOwnership` |

### How RmrkMarket corresponds to the code

It extends `RmrkCore`: an account signs an extrinsic of the market (`MarketExtrinsic`), any extrinsic
of rmrk-core, or one of rmrk-equip, which still sets its flag at will (`CoreExtrinsic`); or the next
block begins (`NextBlock`). Here locks and sales are the market's own.

| code | here |
|---|---|
| `list`, `unlist` | `List`, `Unlist`, each with the `set_lock` it makes |
| `buy` | `Buy`: `IsForSale`, the price the buyer expects, `DoBuy`, the listing taken |
| `make_offer`, `withdraw_offer` | `MakeOffer`, `WithdrawOffer`, reserving and unreserving |
| `accept_offer` | `AcceptOffer`: the reserve released, then `DoBuy` out of what is free; the listing stays |
| `do_buy` | `DoBuy`: the transfer with KeepAlive, then `Sell`, which is set_lock(false) and rmrk-core's send in the owner's name, all or nothing |
| `Currency` | `Reserve`, `Unreserve`, `CanTransfer`, `Transfer` on free and reserved balances |
| `expires <= block_number()` | `Expired` |

`caller` is a history variable, the account that really signed: in a purchase rmrk-core runs in the
name of the seller (`signer`), and the buyer is the caller. Money moves only by the market: plain
transfers and fees, which the payer signs for, are left out.

### How RmrkEquip corresponds to the code

| code | here |
|---|---|
| `create_base`, `base_create`, `get_next_base_id` | `CreateBase`: the parts go into `parts` one after the other, so of two with one id the last stays (`PartOf`) |
| `change_base_issuer` | `ChangeBaseIssuer` |
| `equippable` | `DoEquippable`, which replaces the list |
| `theme_add` | `ThemeAdd`; a theme is the set of its `<<base, name, key>>`, so one of no properties leaves nothing |
| `do_equip` | `Equip`: both locks, then `Unequip` when the call takes something off (`TakesOff`), else `PutOn` with the remaining checks (`Fits` for those about base, slot and list) |
| `nft.equipped = ...` in rmrk-core's record | `SetEquipped` |
| `PartType`, `EquippableList` | `PartType`: a slot with the set of collections it takes (`All` is the set of all of them), or fixed |

`worn` is a history variable, the NFT last put into a slot: the storage does not know it, and the
properties are about it. `Bases` keeps a copy of the parts that is never read; `NextPartId` is never
used. The values of themes decide nothing.

### How RmrkRuntime corresponds to the code

`construct_runtime!` puts the pallets side by side (`RuntimeExtrinsic`), one extrinsic at a time;
`BaseFilter` leaves to accounts of uniques' calls `set_accept_ownership` (and some that can only make
later calls fail). The parameters the runtime sets are constants here. A batch of pallet_utility is a
sequence of extrinsics of one account, which the interleaving already contains.

### How RmrkBurn corresponds to the code

A behaviour is one call of `nft_burn`. `frames` is its stack; `Enter` is lines 404-417, `Drain` one
round of the loop of 419-423 (the iterator takes the next entry that is still there, removes it, and
then comes the inner call), `Return` is 426-432 with its saturating decrement, `Fail` the `?` that
leads out of all calls and the rollback of the extrinsic.

`BurnInit` is every storage a call may find: any `Children` among the NFTs (an NFT sent to another
account's NFT, accepted away and sent elsewhere leaves an entry behind in each, in any direction
and in circles), any owner in a record (the one it was minted to, or last sent to without
approval), any counter up to the number of records (burns that visit NFTs twice lower it), and
collections that are gone though NFTs of theirs are still named. Sends to virtual accounts add entries of
an NFT of itself, and entries of NFTs that have no record: the burn that removed the record drained its
entries, but more can be sent there afterwards. Only the NFT that is burned has no entry of itself: it has a root
owner, who signs, and an NFT that `Children` names under itself became its own owner and is lost for good.

### Abstractions

Why they are safe to make: metadata, royalties, symbols, events and weights decide
nothing. A resource is its base and its slot, which alone are indexed. Deposits, team roles and
the frozen flags of uniques can only make a call fail, and a call that fails is not a step; every
property of the extrinsics is a safety property, so it survives fewer steps. Ids are bounded by constants that
stand for the maxima of `u32`; the code's checked arithmetic refuses the last one, and so do the
guards. A virtual account of ids at the maximum, or in a collection that never exists, behaves like that of
an id that is not given before the run ends. pallet_uniques is not part of the repository: it is
modelled from the calls rmrk-core makes, and of the calls it offers to accounts the runtime's filter lets
`set_accept_ownership` through (`runtime/src/lib.rs:170-195`). Whether the version that is built has another
extrinsic that moves items, such as a sale of its own, cannot be seen from `src`; if it has, the filter does not name it and the
model does not have it.

## 3. What is checked

Passing runs (`tlc -config <cfg> <module>`):

| run | instance | shows |
|---|---|---|
| `nesting` | 1 collection, 3 NFTs, 2 accounts, every virtual account | `TypeOK`; records have items (`RecordHasItem`); burned and rejected NFTs stay away (`GoneStaysGone`); `OwnershipPromise`: `RmrkCore` implements `NftOwnership` with `owner <- OwnerOf` (uniques' owner, decoded) and `used <- UsedIds`; with it `RootOwnersConsent` and `LostStaysLost`; `OnlyVirtualAccountsLoop`: tuples never close a circle |
| `collections` | 2 collections of up to 2 ids, limit 0, 1 or none | `IssuersAgree`, `CountNeverExceedsRecords`, `DestroyedLeavesNothing`, `FullStaysFull`, `CapNeverRises` |
| `market` | one NFT dealt with, a second one around it, 2 accounts, prices 0 to 2, 2 blocks | `MarketTypeOK`: no balance is overdrawn; `ReservesCoverOffers`, `LockedAreListed`, `OwnersArePaid`, `BuyersAgreed` |
| `runtime` | all pallets: an NFT that wears and one that is worn, 2 resources, orders of up to 2 of them, a base with one part, 2 accounts | of the whole `OnlyAcceptMovesEquipped`, `OnlyIssuerShapesBase`; of rmrk-equip `EquipTypeOK`, `OccupiedSlotsFit`, `ThemesStartWithDefault`, `LockedWardrobe`; of rmrk-core `FreshIdsAreClean`, `SlotEntriesMatch`, `PrioritiesDiffer`, `LockedStays`, `RootOwnerConsentsToResources` |
| `burn` | one call over 3 NFTs of 2 collections, budgets 2 and 7, more than 50,000 storages it may find | `BurnIsAtomic`: the recursion implements the one step of `RmrkCore`; `RefusedForCause`; `BurnEnds` |

Runs that refute what the repository says; each finding quotes the line:

| run | refuted | by |
|---|---|---|
| `self_owned` | an NFT is not sent to itself or to a descendant (`functions.rs:473`, `tests.rs:558`) | the check is made of tuples; the virtual account of the NFT is taken as it is |
| `accept_place` | an NFT is accepted where it was sent (`lib.rs:604-605`) | `accept_nft` takes any account, or any NFT of the same root owner |
| `foreign_burn` | nobody burns another account's NFT (`tests.rs:965`) | the `Children` entry of a former parent stays when an NFT is accepted elsewhere; burning that parent removes the record of the NFT, whoever owns it by now |
| `stale_listing` | a listing locks the NFT (`rmrk-market lib.rs:255`); what can be bought was not sold or sent lately (`:196-197`) | accept_offer leaves the listing in storage and the NFT unlocked: back with its lister, it is for sale again |
| `equip_place` | an item is equipped into its direct parent, never across NFTs (`rmrk-equip functions.rs:229`, `docs/pallets/rmrk-equip.md:7-8`) | the parent is read from the record, which an accept leaves as it was |
| `stale_equip` | an item has a resource for the slot (`rmrk-equip functions.rs:255`) | removing a resource leaves its entry of `EquippableSlots`, which is what equip asks |
| `unequip_stranger` | unequipping is for the owners, or for burned items (`rmrk-equip functions.rs:114-117`) | any account empties a slot by naming an NFT that does not exist |

Three more lines of the docs say something else than the code, and have no run. `docs/pallets/rmrk-core.md:26`
says of the limit of a collection "0 for infinite"; in the code an absent limit is infinite and 0 is full at once
(`functions.rs:298`), as `collections` has it. `docs/pallets/rmrk-equip.md:10` excludes pending NFTs from
equipping; `do_equip` does not ask, so an NFT minted into another account's NFT can be equipped before it is accepted. And `traits/src/nft.rs:50`
calls a non-transferable NFT soulbound; `accept_nft` moves one like any other.

### Bounds

Three NFTs are the least that make a chain with a middle, a circle through another account's NFT, and
a burn whose recursion is cut by its budget; two accounts are the two sides of a pending send. Ids
are used once, so a run ends when they run out: this is the bound of every run. A state that breaks a
constraint is still checked, with the step to it, and not followed further. State constraints
bound the `Children` entries (`OneChain` in `nesting`: at most two, which form a chain, so that no NFT
has two entries of children; `OneEntry`) and the NFTs minted (`FewNfts`: two). `OneOdd` in `nesting` follows states in
which of the NFTs with a record at most one is pending, has a stale owner in its record, was sent to a virtual account or has
no root owner, and at most one has lost its record: an NFT that owns itself, or one that hangs below an id not
minted, is followed through all that comes after it; a circle of two is reached in every way and
checked, and larger ones are left to the proofs. An action constraint
(`SupplyOpen`) leaves locking, destroying and, in `market` and `runtime`, re-issuing collections to the
`collections` run, which in turn does not follow NFTs without a root owner or sent to virtual accounts (`Rooted`). What
`OneChain` and `OneEntry` cut off, entries in any number and direction, is what
the `burn` run starts from. Accounts are symmetric: `Init` and all actions treat them alike. `signer` is
not in the VIEW, since no guard reads it; action properties that read it are evaluated on every step.

In the `market` runs only the first NFT has a listing and at most one offer at a time (`FewDeals`);
the second stays with the issuer or in an NFT, to which it did not go by a virtual account, and has no
stale owner in its record (`SecondStays`), which is all that nesting the first one needs (that one goes to every virtual account, its own too); states with an equipped NFT are not followed (`NoneEquipped`: the flag only makes sends and
sales fail). Each account starts with 2, the minimum for an offer is 1 and the
existential deposit 1, so that the highest price can be reserved but not paid before a first sale
has shifted the money. The two block numbers are before and at the expiry, 1 (`LastBlock`); what
counts is only whether the block is below it.

In `runtime` the two NFTs have roles (`Roles`): the first wears and shows the base since its mint, the
second gets resources for the slot and goes into and out of it, by acceptance also through the first one's virtual account
(what is sent to a virtual account, and what owns itself, is checked and not followed, and so is the burn of the first one). A base, its part, its themes and its
issuer come before the NFTs (`BasesFirst`) and the part is a slot by then; the lists that do not give
one, and every base without NFTs, are explored too. Afterwards the slot is opened and closed at any
time, by an account that is not the issuer of the collection. `TwoAdornments` bounds resources,
property and priorities together and follows orders of one resource, `OneListing` the listings, which cost nothing and do not expire:
prices and blocks belong to the `market` run. Offers need more money than anyone has, so a sale is a
`buy`. Two resource ids are the least for an entry that outlives its resource and a second resource
beside it, and orders of two (`MaxPriorities`) are the least that name one resource twice. The violation runs of the runtime have the
same instance with orders of one, `unequip_stranger` a third id that is never minted.

In `burn` the two budgets are one that cuts every chain of three and one that cuts nothing. Three NFTs in
two collections give entries of NFTs that are gone, burned twice, in circles of two and three, and of
a collection that was destroyed; the hash order mixes the collections. An entry of an NFT of itself, or of one without a record,
comes alone and with at most two others (`OneOddEntry`); in any number they are for the proofs.

`CHECK_DEADLOCK FALSE` everywhere: nobody has to sign anything, and a call ends.

### Fairness

`BurnSpec` assumes `WF_burnVars(BurnNext)`: the call runs on the one thread that executes the block,
and nothing interrupts it. With it `BurnEnds` says that every call returns.

The other specifications have no fairness and no liveness property: no account is ever obliged to
sign, so nothing the pallets could promise "eventually" depends on them. Whether the climbs of
`lookup_root_owner` end is a matter of safety, since they write nothing: they do unless the NFT is below a
circle (`ClimbEnds`), and `OnlyVirtualAccountsLoop` says how a circle comes about.

## 4. What is proved

Assumptions are `UniquesAssumption`, `CoreAssumption`, `MarketAssumption`, `EquipAssumption`,
`SortAssumption` and `BurnAssumption`: ids
below a natural maximum, signing accounts that are neither NFTs nor virtual accounts (the salt of `nft_to_account_id`; it
says nothing of account arguments, which may be virtual), a `None` outside everything, inputs of the right type. `BurnAssumption` adds that no two NFTs have the same
place in the hash order: the second key of `Children` is hashed with `Twox64Concat`, which ends with the
key itself (`lib.rs:147-154`). TLC evaluates them in every run.

* **Recursion without induction schemes** (`NftForest_proofs`). `Chain(parent, n)`, the least set that
  holds n and the owner of each of its members, replaces induction over a climb, in any graph: where `ClimbEnds`,
  `RootNft` is well-defined and satisfies its recursion (`RootNftStep`), ends at the top
  of the chain (`RootNftOnTop`) and is the same along it (`SameRoot`, `SameEnd`); `IsDescendant` means being on
  the chain (`IsDescendantIsAbove`); and hanging an NFT elsewhere leaves the climbs and the roots of everything
  that is not below it untouched (`HangElsewhere`), lets what is below it climb to where the NFT itself now
  climbs (`HangCarries`), and that climb ends under no NFT (`HangFree`) and under one that is not below it (`HangBelow`).
* **The abstract specification** (`NftOwnership_proofs`): `RootOwnerConsents` and `LostStaysLost`, of any graph. A
  move changes the root of nothing but what is below the NFT that moves, and that all has the
  root owner that signs. The invariant is that an NFT not minted yet has no owner: then it ends the climbs from what
  hangs below it (`UnusedIsARoot`), none of that has a root owner, and minting it takes nothing from anybody.
* **Types** (`RmrkCore_proofs`): `TypeOK` is inductive; one lemma per action. The lemma about
  `nft_burn` also says that it makes and removes no collection and changes no issuer.
* **Supply** (`RmrkSupply_proofs`): `IssuersAgree`, `RecordHasItem` and `DestroyedLeavesNothing`; and,
  of steps, `FullStaysFull`, `CapNeverRises` and `GoneStaysGone`. The
  invariant `SupplyInv` adds `ItemsCounted`, that the witness `destroy_collection` shows to uniques is
  the number of items, and `ItemsHaveClass`, that a class that does not exist has no items. Most steps
  are `Quiet`; creating, destroying and re-issuing a collection, minting and burning are not, and get
  a lemma each. `CapNeverRises` is about `LockCollection`, which writes the number of NFTs over the
  limit, and needs `CountCapped`, that the number is within the limit and not above the next id; every step
  is one of four kinds (`StepsAreLimited`: limits and ids kept, an NFT minted, a collection locked or a
  new one).
* **Counts** (same module): `CountNeverExceedsRecords`. A burn takes one from `nfts_count` for every NFT it
  visits, and every record it removes was visited: the entries it drained map onto the NFTs it burned
  (`BurnedAreVisited`, a surjection), so no more records go than visits are counted, whatever the walk did.
* **Refinement** (`RmrkOwnership_proofs`): `Spec => OwnershipPromise`. Given types and `SupplyInv`,
  `lookup_root_owner` returns the abstract root owner where the climb ends and nothing otherwise, so each
  mint is a `Mint`, send and accept are a `Move`, whatever account or NFT they are told, burn is a `Retire`,
  and the rest is `Other`: destroying a collection clears no item because its count is right. From the abstract
  specification `OnlyRootOwnersGive` and `NobodyRecoversTheLost` carry over. `LoopsTakeVirtualAccounts` needs more than
  the refinement: of all the steps only a mint, send or acceptance hangs an NFT below another; with a tuple it does so
  only after `is_x_descendent_of_y` has answered no, and that means that the NFT is not on the
  target's chain (`HangBelow`); with a signing account nothing is hung below an NFT at all.
* **Ids and locks** (same module): `FreshIdsAreClean` and `LockedStays`. `CoreInv` puts types, supply
  and ownership together; a step touches only NFTs whose ids are used (`UnusedIsUntouched`), because
  whoever is owned is used (`OwnedIsUsed`), and a mint takes the one id that is new (`MintIsNew`). NFTs may
  hang below an id that is not used; they have no root owner, so none of them moves and none of
  their entries goes stale before it is (`WaitingWait`).
  `LockedStays` needs `FreshIdsAreClean`: what is locked has an id that was given, so no mint is about it.
* **Resources** (same module): `SlotEntriesMatch`, from the invariant `SlotInv`, which adds that resources
  and entries have ids below `nextResourceId` (otherwise a new resource could meet an entry left by a
  removed one); `PrioritiesDiffer`, because a priority is a place in the list (`PriorityIsAPlace`); and
  `RootOwnerConsentsToResources`, which needs that an NFT with a record has an item, so that the resources
  of a mint go to another one.
* **The market** (`RmrkMarket_proofs`): `MarketTypeOK`, and `MarketImplementsCore`, that `MarketSpec`
  implements `RmrkCore`'s `Spec`: listing and unlisting are a `SetLock`, a purchase and an accepted
  offer are a `Sell`, the rest does not touch rmrk-core. The types are needed for it, since listers
  and makers must be accounts that can sign. With it every theorem about `RmrkCore` holds under the
  market; `MarketKeepsOwnership` states it for ownership. `LockedAreListed` is inductive once
  `LockedStays` is known of the step: what stays locked keeps its owner, and only `List` locks
  (`CoreLeavesLocks`, `MarketLocks`). `OwnersArePaid` and `BuyersAgreed` follow from one lemma,
  `StepIsSaleOrOwn`: a step is one `Sale`, at the price of a listing or an offer, or it moves no money and
  no NFT of anyone but the signer. It rests on what reserving and transferring do to what an account is
  worth, on `OffersAreSigned` (an offer is filed under its maker) and, for rmrk-core's own moves, on the
  abstract specification: an NFT an account owns directly is its own root, so that account must sign.
* **Reserves** (same module): `ReservesCoverOffers`, an equation between a balance and a sum over all offers.
  The sum is a fold of the community modules, which takes its elements in the order of a `CHOOSE`. It is
  shown to be the sum in *any* order: `Sums` are the functions on the subsets that grow by an amount with
  each element, there is one (`SumsExist`) and it is the only one (`SumsAgree`), both by a least counterexample
  (`MinimalSubset`). So an offer more or less changes the sum by its amount (`OneOfferMore`), as reserving
  and unreserving do the balance (`ReservesMove`).
* **Equipping** (`RmrkRuntime_proofs`): `EquipSpec` implements `RmrkCore`'s `Spec`; `EquipTypeOK`,
  `OccupiedSlotsFit` and `ThemesStartWithDefault` from the invariant `EquipInv`, which adds `BasesInOrder`,
  that exactly the ids below the next one have a base. `OccupiedSlotsFit` rests on `IndexesGrow`: nothing in
  rmrk-core ever takes an entry out of `EquippableBases` or `EquippableSlots`, the very leftover that lets
  `stale_equip` happen. `LockedWardrobe` follows for steps; it needs that no
  extrinsic of rmrk-core writes a flag (`CoreKeepsFlag`).
* **The runtime** (same module): `RuntimeSpec` implements `MarketSpec` and `EquipSpec`, hence `RmrkCore`'s
  `Spec` and all that is proved of it; `RuntimeKeepsOwnership` says so of ownership. `OnlyIssuerShapesBase` and
  `OnlyAcceptMovesEquipped` are about the composition itself, as they name the account that signed: the latter goes
  through every way an item moves, sales by `DoBuy` included.

* **The burn from the inside** (`RmrkBurn_proofs`): `BurnIsAtomic`, the refinement of `RmrkCore`'s burn, and
  `RefusedForCause`. `RmrkCore` computes a burn by a walk, a function on the naturals defined by recursion;
  it exists, is the only one and unfolds step by step (`WalksExist`, `WalksAgree`, `WalkUnfolds`). The
  invariant `BurnInv` says that the running program is at step k of that walk: its stack of calls is the
  walk's stack, its `Children` the walk's entries, records and resources are gone exactly for what the walk
  has reached, each counter is down by the visits that are not on the stack any more. It is what makes
  the proof work that a call just made is *behind* the walk, by its own record and entry (`AtEntry`); that a
  record already removed has no entry left (so that reading a record which an inner call has removed does no
  harm: `OwnEntryFollows`); and that steps and calls add up to twice the drained entries and one,
  so that the walk of `RmrkCore` is long enough (`WithinBound`). `Enter`, `Drain` and `Return` have a
  lemma each; a `Drain` is one step of the walk because the next entry in hash order is one entry
  (`NextIsOne`). At the last return nothing is on the stack, and what is left is what `NftBurn` leaves
  (`EntriesLeft`, `LastReturn`).
* **Burns end** (same module): `BurnsComeNearer`. Three times the entries plus the calls on the stack plus the
  removal that is due is a natural number that every step makes smaller, so a call over k entries takes
  at most 3k + 3 steps. This is the safety half of `BurnEnds`.

Every invariant and action property of the passing runs is proved. Only model-checked is `BurnEnds`, which is
liveness under fairness, out of the provers' reach like `ENABLED`. Induction over data is avoided throughout,
since the library's theorems for it take an operator as a parameter, which the provers cannot instantiate:
least counterexamples (`LeastNatural`, `MinimalSubset`) stand in for it.

## 5. Plan

An abstract `Trade` specification that the market implements: deals that are offered, taken up once or
dropped, and money that moves with them. `OwnersArePaid`, `BuyersAgreed`, `ReservesCoverOffers` and
`LockedAreListed` say its parts of the market itself.

## 6. Not modelled

The node and the template pallet (Substrate
boilerplate), weights, fees, benchmarks, migrations, events, encodings, metadata and royalties. Of the
runtime: sudo, whose root origin no extrinsic of the pallets asks for, utility's batches (sequences of
extrinsics), plain transfers of money, and the consensus and payment pallets. Of
pallet_uniques, what decides nothing for rmrk-core: teams, freezing, attributes, metadata, deposits.
