------------------------------- MODULE RmrkCore -------------------------------
(***************************************************************************)
(* pallets/rmrk-core: collections, NFTs that own NFTs, their resources,    *)
(* priorities and properties.                                              *)
(*                                                                         *)
(* An extrinsic is one action: a block executes extrinsics one after the   *)
(* other and all of them are #[transactional], so one that fails leaves    *)
(* the storage as it was and is not a step at all.  What interleaves is    *)
(* the extrinsics of different accounts.  "signer" is a history variable   *)
(* for the account that signed the last one.                               *)
(*                                                                         *)
(* Names are the source's.  A storage map is a total function, None where  *)
(* it has no entry; Children, EquippableBases and EquippableSlots, maps to *)
(* the unit, are sets.  Metadata, royalties, symbols, events and weights   *)
(* decide nothing and are left out.                                        *)
(***************************************************************************)
EXTENDS RmrkUniques, Sequences

CONSTANTS ResourceIdMax,       \* stands for ResourceId::MAX
          MaxPriorities,       \* Config::MaxPriorities
          MaxRecursions,       \* Config::MaxRecursions, the budget of a rejection
          BaseId, SlotId,      \* bases and slots of rmrk-equip that resources name
          Key, Value,          \* property keys and values
          MaxChoices,          \* the "max" arguments of create_collection
          BurnBudgets,         \* the "max_burns" arguments of burn_nft
          MintedResources,     \* the "resources" arguments of the two mints
          TransferableChoices, \* the "transferable" arguments of the two mints
          AcceptanceChoices,   \* the arguments of set_accept_ownership
          LockChoices,         \* the lock_status values rmrk-market sets
          EquippedChoices,     \* the equipped flags rmrk-equip sets
          HashRank             \* hash order of the Children map's second keys

VARIABLES collectionIndex,     \* CollectionIndex
          collections,         \* Collections: issuer, max, nfts_count
          nextNftId,           \* NextNftId
          nfts,                \* Nfts: owner, equipped, pending, transferable
          children,            \* Children: pairs <<parent, child>>
          nextResourceId,      \* NextResourceId
          resources,           \* Resources
          equippableBases,     \* EquippableBases: <<nft, base>>
          equippableSlots,     \* EquippableSlots: <<nft, resource id, <<base, slot>>>>
          priorities,          \* Priorities
          properties,          \* Properties, of collections and of NFTs
          lock,                \* Lock
          signer               \* history: in whose name the last extrinsic ran

collectionVars == <<collectionIndex, collections, nextNftId>>
nftVars == <<nfts, children>>
resourceVars == <<nextResourceId, resources, equippableBases, equippableSlots>>
metaVars == <<priorities, properties>>
vars == <<uniquesVars, collectionVars, nftVars, resourceVars, metaVars, lock, signer>>

-----------------------------------------------------------------------------
(* Types.  A resource is what the pallet keeps of one: the base a composable *)
(* resource is made of and the <<base, slot>> it goes into; basic resources  *)
(* have neither, slot resources only the second.                             *)
ResourceId == 0..(ResourceIdMax - 1)
Slot == BaseId \X SlotId
ResourceType == [base : BaseId \cup {None}, slot : Slot \cup {None}]
BasicResource == {r \in ResourceType : r.base = None /\ r.slot = None}
ComposableResource == {r \in ResourceType : r.base # None}
SlotResource == {r \in ResourceType : r.base = None /\ r.slot # None}

CollectionInfo == [issuer : Account, max : Nat \cup {None}, nfts_count : Nat]
NftInfo == [owner : AccountId \cup Nft, equipped : BOOLEAN, pending : BOOLEAN,
            transferable : BOOLEAN]
ResourceInfo == [resource : ResourceType, pending : BOOLEAN, pending_removal : BOOLEAN]

\* Properties of a collection are kept under the key of no NFT.
Scope == CollectionId \X (NftId \cup {None})
PriorityLists == UNION {[1..k -> ResourceId] : k \in 0..MaxPriorities}

NoResources == [r \in ResourceId |-> None]
NoProperties == [k \in Key |-> None]

ASSUME CoreAssumption ==
    /\ ResourceIdMax \in Nat
    /\ MaxPriorities \in Nat
    /\ MaxRecursions \in Nat
    /\ MaxChoices \subseteq Nat \cup {None}
    /\ BurnBudgets \subseteq Nat
    /\ MintedResources \subseteq Seq(ResourceType)
    /\ TransferableChoices \subseteq BOOLEAN
    /\ AcceptanceChoices \subseteq CollectionId \cup {None}
    /\ LockChoices \subseteq BOOLEAN
    /\ EquippedChoices \subseteq BOOLEAN
    /\ HashRank \in [Nft -> Nat]
    /\ None \notin CollectionInfo \cup NftInfo \cup ResourceInfo \cup BaseId \cup Slot \cup Value

TypeOK ==
    /\ UniquesTypeOK
    /\ collectionIndex \in 0..CollectionIdMax
    /\ collections \in [CollectionId -> CollectionInfo \cup {None}]
    /\ nextNftId \in [CollectionId -> 0..NftIdMax]
    /\ nfts \in [Nft -> NftInfo \cup {None}]
    /\ children \in SUBSET (Nft \X Nft)
    /\ nextResourceId \in [Nft -> 0..ResourceIdMax]
    /\ resources \in [Nft -> [ResourceId -> ResourceInfo \cup {None}]]
    /\ equippableBases \in SUBSET (Nft \X BaseId)
    /\ equippableSlots \in SUBSET (Nft \X ResourceId \X Slot)
    /\ priorities \in [Nft -> [ResourceId -> Nat \cup {None}]]
    /\ properties \in [Scope -> [Key -> Value \cup {None}]]
    /\ lock \in [Nft -> BOOLEAN]
    /\ signer \in Account \cup {None}

Init ==
    /\ UniquesInit
    /\ collectionIndex = 0
    /\ collections = [c \in CollectionId |-> None]
    /\ nextNftId = [c \in CollectionId |-> 0]
    /\ nfts = [n \in Nft |-> None]
    /\ children = {}
    /\ nextResourceId = [n \in Nft |-> 0]
    /\ resources = [n \in Nft |-> NoResources]
    /\ equippableBases = {}
    /\ equippableSlots = {}
    /\ priorities = [n \in Nft |-> NoResources]
    /\ properties = [s \in Scope |-> NoProperties]
    /\ lock = [n \in Nft |-> FALSE]
    /\ signer = None

-----------------------------------------------------------------------------
(* Ownership as pallet_uniques records it.                                  *)
OwnerIn(items) == [n \in Nft |-> DecodeNftAccountId(items[n])]
OwnerOf == OwnerIn(item)

\* lookup_root_owner: the account at the top of the chain.  None when the chain ends at an
\* NFT that has no item, which is an error, and when it goes round in a circle: then the
\* recursion never returns, and an extrinsic that waits for it is not a step either.
LookupIn(items, n) ==
    LET owner == OwnerIn(items) IN
    IF ClimbEnds(owner, n) THEN items[RootNft(owner, n)] ELSE None
LookupRootOwner(n) == LookupIn(item, n)

\* is_x_descendent_of_y
IsXDescendentOfY(x, y) == IsDescendant(OwnerOf, x, y)

\* An owner argument (AccountIdOrCollectionNftTuple) is any account or a (collection, NFT)
\* tuple; uniques wants an account.
ToAccountId(to) == IF to \in Nft THEN NftToAccountId(to) ELSE to

IsLocked_default(n) == FALSE

\* The pallet is the Locker that uniques asks before a transfer.
IsLocked(n) == lock[n]

-----------------------------------------------------------------------------
(* Collections                                                              *)
CreateCollection(sender, max) ==
    LET c == collectionIndex IN
    /\ c # CollectionIdMax
    /\ collectionIndex' = c + 1
    /\ collections' = [collections EXCEPT ![c] =
                          [issuer |-> sender, max |-> max, nfts_count |-> 0]]
    /\ DoCreateCollection(c, sender)
    /\ UNCHANGED <<nextNftId, nftVars, resourceVars, metaVars, lock>>

DestroyCollection_ignoresItems(sender, c) ==
    /\ collections[c] # None
    /\ collections[c].nfts_count = 0
    /\ collections' = [collections EXCEPT ![c] = None]
    /\ class[c].owner = sender
    /\ class' = [class EXCEPT ![c] = None]
    /\ UNCHANGED <<item, acceptance, collectionIndex, nextNftId, nftVars, resourceVars,
                   metaVars, lock>>

DestroyCollection(sender, c) ==
    /\ collections[c] # None
    /\ collections[c].nfts_count = 0
    /\ collections' = [collections EXCEPT ![c] = None]
    /\ DoDestroyCollection(c, sender)
    /\ UNCHANGED <<collectionIndex, nextNftId, nftVars, resourceVars, metaVars, lock>>

ChangeCollectionIssuer_keepsClass(sender, c, new) ==
    /\ collections[c] # None
    /\ collections[c].issuer = sender
    /\ collections' = [collections EXCEPT ![c].issuer = new]
    /\ UNCHANGED <<uniquesVars, collectionIndex, nextNftId, nftVars, resourceVars, metaVars,
                   lock>>

ChangeCollectionIssuer(sender, c, new) ==
    /\ collections[c] # None
    /\ collections[c].issuer = sender
    /\ collections' = [collections EXCEPT ![c].issuer = new]
    /\ TransferOwnership(c, sender, new)
    /\ UNCHANGED <<collectionIndex, nextNftId, nftVars, resourceVars, metaVars, lock>>

LockCollection_atNextId(sender, c) ==
    /\ collections[c] # None
    /\ collections[c].issuer = sender
    /\ collections' = [collections EXCEPT ![c].max = nextNftId[c] + 1]
    /\ UNCHANGED <<uniquesVars, collectionIndex, nextNftId, nftVars, resourceVars, metaVars,
                   lock>>

LockCollection(sender, c) ==
    /\ collections[c] # None
    /\ collections[c].issuer = sender
    /\ collections' = [collections EXCEPT ![c].max = collections[c].nfts_count]
    /\ UNCHANGED <<uniquesVars, collectionIndex, nextNftId, nftVars, resourceVars, metaVars,
                   lock>>

-----------------------------------------------------------------------------
(* Resources                                                                *)

\* The index entries and the records of a list of resources added to n in turn.
Bases(n, rs) == {<<n, rs[i].base>> : i \in {j \in DOMAIN rs : rs[j].base # None}}

Slots_oneBehind(n, rs) == {<<n, nextResourceId[n] + i - 2, rs[i].slot>> :
                              i \in {j \in DOMAIN rs : j + nextResourceId[n] > 1 /\ rs[j].slot # None}}

Slots(n, rs) == {<<n, nextResourceId[n] + i - 1, rs[i].slot>> :
                    i \in {j \in DOMAIN rs : rs[j].slot # None}}

\* resource_add, once for every element of rs: the sender must be the issuer and the
\* NFT unlocked; root is the root owner the pallet looks up.
ResourceAdd(sender, n, rs, root, adding_on_mint) ==
    LET next == nextResourceId[n]
        added(i) == [resource |-> rs[i], pending |-> root # sender /\ ~adding_on_mint,
                     pending_removal |-> FALSE]
    IN
    /\ next + Len(rs) <= ResourceIdMax
    /\ rs # <<>> => collections[n[1]].issuer = sender /\ ~IsLocked(n)
    /\ nextResourceId' = [nextResourceId EXCEPT ![n] = next + Len(rs)]
    /\ equippableBases' = equippableBases \cup Bases(n, rs)
    /\ equippableSlots' = equippableSlots \cup Slots(n, rs)
    /\ resources' = [resources EXCEPT ![n] = [r \in ResourceId |->
                        IF r \in next..(next + Len(rs) - 1) THEN added(r - next + 1)
                                                            ELSE resources[n][r]]]

\* add_basic_resource, add_composable_resource, add_slot_resource
AddResource(sender, n, resource) ==
    LET root == LookupRootOwner(n) IN
    /\ collections[n[1]] # None
    /\ root # None
    /\ ResourceAdd(sender, n, <<resource>>, root, FALSE)
    /\ UNCHANGED <<uniquesVars, collectionVars, nftVars, metaVars, lock>>

AddBasicResource(sender, n) == \E r \in BasicResource : AddResource(sender, n, r)
AddComposableResource(sender, n) == \E r \in ComposableResource : AddResource(sender, n, r)
AddSlotResource(sender, n) == \E r \in SlotResource : AddResource(sender, n, r)

AcceptResource_byAnyone(sender, n, r) ==
    /\ resources[n][r] # None
    /\ LookupRootOwner(n) # None
    /\ resources[n][r].pending
    /\ resources' = [resources EXCEPT ![n][r].pending = FALSE]
    /\ UNCHANGED <<uniquesVars, collectionVars, nftVars, nextResourceId, equippableBases,
                   equippableSlots, metaVars, lock>>

AcceptResource(sender, n, r) ==
    /\ resources[n][r] # None
    /\ LookupRootOwner(n) = sender
    /\ resources[n][r].pending
    /\ resources' = [resources EXCEPT ![n][r].pending = FALSE]
    /\ UNCHANGED <<uniquesVars, collectionVars, nftVars, nextResourceId, equippableBases,
                   equippableSlots, metaVars, lock>>

\* The issuer removes at once what is its own and asks the root owner otherwise.
RemoveResource(sender, n, r) ==
    LET root == LookupRootOwner(n) IN
    /\ collections[n[1]] # None
    /\ root # None
    /\ collections[n[1]].issuer = sender
    /\ resources[n][r] # None
    /\ resources' = IF root = sender
                    THEN [resources EXCEPT ![n][r] = None]
                    ELSE [resources EXCEPT ![n][r].pending_removal = TRUE]
    /\ UNCHANGED <<uniquesVars, collectionVars, nftVars, nextResourceId, equippableBases,
                   equippableSlots, metaVars, lock>>

AcceptResourceRemoval(sender, n, r) ==
    /\ LookupRootOwner(n) = sender
    /\ resources[n][r] # None
    /\ resources[n][r].pending_removal
    /\ resources' = [resources EXCEPT ![n][r] = None]
    /\ UNCHANGED <<uniquesVars, collectionVars, nftVars, nextResourceId, equippableBases,
                   equippableSlots, metaVars, lock>>

\* A resource named twice keeps the last of its positions, counted from zero.
PriorityOf(list, r) ==
    LET at == {i \in DOMAIN list : list[i] = r} IN
    IF at = {} THEN None ELSE (CHOOSE i \in at : \A j \in at : j <= i) - 1

SetPriority_keepsOld(sender, n, list) ==
    /\ LookupRootOwner(n) = sender
    /\ ~IsLocked(n)
    /\ priorities' = [priorities EXCEPT ![n] = [r \in ResourceId |->
                         IF PriorityOf(list, r) = None THEN @[r] ELSE PriorityOf(list, r)]]
    /\ UNCHANGED <<uniquesVars, collectionVars, nftVars, resourceVars, properties, lock>>

\* The old order is forgotten first, whatever the length of the new one.
SetPriority(sender, n, list) ==
    /\ LookupRootOwner(n) = sender
    /\ ~IsLocked(n)
    /\ priorities' = [priorities EXCEPT ![n] = [r \in ResourceId |-> PriorityOf(list, r)]]
    /\ UNCHANGED <<uniquesVars, collectionVars, nftVars, resourceVars, properties, lock>>

\* The issuer sets a property of its collection, or of an NFT whose root owner it is.
SetProperty(sender, scope, k, v) ==
    /\ collections[scope[1]] # None
    /\ collections[scope[1]].issuer = sender
    /\ scope \in Nft => ~IsLocked(scope) /\ LookupRootOwner(scope) = sender
    /\ properties' = [properties EXCEPT ![scope][k] = v]
    /\ UNCHANGED <<uniquesVars, collectionVars, nftVars, resourceVars, priorities, lock>>

-----------------------------------------------------------------------------
(* Minting                                                                  *)

\* nft_mint and nft_mint_directly_to_nft: a record for the collection's next id.
NftMint_ignoresMax(c, owner, pending, transferable) ==
    /\ collections[c] # None
    /\ nextNftId[c] < NftIdMax
    /\ nextNftId' = [nextNftId EXCEPT ![c] = @ + 1]
    /\ nfts' = [nfts EXCEPT ![<<c, nextNftId[c]>>] =
                   [owner |-> owner, equipped |-> FALSE, pending |-> pending,
                    transferable |-> transferable]]
    /\ collections' = [collections EXCEPT ![c].nfts_count = @ + 1]

NftMint(c, owner, pending, transferable) ==
    /\ collections[c] # None
    /\ nextNftId[c] < NftIdMax
    /\ collections[c].max # None => nextNftId[c] < collections[c].max
    /\ nextNftId' = [nextNftId EXCEPT ![c] = @ + 1]
    /\ nfts' = [nfts EXCEPT ![<<c, nextNftId[c]>>] =
                   [owner |-> owner, equipped |-> FALSE, pending |-> pending,
                    transferable |-> transferable]]
    /\ collections' = [collections EXCEPT ![c].nfts_count = @ + 1]

MintNft(sender, owner, c, transferable, rs) ==
    LET n == <<c, nextNftId[c]>> IN
    /\ class[c] # None
    /\ class[c].owner = sender
    /\ NftMint(c, owner, owner # sender, transferable)
    /\ DoMint(n, owner)
    /\ rs # <<>> => LookupIn(item', n) # None
    /\ ResourceAdd(sender, n, rs, LookupIn(item', n), TRUE)
    /\ UNCHANGED <<collectionIndex, children, metaVars, lock>>

\* The new NFT belongs to its parent for uniques and in its record; Children says nothing.
MintNftDirectlyToNft(sender, parent, c, transferable, rs) ==
    LET n == <<c, nextNftId[c]>>
        root == LookupRootOwner(parent)
    IN
    /\ class[c] # None
    /\ class[c].owner = sender
    /\ root # None
    /\ NftMint(c, parent, root # sender, transferable)
    /\ DoMint(n, NftToAccountId(parent))
    /\ ResourceAdd(sender, n, rs, root, TRUE)
    /\ UNCHANGED <<collectionIndex, children, metaVars, lock>>

-----------------------------------------------------------------------------
(* Burning.  nft_burn drops a record and its resources and then, while the   *)
(* NFT still has entries in Children, drains the next one in hash order and  *)
(* burns that child with a budget one smaller.  The walk below is that       *)
(* recursion with its stack spelled out; a child that is reached twice, or   *)
(* has no record any more, is walked like any other.                         *)

\* The Children entry that points from the owner in n's record to n.
OwnEntry(n) == IF nfts[n] = None THEN {} ELSE {<<nfts[n].owner, n>>}

\* One entry drained, or one NFT done: its collection must still exist.
BurnStep(s, budget) ==
    LET n == s.stack[Len(s.stack)]
        entries == {e \in s.edges : e[1] = n}
        next == CHOOSE e \in entries : \A f \in entries : HashRank[e[2]] <= HashRank[f[2]]
    IN
    IF s.stack = <<>> \/ ~s.ok THEN s
    ELSE IF entries = {}
         THEN [s EXCEPT !.stack = SubSeq(s.stack, 1, Len(s.stack) - 1),
                        !.ok = collections[n[1]] # None]
         ELSE [stack   |-> Append(s.stack, next[2]),
               edges   |-> s.edges \ ({next} \cup OwnEntry(next[2])),
               drained |-> s.drained \cup {next},
               ok      |-> Len(s.stack) < budget]

BurnWalk(n, budget, edges) ==
    LET walk[k \in Nat] ==
            IF k = 0 THEN [stack |-> <<n>>, edges |-> edges \ OwnEntry(n), drained |-> {},
                           ok |-> budget > 0]
            ELSE BurnStep(walk[k - 1], budget)
    IN walk[2 * Cardinality(edges) + 1]

\* How often burning n visits the collection c: once for n, once for every drained entry.
Visits_topOnly(n, drained, c) == IF n[1] = c THEN 1 ELSE 0

Visits(n, drained, c) ==
    Cardinality({e \in drained : e[2][1] = c}) + (IF n[1] = c THEN 1 ELSE 0)

\* nft_burn called with Children = edges.  Every visit takes one from nfts_count, which
\* stops at zero.
NftBurn(n, budget, edges) ==
    LET walk == BurnWalk(n, budget, edges)
        drained == walk.drained \cap edges
        burned == {n} \cup {e[2] : e \in drained}
        left(c) == IF Visits(n, drained, c) >= collections[c].nfts_count
                   THEN 0 ELSE collections[c].nfts_count - Visits(n, drained, c)
    IN
    /\ walk.ok
    /\ nfts' = [m \in Nft |-> IF m \in burned THEN None ELSE nfts[m]]
    /\ resources' = [m \in Nft |-> IF m \in burned THEN NoResources ELSE resources[m]]
    /\ children' = {e \in edges : e[1] \notin burned
                                  /\ (e[2] \in burned => e \notin OwnEntry(e[2]))}
    /\ collections' = [c \in CollectionId |->
                          IF collections[c] = None \/ \A m \in burned : m[1] # c
                          THEN collections[c]
                          ELSE [collections[c] EXCEPT !.nfts_count = left(c)]]

BurnNft_recyclesId(sender, n, max_burns) ==
    /\ LookupRootOwner(n) = sender
    /\ NftBurn(n, max_burns, children)
    /\ DoBurn(n)
    /\ nextNftId' = [nextNftId EXCEPT ![n[1]] = @ - 1]
    /\ UNCHANGED <<collectionIndex, nextResourceId, equippableBases,
                   equippableSlots, metaVars, lock>>

BurnNft_keepsRecord(sender, n, max_burns) ==
    /\ LookupRootOwner(n) = sender
    /\ DoBurn(n)
    /\ UNCHANGED <<collectionVars, nftVars, resourceVars, metaVars, lock>>

\* Only the item of n itself is burned; those of its children stay.
BurnNft(sender, n, max_burns) ==
    /\ LookupRootOwner(n) = sender
    /\ NftBurn(n, max_burns, children)
    /\ DoBurn(n)
    /\ UNCHANGED <<collectionIndex, nextNftId, nextResourceId, equippableBases,
                   equippableSlots, metaVars, lock>>

\* The item is not burned: what is rejected keeps its owner in uniques.
RejectNft(sender, n) ==
    /\ nfts[n] # None
    /\ nfts[n].pending
    /\ LookupRootOwner(n) = sender
    /\ NftBurn(n, MaxRecursions, children \ {<<OwnerOf[n], n>>})
    /\ UNCHANGED <<uniquesVars, collectionIndex, nextNftId, nextResourceId, equippableBases,
                   equippableSlots, metaVars, lock>>

-----------------------------------------------------------------------------
(* Moving                                                                   *)

CanNest_anywhere(n, parent) ==
    /\ nfts[parent] # None
    /\ n # parent
    /\ LookupRootOwner(parent) # None

\* n may go under the tuple parent: not under itself, nor under one of its own descendants.
CanNest(n, parent) ==
    /\ nfts[parent] # None
    /\ n # parent
    /\ LookupRootOwner(parent) # None
    /\ ~IsXDescendentOfY(parent, n)

ChildEntry_always(to, n) == {<<DecodeNftAccountId(ToAccountId(to)), n>>}

\* What add_child writes for the decoded new owner: only an NFT has children.
ChildEntry(to, n) ==
    LET parent == DecodeNftAccountId(ToAccountId(to)) IN
    IF parent \in Nft THEN {<<parent, n>>} ELSE {}

NftSend_equippedToo(sender, n, to, locked) ==
    LET approval_required == to \in Nft /\ LookupRootOwner(to) # sender IN
    /\ nfts[n] # None
    /\ LookupRootOwner(n) = sender
    /\ nfts[n].transferable
    /\ to \in Nft => CanNest(n, to)
    /\ nfts' = IF approval_required THEN [nfts EXCEPT ![n].pending = TRUE]
                                    ELSE [nfts EXCEPT ![n].owner = to]
    /\ children' = (children \ {<<OwnerOf[n], n>>}) \cup ChildEntry(to, n)
    /\ DoTransfer(n, ToAccountId(to), locked)
    /\ UNCHANGED <<collectionVars, resourceVars, metaVars>>

\* An NFT sent to somebody else's NFT waits for approval: it moves, its record does not.
\* All of this is for tuples: to an account, a virtual one too, it goes at once.
NftSend(sender, n, to, locked) ==
    LET approval_required == to \in Nft /\ LookupRootOwner(to) # sender IN
    /\ nfts[n] # None
    /\ LookupRootOwner(n) = sender
    /\ nfts[n].transferable
    /\ ~nfts[n].equipped
    /\ to \in Nft => CanNest(n, to)
    /\ nfts' = IF approval_required THEN [nfts EXCEPT ![n].pending = TRUE]
                                    ELSE [nfts EXCEPT ![n].owner = to]
    /\ children' = (children \ {<<OwnerOf[n], n>>}) \cup ChildEntry(to, n)
    /\ DoTransfer(n, ToAccountId(to), locked)
    /\ UNCHANGED <<collectionVars, resourceVars, metaVars>>

Send(sender, n, to) == NftSend(sender, n, to, IsLocked(n)) /\ UNCHANGED lock

AcceptNft_withoutRecord(sender, n, to) ==
    /\ LookupRootOwner(n) = sender
    /\ to \in Nft => CanNest(n, to) /\ LookupRootOwner(to) = sender
    /\ nfts' = IF nfts[n] = None THEN nfts ELSE [nfts EXCEPT ![n].pending = FALSE]
    /\ DoTransfer(n, ToAccountId(to), IsLocked(n))
    /\ UNCHANGED <<collectionVars, children, resourceVars, metaVars, lock>>

AcceptNft_byAnyone(sender, n, to) ==
    /\ nfts[n] # None
    /\ to \in Nft => CanNest(n, to) /\ LookupRootOwner(to) = sender
    /\ nfts' = [nfts EXCEPT ![n].pending = FALSE]
    /\ DoTransfer(n, ToAccountId(to), IsLocked(n))
    /\ UNCHANGED <<collectionVars, children, resourceVars, metaVars, lock>>

AcceptNft_orphansToo(sender, n, to) ==
    /\ nfts[n] # None
    /\ LookupRootOwner(n) \in {sender, None}
    /\ to \in Nft => CanNest(n, to) /\ LookupRootOwner(to) = sender
    /\ nfts' = [nfts EXCEPT ![n].pending = FALSE]
    /\ DoTransfer(n, ToAccountId(to), IsLocked(n))
    /\ UNCHANGED <<collectionVars, children, resourceVars, metaVars, lock>>

\* Wherever the root owner says: neither the pending flag nor the place it was sent to
\* is compared, and Children and the record's owner stay as they are.
AcceptNft(sender, n, to) ==
    /\ nfts[n] # None
    /\ LookupRootOwner(n) = sender
    /\ to \in Nft => CanNest(n, to) /\ LookupRootOwner(to) = sender
    /\ nfts' = [nfts EXCEPT ![n].pending = FALSE]
    /\ DoTransfer(n, ToAccountId(to), IsLocked(n))
    /\ UNCHANGED <<collectionVars, children, resourceVars, metaVars, lock>>

-----------------------------------------------------------------------------
(* The rest of the runtime.  rmrk-market locks, unlocks and sells, rmrk-equip *)
(* sets the equipped flag; of pallet_uniques the runtime's call filter leaves *)
(* set_accept_ownership to accounts.                                          *)
SetLock(n, lock_status) ==
    /\ item[n] # None
    /\ lock' = [lock EXCEPT ![n] = lock_status]
    /\ UNCHANGED <<uniquesVars, collectionVars, nftVars, resourceVars, metaVars>>

\* do_buy of rmrk-market unlocks an NFT and sends it to the buyer with its owner's origin.
Sell(owner, n, buyer) ==
    /\ NftSend(owner, n, buyer, FALSE)
    /\ lock' = [lock EXCEPT ![n] = FALSE]

SetEquipped(n, equipped) ==
    /\ nfts[n] # None
    /\ nfts' = [nfts EXCEPT ![n].equipped = equipped]
    /\ UNCHANGED <<uniquesVars, collectionVars, children, resourceVars, metaVars, lock>>

AcceptOwnership(who, maybe_collection) ==
    /\ SetAcceptOwnership(who, maybe_collection)
    /\ UNCHANGED <<collectionVars, nftVars, resourceVars, metaVars, lock>>

-----------------------------------------------------------------------------
\* A new issuer is an account that signs: it has called set_accept_ownership.
CollectionExtrinsic(sender) ==
    \/ \E max \in MaxChoices : CreateCollection(sender, max)
    \/ \E c \in CollectionId :
          \/ DestroyCollection(sender, c)
          \/ LockCollection(sender, c)
          \/ \E new \in Account : ChangeCollectionIssuer(sender, c, new)
    \/ \E maybe_collection \in AcceptanceChoices :
          AcceptOwnership(sender, maybe_collection)

\* Somebody gets an NFT: an account to is any account, checked by nobody.
Place(sender, to) ==
    \/ \E c \in CollectionId, t \in TransferableChoices, rs \in MintedResources :
          \/ to \in AccountId /\ MintNft(sender, to, c, t, rs)
          \/ to \in Nft /\ MintNftDirectlyToNft(sender, to, c, t, rs)
    \/ \E n \in Nft : Send(sender, n, to) \/ AcceptNft(sender, n, to)

NftExtrinsic(sender) ==
    \/ \E to \in AccountId \cup Nft : Place(sender, to)
    \/ \E n \in Nft :
          \/ \E max_burns \in BurnBudgets : BurnNft(sender, n, max_burns)
          \/ RejectNft(sender, n)

ResourceExtrinsic(sender) ==
    \E n \in Nft :
       \/ AddBasicResource(sender, n)
       \/ AddComposableResource(sender, n)
       \/ AddSlotResource(sender, n)
       \/ \E r \in ResourceId :
             \/ AcceptResource(sender, n, r)
             \/ RemoveResource(sender, n, r)
             \/ AcceptResourceRemoval(sender, n, r)
       \/ \E list \in PriorityLists : SetPriority(sender, n, list)

PropertyExtrinsic(sender) ==
    \E scope \in Scope, k \in Key, v \in Value : SetProperty(sender, scope, k, v)

\* An extrinsic of rmrk-core, signed by sender.
Extrinsic(sender) ==
    /\ signer' = sender
    /\ \/ CollectionExtrinsic(sender)
       \/ NftExtrinsic(sender)
       \/ ResourceExtrinsic(sender)
       \/ PropertyExtrinsic(sender)

\* What the other pallets do to this one's storage in the name of sender.
OtherPallets(sender) ==
    /\ signer' = sender
    /\ \E n \in Nft :
          \/ \E b \in LockChoices : SetLock(n, b)
          \/ \E b \in EquippedChoices : SetEquipped(n, b)
          \/ \E buyer \in Account : Sell(sender, n, buyer)

Next == \E sender \in Account : Extrinsic(sender) \/ OtherPallets(sender)

Spec == Init /\ [][Next]_vars

-----------------------------------------------------------------------------
(* Properties *)

(* The ownership that uniques records through virtual accounts is that of     *)
(* NftOwnership: NFTs are given to anybody, but only once, and after that     *)
(* only their root owner gives them away or burns them, whatever nft_send,    *)
(* nft_accept, nft_reject and nft_burn check or fail to check on the way, and *)
(* whichever virtual account they are told (functions.rs:466-469, 544).       *)
UsedIds == {n \in Nft : n[2] < nextNftId[n[1]]}
Ownership == INSTANCE NftOwnership WITH Nft <- Nft, owner <- OwnerOf, used <- UsedIds
OwnershipPromise == Ownership!Spec

(* An account that does not sign keeps all that it root-owns, however deep it *)
(* is nested in other NFTs: nobody else moves or burns any of it              *)
(* (functions.rs:446-448, 533-536; lib.rs:525-527).                           *)
RootOwnersConsent == Ownership!RootOwnerConsents

(* An NFT in a circle, or below a burned one, is out of everybody's reach for *)
(* good: no send, acceptance, mint or burn by whomever gives it a root owner  *)
(* again (functions.rs:692-704).                                              *)
LostStaysLost == Ownership!LostStaysLost

(* The checks for self and descendants do their work wherever they are made:  *)
(* the climb of lookup_root_owner and is_x_descendent_of_y stops ending for   *)
(* some NFT only when a mint, a send or an acceptance names the virtual       *)
(* account of an NFT, never when it names the NFT itself or a signing account *)
(* (functions.rs:470-490, 545-566 against 466-469, 544; lib.rs:377).          *)
OnlyVirtualAccountsLoop ==
    [][(\E n \in Nft : ~ClimbEnds(OwnerOf, n)' /\ ClimbEnds(OwnerOf, n)) =>
          /\ \E to \in VirtualAccount : Place(signer', to)
          /\ ~\E to \in Account \cup Nft : Place(signer', to)]_vars

(* A record in Nfts is always backed by an item in uniques: burn_nft removes  *)
(* both, and no burn of an ancestor leaves a record whose item is gone        *)
(* (functions.rs:413-431 removes records only, lib.rs:529 the top item only). *)
RecordHasItem == \A n \in Nft : nfts[n] # None => item[n] # None

(* What was burned or rejected never comes back: no record reappears, and an  *)
(* item left behind by reject_nft or by a burned parent is never moved again  *)
(* (functions.rs:456, 540: the record must exist).                            *)
GoneStaysGone ==
    [][\A n \in UsedIds :
          nfts[n] = None => nfts'[n] = None /\ item'[n] \in {item[n], None}]_vars

(* An identifier not given yet has no trace anywhere: ids are never reused,   *)
(* so leftovers of a burned NFT (Lock, Priorities, Properties, slots) never   *)
(* apply to a new one (nft_burn clears none of them, functions.rs:399-433).   *)
(* All it may have is children, sent to its virtual account beforehand        *)
(* (functions.rs:518-521), and each of these is still there: no stale entry   *)
(* waits for a new NFT.                                                       *)
NoTrace(n) ==
    /\ item[n] = None
    /\ nfts[n] = None
    /\ nextResourceId[n] = 0
    /\ resources[n] = NoResources
    /\ priorities[n] = NoResources
    /\ properties[n] = NoProperties
    /\ ~lock[n]
    /\ \A e \in children : e[2] # n /\ (e[1] = n => item[e[2]] = NftToAccountId(n))
    /\ \A e \in equippableBases : e[1] # n
    /\ \A e \in equippableSlots : e[1] # n
FreshIdsAreClean == \A n \in Nft \ UsedIds : NoTrace(n)

(* rmrk-core and uniques agree on which collections exist and on who issues   *)
(* them: mint_nft asks uniques, everything else asks rmrk-core (lib.rs:369,   *)
(* functions.rs:88).                                                          *)
IssuersAgree ==
    \A c \in CollectionId :
        IF collections[c] = None THEN class[c] = None
        ELSE class[c] # None /\ class[c].owner = collections[c].issuer

(* nfts_count never claims more NFTs than there are records, whatever a burn  *)
(* visits (functions.rs:425-429), so destroy_collection is never blocked by   *)
(* NFTs that are gone.                                                        *)
RecordsOf(c) == {n \in Nft : n[1] = c /\ nfts[n] # None}
CountNeverExceedsRecords ==
    \A c \in CollectionId :
        collections[c] # None => collections[c].nfts_count <= Cardinality(RecordsOf(c))

(* A collection that is full or locked never gives another id, even after     *)
(* its NFTs are burned (functions.rs:298, 355, 272).                          *)
Full(c) == collections[c].max # None /\ nextNftId[c] >= collections[c].max
FullStaysFull ==
    [][\A c \in CollectionId :
          (collections[c] # None /\ Full(c))
             => /\ nextNftId'[c] = nextNftId[c]
                /\ collections'[c] # None => Full(c)']_vars

(* Locking a collection never raises the limit it was created with            *)
(* (functions.rs:272 copies nfts_count over max without comparing).           *)
CapNeverRises ==
    [][\A c \in CollectionId :
          (collections[c] # None /\ collections'[c] # None /\ collections[c].max # None)
             => collections'[c].max # None /\ collections'[c].max <= collections[c].max]_vars

(* A destroyed collection leaves no NFT and no item behind, although          *)
(* nfts_count may be zero while some are there (lib.rs:545-549).              *)
DestroyedLeavesNothing ==
    \A c \in CollectionId : collections[c] = None => ItemsOf(c) = {} /\ RecordsOf(c) = {}

(* An issuer changes nothing of what another account shows: on an NFT that    *)
(* exists before and after a step, a resource starts counting (added not      *)
(* pending, or accepted) or disappears only if the root owner signed          *)
(* (functions.rs:119, 171, 200-210; lib.rs:812-818).                          *)
Active(n, r) == resources[n][r] # None /\ ~resources[n][r].pending
RootOwnerConsentsToResources ==
    [][\A n \in Nft, r \in ResourceId :
          (/\ nfts[n] # None /\ nfts'[n] # None
           /\ \/ ~Active(n, r) /\ Active(n, r)'
              \/ resources[n][r] # None /\ resources'[n][r] = None)
             => signer' = LookupRootOwner(n)]_vars

(* As long as a resource exists, EquippableSlots has exactly the slot that    *)
(* resource names: identifiers of removed resources are not reused            *)
(* (functions.rs:88-106).                                                     *)
SlotEntriesMatch ==
    \A n \in Nft, r \in ResourceId :
        resources[n][r] # None =>
            {e[3] : e \in {x \in equippableSlots : x[1] = n /\ x[2] = r}}
               = {resources[n][r].resource.slot} \ {None}

(* A locked NFT is neither moved nor re-dressed: until it is unlocked or      *)
(* burned its owner, its properties and priorities stay and it gets no new    *)
(* resource, whichever extrinsic tries (the Lock checks are spread over       *)
(* functions.rs:31, 60, 95 and uniques' do_transfer).                         *)
LockedStays ==
    [][\A n \in Nft :
          (lock[n] /\ lock'[n]) =>
             /\ item'[n] \in {item[n], None}
             /\ properties'[n] = properties[n]
             /\ priorities'[n] = priorities[n]
             /\ nextResourceId'[n] = nextResourceId[n]]_vars

(* Two resources of an NFT never share a priority, also after a shorter or    *)
(* repetitive list (functions.rs:33-38).                                      *)
PrioritiesDiffer ==
    \A n \in Nft, r, q \in ResourceId :
        priorities[n][r] = priorities[n][q] /\ priorities[n][r] # None => r = q

-----------------------------------------------------------------------------
(* What comments and tests of the repository say and the code does not keep. *)

(* lib.rs:604-605: accept_nft's new_owner is "whichever the NFT was sent to". *)
AcceptKeepsPlace ==
    [][\A n \in Nft :
          (nfts[n] # None /\ nfts[n].pending /\ nfts'[n] # None /\ ~nfts'[n].pending)
             => item'[n] = item[n]]_vars

(* functions.rs:473, 478, 551, 557 and tests.rs:558, 568: an NFT that exists   *)
(* is not sent to itself or to a descendant, so that it is never above itself. *)
NoneGoesBelowItself ==
    [][\A n \in Nft :
          (nfts[n] # None /\ ClimbEnds(OwnerOf, n)) => ClimbEnds(OwnerOf, n)']_vars

(* tests.rs:965: nobody burns an NFT that somebody else root-owns.            *)
BurnsOwnOnly ==
    [][\A n \in Nft :
          (nfts[n] # None /\ nfts'[n] = None) => signer' = LookupRootOwner(n)]_vars
=============================================================================
