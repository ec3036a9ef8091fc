------------------------------ MODULE RmrkEquip ------------------------------
(***************************************************************************)
(* pallets/rmrk-equip over rmrk-core: issuers create bases made of parts   *)
(* and themes, and NFTs are equipped into the slots of the NFT that owns   *)
(* them.  A slot remembers only the resource it shows; which NFT is in it  *)
(* is nowhere in the storage, and "worn" is a history variable for it.     *)
(*                                                                         *)
(* The other pallets do to rmrk-core what they always may: all of its      *)
(* extrinsics (Extrinsic), locks and sales.  "signer" stays with the last  *)
(* extrinsic that wrote to rmrk-core's storage.                            *)
(*                                                                         *)
(* An extrinsic of this pallet is not #[transactional], but none writes    *)
(* before its last check, so one action is one extrinsic here as well.     *)
(* Parts are kept in Parts; the copy in Bases is never read.               *)
(***************************************************************************)
EXTENDS RmrkCore

CONSTANTS BaseIdMax,             \* stands for BaseId::MAX: the last id is never given
          PartLists,             \* the "parts" arguments of create_base
          EquippableLists,       \* the "equippables" arguments of equippable
          ThemeName,             \* names of themes
          DefaultTheme,          \* the name "default"
          ThemeKey,              \* keys of a theme's properties
          MaxPropertiesPerTheme  \* Config::MaxPropertiesPerTheme

VARIABLES nextBaseId,            \* NextBaseId
          bases,                 \* Bases: the issuer
          parts,                 \* Parts, of a base by id
          equippings,            \* Equippings, of an NFT by base and slot
          themes,                \* Themes: <<base, theme, key>>
          worn                   \* history: the NFT last put into a slot

baseVars == <<nextBaseId, bases, parts, themes>>
wardrobe == <<equippings, worn>>
equipVars == <<baseVars, wardrobe>>

-----------------------------------------------------------------------------
(* A part is a slot, which says NFTs of which collections may go into it    *)
(* (All, Empty or a Custom list: the set of those collections), or fixed.   *)
PartType == [slot : BOOLEAN, equippable : SUBSET CollectionId]
PartArgument == [id : SlotId, part : PartType]

NoParts == [s \in SlotId |-> None]
NoEquippings == [x \in Slot |-> None]

ASSUME EquipAssumption ==
    /\ BaseIdMax \in Nat
    /\ BaseId = 0..(BaseIdMax - 1)
    /\ PartLists \subseteq Seq(PartArgument)
    /\ EquippableLists \subseteq SUBSET CollectionId
    /\ DefaultTheme \in ThemeName
    /\ MaxPropertiesPerTheme \in Nat
    /\ EquippedChoices = BOOLEAN
    /\ LockChoices = BOOLEAN
    /\ None \notin PartType \cup ResourceId

EquipTypeOK ==
    /\ TypeOK
    /\ nextBaseId \in 0..BaseIdMax
    /\ bases \in [BaseId -> AccountId \cup {None}]
    /\ parts \in [BaseId -> [SlotId -> PartType \cup {None}]]
    /\ equippings \in [Nft -> [Slot -> ResourceId \cup {None}]]
    /\ themes \in SUBSET (BaseId \X ThemeName \X ThemeKey)
    /\ worn \in [Nft -> [Slot -> Nft \cup {None}]]

EquipInit ==
    /\ Init
    /\ nextBaseId = 0
    /\ bases = [b \in BaseId |-> None]
    /\ parts = [b \in BaseId |-> NoParts]
    /\ equippings = [n \in Nft |-> NoEquippings]
    /\ themes = {}
    /\ worn = [n \in Nft |-> NoEquippings]

-----------------------------------------------------------------------------
(* Bases *)

\* Of parts with the same id the last one stays.
PartOf(list, s) ==
    LET at == {i \in DOMAIN list : list[i].id = s} IN
    IF at = {} THEN None ELSE list[CHOOSE i \in at : \A j \in at : j <= i].part

CreateBase_pastLastId(sender, list) ==
    /\ nextBaseId' = nextBaseId + 1
    /\ bases' = [bases EXCEPT ![nextBaseId] = sender]
    /\ parts' = [parts EXCEPT ![nextBaseId] = [s \in SlotId |-> PartOf(list, s)]]
    /\ UNCHANGED <<vars, themes, wardrobe>>

CreateBase(sender, list) ==
    /\ nextBaseId # BaseIdMax
    /\ nextBaseId' = nextBaseId + 1
    /\ bases' = [bases EXCEPT ![nextBaseId] = sender]
    /\ parts' = [parts EXCEPT ![nextBaseId] = [s \in SlotId |-> PartOf(list, s)]]
    /\ UNCHANGED <<vars, themes, wardrobe>>

ChangeBaseIssuer_byAnyone(sender, b, new) ==
    /\ bases[b] # None
    /\ bases' = [bases EXCEPT ![b] = new]
    /\ UNCHANGED <<vars, nextBaseId, parts, themes, wardrobe>>

ChangeBaseIssuer(sender, b, new) ==
    /\ bases[b] = sender
    /\ bases' = [bases EXCEPT ![b] = new]
    /\ UNCHANGED <<vars, nextBaseId, parts, themes, wardrobe>>

\* The new list replaces the old one; what is in the slot already stays there.
DoEquippable(sender, b, s, equippable) ==
    /\ bases[b] = sender
    /\ parts[b][s] # None
    /\ parts[b][s].slot
    /\ parts' = [parts EXCEPT ![b][s].equippable = equippable]
    /\ UNCHANGED <<vars, nextBaseId, bases, themes, wardrobe>>

HasDefaultTheme(b) == \E k \in ThemeKey : <<b, DefaultTheme, k>> \in themes

ThemeAdd_anyName(sender, b, name, keys) ==
    /\ Cardinality(keys) <= MaxPropertiesPerTheme
    /\ bases[b] = sender
    /\ themes' = themes \cup ({b} \X {name} \X keys)
    /\ UNCHANGED <<vars, nextBaseId, bases, parts, wardrobe>>

\* A theme of no properties leaves nothing, also when it is the default one.
ThemeAdd(sender, b, name, keys) ==
    /\ Cardinality(keys) <= MaxPropertiesPerTheme
    /\ bases[b] = sender
    /\ HasDefaultTheme(b) \/ name = DefaultTheme
    /\ themes' = themes \cup ({b} \X {name} \X keys)
    /\ UNCHANGED <<vars, nextBaseId, bases, parts, wardrobe>>

-----------------------------------------------------------------------------
(* Equipping: n is the item, e the equipper, x the <<base, slot>> of e.     *)

\* The call takes off what is in the slot when something is there and the item has no
\* record, or the caller root-owns the item or the equipper.  Whether the item is the
\* one in the slot is not asked.
TakesOff(sender, n, e, x) ==
    /\ equippings[e][x] # None
    /\ \/ nfts[n] = None
       \/ /\ {LookupRootOwner(n), LookupRootOwner(e)} \subseteq Account
          /\ sender \in {LookupRootOwner(n), LookupRootOwner(e)}

Unequip(sender, n, e, x) ==
    /\ TakesOff(sender, n, e, x)
    /\ equippings' = [equippings EXCEPT ![e][x] = None]
    /\ IF nfts[n] = None THEN UNCHANGED vars ELSE SetEquipped(n, FALSE) /\ signer' = sender
    /\ UNCHANGED <<baseVars, worn>>

Fits_anyBase(n, e, r, x) ==
    /\ <<n, r, x>> \in equippableSlots
    /\ parts[x[1]][x[2]] # None
    /\ parts[x[1]][x[2]].slot
    /\ n[1] \in parts[x[1]][x[2]].equippable

\* The equipper shows the base, the resource of the item goes into the slot, and the slot
\* takes NFTs of the item's collection.
Fits(n, e, r, x) ==
    /\ <<e, x[1]>> \in equippableBases
    /\ <<n, r, x>> \in equippableSlots
    /\ parts[x[1]][x[2]] # None
    /\ parts[x[1]][x[2]].slot
    /\ n[1] \in parts[x[1]][x[2]].equippable

\* The direct parent is the owner in the item's record.
PutOn(sender, n, e, r, x) ==
    /\ ~TakesOff(sender, n, e, x)
    /\ nfts[e] # None
    /\ nfts[n] # None
    /\ ~nfts[n].equipped
    /\ LookupRootOwner(e) = sender
    /\ LookupRootOwner(n) = sender
    /\ nfts[n].owner = e
    /\ Fits(n, e, r, x)
    /\ equippings' = [equippings EXCEPT ![e][x] = r]
    /\ worn' = [worn EXCEPT ![e][x] = n]
    /\ SetEquipped(n, TRUE)
    /\ signer' = sender
    /\ UNCHANGED baseVars

Equip_equipperUnlocked(sender, n, e, r, x) ==
    /\ ~IsLocked(e)
    /\ Unequip(sender, n, e, x) \/ PutOn(sender, n, e, r, x)

Equip(sender, n, e, r, x) ==
    /\ ~IsLocked(n)
    /\ ~IsLocked(e)
    /\ Unequip(sender, n, e, x) \/ PutOn(sender, n, e, r, x)

-----------------------------------------------------------------------------
EquipExtrinsic(sender) ==
    \/ \E list \in PartLists : CreateBase(sender, list)
    \/ \E b \in BaseId :
          \/ \E new \in AccountId : ChangeBaseIssuer(sender, b, new)
          \/ \E s \in SlotId, l \in EquippableLists : DoEquippable(sender, b, s, l)
          \/ \E name \in ThemeName, keys \in SUBSET ThemeKey : ThemeAdd(sender, b, name, keys)
    \/ \E n, e \in Nft, r \in ResourceId, x \in Slot : Equip(sender, n, e, r, x)

\* rmrk-core's own extrinsics, and the locks and sales of rmrk-market.
RestOfRuntime(sender) ==
    /\ signer' = sender
    /\ \/ Extrinsic(sender)
       \/ \E n \in Nft :
             \/ \E b \in BOOLEAN : SetLock(n, b)
             \/ \E buyer \in Account : Sell(sender, n, buyer)
    /\ UNCHANGED equipVars

EquipNext == \E sender \in Account : EquipExtrinsic(sender) \/ RestOfRuntime(sender)

EquipSpec == EquipInit /\ [][EquipNext]_<<vars, equipVars>>

-----------------------------------------------------------------------------
(* Properties *)

(* To rmrk-core this pallet is nothing but an equipped flag (functions.rs     *)
(* 162-171, 191-200, 295-304), so all that RmrkCore promises still holds.      *)
(* Proved, not run: TLC would try all of Next on every step.                   *)
EquipKeepsCore == Spec

(* What is in an occupied slot was allowed to be there and the record of it    *)
(* stays readable: the slot is a slot part of its base, its NFT shows that     *)
(* base, and the NFT put into it had the resource for that very slot, however  *)
(* resources, lists and NFTs change afterwards (functions.rs:242-293 checks    *)
(* three maps of rmrk-core and one of its own once, and nothing later).        *)
OccupiedSlotsFit ==
    \A e \in Nft, x \in Slot :
        equippings[e][x] # None =>
           /\ x[1] < nextBaseId
           /\ parts[x[1]][x[2]] # None
           /\ parts[x[1]][x[2]].slot
           /\ <<e, x[1]>> \in equippableBases
           /\ worn[e][x] # None
           /\ <<worn[e][x], equippings[e][x], x>> \in equippableSlots

(* A lock holds the wardrobe too: the slots of a locked NFT and its equipped   *)
(* flag stay as they are, whichever of the two NFTs of a call is locked        *)
(* (functions.rs:139-148), so that a buyer gets what was listed.               *)
LockedWardrobe ==
    [][\A n \in Nft :
          (lock[n] /\ lock'[n]) =>
             /\ equippings'[n] = equippings[n]
             /\ (nfts[n] # None /\ nfts'[n] # None) => nfts'[n].equipped = nfts[n].equipped
      ]_<<vars, equipVars>>

(* A base has no theme before it has a default one, and what is not created    *)
(* has neither parts nor themes, so that a new base starts from its own list   *)
(* (functions.rs:13-19, 74-87, 377-391).                                       *)
ThemesStartWithDefault ==
    \A b \in BaseId :
        /\ (\E t \in themes : t[1] = b) => HasDefaultTheme(b)
        /\ bases[b] = None => parts[b] = NoParts /\ \A t \in themes : t[1] # b

-----------------------------------------------------------------------------
(* What comments of the repository say and the code does not keep.            *)

(* functions.rs:255: the item must have a resource that goes into the slot.    *)
EquippedHasResource ==
    [][\A e \in Nft, x \in Slot :
          (equippings[e][x] = None /\ equippings'[e][x] # None) =>
             resources[worn'[e][x]][equippings'[e][x]] # None]_<<vars, equipVars>>

(* functions.rs:229, docs/pallets/rmrk-equip.md:7-8: an NFT is equipped into    *)
(* its immediate parent, never across other NFTs.                              *)
EquippedIntoParent ==
    [][\A e \in Nft, x \in Slot :
          (equippings[e][x] = None /\ equippings'[e][x] # None) =>
             item[worn'[e][x]] = NftToAccountId(e)]_<<vars, equipVars>>
=============================================================================
