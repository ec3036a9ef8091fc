-------------------------- MODULE RmrkRuntime_proofs --------------------------
(***************************************************************************)
(* The pallets together.  To rmrk-core, rmrk-equip only sets an equipped   *)
(* flag; to rmrk-market it does that or nothing, and to rmrk-equip the     *)
(* market locks and sells.  So the runtime is at once a run of RmrkMarket  *)
(* and a run of RmrkEquip, and what is proved of one of them holds in it.  *)
(***************************************************************************)
EXTENDS RmrkRuntime, RmrkMarket_proofs

(* rmrk-equip's part of EquipTypeOK.                                         *)
BasesTypeOK ==
    /\ nextBaseId \in 0..BaseIdMax
    /\ bases \in [BaseId -> AccountId \cup {None}]
    /\ parts \in [BaseId -> [SlotId -> PartType \cup {None}]]
    /\ themes \in SUBSET (BaseId \X ThemeName \X ThemeKey)

WardrobeTypeOK ==
    /\ equippings \in [Nft -> [Slot -> ResourceId \cup {None}]]
    /\ worn \in [Nft -> [Slot -> Nft \cup {None}]]

(* rmrk-equip starts with an empty storage.                                  *)
LEMMA InitEquipType == EquipInit => EquipTypeOK
  <1> SUFFICES ASSUME EquipInit PROVE EquipTypeOK
    OBVIOUS
  <1>1. TypeOK
    BY InitType DEF EquipInit
  <1>2. nextBaseId \in 0..BaseIdMax
    BY EquipAssumption DEF EquipInit
  <1>3. QED
    BY <1>1, <1>2 DEF EquipInit, EquipTypeOK, NoParts, NoEquippings

-----------------------------------------------------------------------------
(* What the wardrobe does to rmrk-core.                                      *)

(* An item is put on or taken off with rmrk-core seeing its flag at most.    *)
LEMMA EquipIsFlag ==
    ASSUME NEW sender \in Account, NEW n \in Nft, NEW e \in Nft, NEW r \in ResourceId,
           NEW x \in Slot, Equip(sender, n, e, r, x)
    PROVE  \/ UNCHANGED vars
           \/ signer' = sender /\ \E b \in EquippedChoices : SetEquipped(n, b)
  BY EquipAssumption DEF Equip, Unequip, PutOn

(* A step of rmrk-equip is nothing to rmrk-core, or a flag.                  *)
LEMMA EquipStepIsFlag ==
    ASSUME NEW sender \in Account, EquipExtrinsic(sender)
    PROVE  \/ UNCHANGED vars
           \/ /\ signer' = sender
              /\ \E n \in Nft, b \in EquippedChoices : SetEquipped(n, b)
  <1>1. ASSUME NEW n \in Nft, NEW e \in Nft, NEW r \in ResourceId, NEW x \in Slot,
               Equip(sender, n, e, r, x)
        PROVE  \/ UNCHANGED vars
               \/ /\ signer' = sender
                  /\ \E m \in Nft, b \in EquippedChoices : SetEquipped(m, b)
    BY <1>1, EquipIsFlag
  <1>2. QED
    BY <1>1 DEF EquipExtrinsic, CreateBase, ChangeBaseIssuer, DoEquippable, ThemeAdd

(* So rmrk-core sees its own extrinsics and those of other pallets.          *)
LEMMA EquipNextIsCoreNext ==
    ASSUME [EquipNext]_<<vars, equipVars>>
    PROVE  [Next]_vars
  <1>1. ASSUME NEW sender \in Account, EquipExtrinsic(sender) PROVE [Next]_vars
    BY <1>1, EquipStepIsFlag DEF Next, OtherPallets
  <1>2. ASSUME NEW sender \in Account, RestOfRuntime(sender) PROVE [Next]_vars
    BY <1>2, EquipAssumption DEF RestOfRuntime, Next, OtherPallets
  <1>3. QED
    BY <1>1, <1>2 DEF EquipNext

-----------------------------------------------------------------------------
(* Types                                                                     *)

(* What is kept of a part was in the list.                                   *)
LEMMA PartOfType ==
    ASSUME NEW list \in PartLists, NEW s \in SlotId
    PROVE  PartOf(list, s) \in PartType \cup {None}
  <1> DEFINE at == {i \in DOMAIN list : list[i].id = s}
  <1>1. list \in Seq(PartArgument)
    BY EquipAssumption
  <1>2. CASE at = {}
    BY <1>2 DEF PartOf
  <1>3. CASE at # {}
    <2>1. PICK k \in Nat : DOMAIN list = 1..k
      BY <1>1
    <2>2. at \in SUBSET (1..k) /\ at # {}
      BY <1>3, <2>1
    <2>3. \E m \in at : \A j \in at : j <= m
      <3> HIDE DEF at
      <3> QED BY <2>1, <2>2, MaxExists
    <2> DEFINE last == CHOOSE m \in at : \A j \in at : j <= m
    <2>4. last \in at
      BY <2>3
    <2>5. PartOf(list, s) = list[last].part
      BY <1>3 DEF PartOf
    <2>6. last \in DOMAIN list
      BY <2>4
    <2> HIDE DEF at, last
    <2>7. list[last] \in PartArgument
      BY <1>1, <2>6
    <2>8. QED
      BY <2>5, <2>7 DEF PartArgument
  <1>4. QED
    BY <1>2, <1>3

(* Bases, parts, issuers and themes keep their types.                        *)
LEMMA CreateBaseType ==
    ASSUME BasesTypeOK, NEW sender \in Account, NEW list \in PartLists,
           CreateBase(sender, list)
    PROVE  BasesTypeOK'
  <1>1. nextBaseId' \in 0..BaseIdMax
    BY EquipAssumption DEF BasesTypeOK, CreateBase
  <1>2. [s \in SlotId |-> PartOf(list, s)] \in [SlotId -> PartType \cup {None}]
    BY PartOfType
  <1>3. QED
    BY <1>1, <1>2 DEF BasesTypeOK, CreateBase, AccountId

LEMMA DoEquippableType ==
    ASSUME BasesTypeOK, NEW sender \in Account, NEW b \in BaseId, NEW s \in SlotId,
           NEW l \in EquippableLists, DoEquippable(sender, b, s, l)
    PROVE  BasesTypeOK'
  <1>1. parts[b][s] \in PartType
    BY DEF BasesTypeOK, DoEquippable
  <1>2. [parts[b][s] EXCEPT !.equippable = l] \in PartType
    BY <1>1, EquipAssumption DEF PartType
  <1>3. parts' = [parts EXCEPT ![b] = [parts[b] EXCEPT ![s] = [parts[b][s] EXCEPT !.equippable = l]]]
    BY DEF DoEquippable
  <1>4. parts' \in [BaseId -> [SlotId -> PartType \cup {None}]]
    BY <1>2, <1>3 DEF BasesTypeOK
  <1>5. QED
    BY <1>4 DEF BasesTypeOK, DoEquippable

LEMMA ThemeAddType ==
    ASSUME BasesTypeOK, NEW sender \in Account, NEW b \in BaseId, NEW name \in ThemeName,
           NEW keys \in SUBSET ThemeKey, ThemeAdd(sender, b, name, keys)
    PROVE  BasesTypeOK'
  BY DEF BasesTypeOK, ThemeAdd

(* A slot holds the resource that was named, and remembers the item.         *)
LEMMA EquipType ==
    ASSUME WardrobeTypeOK, NEW sender \in Account, NEW n \in Nft, NEW e \in Nft,
           NEW r \in ResourceId, NEW x \in Slot, Equip(sender, n, e, r, x)
    PROVE  WardrobeTypeOK'
  <1>1. CASE Unequip(sender, n, e, x)
    BY <1>1 DEF WardrobeTypeOK, Unequip
  <1>2. CASE PutOn(sender, n, e, r, x)
    BY <1>2 DEF WardrobeTypeOK, PutOn
  <1>3. QED
    BY <1>1, <1>2 DEF Equip

(* Every step keeps the types of core and rmrk-equip.                        *)
LEMMA EquipNextType ==
    ASSUME EquipTypeOK, [EquipNext]_<<vars, equipVars>>
    PROVE  EquipTypeOK'
  <1>1. TypeOK' /\ BasesTypeOK /\ WardrobeTypeOK
    BY EquipNextIsCoreNext, NextType DEF EquipTypeOK, BasesTypeOK, WardrobeTypeOK
  <1>2. CASE UNCHANGED equipVars
    BY <1>1, <1>2 DEF equipVars, baseVars, wardrobe, EquipTypeOK
  <1>3. ASSUME NEW sender \in Account, EquipExtrinsic(sender)
        PROVE  BasesTypeOK' /\ WardrobeTypeOK'
    <2>1. ASSUME NEW list \in PartLists, CreateBase(sender, list)
          PROVE  BasesTypeOK' /\ WardrobeTypeOK'
      BY <1>1, <2>1, CreateBaseType DEF CreateBase, WardrobeTypeOK, wardrobe
    <2>2. ASSUME NEW b \in BaseId, NEW new \in AccountId, ChangeBaseIssuer(sender, b, new)
          PROVE  BasesTypeOK' /\ WardrobeTypeOK'
      BY <1>1, <2>2 DEF BasesTypeOK, ChangeBaseIssuer, WardrobeTypeOK, wardrobe
    <2>3. ASSUME NEW b \in BaseId, NEW s \in SlotId, NEW l \in EquippableLists,
                 DoEquippable(sender, b, s, l)
          PROVE  BasesTypeOK' /\ WardrobeTypeOK'
      BY <1>1, <2>3, DoEquippableType DEF DoEquippable, WardrobeTypeOK, wardrobe
    <2>4. ASSUME NEW b \in BaseId, NEW name \in ThemeName, NEW keys \in SUBSET ThemeKey,
                 ThemeAdd(sender, b, name, keys)
          PROVE  BasesTypeOK' /\ WardrobeTypeOK'
      BY <1>1, <2>4, ThemeAddType DEF ThemeAdd, WardrobeTypeOK, wardrobe
    <2>5. ASSUME NEW n \in Nft, NEW e \in Nft, NEW r \in ResourceId, NEW x \in Slot,
                 Equip(sender, n, e, r, x)
          PROVE  BasesTypeOK' /\ WardrobeTypeOK'
      BY <1>1, <2>5, EquipType DEF Equip, Unequip, PutOn, BasesTypeOK, baseVars
    <2>6. QED
      BY <1>3, <2>1, <2>2, <2>3, <2>4, <2>5 DEF EquipExtrinsic
  <1>4. CASE \E sender \in Account : EquipExtrinsic(sender)
    BY <1>1, <1>3, <1>4 DEF BasesTypeOK, WardrobeTypeOK, EquipTypeOK
  <1>5. QED
    BY <1>2, <1>4 DEF EquipNext, RestOfRuntime

(* Bases, parts, themes and wardrobes stay well typed, over a rmrk-core that *)
(* stays well typed under everything the other pallets do.                   *)
THEOREM EquipTypeCorrect == EquipSpec => []EquipTypeOK
  BY InitEquipType, EquipNextType, PTL DEF EquipSpec

(* rmrk-core with rmrk-equip around it behaves as RmrkCore says.             *)
THEOREM EquipImplementsCore == EquipSpec => EquipKeepsCore
  <1>1. EquipInit => Init
    BY DEF EquipInit
  <1>2. [EquipNext]_<<vars, equipVars>> => [Next]_vars
    BY EquipNextIsCoreNext
  <1>3. QED
    BY <1>1, <1>2, PTL DEF EquipSpec, EquipKeepsCore, Spec

-----------------------------------------------------------------------------
(* What is in a slot                                                         *)

(* Bases are given in order, and one that exists keeps its slots: this, with *)
(* the first conjunct of OccupiedSlotsFit, is why a new base finds its slots *)
(* empty.                                                                    *)
BasesInOrder == \A b \in BaseId : bases[b] # None => b < nextBaseId

EquipInv == BasesInOrder /\ ThemesStartWithDefault /\ OccupiedSlotsFit

(* rmrk-core only ever adds to the two maps that rmrk-equip looks up.        *)
LEMMA IndexesGrow ==
    ASSUME [Next]_vars
    PROVE  equippableBases \subseteq equippableBases' /\ equippableSlots \subseteq equippableSlots'
  <1> DEFINE Grow == /\ equippableBases \subseteq equippableBases'
                     /\ equippableSlots \subseteq equippableSlots'
  <1>1. CASE UNCHANGED resourceVars
    BY <1>1 DEF resourceVars
  <1>2. CASE UNCHANGED <<equippableBases, equippableSlots>>
    BY <1>2
  <1>3. ASSUME NEW sender, NEW n, NEW rs, NEW root, NEW m, ResourceAdd(sender, n, rs, root, m)
        PROVE  Grow
    BY <1>3 DEF ResourceAdd
  <1>4. ASSUME NEW sender \in Account, CollectionExtrinsic(sender) PROVE UNCHANGED resourceVars
    BY <1>4 DEF CollectionExtrinsic, CreateCollection, DestroyCollection, LockCollection,
                ChangeCollectionIssuer, AcceptOwnership
  <1>5. ASSUME NEW sender \in Account, NftExtrinsic(sender) PROVE Grow
    <2>1. ASSUME NEW c \in CollectionId, NEW t, NEW rs, NEW o,
                 MintNft(sender, o, c, t, rs) \/ MintNftDirectlyToNft(sender, o, c, t, rs)
          PROVE  Grow
      BY <1>3, <2>1 DEF MintNft, MintNftDirectlyToNft
    <2>2. ASSUME NEW n \in Nft, NEW k, BurnNft(sender, n, k) \/ RejectNft(sender, n) PROVE Grow
      BY <1>2, <2>2 DEF BurnNft, RejectNft
    <2>3. ASSUME NEW n \in Nft, NEW to, Send(sender, n, to) \/ AcceptNft(sender, n, to) PROVE Grow
      BY <1>1, <2>3 DEF Send, NftSend, AcceptNft
    <2>4. QED
      BY <1>5, <2>1, <2>2, <2>3 DEF NftExtrinsic, Place
  <1>6. ASSUME NEW sender \in Account, ResourceExtrinsic(sender) PROVE Grow
    <2>1. ASSUME NEW n \in Nft, NEW r, AddResource(sender, n, r) PROVE Grow
      BY <1>3, <2>1 DEF AddResource
    <2>2. ASSUME NEW n \in Nft, NEW r, \/ AcceptResource(sender, n, r)
                                     \/ RemoveResource(sender, n, r)
                                     \/ AcceptResourceRemoval(sender, n, r)
          PROVE  Grow
      BY <1>2, <2>2 DEF AcceptResource, RemoveResource, AcceptResourceRemoval
    <2>3. ASSUME NEW n \in Nft, NEW list, SetPriority(sender, n, list) PROVE Grow
      BY <1>1, <2>3 DEF SetPriority
    <2>4. QED
      BY <1>6, <2>1, <2>2, <2>3
      DEF ResourceExtrinsic, AddBasicResource, AddComposableResource, AddSlotResource
  <1>7. ASSUME NEW sender \in Account, PropertyExtrinsic(sender) PROVE UNCHANGED resourceVars
    BY <1>7 DEF PropertyExtrinsic, SetProperty
  <1>8. ASSUME NEW sender \in Account, OtherPallets(sender) PROVE UNCHANGED resourceVars
    BY <1>8 DEF OtherPallets, SetLock, SetEquipped, Sell, NftSend
  <1>9. CASE UNCHANGED vars
    BY <1>1, <1>9 DEF vars
  <1>10. QED
    BY <1>1, <1>4, <1>5, <1>6, <1>7, <1>8, <1>9 DEF Next, Extrinsic

(* The empty storage has neither bases nor themes nor slots that are taken.  *)
LEMMA InitEquipInv == EquipInit => EquipInv
  BY DEF EquipInit, EquipInv, BasesInOrder, ThemesStartWithDefault, OccupiedSlotsFit,
         HasDefaultTheme, NoEquippings

(* No extrinsic of rmrk-equip breaks it.                                     *)
LEMMA CreateBaseInv ==
    ASSUME EquipTypeOK, EquipInv, NEW sender \in Account, NEW list \in PartLists,
           CreateBase(sender, list)
    PROVE  EquipInv'
  <1>1. nextBaseId \in BaseId
    BY EquipAssumption DEF EquipTypeOK, CreateBase
  <1>2. /\ nextBaseId' = nextBaseId + 1
        /\ \A b \in BaseId : b # nextBaseId => bases'[b] = bases[b] /\ parts'[b] = parts[b]
        /\ bases'[nextBaseId] = sender
        /\ UNCHANGED <<vars, themes, equippings, worn>>
    BY <1>1 DEF EquipTypeOK, CreateBase, wardrobe
  <1>3. BasesInOrder'
    BY <1>1, <1>2, EquipAssumption DEF EquipInv, BasesInOrder
  <1>4. ThemesStartWithDefault'
    BY <1>2, UniquesAssumption DEF EquipInv, ThemesStartWithDefault, HasDefaultTheme
  <1>5. OccupiedSlotsFit'
    <2>1. \A x \in Slot : x[1] \in BaseId /\ (x[1] < nextBaseId => x[1] # nextBaseId)
      BY <1>1, EquipAssumption DEF Slot
    <2>2. \A x \in Slot : x[1] < nextBaseId => x[1] < nextBaseId'
      BY <1>1, <1>2, EquipAssumption DEF Slot
    <2>3. QED
      BY <1>2, <2>1, <2>2 DEF EquipInv, OccupiedSlotsFit, vars, resourceVars
  <1>6. QED
    BY <1>3, <1>4, <1>5 DEF EquipInv

LEMMA DoEquippableInv ==
    ASSUME EquipTypeOK, EquipInv, NEW sender \in Account, NEW b \in BaseId, NEW s \in SlotId,
           NEW l \in EquippableLists, DoEquippable(sender, b, s, l)
    PROVE  EquipInv'
  <1>1. /\ \A c \in BaseId : c # b => parts'[c] = parts[c]
        /\ \A q \in SlotId : q # s => parts'[b][q] = parts[b][q]
        /\ parts'[b][s] \in PartType /\ parts'[b][s].slot
        /\ bases[b] = sender
        /\ UNCHANGED <<vars, nextBaseId, bases, themes, equippings, worn>>
    <2>1. parts[b][s] \in PartType
      BY DEF EquipTypeOK, DoEquippable
    <2>2. [parts[b][s] EXCEPT !.equippable = l] \in PartType
      BY <2>1, EquipAssumption DEF PartType
    <2>3. [parts[b][s] EXCEPT !.equippable = l].slot = parts[b][s].slot
      BY <2>1 DEF PartType
    <2>4. parts' = [parts EXCEPT ![b] = [parts[b] EXCEPT
                                             ![s] = [parts[b][s] EXCEPT !.equippable = l]]]
      BY DEF DoEquippable
    <2>5. parts'[b][s] = [parts[b][s] EXCEPT !.equippable = l]
      BY <2>4 DEF EquipTypeOK
    <2>6. QED
      BY <2>2, <2>3, <2>4, <2>5 DEF EquipTypeOK, DoEquippable, wardrobe
  <1>2. parts'[b][s] # None
    BY <1>1, EquipAssumption
  <1>3. BasesInOrder' /\ ThemesStartWithDefault'
    BY <1>1, UniquesAssumption
    DEF EquipInv, BasesInOrder, ThemesStartWithDefault, HasDefaultTheme
  <1>4. OccupiedSlotsFit'
    <2>1. ASSUME NEW e \in Nft, NEW x \in Slot, equippings[e][x] # None
          PROVE  parts'[x[1]][x[2]] # None /\ parts'[x[1]][x[2]].slot
      <3>1. x[1] \in BaseId /\ x[2] \in SlotId
        BY DEF Slot
      <3>2. QED
        BY <1>1, <1>2, <2>1, <3>1 DEF EquipInv, OccupiedSlotsFit
    <2>2. QED
      BY <1>1, <2>1 DEF EquipInv, OccupiedSlotsFit, vars, resourceVars
  <1>5. QED
    BY <1>3, <1>4 DEF EquipInv

LEMMA ThemeAddInv ==
    ASSUME EquipTypeOK, EquipInv, NEW sender \in Account, NEW b \in BaseId,
           NEW name \in ThemeName, NEW keys \in SUBSET ThemeKey, ThemeAdd(sender, b, name, keys)
    PROVE  EquipInv'
  <1>1. ThemesStartWithDefault'
    <2>1. \A c \in BaseId : HasDefaultTheme(c) => HasDefaultTheme(c)'
      BY DEF ThemeAdd, HasDefaultTheme
    <2>2. \A t \in themes' : t \notin themes =>
             /\ t[1] = b
             /\ HasDefaultTheme(b) \/ <<b, DefaultTheme, t[3]>> \in themes'
             /\ t[3] \in ThemeKey
      BY DEF ThemeAdd
    <2>3. bases[b] # None /\ UNCHANGED <<bases, parts>>
      BY UniquesAssumption DEF ThemeAdd
    <2>4. ASSUME NEW c \in BaseId, NEW t \in themes', t[1] = c PROVE HasDefaultTheme(c)'
      <3>1. CASE t \in themes
        <4>1. HasDefaultTheme(c)
          BY <2>4, <3>1 DEF EquipInv, ThemesStartWithDefault
        <4>2. QED
          BY <2>1, <4>1 DEF HasDefaultTheme
      <3>2. CASE t \notin themes
        <4>1. c = b /\ (HasDefaultTheme(b) \/ <<b, DefaultTheme, t[3]>> \in themes')
          BY <2>2, <2>4, <3>2
        <4>2. t[3] \in ThemeKey
          BY <2>2, <3>2
        <4>3. QED
          BY <2>1, <4>1, <4>2 DEF HasDefaultTheme
      <3>3. QED
        BY <3>1, <3>2
    <2>5. ASSUME NEW c \in BaseId, bases'[c] = None
          PROVE  parts'[c] = NoParts /\ \A t \in themes' : t[1] # c
      BY <2>2, <2>3, <2>5 DEF EquipInv, ThemesStartWithDefault
    <2>6. QED
      BY <2>4, <2>5 DEF ThemesStartWithDefault, HasDefaultTheme
  <1>2. BasesInOrder' /\ OccupiedSlotsFit'
    BY DEF ThemeAdd, EquipInv, BasesInOrder, OccupiedSlotsFit, vars, resourceVars, wardrobe
  <1>3. QED
    BY <1>1, <1>2 DEF EquipInv

(* What goes into a slot fits then, and the maps it was looked up in only    *)
(* grow.                                                                     *)
LEMMA EquipKeepsInv ==
    ASSUME EquipTypeOK, EquipInv, NEW sender \in Account, NEW n \in Nft, NEW e \in Nft,
           NEW r \in ResourceId, NEW x \in Slot, Equip(sender, n, e, r, x)
    PROVE  EquipInv'
  <1>1. UNCHANGED <<nextBaseId, bases, parts, themes>>
    BY DEF Equip, Unequip, PutOn, baseVars
  <1>2. UNCHANGED <<equippableBases, equippableSlots>>
    BY DEF Equip, Unequip, PutOn, SetEquipped, vars, resourceVars
  <1>3. BasesInOrder' /\ ThemesStartWithDefault'
    BY <1>1 DEF EquipInv, BasesInOrder, ThemesStartWithDefault, HasDefaultTheme
  <1>4. CASE Unequip(sender, n, e, x)
    <2>1. \A f \in Nft, y \in Slot : /\ worn'[f][y] = worn[f][y]
                                    /\ equippings'[f][y] \in {None, equippings[f][y]}
      BY <1>4 DEF Unequip, EquipTypeOK
    <2>2. OccupiedSlotsFit'
      BY <1>1, <1>2, <2>1 DEF EquipInv, OccupiedSlotsFit
    <2>3. QED
      BY <1>3, <2>2 DEF EquipInv
  <1>5. CASE PutOn(sender, n, e, r, x)
    <2>1. /\ equippings'[e][x] = r /\ worn'[e][x] = n
          /\ \A f \in Nft, y \in Slot : <<f, y>> # <<e, x>> =>
                /\ worn'[f][y] = worn[f][y]
                /\ equippings'[f][y] = equippings[f][y]
      BY <1>5 DEF PutOn, EquipTypeOK
    <2>2. Fits(n, e, r, x)
      BY <1>5 DEF PutOn
    <2>3. x[1] < nextBaseId
      <3>1. x[1] \in BaseId /\ x[2] \in SlotId
        BY DEF Slot
      <3>2. bases[x[1]] # None
        BY <2>2, <3>1 DEF Fits, EquipInv, ThemesStartWithDefault, NoParts
      <3>3. QED
        BY <3>1, <3>2 DEF EquipInv, BasesInOrder
    <2>4. n # None
      BY UniquesAssumption
    <2>5. OccupiedSlotsFit'
      BY <1>1, <1>2, <2>1, <2>2, <2>3, <2>4 DEF EquipInv, OccupiedSlotsFit, Fits
    <2>6. QED
      BY <1>3, <2>5 DEF EquipInv
  <1>6. QED
    BY <1>4, <1>5 DEF Equip

(* Nor does anything else.                                                   *)
LEMMA EquipNextInv ==
    ASSUME EquipTypeOK, EquipInv, [EquipNext]_<<vars, equipVars>>
    PROVE  EquipInv'
  <1>1. CASE UNCHANGED equipVars
    BY <1>1, EquipNextIsCoreNext, IndexesGrow
    DEF equipVars, baseVars, wardrobe, EquipInv, BasesInOrder, ThemesStartWithDefault,
        OccupiedSlotsFit, HasDefaultTheme
  <1>2. ASSUME NEW sender \in Account, NEW b \in BaseId, NEW new \in AccountId,
               ChangeBaseIssuer(sender, b, new)
        PROVE  EquipInv'
    <2>1. /\ bases[b] # None
          /\ \A c \in BaseId : bases'[c] = None <=> bases[c] = None
          /\ UNCHANGED <<vars, nextBaseId, parts, themes, equippings, worn>>
      BY <1>2, UniquesAssumption DEF ChangeBaseIssuer, EquipTypeOK, wardrobe, AccountId
    <2>2. QED
      BY <2>1 DEF EquipInv, BasesInOrder, ThemesStartWithDefault, OccupiedSlotsFit,
                  HasDefaultTheme, vars, resourceVars
  <1>3. ASSUME NEW sender \in Account, EquipExtrinsic(sender) PROVE EquipInv'
    BY <1>2, <1>3, CreateBaseInv, DoEquippableInv, ThemeAddInv, EquipKeepsInv DEF EquipExtrinsic
  <1>4. QED
    BY <1>1, <1>3 DEF EquipNext, RestOfRuntime, equipVars

LEMMA EquipInvariant == EquipSpec => []EquipInv
  BY InitEquipInv, EquipNextInv, EquipTypeCorrect, PTL DEF EquipSpec

(* Whatever happens to resources, lists and NFTs after an NFT was equipped,  *)
(* the slot it was put into stays a slot of its base and the entries it was  *)
(* checked against stay readable.                                            *)
THEOREM OccupiedSlotsStayFit == EquipSpec => []OccupiedSlotsFit
  <1>1. EquipInv => OccupiedSlotsFit
    BY DEF EquipInv
  <1>2. QED
    BY <1>1, EquipInvariant, PTL

(* A base has no theme before its default one, and nothing before it exists. *)
THEOREM ThemesKeepDefault == EquipSpec => []ThemesStartWithDefault
  <1>1. EquipInv => ThemesStartWithDefault
    BY DEF EquipInv
  <1>2. QED
    BY <1>1, EquipInvariant, PTL

-----------------------------------------------------------------------------
(* What a lock holds                                                         *)

(* A record that stays keeps its equipped flag in whatever rmrk-core does:   *)
(* sends and acceptances change other fields, and a mint makes a new record. *)
LEMMA CoreKeepsFlag ==
    ASSUME TypeOK, RecordHasItem, NEW sender \in Account,
           \/ Extrinsic(sender)
           \/ \E m \in Nft : \/ \E b \in BOOLEAN : SetLock(m, b)
                            \/ \E buyer \in Account : Sell(sender, m, buyer),
           NEW n \in Nft, nfts[n] # None, nfts'[n] # None
    PROVE  nfts'[n].equipped = nfts[n].equipped
  <1> DEFINE SameFlag == nfts'[n].equipped = nfts[n].equipped
  <1>1. nfts \in [Nft -> NftInfo \cup {None}] /\ nfts[n] \in NftInfo
    BY DEF TypeOK
  <1>2. CASE UNCHANGED nfts
    BY <1>2
  <1>3. ASSUME NEW c \in CollectionId, NEW t, NEW rs, NEW o,
               MintNft(sender, o, c, t, rs) \/ MintNftDirectlyToNft(sender, o, c, t, rs)
        PROVE  SameFlag
    <2>1. item[<<c, nextNftId[c]>>] = None
      BY <1>3 DEF MintNft, MintNftDirectlyToNft, DoMint
    <2>2. n # <<c, nextNftId[c]>>
      BY <2>1 DEF RecordHasItem
    <2>3. PICK record : nfts' = [nfts EXCEPT ![<<c, nextNftId[c]>>] = record]
      BY <1>3 DEF MintNft, MintNftDirectlyToNft, NftMint
    <2>4. QED
      BY <1>1, <2>2, <2>3
  <1>4. ASSUME NEW m \in Nft, NEW k, BurnNft(sender, m, k) \/ RejectNft(sender, m) PROVE SameFlag
    <2>1. \E budget, edges : NftBurn(m, budget, edges)
      BY <1>4 DEF BurnNft, RejectNft
    <2>2. nfts'[n] \in {None, nfts[n]}
      BY <2>1 DEF NftBurn
    <2>3. QED
      BY <2>2
  <1>5. ASSUME NEW m \in Nft, NEW to, NEW locked, NftSend(sender, m, to, locked) PROVE SameFlag
    BY <1>1, <1>5 DEF NftSend, NftInfo
  <1>6. ASSUME NEW m \in Nft, NEW to, AcceptNft(sender, m, to) PROVE SameFlag
    BY <1>1, <1>6 DEF AcceptNft, NftInfo
  <1>7. CASE NftExtrinsic(sender)
    BY <1>3, <1>4, <1>5, <1>6, <1>7 DEF NftExtrinsic, Place, Send
  <1>8. CASE CollectionExtrinsic(sender) \/ ResourceExtrinsic(sender) \/ PropertyExtrinsic(sender)
    BY <1>2, <1>8
    DEF CollectionExtrinsic, CreateCollection, DestroyCollection, LockCollection,
        ChangeCollectionIssuer, AcceptOwnership, ResourceExtrinsic, AddBasicResource,
        AddComposableResource, AddSlotResource, AddResource, AcceptResource, RemoveResource,
        AcceptResourceRemoval, SetPriority, PropertyExtrinsic, SetProperty, nftVars
  <1>9. CASE \E m \in Nft : \/ \E b \in BOOLEAN : SetLock(m, b)
                          \/ \E buyer \in Account : Sell(sender, m, buyer)
    BY <1>2, <1>5, <1>9 DEF SetLock, Sell, nftVars
  <1>10. QED
    BY <1>7, <1>8, <1>9 DEF Extrinsic

(* The slots and the flag of a locked NFT stay as they are, whichever of the *)
(* two NFTs of an equip is the locked one.                                   *)
THEOREM LocksHoldWardrobes == EquipSpec => LockedWardrobe
  <1> DEFINE Held(n) ==
        (lock[n] /\ lock'[n]) =>
             /\ equippings'[n] = equippings[n]
             /\ (nfts[n] # None /\ nfts'[n] # None) => nfts'[n].equipped = nfts[n].equipped
  <1>1. ASSUME EquipTypeOK, RecordHasItem, [EquipNext]_<<vars, equipVars>>, NEW n \in Nft
        PROVE  Held(n)
    <2>1. CASE UNCHANGED <<vars, equipVars>>
      BY <2>1 DEF vars, nftVars, equipVars, wardrobe
    <2>2. ASSUME NEW sender \in Account, RestOfRuntime(sender) PROVE Held(n)
      <3>1. UNCHANGED equippings
        BY <2>2 DEF RestOfRuntime, equipVars, wardrobe
      <3>2. \/ Extrinsic(sender)
            \/ \E m \in Nft : \/ \E b \in BOOLEAN : SetLock(m, b)
                             \/ \E buyer \in Account : Sell(sender, m, buyer)
        BY <2>2 DEF RestOfRuntime
      <3>3. (nfts[n] # None /\ nfts'[n] # None) => nfts'[n].equipped = nfts[n].equipped
        BY <1>1, <3>2, CoreKeepsFlag DEF EquipTypeOK
      <3>4. QED
        BY <3>1, <3>3
    <2>3. ASSUME NEW sender \in Account, NEW m \in Nft, NEW e \in Nft, NEW r \in ResourceId,
                 NEW x \in Slot, Equip(sender, m, e, r, x)
          PROVE  Held(n)
      <3>1. CASE n \in {m, e}
        <4>1. ~lock[m] /\ ~lock[e]
          BY <2>3 DEF Equip, IsLocked
        <4>2. QED
          BY <3>1, <4>1
      <3>2. CASE n \notin {m, e}
        <4>1. equippings'[n] = equippings[n]
          BY <1>1, <2>3, <3>2 DEF Equip, Unequip, PutOn, EquipTypeOK
        <4>2. nfts'[n] = nfts[n]
          BY <1>1, <2>3, <3>2
          DEF Equip, Unequip, PutOn, SetEquipped, EquipTypeOK, TypeOK, vars, nftVars
        <4>3. QED
          BY <4>1, <4>2
      <3>3. QED
        BY <3>1, <3>2
    <2>4. ASSUME NEW sender \in Account, EquipExtrinsic(sender) PROVE Held(n)
      BY <2>3, <2>4 DEF EquipExtrinsic, CreateBase, ChangeBaseIssuer, DoEquippable, ThemeAdd,
                        vars, nftVars, wardrobe
    <2>5. QED
      BY <1>1, <2>1, <2>2, <2>4 DEF EquipNext
  <1>2. EquipTypeOK /\ RecordHasItem /\ [EquipNext]_<<vars, equipVars>> =>
           [\A n \in Nft : Held(n)]_<<vars, equipVars>>
    BY <1>1
  <1>3. EquipSpec => []RecordHasItem
    BY EquipImplementsCore, RecordsKeepItems, PTL DEF EquipKeepsCore
  <1>4. QED
    BY <1>2, <1>3, EquipTypeCorrect, PTL DEF EquipSpec, LockedWardrobe

-----------------------------------------------------------------------------
(* The runtime                                                               *)

(* What rmrk-core and rmrk-equip do is to the market what it allows around    *)
(* itself.                                                                   *)
LEMMA RuntimeNextIsMarketNext ==
    ASSUME [RuntimeNext]_RuntimeVars
    PROVE  [MarketNext]_<<vars, marketVars>>
  <1>1. CASE UNCHANGED RuntimeVars
    BY <1>1 DEF RuntimeVars
  <1>2. CASE NextBlock /\ UNCHANGED equipVars
    BY <1>2 DEF MarketNext
  <1>3. ASSUME NEW sender \in Account, RuntimeExtrinsic(sender)
        PROVE  MarketExtrinsic(sender) \/ CoreExtrinsic(sender)
    BY <1>3, EquipStepIsFlag DEF RuntimeExtrinsic, CoreExtrinsic
  <1>4. QED
    BY <1>1, <1>2, <1>3 DEF RuntimeNext, MarketNext

(* What the market does is to rmrk-equip a lock or a sale of rmrk-core.      *)
LEMMA RuntimeNextIsEquipNext ==
    ASSUME DealsTypeOK, [RuntimeNext]_RuntimeVars
    PROVE  [EquipNext]_<<vars, equipVars>>
  <1>1. CASE UNCHANGED RuntimeVars \/ (NextBlock /\ UNCHANGED equipVars)
    BY <1>1 DEF RuntimeVars, NextBlock
  <1>2. ASSUME NEW sender \in Account, MarketExtrinsic(sender), UNCHANGED equipVars
        PROVE  [EquipNext]_<<vars, equipVars>>
    BY <1>2, MarketStepIsLockOrSale DEF EquipNext, RestOfRuntime
  <1>3. ASSUME NEW sender \in Account, EquipExtrinsic(sender)
        PROVE  EquipNext
    BY <1>3 DEF EquipNext
  <1>4. ASSUME NEW sender \in Account, Extrinsic(sender), UNCHANGED equipVars
        PROVE  EquipNext
    BY <1>4 DEF EquipNext, RestOfRuntime, Extrinsic
  <1>5. QED
    BY <1>1, <1>2, <1>3, <1>4 DEF RuntimeNext, RuntimeExtrinsic

(* With rmrk-equip beside it, the market's deals go on as RmrkMarket says.   *)
THEOREM RuntimeImplementsMarket == RuntimeSpec => RuntimeIsMarket
  <1>1. RuntimeInit => MarketInit
    BY DEF RuntimeInit
  <1>2. [RuntimeNext]_RuntimeVars => [MarketNext]_<<vars, marketVars>>
    BY RuntimeNextIsMarketNext
  <1>3. QED
    BY <1>1, <1>2, PTL DEF RuntimeSpec, RuntimeIsMarket, MarketSpec

(* With the market beside it, NFTs are dressed as RmrkEquip says.            *)
THEOREM RuntimeImplementsEquip == RuntimeSpec => RuntimeIsEquip
  <1>1. RuntimeInit => EquipInit
    BY DEF RuntimeInit
  <1>2. MarketTypeOK => DealsTypeOK
    BY DEF MarketTypeOK, DealsTypeOK
  <1>3. DealsTypeOK /\ [RuntimeNext]_RuntimeVars => [EquipNext]_<<vars, equipVars>>
    BY RuntimeNextIsEquipNext
  <1>4. RuntimeSpec => []MarketTypeOK
    BY RuntimeImplementsMarket, MarketTypeCorrect DEF RuntimeIsMarket
  <1>5. QED
    BY <1>1, <1>2, <1>3, <1>4, PTL DEF RuntimeSpec, RuntimeIsEquip, EquipSpec

(* A base that exists is shaped by its issuer alone: change_issuer, equippable *)
(* and theme_add are all refused to anybody else.                            *)
THEOREM IssuersShapeBases == RuntimeSpec => OnlyIssuerShapesBase
  <1> DEFINE Shaped(b) ==
        (/\ bases[b] # None
         /\ \/ bases'[b] # bases[b]
            \/ parts'[b] # parts[b]
            \/ \E t \in (themes \ themes') \cup (themes' \ themes) : t[1] = b)
           => caller' = bases[b]
  <1>1. ASSUME EquipTypeOK, BasesInOrder, [RuntimeNext]_RuntimeVars, NEW b \in BaseId
        PROVE  Shaped(b)
    <2>1. CASE UNCHANGED baseVars
      BY <2>1 DEF baseVars
    <2>2. ASSUME NEW sender \in Account, caller' = sender, EquipExtrinsic(sender) PROVE Shaped(b)
      <3>1. ASSUME NEW list \in PartLists, CreateBase(sender, list) PROVE Shaped(b)
        <4>1. bases[b] # None => b # nextBaseId
          BY <1>1, EquipAssumption DEF BasesInOrder
        <4>2. QED
          BY <1>1, <3>1, <4>1 DEF CreateBase, EquipTypeOK
      <3>2. ASSUME NEW c \in BaseId, NEW new \in AccountId, ChangeBaseIssuer(sender, c, new)
            PROVE  Shaped(b)
        BY <1>1, <2>2, <3>2 DEF ChangeBaseIssuer, EquipTypeOK
      <3>3. ASSUME NEW c \in BaseId, NEW s \in SlotId, NEW l, DoEquippable(sender, c, s, l)
            PROVE  Shaped(b)
        BY <1>1, <2>2, <3>3 DEF DoEquippable, EquipTypeOK
      <3>4. ASSUME NEW c \in BaseId, NEW name, NEW keys, ThemeAdd(sender, c, name, keys)
            PROVE  Shaped(b)
        BY <2>2, <3>4 DEF ThemeAdd
      <3>5. ASSUME NEW n, NEW e, NEW r, NEW x, Equip(sender, n, e, r, x) PROVE Shaped(b)
        BY <2>1, <3>5 DEF Equip, Unequip, PutOn
      <3>6. QED
        BY <2>2, <3>1, <3>2, <3>3, <3>4, <3>5 DEF EquipExtrinsic
    <2>3. QED
      BY <1>1, <2>1, <2>2 DEF RuntimeNext, RuntimeExtrinsic, RuntimeVars, equipVars
  <1>2. EquipTypeOK /\ BasesInOrder /\ [RuntimeNext]_RuntimeVars =>
           [\A b \in BaseId : Shaped(b)]_RuntimeVars
    BY <1>1
  <1>3. EquipInv => BasesInOrder
    BY DEF EquipInv
  <1>4. RuntimeSpec => []EquipTypeOK /\ []BasesInOrder
    BY <1>3, RuntimeImplementsEquip, EquipTypeCorrect, EquipInvariant, PTL DEF RuntimeIsEquip
  <1>5. QED
    BY <1>2, <1>4, PTL DEF RuntimeSpec, OnlyIssuerShapesBase

(* rmrk-core's invariants hold in the runtime.                               *)
LEMMA RuntimeKeepsCoreInv == RuntimeSpec => []CoreInv
  BY RuntimeImplementsMarket, MarketKeepsCoreInv DEF RuntimeIsMarket

(* Whoever sends, buys or sells, an equipped NFT stays with its wearer until *)
(* its root owner has it accepted elsewhere, or burns it.                    *)
THEOREM EquippedStayOn == RuntimeSpec => OnlyAcceptMovesEquipped
  <1> DEFINE Stays(n) == item'[n] \in {item[n], None}
             Moved(n) ==
                (nfts[n] # None /\ nfts[n].equipped /\ item'[n] \notin {item[n], None}) =>
                   \E to \in AccountId \cup Nft : AcceptNft(caller', n, to)
  <1>1. ASSUME CoreInv, DealsTypeOK, [RuntimeNext]_RuntimeVars, NEW n \in Nft,
               nfts[n] # None, nfts[n].equipped
        PROVE  Stays(n) \/ \E to \in AccountId \cup Nft : AcceptNft(caller', n, to)
    <2>0. TypeOK /\ item[n] # None /\ item \in [Nft -> AccountId \cup {None}]
      BY <1>1, OwnedIsUsed DEF CoreInv, TypeOK, UniquesTypeOK
    <2>1. CASE UNCHANGED item
      BY <2>1
    <2>2. ASSUME NEW sender, NEW m \in Nft, NEW to, NEW locked, NftSend(sender, m, to, locked)
          PROVE  Stays(n)
      <3>1. m # n /\ \E a : item' = [item EXCEPT ![m] = a]
        BY <1>1, <2>2 DEF NftSend, DoTransfer
      <3>2. QED
        BY <2>0, <3>1
    <2>3. ASSUME NEW sender \in Account, MarketExtrinsic(sender) PROVE Stays(n)
      <3>1. \/ UNCHANGED vars
            \/ \E owner \in Account, m \in Nft :
                 \/ \E b \in BOOLEAN : SetLock(m, b)
                 \/ \E buyer \in Account : Sell(owner, m, buyer)
        BY <1>1, <2>3, MarketStepIsLockOrSale
      <3>2. CASE UNCHANGED vars \/ \E m \in Nft, b \in BOOLEAN : SetLock(m, b)
        BY <2>1, <3>2 DEF SetLock, vars, uniquesVars
      <3>3. QED
        BY <2>2, <3>1, <3>2 DEF Sell
    <2>4. ASSUME NEW sender \in Account, EquipExtrinsic(sender) PROVE UNCHANGED item
      BY <2>4 DEF EquipExtrinsic, CreateBase, ChangeBaseIssuer, DoEquippable, ThemeAdd, Equip,
         Unequip, PutOn, SetEquipped, vars, uniquesVars
    <2>5. ASSUME NEW sender \in Account, Extrinsic(sender), caller' = sender
          PROVE  Stays(n) \/ \E to \in AccountId \cup Nft : AcceptNft(caller', n, to)
      <3>1. CASE CollectionExtrinsic(sender)
        BY <2>0, <3>1
        DEF CollectionExtrinsic, CreateCollection, DoCreateCollection, DestroyCollection,
            DoDestroyCollection, LockCollection, ChangeCollectionIssuer, TransferOwnership,
            AcceptOwnership, SetAcceptOwnership, uniquesVars
      <3>2. CASE NftExtrinsic(sender)
        <4>1. ASSUME NEW c \in CollectionId, NEW t, NEW rs, NEW o,
                     MintNft(sender, o, c, t, rs) \/ MintNftDirectlyToNft(sender, o, c, t, rs)
              PROVE  Stays(n)
          <5>1. \E m, a : item[m] = None /\ item' = [item EXCEPT ![m] = a]
            BY <4>1 DEF MintNft, MintNftDirectlyToNft, DoMint
          <5>2. QED
            BY <2>0, <5>1
        <4>2. ASSUME NEW m \in Nft, NEW k, BurnNft(sender, m, k) \/ RejectNft(sender, m)
              PROVE  Stays(n)
          BY <2>0, <4>2 DEF BurnNft, RejectNft, DoBurn, uniquesVars
        <4>3. ASSUME NEW m \in Nft, NEW to \in AccountId \cup Nft, AcceptNft(sender, m, to)
              PROVE  Stays(n) \/ \E o \in AccountId \cup Nft : AcceptNft(caller', n, o)
          <5>1. CASE m = n
            BY <2>5, <4>3, <5>1
          <5>2. CASE m # n
            <6>1. \E a : item' = [item EXCEPT ![m] = a]
              BY <4>3 DEF AcceptNft, DoTransfer
            <6>2. QED
              BY <2>0, <5>2, <6>1
          <5>3. QED
            BY <5>1, <5>2
        <4>4. QED
          BY <2>2, <3>2, <4>1, <4>2, <4>3 DEF NftExtrinsic, Place, Send
      <3>3. CASE ResourceExtrinsic(sender) \/ PropertyExtrinsic(sender)
        BY <2>1, <3>3 DEF ResourceExtrinsic, AddBasicResource, AddComposableResource,
           AddSlotResource, AddResource, AcceptResource, RemoveResource, AcceptResourceRemoval,
           SetPriority, PropertyExtrinsic, SetProperty, uniquesVars
      <3>4. QED
        BY <2>5, <3>1, <3>2, <3>3 DEF Extrinsic
    <2>6. CASE UNCHANGED RuntimeVars \/ NextBlock
      BY <2>1, <2>6 DEF RuntimeVars, NextBlock, vars, uniquesVars
    <2>7. QED
      BY <1>1, <2>1, <2>3, <2>4, <2>5, <2>6 DEF RuntimeNext, RuntimeExtrinsic
  <1>2. CoreInv /\ DealsTypeOK /\ [RuntimeNext]_RuntimeVars =>
           [\A n \in Nft : Moved(n)]_RuntimeVars
    BY <1>1
  <1>3. MarketTypeOK => DealsTypeOK
    BY DEF MarketTypeOK, DealsTypeOK
  <1>4. RuntimeSpec => []MarketTypeOK
    BY RuntimeImplementsMarket, MarketTypeCorrect DEF RuntimeIsMarket
  <1>5. QED
    BY <1>2, <1>3, <1>4, RuntimeKeepsCoreInv, PTL DEF RuntimeSpec, OnlyAcceptMovesEquipped

(* All that is proved of rmrk-core, of the market and of rmrk-equip holds in *)
(* the runtime; here what a user relies on most.                             *)
THEOREM RuntimeKeepsOwnership ==
    RuntimeSpec => OwnershipPromise /\ RootOwnersConsent /\ LostStaysLost
  BY RuntimeImplementsMarket, MarketKeepsOwnership DEF RuntimeIsMarket
=============================================================================
