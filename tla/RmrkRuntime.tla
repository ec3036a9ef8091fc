----------------------------- MODULE RmrkRuntime -----------------------------
(***************************************************************************)
(* The runtime: construct_runtime puts rmrk-core, rmrk-market, rmrk-equip  *)
(* and pallet_uniques side by side, and its call filter leaves to accounts *)
(* the extrinsics of the first three and set_accept_ownership of the last. *)
(* The pallets share rmrk-core's storage: rmrk-market locks and sells what *)
(* rmrk-equip dresses, and rmrk-core burns and moves it under both.        *)
(***************************************************************************)
EXTENDS RmrkMarket, RmrkEquip

RuntimeInit == MarketInit /\ EquipInit

\* One extrinsic of one of the pallets; rmrk-core's runs in the caller's name.
RuntimeExtrinsic(sender) ==
    \/ MarketExtrinsic(sender) /\ UNCHANGED equipVars
    \/ EquipExtrinsic(sender) /\ UNCHANGED marketStorage
    \/ Extrinsic(sender) /\ UNCHANGED <<marketStorage, equipVars>>

RuntimeNext ==
    \/ \E sender \in Account :
          /\ caller' = sender
          /\ RuntimeExtrinsic(sender)
          /\ UNCHANGED block
    \/ NextBlock /\ UNCHANGED equipVars

RuntimeVars == <<vars, marketVars, equipVars>>

RuntimeSpec == RuntimeInit /\ [][RuntimeNext]_RuntimeVars

-----------------------------------------------------------------------------
(* Properties *)

(* Each pallet keeps what it promises when the other one is there too: the    *)
(* runtime is at once a run of RmrkMarket and a run of RmrkEquip              *)
(* (runtime/src/lib.rs:412-434).  Proved, not run.                            *)
RuntimeIsMarket == MarketSpec
RuntimeIsEquip == EquipSpec

(* A base belongs to its issuer: its issuer, its parts and its themes change  *)
(* only when that issuer signs, before and after the base is handed over      *)
(* (rmrk-equip lib.rs:245, functions.rs:332, 375; base_change_issuer itself    *)
(* checks nothing).                                                           *)
OnlyIssuerShapesBase ==
    [][\A b \in BaseId :
          (/\ bases[b] # None
           /\ \/ bases'[b] # bases[b]
              \/ parts'[b] # parts[b]
              \/ \E t \in (themes \ themes') \cup (themes' \ themes) : t[1] = b)
             => caller' = bases[b]]_RuntimeVars

(* An equipped NFT is moved by accept_nft alone, in its root owner's name: no  *)
(* send, no purchase and no accepted offer takes it out of its wearer         *)
(* (functions.rs:458-459 is the only check, and nft_accept has none), so that *)
(* the slot of rmrk-equip goes stale by the root owner's own doing only.      *)
OnlyAcceptMovesEquipped ==
    [][\A n \in Nft :
          (nfts[n] # None /\ nfts[n].equipped /\ item'[n] \notin {item[n], None}) =>
             \E to \in AccountId \cup Nft : AcceptNft(caller', n, to)]_RuntimeVars

-----------------------------------------------------------------------------
(* What comments of the repository say and the code does not keep.            *)

(* rmrk-equip functions.rs:114-117: unequipping is for the owner of the item  *)
(* that is equipped or of the equipper, unless that item is burned.  Said     *)
(* here of two NFTs that exist and whose root owners are accounts.            *)
UnequippedByOwners ==
    [][\A e \in Nft, x \in Slot :
          LET n == worn[e][x]
              owners == {LookupRootOwner(n), LookupRootOwner(e)}
          IN
          (/\ equippings[e][x] # None /\ equippings'[e][x] = None
           /\ nfts[n] # None /\ nfts[e] # None /\ owners \subseteq Account)
             => caller' \in owners]_RuntimeVars
=============================================================================
