----------------------------- MODULE RmrkUniques -----------------------------
(***************************************************************************)
(* pallet_uniques as rmrk-core uses it (external to this repository): it   *)
(* keeps who owns a class and an item, and how many items a class has.     *)
(* The owner of an item is an account, and rmrk-core gives the item of a   *)
(* nested NFT to the "virtual account" of the NFT that owns it.            *)
(* Deposits and the pallet's own frozen flags are left out: rmrk-core      *)
(* never sets a flag, and a deposit that cannot be reserved is an          *)
(* extrinsic that does not happen.                                         *)
(***************************************************************************)
EXTENDS NftForest, Naturals, FiniteSets

CONSTANTS Account,          \* accounts that can sign, none of them virtual
          None,             \* Option::None, and the content of an unused storage entry
          CollectionIdMax,  \* stands for CollectionId::MAX: the last id is never given
          NftIdMax          \* stands for NftId::MAX: the last id is never given

VARIABLES class,            \* uniques Class: owner and number of items
          item,             \* uniques Asset: the owner of an item
          acceptance        \* uniques OwnershipAcceptance

uniquesVars == <<class, item, acceptance>>

CollectionId == 0..(CollectionIdMax - 1)
NftId == 0..(NftIdMax - 1)
Nft == CollectionId \X NftId

\* nft_to_account_id, decode_nft_account_id: the salt and the zero suffix make the
\* encoding injective and tell a virtual account from a real one.
NftToAccountId(n) == <<"RmrkNft/", n[1], n[2]>>
VirtualAccount == {NftToAccountId(n) : n \in Nft}
DecodeNftAccountId(a) == IF a \in VirtualAccount THEN <<a[2], a[3]>> ELSE a

\* Nobody signs for a virtual account, but an argument may well be one, also that of an
\* NFT that does not exist.
AccountId == Account \cup VirtualAccount

ClassInfo == [owner : Account, items : Nat]

ASSUME UniquesAssumption ==
    /\ CollectionIdMax \in Nat
    /\ NftIdMax \in Nat
    /\ Account \cap Nft = {}
    /\ Account \cap VirtualAccount = {}
    /\ Nft \cap VirtualAccount = {}
    /\ None \notin Account \cup Nft \cup VirtualAccount \cup Nat \cup ClassInfo

UniquesTypeOK ==
    /\ class \in [CollectionId -> ClassInfo \cup {None}]
    /\ item \in [Nft -> AccountId \cup {None}]
    /\ acceptance \in [Account -> CollectionId \cup {None}]

UniquesInit ==
    /\ class = [c \in CollectionId |-> None]
    /\ item = [n \in Nft |-> None]
    /\ acceptance = [a \in Account |-> None]

ItemsOf(c) == {n \in Nft : n[1] = c /\ item[n] # None}

-----------------------------------------------------------------------------
DoCreateCollection(c, who) ==
    /\ class[c] = None
    /\ class' = [class EXCEPT ![c] = [owner |-> who, items |-> 0]]
    /\ UNCHANGED <<item, acceptance>>

\* The witness must be the current count and the signer the owner of the class.
DoDestroyCollection(c, who) ==
    /\ class[c] # None
    /\ class[c].items = 0
    /\ class[c].owner = who
    /\ class' = [class EXCEPT ![c] = None]
    /\ item' = [n \in Nft |-> IF n[1] = c THEN None ELSE item[n]]
    /\ UNCHANGED acceptance

DoMint(n, who) ==
    /\ class[n[1]] # None
    /\ item[n] = None
    /\ item' = [item EXCEPT ![n] = who]
    /\ class' = [class EXCEPT ![n[1]].items = @ + 1]
    /\ UNCHANGED acceptance

\* A locked item can be burned: only transfers ask the Locker.
DoBurn(n) ==
    /\ class[n[1]] # None
    /\ item[n] # None
    /\ item' = [item EXCEPT ![n] = None]
    /\ class' = [class EXCEPT ![n[1]].items = IF @ = 0 THEN 0 ELSE @ - 1]
    /\ UNCHANGED acceptance

DoTransfer(n, to, locked) ==
    /\ class[n[1]] # None
    /\ ~locked
    /\ item[n] # None
    /\ item' = [item EXCEPT ![n] = to]
    /\ UNCHANGED <<class, acceptance>>

TransferOwnership(c, who, new) ==
    /\ acceptance[new] = c
    /\ class[c] # None
    /\ class[c].owner = who
    /\ IF new = who
       THEN UNCHANGED <<class, acceptance>>
       ELSE /\ class' = [class EXCEPT ![c].owner = new]
            /\ acceptance' = [acceptance EXCEPT ![new] = None]
    /\ UNCHANGED item

SetAcceptOwnership(who, maybeCollection) ==
    /\ acceptance' = [acceptance EXCEPT ![who] = maybeCollection]
    /\ UNCHANGED <<class, item>>
=============================================================================
