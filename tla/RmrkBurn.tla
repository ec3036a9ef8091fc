------------------------------ MODULE RmrkBurn ------------------------------
(***************************************************************************)
(* nft_burn from the inside.  RmrkCore takes a burn as one step, NftBurn,  *)
(* whose effect it works out from the storage the call finds.  Here the    *)
(* recursive calls run one after the other on the storage itself: a call   *)
(* removes what it burns, drains its entries of Children one at a time,    *)
(* calls itself for each, and counts when it returns, while calls below it *)
(* remove records and entries it has yet to come to.                       *)
(*                                                                         *)
(* A behaviour is one call, of burn_nft or reject_nft.  It runs to its     *)
(* end, since nothing runs beside it; one that fails is rolled back.       *)
(***************************************************************************)
EXTENDS RmrkCore

CONSTANTS Present,   \* the NFTs minted so far, which Children and records may name
          Budgets    \* the max_recursions of the call

VARIABLES call,      \* the arguments of the call
          before,    \* the storage it found
          frames,    \* the calls that have not returned, the innermost last
          status     \* "running", "done" or "failed"

storage == <<nfts, children, resources, collections>>
unread == <<uniquesVars, collectionIndex, nextNftId, nextResourceId, equippableBases,
            equippableSlots, metaVars, lock, signer>>
burnVars == <<vars, call, before, frames, status>>

Edges(n) == (Present \X Present) \ {<<n, n>>}

\* The hashed key of a Children entry ends with the key itself: no two are the same.
ASSUME BurnAssumption ==
    /\ Present \subseteq Nft
    /\ Budgets \subseteq Nat
    /\ \A m, n \in Nft : HashRank[m] = HashRank[n] => m = n

Storage == [nfts |-> nfts, children |-> children, resources |-> resources,
            collections |-> collections]

-----------------------------------------------------------------------------
(* What a call may find.  Children keeps entries of NFTs that were accepted  *)
(* elsewhere or burned through another parent, in any direction and in       *)
(* circles.  An NFT sent to its own virtual account has an entry of itself   *)
(* and no root owner, so that it is not the one burned; an NFT without a     *)
(* record may still be sent NFTs through its virtual account.  The owner in  *)
(* a record may be any NFT it was once minted into; an account there, real   *)
(* or virtual, has no Children.  A collection without NFTs may be gone.  All *)
(* items that can be are back with one account.                              *)
Record(o) == [owner |-> o, equipped |-> FALSE, pending |-> FALSE, transferable |-> TRUE]

BurnInit ==
    \E who \in Account, n \in Present, budget \in Budgets,
       owners \in [Present -> {None} \cup Account \cup Present] :
       /\ \A m \in Present : owners[m] \in {None, who} \cup (Present \ {m})
       /\ nfts = [m \in Nft |-> IF m \in Present /\ owners[m] # None THEN Record(owners[m]) ELSE None]
       /\ children \in SUBSET Edges(n)
       /\ collections \in [CollectionId ->
             {[issuer |-> who, max |-> None, nfts_count |-> k] : k \in 0..Cardinality(Present)}
             \cup {None}]
       /\ collections[n[1]] # None
       /\ \A c \in CollectionId :
             LET records == Cardinality(RecordsOf(c)) IN
             IF collections[c] = None THEN records = 0 ELSE collections[c].nfts_count <= records
       /\ class = [c \in CollectionId |->
             IF collections[c] = None THEN None
             ELSE [owner |-> who, items |-> Cardinality({m \in Present : m[1] = c})]]
       /\ item = [m \in Nft |-> IF m \notin Present \/ collections[m[1]] = None THEN None
                               ELSE IF <<m, m>> \in children THEN NftToAccountId(m) ELSE who]
       /\ resources = [m \in Nft |-> NoResources]
       /\ nextNftId = [c \in CollectionId |-> Cardinality({m \in Present : m[1] = c})]
       /\ collectionIndex = CollectionIdMax
       /\ acceptance = [a \in Account |-> None]
       /\ nextResourceId = [m \in Nft |-> 0]
       /\ equippableBases = {} /\ equippableSlots = {}
       /\ priorities = [m \in Nft |-> NoResources]
       /\ properties = [s \in Scope |-> NoProperties]
       /\ lock = [m \in Nft |-> FALSE]
       /\ signer = who
       /\ call = [nft |-> n, budget |-> budget]
       /\ before = Storage
       /\ frames = <<[nft |-> n, budget |-> budget, entered |-> FALSE]>>
       /\ status = "running"

-----------------------------------------------------------------------------
Frame == frames[Len(frames)]
Entries(n) == {e \in children : e[1] = n}

\* An error passes up through all calls, and the extrinsic is rolled back.
Fail ==
    /\ status' = "failed"
    /\ frames' = <<>>
    /\ nfts' = before.nfts
    /\ children' = before.children
    /\ resources' = before.resources
    /\ collections' = before.collections

Enter_lastRefused ==
    /\ ~Frame.entered
    /\ IF Frame.budget > 1
       THEN /\ nfts' = [nfts EXCEPT ![Frame.nft] = None]
            /\ children' = children \ OwnEntry(Frame.nft)
            /\ resources' = [resources EXCEPT ![Frame.nft] = NoResources]
            /\ frames' = [frames EXCEPT ![Len(frames)].entered = TRUE]
            /\ UNCHANGED <<collections, status>>
       ELSE Fail

Enter_keepsEntry ==
    /\ ~Frame.entered
    /\ IF Frame.budget > 0
       THEN /\ nfts' = [nfts EXCEPT ![Frame.nft] = None]
            /\ resources' = [resources EXCEPT ![Frame.nft] = NoResources]
            /\ frames' = [frames EXCEPT ![Len(frames)].entered = TRUE]
            /\ UNCHANGED <<children, collections, status>>
       ELSE Fail

\* The record names the parent whose entry goes, so it is read before it is removed.
Enter ==
    /\ ~Frame.entered
    /\ IF Frame.budget > 0
       THEN /\ nfts' = [nfts EXCEPT ![Frame.nft] = None]
            /\ children' = children \ OwnEntry(Frame.nft)
            /\ resources' = [resources EXCEPT ![Frame.nft] = NoResources]
            /\ frames' = [frames EXCEPT ![Len(frames)].entered = TRUE]
            /\ UNCHANGED <<collections, status>>
       ELSE Fail

Drain_iterates ==
    /\ Frame.entered
    /\ \E e \in Entries(Frame.nft) :
          /\ \A f \in Entries(Frame.nft) : HashRank[e[2]] <= HashRank[f[2]]
          /\ frames' = Append(frames, [nft |-> e[2], budget |-> Frame.budget - 1,
                                       entered |-> FALSE])
    /\ UNCHANGED <<children, nfts, resources, collections, status>>

\* The next entry in hash order is taken out, whatever the calls before it left.
Drain ==
    /\ Frame.entered
    /\ \E e \in Entries(Frame.nft) :
          /\ \A f \in Entries(Frame.nft) : HashRank[e[2]] <= HashRank[f[2]]
          /\ children' = children \ {e}
          /\ frames' = Append(frames, [nft |-> e[2], budget |-> Frame.budget - 1,
                                       entered |-> FALSE])
    /\ UNCHANGED <<nfts, resources, collections, status>>

\* saturating_dec, in a collection that must still be there.
Return ==
    LET c == Frame.nft[1] IN
    /\ Frame.entered
    /\ Entries(Frame.nft) = {}
    /\ IF collections[c] # None
       THEN /\ collections' = [collections EXCEPT ![c].nfts_count = IF @ = 0 THEN 0 ELSE @ - 1]
            /\ frames' = SubSeq(frames, 1, Len(frames) - 1)
            /\ status' = IF Len(frames) = 1 THEN "done" ELSE "running"
            /\ UNCHANGED <<nfts, children, resources>>
       ELSE Fail

BurnNext ==
    /\ status = "running"
    /\ Enter \/ Drain \/ Return
    /\ UNCHANGED <<unread, call, before>>

\* The call runs on one thread, which nothing interrupts.
BurnSpec == BurnInit /\ [][BurnNext]_burnVars /\ WF_burnVars(BurnNext)

-----------------------------------------------------------------------------
(* Properties *)

\* What the rest of the chain sees: the storage of before until the call is over.
Seen == IF status = "running" THEN before ELSE Storage

Atomic == INSTANCE RmrkCore WITH
    nfts <- Seen.nfts, children <- Seen.children,
    resources <- Seen.resources, collections <- Seen.collections

(* The recursion does what RmrkCore's burn does in one step, or nothing:      *)
(* entries drained before or by an inner call, NFTs reached twice or in a     *)
(* circle, and counters that saturate give the same storage (functions.rs:    *)
(* 399-433).                                                                  *)
BurnIsAtomic ==
    [][Atomic!NftBurn(call.nft, call.budget, Seen.children)]_Seen

(* A burn is refused only when the walk over what it finds is: when it goes   *)
(* deeper than its budget, or to an NFT of a collection that is gone          *)
(* (functions.rs:404, 426).                                                   *)
RefusedForCause ==
    status = "failed" => ~Atomic!BurnWalk(call.nft, call.budget, Seen.children).ok

(* Every burn ends, also over Children that go round in circles: entries are  *)
(* drained and not just read (functions.rs:419-423).                          *)
BurnEnds == <>(status # "running")
=============================================================================
