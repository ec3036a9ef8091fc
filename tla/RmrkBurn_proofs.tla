---------------------------- MODULE RmrkBurn_proofs ----------------------------
(***************************************************************************)
(* The burn that runs call by call is the burn that RmrkCore takes in one  *)
(* step, for any number of NFTs, any Children map and any budget.          *)
(*                                                                         *)
(* RmrkCore works the burn out by a walk over the storage the call finds,  *)
(* one entry drained or one NFT left at a time.  The running program       *)
(* follows that walk: its stack of calls is the walk's stack, and what it  *)
(* has removed so far is what the walk has passed.                         *)
(***************************************************************************)
EXTENDS RmrkBurn, RmrkCore_proofs

-----------------------------------------------------------------------------
(* The walk over a storage st, as a function of the number of steps.         *)
StorageType == [nfts : [Nft -> NftInfo \cup {None}],
                children : SUBSET (Nft \X Nft),
                resources : [Nft -> [ResourceId -> ResourceInfo \cup {None}]],
                collections : [CollectionId -> CollectionInfo \cup {None}]]

WalkState == [stack : Seq(Nft), edges : SUBSET (Nft \X Nft), drained : SUBSET (Nft \X Nft),
              ok : BOOLEAN]

\* OwnEntry, BurnStep and BurnWalk of RmrkCore, in the storage st.
Own(st, n) == IF st.nfts[n] = None THEN {} ELSE {<<st.nfts[n].owner, n>>}
Leading(s) == {e \in s.edges : e[1] = s.stack[Len(s.stack)]}
NextEntry(E) == CHOOSE e \in E : \A f \in E : HashRank[e[2]] <= HashRank[f[2]]

WalkOut(st, s) ==
    [s EXCEPT !.stack = SubSeq(s.stack, 1, Len(s.stack) - 1),
              !.ok = st.collections[s.stack[Len(s.stack)][1]] # None]
WalkDown(st, s, e, budget) ==
    [stack   |-> Append(s.stack, e[2]),
     edges   |-> s.edges \ ({e} \cup Own(st, e[2])),
     drained |-> s.drained \cup {e},
     ok      |-> Len(s.stack) < budget]
WalkStep(st, s, budget) ==
    IF s.stack = <<>> \/ ~s.ok THEN s
    ELSE IF Leading(s) = {} THEN WalkOut(st, s) ELSE WalkDown(st, s, NextEntry(Leading(s)), budget)

WalkStart(st, n, budget) ==
    [stack |-> <<n>>, edges |-> st.children \ Own(st, n), drained |-> {}, ok |-> budget > 0]
Walk(st, n, budget) ==
    CHOOSE w : w = [k \in Nat |-> IF k = 0 THEN WalkStart(st, n, budget)
                                           ELSE WalkStep(st, w[k - 1], budget)]

\* The NFTs that the walk has reached.
Reached(n, s) == {n} \cup {e[2] : e \in s.drained}

(* What holds along the walk: an entry goes when it is drained or when the    *)
(* NFT it leads to is reached through another parent, and nothing leads out   *)
(* of an NFT that was reached and left.                                       *)
Walked(st, n, s) ==
    /\ s \in WalkState
    /\ s.drained \subseteq st.children
    /\ \A e \in s.drained : e[1] \in Reached(n, s)
    /\ s.edges = {e \in st.children \ s.drained : \A m \in Reached(n, s) : e \notin Own(st, m)}
    /\ \A e \in s.edges :
          e[1] \in Reached(n, s) => \E i \in 1..Len(s.stack) : s.stack[i] = e[1]
    /\ \A i \in 1..Len(s.stack) : s.stack[i] \in Reached(n, s)

\* The visits of a collection that have not been counted yet.
OnStack(s, c) == Cardinality({i \in 1..Len(s.stack) : s.stack[i][1] = c})

-----------------------------------------------------------------------------
(* How the running program follows the walk s.  A call that was just made has *)
(* not removed its record and entry yet, which the walk has passed.           *)
AtEntry == frames # <<>> /\ ~Frame.entered

FramesFollow(s) ==
    /\ Len(frames) = Len(s.stack)
    /\ \A i \in 1..Len(frames) :
          /\ frames[i].nft = s.stack[i]
          /\ frames[i].budget = call.budget - i + 1
          /\ i < Len(frames) => frames[i].entered
    /\ s.ok <=> (AtEntry => Frame.budget > 0)

EdgesFollow(s) == s.edges = children \ (IF AtEntry THEN Own(before, Frame.nft) ELSE {})

RecordsFollow(s) ==
    \A m \in Nft :
       /\ nfts[m] \in {None, before.nfts[m]}
       /\ nfts[m] = None => Own(before, m) \cap children = {}
       /\ IF m \in Reached(call.nft, s)
          THEN ~(AtEntry /\ m = Frame.nft) => nfts[m] = None /\ resources[m] = NoResources
          ELSE nfts[m] = before.nfts[m] /\ resources[m] = before.resources[m]

CountsFollow(s) ==
    \A c \in CollectionId :
       LET was == before.collections[c]
           counted == Visits(call.nft, s.drained, c) - OnStack(s, c)
       IN IF was = None THEN collections[c] = None
          ELSE collections[c] = [was EXCEPT !.nfts_count =
                                    IF counted >= was.nfts_count THEN 0
                                    ELSE was.nfts_count - counted]

Follows(s) == FramesFollow(s) /\ EdgesFollow(s) /\ RecordsFollow(s) /\ CountsFollow(s)

\* The walk of the call, and the number of steps that RmrkCore allows it.
TheWalk == Walk(before, call.nft, call.budget)
Enough == 2 * Cardinality(before.children) + 1

BurnTypeOK ==
    /\ Storage \in StorageType
    /\ before \in StorageType
    /\ call \in [nft : Nft, budget : Nat]
    /\ frames \in Seq([nft : Nft, budget : Int, entered : BOOLEAN])
    /\ status \in {"running", "done", "failed"}

BurnInv ==
    /\ BurnTypeOK
    /\ status = "running" =>
          /\ frames # <<>>
          /\ \E k \in Nat : \E s \in {TheWalk[k]} :
                /\ Walked(before, call.nft, s)
                /\ Follows(s)
                /\ k + Len(frames) = 2 * Cardinality(s.drained) + 1
    /\ status = "failed" => Storage = before /\ ~TheWalk[Enough].ok

-----------------------------------------------------------------------------
(* The recursion that defines the walk has a solution: a step more can always *)
(* be taken, and walks of different lengths agree.                           *)
WalkOnce(w, st, n, budget) ==
    [k \in Nat |-> IF k = 0 THEN WalkStart(st, n, budget) ELSE WalkStep(st, w[k - 1], budget)]
WalkUpto(w, k, st, n, budget) ==
    \A j \in 0..k : w[j] = IF j = 0 THEN WalkStart(st, n, budget)
                                    ELSE WalkStep(st, w[j - 1], budget)

(* Walks agree as far as both go.                                            *)
LEMMA WalksAgree ==
    ASSUME NEW st, NEW n, NEW budget, NEW v, NEW w, NEW k \in Nat,
           WalkUpto(v, k, st, n, budget), WalkUpto(w, k, st, n, budget)
    PROVE  \A j \in 0..k : v[j] = w[j]
  <1> DEFINE Bad == {j \in 0..k : v[j] # w[j]}
  <1> SUFFICES ASSUME Bad # {} PROVE FALSE
    OBVIOUS
  <1>1. PICK j \in Bad : \A i \in Bad : j <= i
    <2>1. Bad \in SUBSET Nat
      OBVIOUS
    <2> HIDE DEF Bad
    <2>2. QED BY <2>1, LeastNatural
  <1>2. CASE j = 0
    BY <1>2 DEF WalkUpto
  <1>3. CASE j # 0
    <2>1. j - 1 \in 0..k /\ j - 1 \notin Bad
      <3>1. j \in 0..k /\ j - 1 \in Int /\ j \in Int
        OBVIOUS
      <3> HIDE DEF Bad
      <3>2. QED BY <1>1, <1>3, <3>1
    <2>2. v[j - 1] = w[j - 1]
      BY <2>1
    <2>3. v[j] = WalkStep(st, v[j - 1], budget) /\ w[j] = WalkStep(st, w[j - 1], budget)
      BY <1>3 DEF WalkUpto
    <2>4. QED
      BY <2>2, <2>3
  <1>4. QED
    BY <1>2, <1>3

(* There are walks of every length.                                          *)
LEMMA WalksExist ==
    ASSUME NEW st, NEW n, NEW budget
    PROVE  \A k \in Nat : \E w : WalkUpto(w, k, st, n, budget)
  <1> DEFINE Bad == {k \in Nat : ~ \E w : WalkUpto(w, k, st, n, budget)}
  <1> SUFFICES ASSUME Bad # {} PROVE FALSE
    OBVIOUS
  <1>1. PICK k \in Bad : \A j \in Bad : k <= j
    <2>1. Bad \in SUBSET Nat
      OBVIOUS
    <2> HIDE DEF Bad
    <2>2. QED BY <2>1, LeastNatural
  <1>2. CASE k = 0
    <2>1. WalkUpto([j \in Nat |-> WalkStart(st, n, budget)], 0, st, n, budget)
      BY DEF WalkUpto
    <2>2. QED
      BY <1>2, <2>1
  <1>3. CASE k # 0
    <2>1. k \in Nat /\ k - 1 \in Nat /\ k - 1 \notin Bad
      <3>1. k \in Nat
        OBVIOUS
      <3> HIDE DEF Bad
      <3>2. QED BY <1>1, <1>3, <3>1
    <2>2. PICK w : WalkUpto(w, k - 1, st, n, budget)
      BY <2>1
    <2> DEFINE v == [j \in Nat |-> IF j = k THEN WalkStep(st, w[k - 1], budget) ELSE w[j]]
    <2>3. WalkUpto(v, k, st, n, budget)
      <3>1. \A j \in Nat : v[j] = IF j = k THEN WalkStep(st, w[k - 1], budget) ELSE w[j]
        OBVIOUS
      <3> HIDE DEF v
      <3> SUFFICES ASSUME NEW j \in 0..k
                   PROVE  v[j] = IF j = 0 THEN WalkStart(st, n, budget)
                                          ELSE WalkStep(st, v[j - 1], budget)
        BY DEF WalkUpto
      <3>2. CASE j = k
        <4>1. v[j - 1] = w[k - 1] /\ v[j] = WalkStep(st, w[k - 1], budget)
          BY <1>3, <2>1, <3>1, <3>2
        <4>2. QED
          BY <1>3, <3>2, <4>1
      <3>3. CASE j # k
        <4>1. j \in 0..(k - 1) /\ v[j] = w[j]
          BY <2>1, <3>1, <3>3
        <4>2. j # 0 => v[j - 1] = w[j - 1]
          BY <2>1, <3>1, <3>3
        <4>3. QED
          BY <2>2, <4>1, <4>2 DEF WalkUpto
      <3>4. QED
        BY <3>2, <3>3
    <2>4. QED
      BY <2>1, <2>3
  <1>4. QED
    BY <1>2, <1>3

(* So the equation that defines the walk has a solution.                     *)
LEMMA WalkSolves ==
    ASSUME NEW st, NEW n, NEW budget
    PROVE  Walk(st, n, budget) = WalkOnce(Walk(st, n, budget), st, n, budget)
  <1> DEFINE part(k) == CHOOSE w : WalkUpto(w, k, st, n, budget)
             v == [k \in Nat |-> part(k)[k]]
  <1>1. \A k \in Nat : WalkUpto(part(k), k, st, n, budget)
    <2> TAKE k \in Nat
    <2>1. \E w : WalkUpto(w, k, st, n, budget)
      BY WalksExist
    <2>2. QED
      BY <2>1
  <1> HIDE DEF part
  <1>2. v[0] = WalkStart(st, n, budget)
    BY <1>1 DEF WalkUpto
  <1>3. ASSUME NEW k \in Nat, k # 0
        PROVE  v[k] = WalkStep(st, v[k - 1], budget)
    <2>1. v[k] = WalkStep(st, part(k)[k - 1], budget)
      BY <1>1, <1>3 DEF WalkUpto
    <2>2. WalkUpto(part(k), k - 1, st, n, budget) /\ k - 1 \in Nat
      BY <1>1, <1>3 DEF WalkUpto
    <2>3. WalkUpto(part(k - 1), k - 1, st, n, budget)
      BY <1>1, <2>2
    <2>4. part(k)[k - 1] = part(k - 1)[k - 1]
      BY <2>2, <2>3, WalksAgree
    <2>5. QED
      BY <2>1, <2>2, <2>4
  <1>4. v = WalkOnce(v, st, n, budget)
    BY <1>2, <1>3 DEF WalkOnce
  <1> HIDE DEF v
  <1>5. \A w : (w = WalkOnce(w, st, n, budget)) <=>
                 (w = [k \in Nat |-> IF k = 0 THEN WalkStart(st, n, budget)
                                     ELSE WalkStep(st, w[k - 1], budget)])
    BY DEF WalkOnce
  <1>6. \E w : w = [k \in Nat |-> IF k = 0 THEN WalkStart(st, n, budget)
                                  ELSE WalkStep(st, w[k - 1], budget)]
    BY <1>4, <1>5
  <1>7. Walk(st, n, budget) =
          [k \in Nat |-> IF k = 0 THEN WalkStart(st, n, budget)
                         ELSE WalkStep(st, Walk(st, n, budget)[k - 1], budget)]
    BY <1>6 DEF Walk
  <1>8. QED
    BY <1>5, <1>7

(* The walk starts at the NFT and goes on step by step.                      *)
LEMMA WalkUnfolds ==
    ASSUME NEW st, NEW n, NEW budget
    PROVE  /\ Walk(st, n, budget)[0] = WalkStart(st, n, budget)
           /\ \A k \in Nat : Walk(st, n, budget)[k + 1] =
                                WalkStep(st, Walk(st, n, budget)[k], budget)
  <1> DEFINE w == Walk(st, n, budget)
  <1>1. w = [k \in Nat |-> IF k = 0 THEN WalkStart(st, n, budget)
                           ELSE WalkStep(st, w[k - 1], budget)]
    BY WalkSolves DEF WalkOnce
  <1> HIDE DEF w
  <1>2. w[0] = WalkStart(st, n, budget)
    BY <1>1
  <1>3. ASSUME NEW k \in Nat PROVE w[k + 1] = WalkStep(st, w[k], budget)
    <2>1. k + 1 \in Nat /\ k + 1 # 0 /\ (k + 1) - 1 = k
      OBVIOUS
    <2>2. QED
      BY <1>1, <2>1
  <1>4. QED
    BY <1>2, <1>3 DEF w

(* No other function solves it.                                              *)
LEMMA WalkIsUnique ==
    ASSUME NEW st, NEW n, NEW budget, NEW w, w = WalkOnce(w, st, n, budget), NEW k \in Nat
    PROVE  w[k] = Walk(st, n, budget)[k]
  <1>1. \A v : v = WalkOnce(v, st, n, budget) => WalkUpto(v, k, st, n, budget)
    <2> SUFFICES ASSUME NEW v, v = WalkOnce(v, st, n, budget), NEW j \in 0..k
                 PROVE  v[j] = IF j = 0 THEN WalkStart(st, n, budget)
                                        ELSE WalkStep(st, v[j - 1], budget)
      BY DEF WalkUpto
    <2>1. v[j] = WalkOnce(v, st, n, budget)[j]
      OBVIOUS
    <2>2. QED
      BY <2>1 DEF WalkOnce
  <1>2. QED
    BY <1>1, WalkSolves, WalksAgree

(* RmrkCore's walk over the storage that is seen is this walk.               *)
LEMMA SeenOwn == ASSUME NEW n PROVE Atomic!OwnEntry(n) = Own(Seen, n)
  BY DEF Atomic!OwnEntry, Own

LEMMA SeenStep ==
    ASSUME NEW s, NEW budget
    PROVE  Atomic!BurnStep(s, budget) = WalkStep(Seen, s, budget)
  <1> DEFINE E == Leading(s)
  <1>1. Atomic!BurnStep(s, budget) =
          IF s.stack = <<>> \/ ~s.ok THEN s
          ELSE IF E = {} THEN WalkOut(Seen, s)
          ELSE [stack |-> Append(s.stack, NextEntry(E)[2]),
                edges |-> s.edges \ ({NextEntry(E)} \cup Atomic!OwnEntry(NextEntry(E)[2])),
                drained |-> s.drained \cup {NextEntry(E)},
                ok |-> Len(s.stack) < budget]
    BY DEF Atomic!BurnStep, NextEntry, Leading, WalkOut
  <1>2. QED
    BY <1>1, SeenOwn DEF WalkStep, WalkDown

(* It counts what any other module counts.                                   *)
LEMMA SeenCardinality == ASSUME NEW S PROVE Atomic!Cardinality(S) = Cardinality(S)
  BY DEF Atomic!Cardinality, Atomic!IsFiniteSet, Cardinality, IsFiniteSet

(* The whole walk, for as many steps as RmrkCore takes.                      *)
LEMMA SeenWalk ==
    ASSUME NEW n, NEW budget, Seen.children \in SUBSET (Nft \X Nft)
    PROVE  Atomic!BurnWalk(n, budget, Seen.children) =
             Walk(Seen, n, budget)[2 * Cardinality(Seen.children) + 1]
  <1> DEFINE Once(w) == [k \in Nat |->
                 IF k = 0 THEN [stack |-> <<n>>, edges |-> Seen.children \ Atomic!OwnEntry(n),
                                drained |-> {}, ok |-> budget > 0]
                 ELSE Atomic!BurnStep(w[k - 1], budget)]
             c == CHOOSE w : w = Once(w)
  <1>1. Atomic!BurnWalk(n, budget, Seen.children) = c[2 * Cardinality(Seen.children) + 1]
    BY SeenCardinality DEF Atomic!BurnWalk
  <1>2. ASSUME NEW w PROVE Once(w) = WalkOnce(w, Seen, n, budget)
    <2>1. ASSUME NEW k \in Nat PROVE Once(w)[k] = WalkOnce(w, Seen, n, budget)[k]
      BY SeenOwn, SeenStep DEF WalkOnce, WalkStart
    <2>2. QED
      BY <2>1 DEF WalkOnce
  <1>3. Walk(Seen, n, budget) = WalkOnce(Walk(Seen, n, budget), Seen, n, budget)
    BY WalkSolves
  <1>4. c = Once(c)
    <2>1. \E w : w = Once(w)
      BY <1>2, <1>3
    <2> HIDE DEF Once
    <2>2. QED BY <2>1
  <1>5. c = WalkOnce(c, Seen, n, budget)
    BY <1>2, <1>4
  <1> HIDE DEF c
  <1>6. 2 * Cardinality(Seen.children) + 1 \in Nat
    <2>1. IsFiniteSet(Nft \X Nft)
      BY FinitelyManyNfts, FS_Product
    <2>2. Cardinality(Seen.children) \in Nat
      BY <2>1, FS_Subset, FS_CardinalityType
    <2>3. QED
      BY <2>2
  <1>7. QED
    BY <1>1, <1>5, <1>6, WalkIsUnique

-----------------------------------------------------------------------------
(* The steps of the walk.                                                    *)

(* The next entry in hash order is one entry.                                *)
LEMMA NextIsOne ==
    ASSUME NEW st, NEW budget, NEW s \in WalkState, s.stack # <<>>, s.ok, NEW e \in Leading(s),
           \A f \in Leading(s) : HashRank[e[2]] <= HashRank[f[2]]
    PROVE  WalkStep(st, s, budget) = WalkDown(st, s, e, budget)
  <1> DEFINE next == NextEntry(Leading(s))
  <1>1. next \in Leading(s) /\ \A f \in Leading(s) : HashRank[next[2]] <= HashRank[f[2]]
    BY DEF NextEntry
  <1> HIDE DEF next
  <1>2. \A f \in Leading(s) : /\ f \in Nft \X Nft
                              /\ f[1] = s.stack[Len(s.stack)]
    BY DEF Leading, WalkState
  <1>3. next[2] \in Nft /\ e[2] \in Nft /\ next[1] = e[1]
    BY <1>1, <1>2
  <1>4. HashRank[next[2]] \in Nat /\ HashRank[e[2]] \in Nat
    BY <1>3, CoreAssumption
  <1>5. HashRank[next[2]] = HashRank[e[2]]
    BY <1>1, <1>4
  <1>6. next[2] = e[2]
    BY <1>3, <1>5, BurnAssumption
  <1>7. next = e
    BY <1>1, <1>2, <1>3, <1>6
  <1>8. QED
    BY <1>7 DEF WalkStep, next

(* A sequence without its last element.                                      *)
LEMMA OneLess ==
    ASSUME NEW S, NEW q \in Seq(S), NEW k \in Nat, Len(q) = k + 1
    PROVE  /\ SubSeq(q, 1, k) \in Seq(S)
           /\ Len(SubSeq(q, 1, k)) = k
           /\ \A i \in 1..k : SubSeq(q, 1, k)[i] = q[i]
  OBVIOUS

(* A call that the walk leaves takes one NFT from the stack.                 *)
LEMMA OutFields ==
    ASSUME NEW st, NEW s \in WalkState, s.stack # <<>>
    PROVE  /\ WalkOut(st, s) \in WalkState
           /\ WalkOut(st, s).stack = SubSeq(s.stack, 1, Len(s.stack) - 1)
           /\ Len(WalkOut(st, s).stack) = Len(s.stack) - 1
           /\ \A i \in 1..(Len(s.stack) - 1) : WalkOut(st, s).stack[i] = s.stack[i]
           /\ WalkOut(st, s).edges = s.edges
           /\ WalkOut(st, s).drained = s.drained
           /\ WalkOut(st, s).ok = (st.collections[s.stack[Len(s.stack)][1]] # None)
  <1>1. s.stack \in Seq(Nft) /\ Len(s.stack) \in Nat \ {0}
    BY DEF WalkState
  <1>2. /\ SubSeq(s.stack, 1, Len(s.stack) - 1) \in Seq(Nft)
        /\ Len(SubSeq(s.stack, 1, Len(s.stack) - 1)) = Len(s.stack) - 1
        /\ \A i \in 1..(Len(s.stack) - 1) :
              SubSeq(s.stack, 1, Len(s.stack) - 1)[i] = s.stack[i]
    BY <1>1
  <1> DEFINE still == st.collections[s.stack[Len(s.stack)][1]] # None
  <1>3. /\ WalkOut(st, s).stack = SubSeq(s.stack, 1, Len(s.stack) - 1)
        /\ WalkOut(st, s).edges = s.edges
        /\ WalkOut(st, s).drained = s.drained
        /\ WalkOut(st, s).ok = still
    BY DEF WalkOut, WalkState
  <1>4. WalkOut(st, s) \in WalkState
    <2>1. still \in BOOLEAN
      OBVIOUS
    <2> HIDE DEF still
    <2>2. QED
      BY <1>2, <2>1 DEF WalkOut, WalkState, still
  <1>5. QED
    BY <1>2, <1>3, <1>4

LEMMA OutWalks ==
    ASSUME NEW st, NEW n, NEW s, Walked(st, n, s), s.stack # <<>>, Leading(s) = {}
    PROVE  Walked(st, n, WalkOut(st, s))
  <1> DEFINE t == WalkOut(st, s)
  <1>1. s \in WalkState /\ Len(s.stack) \in Nat \ {0}
    BY DEF Walked, WalkState
  <1>2. /\ t \in WalkState
        /\ Len(t.stack) = Len(s.stack) - 1
        /\ \A i \in 1..(Len(s.stack) - 1) : t.stack[i] = s.stack[i]
        /\ t.edges = s.edges
        /\ t.drained = s.drained
    BY <1>1, OutFields
  <1> HIDE DEF t
  <1>3. Reached(n, t) = Reached(n, s)
    BY <1>2 DEF Reached
  <1>4. ASSUME NEW e \in t.edges, e[1] \in Reached(n, t)
        PROVE  \E i \in 1..Len(t.stack) : t.stack[i] = e[1]
    <2>1. PICK i \in 1..Len(s.stack) : s.stack[i] = e[1]
      BY <1>2, <1>3, <1>4 DEF Walked
    <2>2. i # Len(s.stack)
      BY <1>2, <2>1 DEF Leading
    <2>3. QED
      BY <1>1, <1>2, <2>1, <2>2
  <1>5. \A i \in 1..Len(t.stack) : t.stack[i] \in Reached(n, t)
    BY <1>1, <1>2, <1>3 DEF Walked
  <1>6. QED
    BY <1>2, <1>3, <1>4, <1>5 DEF Walked, t

(* An entry that is drained puts the NFT it leads to on the stack.           *)
LEMMA OneMore ==
    ASSUME NEW stack \in Seq(Nft), NEW m \in Nft
    PROVE  /\ Append(stack, m) \in Seq(Nft)
           /\ Len(Append(stack, m)) = Len(stack) + 1
           /\ \A i \in 1..Len(stack) : Append(stack, m)[i] = stack[i]
           /\ Append(stack, m)[Len(stack) + 1] = m
  OBVIOUS

Downed(st, s, e, t) ==
    /\ t \in WalkState
    /\ Len(t.stack) = Len(s.stack) + 1
    /\ \A i \in 1..Len(s.stack) : t.stack[i] = s.stack[i]
    /\ t.stack[Len(s.stack) + 1] = e[2]
    /\ t.edges = s.edges \ ({e} \cup Own(st, e[2]))
    /\ t.drained = s.drained \cup {e}

LEMMA DownFields ==
    ASSUME NEW st, NEW s \in WalkState, NEW e \in Leading(s), NEW budget
    PROVE  Downed(st, s, e, WalkDown(st, s, e, budget))
  <1> DEFINE t == WalkDown(st, s, e, budget)
  <1>1. s.stack \in Seq(Nft) /\ e \in Nft \X Nft
    BY DEF WalkState, Leading
  <1>2. /\ Append(s.stack, e[2]) \in Seq(Nft)
        /\ Len(Append(s.stack, e[2])) = Len(s.stack) + 1
        /\ \A i \in 1..Len(s.stack) : Append(s.stack, e[2])[i] = s.stack[i]
        /\ Append(s.stack, e[2])[Len(s.stack) + 1] = e[2]
    BY <1>1, OneMore
  <1>3. t \in WalkState
    BY <1>1, <1>2 DEF WalkDown, WalkState
  <1>4. QED
    BY <1>2, <1>3 DEF WalkDown, Downed

(* A step down keeps what holds along the walk.                              *)
LEMMA DownWalks ==
    ASSUME NEW st, NEW n, NEW budget, NEW s, Walked(st, n, s), s.stack # <<>>,
           NEW e \in Leading(s)
    PROVE  /\ Walked(st, n, WalkDown(st, s, e, budget))
           /\ Reached(n, WalkDown(st, s, e, budget)) = Reached(n, s) \cup {e[2]}
           /\ e \notin s.drained
  <1> DEFINE t == WalkDown(st, s, e, budget)
  <1>1. s \in WalkState /\ Len(s.stack) \in Nat \ {0} /\ e \in s.edges
        /\ e[1] = s.stack[Len(s.stack)]
    BY DEF Walked, WalkState, Leading
  <1>2. /\ t \in WalkState
        /\ Len(t.stack) = Len(s.stack) + 1
        /\ \A i \in 1..Len(s.stack) : t.stack[i] = s.stack[i]
        /\ t.stack[Len(s.stack) + 1] = e[2]
        /\ t.edges = s.edges \ ({e} \cup Own(st, e[2]))
        /\ t.drained = s.drained \cup {e}
    <2>1. Downed(st, s, e, t)
      BY <1>1, DownFields
    <2> HIDE DEF t
    <2>2. QED
      BY <2>1 DEF Downed
  <1> HIDE DEF t
  <1>3. Reached(n, t) = Reached(n, s) \cup {e[2]}
    BY <1>2 DEF Reached
  <1>4. e \in st.children /\ e \notin s.drained
    BY <1>1 DEF Walked
  <1>5. e[1] \in Reached(n, s)
    BY <1>1 DEF Walked
  <1>6. t.drained \subseteq st.children /\ \A f \in t.drained : f[1] \in Reached(n, t)
    BY <1>2, <1>3, <1>4, <1>5 DEF Walked
  <1>7. t.edges = {f \in st.children \ t.drained : \A m \in Reached(n, t) : f \notin Own(st, m)}
    <2>1. s.edges = {f \in st.children \ s.drained :
                       \A m \in Reached(n, s) : f \notin Own(st, m)}
      BY DEF Walked
    <2>2. QED
      BY <1>2, <1>3, <2>1
  <1>8. ASSUME NEW f \in t.edges, f[1] \in Reached(n, t)
        PROVE  \E i \in 1..Len(t.stack) : t.stack[i] = f[1]
    <2>1. CASE f[1] = e[2]
      BY <1>1, <1>2, <2>1
    <2>2. CASE f[1] # e[2]
      <3>1. PICK i \in 1..Len(s.stack) : s.stack[i] = f[1]
        BY <1>2, <1>3, <1>8, <2>2 DEF Walked
      <3>2. QED
        BY <1>1, <1>2, <3>1
    <2>3. QED
      BY <2>1, <2>2
  <1>9. ASSUME NEW i \in 1..Len(t.stack) PROVE t.stack[i] \in Reached(n, t)
    <2>1. CASE i = Len(s.stack) + 1
      BY <1>2, <1>3, <2>1
    <2>2. CASE i # Len(s.stack) + 1
      <3>1. i \in 1..Len(s.stack)
        BY <1>1, <1>2, <2>2
      <3>2. QED
        BY <1>2, <1>3, <3>1 DEF Walked
    <2>3. QED
      BY <2>1, <2>2
  <1>10. Walked(st, n, t)
    BY <1>2, <1>6, <1>7, <1>8, <1>9 DEF Walked
  <1>11. QED
    BY <1>3, <1>4, <1>10 DEF t

(* Where the walk has stopped it stays.                                      *)
LEMMA WalkStops ==
    ASSUME NEW st, NEW n, NEW budget, NEW k \in Nat, NEW m \in Nat, k <= m,
           \/ Walk(st, n, budget)[k].stack = <<>>
           \/ ~Walk(st, n, budget)[k].ok
    PROVE  Walk(st, n, budget)[m] = Walk(st, n, budget)[k]
  <1> DEFINE w == Walk(st, n, budget)
             Bad == {j \in Nat : k <= j /\ w[j] # w[k]}
  <1> SUFFICES ASSUME Bad # {} PROVE FALSE
    OBVIOUS
  <1>1. PICK j \in Bad : \A i \in Bad : j <= i
    <2>1. Bad \in SUBSET Nat
      OBVIOUS
    <2> HIDE DEF Bad
    <2>2. QED BY <2>1, LeastNatural
  <1>2. j \in Nat /\ k <= j /\ w[j] # w[k]
    OBVIOUS
  <1>3. j # k
    BY <1>2
  <1>4. j - 1 \in Nat /\ k <= j - 1 /\ j = (j - 1) + 1
    BY <1>2, <1>3
  <1>5. j - 1 \notin Bad
    <2> HIDE DEF Bad
    <2>1. ~(j <= j - 1)
      BY <1>2
    <2>2. QED
      BY <1>1, <2>1
  <1>6. w[j - 1] = w[k]
    BY <1>4, <1>5
  <1>7. w[j] = WalkStep(st, w[j - 1], budget)
    BY <1>4, WalkUnfolds
  <1>8. w[j] = w[k]
    BY <1>6, <1>7 DEF WalkStep
  <1>9. QED
    BY <1>2, <1>8

-----------------------------------------------------------------------------
(* Counting along the walk.                                                  *)

(* One NFT more on the stack is one visit more of its collection.            *)
Longer(s, t) ==
    /\ Len(s.stack) \in Nat
    /\ Len(t.stack) = Len(s.stack) + 1
    /\ \A i \in 1..Len(s.stack) : t.stack[i] = s.stack[i]

LEMMA OnStackOneMore ==
    ASSUME NEW s, NEW t, Longer(s, t), NEW c
    PROVE  /\ OnStack(s, c) \in Nat
           /\ OnStack(t, c) = OnStack(s, c) + (IF t.stack[Len(t.stack)][1] = c THEN 1 ELSE 0)
  <1> DEFINE L == Len(s.stack)
             S == {i \in 1..L : s.stack[i][1] = c}
             T == {i \in 1..Len(t.stack) : t.stack[i][1] = c}
  <1> USE DEF Longer
  <1>1. IsFiniteSet(1..L)
    BY FS_Interval
  <1>2. IsFiniteSet(S) /\ Cardinality(S) \in Nat
    <2>1. IsFiniteSet(S)
      BY <1>1, FS_Subset
    <2> HIDE DEF S
    <2>2. QED
      BY <2>1, FS_CardinalityType
  <1>3. T = IF t.stack[L + 1][1] = c THEN S \cup {L + 1} ELSE S
    <2>1. 1..Len(t.stack) = (1..L) \cup {L + 1}
      OBVIOUS
    <2>2. QED
      BY <2>1
  <1>4. L + 1 \notin S
    OBVIOUS
  <1>5. Cardinality(T) = Cardinality(S) + (IF t.stack[L + 1][1] = c THEN 1 ELSE 0)
    <2> HIDE DEF S, T, L
    <2>1. Cardinality(S \cup {L + 1}) = Cardinality(S) + 1
      BY <1>2, <1>4, FS_AddElement
    <2>2. QED
      BY <1>2, <1>3, <2>1
  <1>6. QED
    BY <1>2, <1>5 DEF OnStack

(* An entry that is drained is one visit more of the collection it leads to. *)
LEMMA VisitsOneMore ==
    ASSUME NEW n, NEW drained \in SUBSET (Nft \X Nft), NEW e, e \notin drained, NEW c
    PROVE  Visits(n, drained \cup {e}, c) =
             Visits(n, drained, c) + (IF e[2][1] = c THEN 1 ELSE 0)
  <1> DEFINE S == {d \in drained : d[2][1] = c}
             T == {d \in drained \cup {e} : d[2][1] = c}
  <1>1. IsFiniteSet(S) /\ Cardinality(S) \in Nat
    <2>1. IsFiniteSet(Nft \X Nft)
      BY FinitelyManyNfts, FS_Product
    <2>2. S \subseteq Nft \X Nft
      OBVIOUS
    <2> HIDE DEF S
    <2>3. QED
      BY <2>1, <2>2, FS_Subset, FS_CardinalityType
  <1>2. T = IF e[2][1] = c THEN S \cup {e} ELSE S
    OBVIOUS
  <1>3. e \notin S
    OBVIOUS
  <1>4. Cardinality(T) = Cardinality(S) + (IF e[2][1] = c THEN 1 ELSE 0)
    <2> HIDE DEF S, T
    <2>1. Cardinality(S \cup {e}) = Cardinality(S) + 1
      BY <1>1, <1>3, FS_AddElement
    <2>2. QED
      BY <1>1, <1>2, <2>1
  <1>5. QED
    BY <1>1, <1>4 DEF Visits

(* The visits counted so far are a whole number.                             *)
LEMMA CountedType ==
    ASSUME NEW n, NEW s \in WalkState, NEW c
    PROVE  Visits(n, s.drained, c) - OnStack(s, c) \in Int
  <1>1. Visits(n, s.drained, c) \in Nat
    BY VisitsType DEF WalkState
  <1>2. OnStack(s, c) \in Nat
    <2> DEFINE S == {i \in 1..Len(s.stack) : s.stack[i][1] = c}
    <2>1. IsFiniteSet(1..Len(s.stack))
      BY FS_Interval DEF WalkState
    <2>2. IsFiniteSet(S)
      BY <2>1, FS_Subset
    <2> HIDE DEF S
    <2>3. Cardinality(S) \in Nat
      BY <2>2, FS_CardinalityType
    <2>4. QED
      BY <2>3 DEF OnStack, S
  <1>3. QED
    BY <1>1, <1>2

(* With an empty stack every visit has been counted.                         *)
LEMMA NothingOnStack == ASSUME NEW s, s.stack = <<>>, NEW c PROVE OnStack(s, c) = 0
  <1>1. {i \in 1..Len(s.stack) : s.stack[i][1] = c} = {}
    OBVIOUS
  <1>2. QED
    BY <1>1, FS_EmptySet DEF OnStack

-----------------------------------------------------------------------------
(* The steps of the program.                                                 *)

(* The innermost call is the one for the NFT on top of the walk's stack.     *)
LEMMA TopFrame ==
    ASSUME BurnTypeOK, NEW s, Walked(before, call.nft, s), frames # <<>>, FramesFollow(s)
    PROVE  /\ Len(frames) \in Nat \ {0} /\ Len(s.stack) = Len(frames) /\ s.stack # <<>>
           /\ Frame \in [nft : Nft, budget : Int, entered : BOOLEAN]
           /\ Frame.nft = s.stack[Len(s.stack)]
           /\ Frame.nft \in Nft /\ Frame.nft \in Reached(call.nft, s)
           /\ Frame.budget = call.budget - Len(frames) + 1
           /\ Frame.nft[1] \in CollectionId
           /\ AtEntry <=> ~Frame.entered
  <1>1. Len(frames) \in Nat \ {0}
    BY DEF BurnTypeOK
  <1>2. Len(s.stack) = Len(frames)
    BY DEF FramesFollow
  <1>3. Frame \in [nft : Nft, budget : Int, entered : BOOLEAN]
    <2> DEFINE FrameType == [nft : Nft, budget : Int, entered : BOOLEAN]
    <2>1. frames \in Seq(FrameType)
      BY DEF BurnTypeOK
    <2> HIDE DEF FrameType
    <2>2. Frame \in FrameType
      BY <1>1, <2>1 DEF Frame
    <2>3. QED
      BY <2>2 DEF FrameType
  <1>4. /\ Frame.nft = s.stack[Len(s.stack)]
        /\ Frame.budget = call.budget - Len(frames) + 1
    BY <1>1, <1>2 DEF FramesFollow, Frame
  <1>5. Frame.nft \in Reached(call.nft, s)
    BY <1>1, <1>2, <1>4 DEF Walked
  <1>6. Frame.nft \in Nft /\ Frame.nft[1] \in CollectionId
    BY <1>3 DEF Nft
  <1>7. s.stack # <<>>
    BY <1>1, <1>2
  <1>8. AtEntry <=> ~Frame.entered
    BY DEF AtEntry
  <1>9. QED
    BY <1>1, <1>2, <1>3, <1>4, <1>5, <1>6, <1>7, <1>8

(* The record that the program reads names the entry that the walk removes,  *)
(* or else that entry has gone.                                              *)
LEMMA OwnEntryFollows ==
    ASSUME NEW s, RecordsFollow(s), NEW m \in Nft
    PROVE  children \ OwnEntry(m) = children \ Own(before, m)
  <1>1. nfts[m] = before.nfts[m] => OwnEntry(m) = Own(before, m)
    BY DEF OwnEntry, Own
  <1>2. nfts[m] = None => OwnEntry(m) = {} /\ Own(before, m) \cap children = {}
    BY DEF RecordsFollow, OwnEntry
  <1>3. nfts[m] = before.nfts[m] \/ nfts[m] = None
    BY DEF RecordsFollow
  <1>4. QED
    BY <1>1, <1>2, <1>3

(* A call that removes its record and entry makes good what the walk had     *)
(* passed: the walk does not move.                                           *)
LEMMA EnterFollows ==
    ASSUME BurnTypeOK, NEW s, Walked(before, call.nft, s), frames # <<>>, Follows(s),
           Enter, Frame.budget > 0, UNCHANGED <<call, before>>
    PROVE  /\ Follows(s)' /\ BurnTypeOK'
           /\ Len(frames') = Len(frames) /\ frames' # <<>> /\ status' = status
  <1> DEFINE L == Len(frames)
             F == Frame
  <1> USE DEF Follows
  <1>1. /\ L \in Nat \ {0} /\ Len(s.stack) = L /\ F.nft = s.stack[L]
        /\ F \in [nft : Nft, budget : Int, entered : BOOLEAN]
        /\ F.nft \in Nft /\ F.nft \in Reached(call.nft, s)
        /\ F = frames[L] /\ ~F.entered /\ AtEntry
    BY TopFrame DEF Enter, Frame
  <1>2. /\ nfts' = [nfts EXCEPT ![F.nft] = None]
        /\ children' = children \ OwnEntry(F.nft)
        /\ resources' = [resources EXCEPT ![F.nft] = NoResources]
        /\ frames' = [frames EXCEPT ![L].entered = TRUE]
        /\ collections' = collections /\ status' = status
        /\ call' = call /\ before' = before
    BY DEF Enter
  <1> HIDE DEF F
  <1>3. frames \in Seq([nft : Nft, budget : Int, entered : BOOLEAN])
    BY DEF BurnTypeOK
  <1>4. /\ frames' \in Seq([nft : Nft, budget : Int, entered : BOOLEAN])
        /\ Len(frames') = L
        /\ \A i \in 1..L : /\ frames'[i].nft = frames[i].nft
                           /\ frames'[i].budget = frames[i].budget
                           /\ frames[i].entered => frames'[i].entered
        /\ frames'[L].entered
    <2> DEFINE FrameType == [nft : Nft, budget : Int, entered : BOOLEAN]
               G == [frames[L] EXCEPT !.entered = TRUE]
    <2>1. frames' = [frames EXCEPT ![L] = G]
      BY <1>2
    <2>2. G \in FrameType /\ G.nft = F.nft /\ G.budget = F.budget /\ G.entered
      BY <1>1
    <2>3. frames \in Seq(FrameType)
      BY <1>3
    <2> HIDE DEF FrameType, G
    <2>4. /\ frames' \in Seq(FrameType)
          /\ Len(frames') = L
          /\ \A i \in 1..L : frames'[i] = IF i = L THEN G ELSE frames[i]
      BY <1>1, <2>1, <2>2, <2>3
    <2>5. QED
      BY <1>1, <2>2, <2>4 DEF FrameType
  <1>5. ~AtEntry'
    BY <1>1, <1>4 DEF AtEntry, Frame
  <1>6. FramesFollow(s)'
    <2>1. \A i \in 1..L : /\ frames'[i].nft = s.stack[i]
                          /\ frames'[i].budget = call.budget - i + 1
                          /\ i < L => frames'[i].entered
      BY <1>4 DEF FramesFollow
    <2>2. s.ok
      <3>1. Frame.budget > 0
        OBVIOUS
      <3>2. QED
        BY <3>1 DEF FramesFollow
    <2>3. QED
      BY <1>1, <1>2, <1>4, <1>5, <2>1, <2>2 DEF FramesFollow
  <1>7. children' = children \ Own(before, F.nft)
    BY <1>1, <1>2, OwnEntryFollows
  <1>8. EdgesFollow(s)'
    BY <1>1, <1>5, <1>7 DEF EdgesFollow, F
  <1>9. RecordsFollow(s)'
    <2> SUFFICES ASSUME NEW m \in Nft
                 PROVE  /\ nfts'[m] \in {None, before.nfts[m]}
                        /\ nfts'[m] = None => Own(before, m) \cap children' = {}
                        /\ IF m \in Reached(call.nft, s)
                           THEN nfts'[m] = None /\ resources'[m] = NoResources
                           ELSE nfts'[m] = before.nfts[m] /\ resources'[m] = before.resources[m]
      BY <1>2 DEF RecordsFollow
    <2>1. nfts \in [Nft -> NftInfo \cup {None}]
      BY DEF BurnTypeOK, StorageType, Storage
    <2>2. resources \in [Nft -> [ResourceId -> ResourceInfo \cup {None}]]
      BY DEF BurnTypeOK, StorageType, Storage
    <2>3. CASE m = F.nft
      BY <1>1, <1>2, <1>7, <2>1, <2>2, <2>3
    <2>4. CASE m # F.nft
      <3>1. nfts'[m] = nfts[m] /\ resources'[m] = resources[m]
        BY <1>2, <2>1, <2>2, <2>4
      <3>2. children' \subseteq children
        BY <1>2
      <3>3. /\ nfts[m] \in {None, before.nfts[m]}
            /\ nfts[m] = None => Own(before, m) \cap children = {}
            /\ IF m \in Reached(call.nft, s)
               THEN nfts[m] = None /\ resources[m] = NoResources
               ELSE nfts[m] = before.nfts[m] /\ resources[m] = before.resources[m]
        BY <2>4 DEF RecordsFollow, F
      <3>4. QED
        BY <3>1, <3>2, <3>3
    <2>5. QED
      BY <2>3, <2>4
  <1>10. CountsFollow(s)'
    BY <1>2 DEF CountsFollow
  <1>11. BurnTypeOK'
    <2>1. NoResources \in [ResourceId -> ResourceInfo \cup {None}]
      BY DEF NoResources
    <2>2. /\ nfts' \in [Nft -> NftInfo \cup {None}]
          /\ children' \in SUBSET (Nft \X Nft)
          /\ resources' \in [Nft -> [ResourceId -> ResourceInfo \cup {None}]]
          /\ collections' \in [CollectionId -> CollectionInfo \cup {None}]
      BY <1>1, <1>2, <2>1 DEF BurnTypeOK, StorageType, Storage
    <2>3. QED
      BY <1>2, <1>4, <2>2 DEF BurnTypeOK, StorageType, Storage
  <1>12. QED
    BY <1>1, <1>2, <1>4, <1>6, <1>8, <1>9, <1>10, <1>11

(* The innermost call drains the entry that the walk drains next.            *)
LEMMA DrainFollows ==
    ASSUME BurnTypeOK, NEW s, Walked(before, call.nft, s), frames # <<>>, Follows(s),
           Drain, UNCHANGED <<call, before>>
    PROVE  \E t : /\ t = WalkStep(before, s, call.budget)
                  /\ Walked(before, call.nft, t)
                  /\ Cardinality(t.drained) = Cardinality(s.drained) + 1
                  /\ Follows(t)' /\ BurnTypeOK'
                  /\ Len(frames') = Len(frames) + 1 /\ frames' # <<>> /\ status' = status
  <1> DEFINE L == Len(frames)
             F == Frame
             FrameType == [nft : Nft, budget : Int, entered : BOOLEAN]
  <1> USE DEF Follows
  <1>1. /\ L \in Nat \ {0} /\ Len(s.stack) = L /\ s.stack # <<>> /\ F.nft = s.stack[Len(s.stack)]
        /\ F.nft \in Reached(call.nft, s)
        /\ F.budget = call.budget - L + 1
        /\ F.entered /\ ~AtEntry
    BY TopFrame DEF Drain
  <1>2. PICK e \in Entries(F.nft) :
           /\ \A f \in Entries(F.nft) : HashRank[e[2]] <= HashRank[f[2]]
           /\ children' = children \ {e}
           /\ frames' = Append(frames, [nft |-> e[2], budget |-> F.budget - 1, entered |-> FALSE])
    BY DEF Drain
  <1>3. /\ nfts' = nfts /\ resources' = resources /\ collections' = collections
        /\ status' = status /\ call' = call /\ before' = before
    BY DEF Drain
  <1>0. PICK t : t = WalkDown(before, s, e, call.budget)
    OBVIOUS
  <1>4. s.edges = children
    BY <1>1 DEF EdgesFollow
  <1>5. Leading(s) = Entries(F.nft)
    BY <1>1, <1>4 DEF Leading, Entries
  <1>6. s.ok
    BY <1>1 DEF FramesFollow
  <1>7. s \in WalkState
    BY DEF Walked
  <1>8. t = WalkStep(before, s, call.budget)
    BY <1>1, <1>2, <1>5, <1>6, <1>7, <1>0, NextIsOne
  <1>9. /\ Walked(before, call.nft, t)
        /\ Reached(call.nft, t) = Reached(call.nft, s) \cup {e[2]}
        /\ e \notin s.drained
    BY <1>1, <1>2, <1>5, <1>0, DownWalks
  <1>10. Downed(before, s, e, t)
    BY <1>2, <1>5, <1>7, <1>0, DownFields
  <1>11. t.ok <=> L < call.budget
    BY <1>1, <1>0 DEF WalkDown
  <1> HIDE DEF F
  <1>12. /\ t \in WalkState
         /\ Len(t.stack) = L + 1
         /\ \A i \in 1..L : t.stack[i] = s.stack[i]
         /\ t.stack[L + 1] = e[2]
         /\ t.edges = s.edges \ ({e} \cup Own(before, e[2]))
         /\ t.drained = s.drained \cup {e}
    BY <1>1, <1>10 DEF Downed
  <1>13. call.budget \in Nat
    BY DEF BurnTypeOK
  <1>14. e \in Nft \X Nft
    BY <1>2, <1>4, <1>7 DEF Entries, WalkState
  <1>15. frames \in Seq(FrameType)
    BY DEF BurnTypeOK
  <1>16. /\ frames' \in Seq(FrameType)
         /\ Len(frames') = L + 1
         /\ \A i \in 1..L : frames'[i] = frames[i]
         /\ frames'[L + 1] = [nft |-> e[2], budget |-> F.budget - 1, entered |-> FALSE]
    <2> DEFINE G == [nft |-> e[2], budget |-> F.budget - 1, entered |-> FALSE]
    <2>1. G \in FrameType
      BY <1>1, <1>13, <1>14
    <2> HIDE DEF G, FrameType
    <2>2. /\ frames' \in Seq(FrameType)
          /\ Len(frames') = L + 1
          /\ \A i \in 1..L : frames'[i] = frames[i]
          /\ frames'[L + 1] = G
      BY <1>2, <1>15, <2>1 DEF G
    <2>3. QED
      BY <2>2 DEF G
  <1>17. /\ frames' # <<>> /\ AtEntry'
         /\ Frame' = [nft |-> e[2], budget |-> F.budget - 1, entered |-> FALSE]
    BY <1>1, <1>16 DEF AtEntry, Frame
  <1>18. FramesFollow(t)'
    <2>1. \A i \in 1..L : /\ frames'[i].nft = t.stack[i]
                          /\ frames'[i].budget = call.budget - i + 1
                          /\ frames'[i].entered
      <3> TAKE i \in 1..L
      <3>1. /\ frames[i].nft = s.stack[i]
            /\ frames[i].budget = call.budget - i + 1
            /\ i < L => frames[i].entered
        BY DEF FramesFollow
      <3>2. i = L => frames[i].entered
        BY <1>1 DEF F, Frame
      <3>3. QED
        BY <1>1, <1>12, <1>16, <3>1, <3>2
    <2>2. /\ frames'[L + 1].nft = t.stack[L + 1]
          /\ frames'[L + 1].budget = call.budget - (L + 1) + 1
      <3>1. /\ frames'[L + 1].nft = e[2]
            /\ frames'[L + 1].budget = F.budget - 1
        BY <1>16
      <3>2. F.budget - 1 = call.budget - (L + 1) + 1
        BY <1>1, <1>13
      <3>3. QED
        BY <1>12, <3>1, <3>2
    <2>3. \A i \in 1..Len(frames') : /\ frames'[i].nft = t.stack[i]
                                     /\ frames'[i].budget = call.budget - i + 1
                                     /\ i < Len(frames') => frames'[i].entered
      <3> TAKE i \in 1..Len(frames')
      <3>1. i \in 1..L \/ i = L + 1
        BY <1>1, <1>16
      <3>2. QED
        BY <1>1, <1>16, <2>1, <2>2, <3>1
    <2>4. t.ok <=> (AtEntry' => Frame'.budget > 0)
      BY <1>1, <1>11, <1>13, <1>17
    <2>5. QED
      BY <1>3, <1>12, <1>16, <2>3, <2>4 DEF FramesFollow
  <1>19. EdgesFollow(t)'
    <2>1. t.edges = children' \ Own(before, e[2])
      BY <1>2, <1>4, <1>12
    <2>2. QED
      BY <1>3, <1>17, <2>1 DEF EdgesFollow
  <1>20. RecordsFollow(t)'
    <2> SUFFICES ASSUME NEW m \in Nft
                 PROVE  /\ nfts[m] \in {None, before.nfts[m]}
                        /\ nfts[m] = None => Own(before, m) \cap children' = {}
                        /\ IF m \in Reached(call.nft, t)
                           THEN m # e[2] => nfts[m] = None /\ resources[m] = NoResources
                           ELSE nfts[m] = before.nfts[m] /\ resources[m] = before.resources[m]
      BY <1>3, <1>17 DEF RecordsFollow
    <2>1. /\ nfts[m] \in {None, before.nfts[m]}
          /\ nfts[m] = None => Own(before, m) \cap children = {}
          /\ IF m \in Reached(call.nft, s)
             THEN nfts[m] = None /\ resources[m] = NoResources
             ELSE nfts[m] = before.nfts[m] /\ resources[m] = before.resources[m]
      BY <1>1 DEF RecordsFollow
    <2>2. QED
      BY <1>2, <1>9, <2>1
  <1>21. CountsFollow(t)'
    <2>1. ASSUME NEW c \in CollectionId
          PROVE  Visits(call.nft, t.drained, c) - OnStack(t, c)
                   = Visits(call.nft, s.drained, c) - OnStack(s, c)
      <3>1. Visits(call.nft, t.drained, c) =
              Visits(call.nft, s.drained, c) + (IF e[2][1] = c THEN 1 ELSE 0)
        BY <1>7, <1>9, <1>12, VisitsOneMore DEF WalkState
      <3>2. /\ OnStack(s, c) \in Nat
            /\ OnStack(t, c) = OnStack(s, c) + (IF e[2][1] = c THEN 1 ELSE 0)
        <4>1. /\ OnStack(s, c) \in Nat
              /\ OnStack(t, c) =
                   OnStack(s, c) + (IF t.stack[Len(t.stack)][1] = c THEN 1 ELSE 0)
          <5>1. Longer(s, t)
            BY <1>1, <1>12 DEF Longer
          <5>2. QED
            BY <5>1, OnStackOneMore
        <4>2. QED
          BY <1>12, <4>1
      <3>3. Visits(call.nft, s.drained, c) \in Nat
        BY <1>7, VisitsType DEF WalkState
      <3>4. QED
        BY <3>1, <3>2, <3>3
    <2>2. QED
      BY <1>3, <2>1 DEF CountsFollow
  <1>22. BurnTypeOK'
    <2>1. children' \in SUBSET (Nft \X Nft)
      BY <1>2 DEF BurnTypeOK, StorageType, Storage
    <2>2. QED
      BY <1>3, <1>16, <2>1 DEF BurnTypeOK, StorageType, Storage
  <1>23. Cardinality(t.drained) = Cardinality(s.drained) + 1
    <2>1. IsFiniteSet(s.drained)
      BY <1>7, FinitelyManyNfts, FS_Product, FS_Subset DEF WalkState
    <2>2. QED
      BY <1>9, <1>12, <2>1, FS_AddElement
  <1>24. QED
    BY <1>3, <1>8, <1>9, <1>16, <1>17, <1>18, <1>19, <1>20, <1>21, <1>22, <1>23

(* A call without entries is one that the walk leaves.                       *)
LEMMA ReturnStep ==
    ASSUME BurnTypeOK, NEW s, Walked(before, call.nft, s), frames # <<>>, Follows(s), Return
    PROVE  /\ WalkStep(before, s, call.budget) = WalkOut(before, s)
           /\ Walked(before, call.nft, WalkOut(before, s))
           /\ ~AtEntry
           /\ collections[Frame.nft[1]] = None <=> before.collections[Frame.nft[1]] = None
  <1> USE DEF Follows
  <1>1. /\ s.stack # <<>> /\ Frame.nft = s.stack[Len(s.stack)] /\ ~AtEntry
        /\ Frame.nft[1] \in CollectionId
    BY TopFrame DEF Return
  <1>2. Entries(Frame.nft) = {}
    BY DEF Return
  <1>3. Leading(s) = {}
    BY <1>1, <1>2 DEF Leading, Entries, EdgesFollow
  <1>4. s.ok
    BY <1>1 DEF FramesFollow
  <1>5. WalkStep(before, s, call.budget) = WalkOut(before, s)
    BY <1>1, <1>3, <1>4 DEF WalkStep
  <1>6. Walked(before, call.nft, WalkOut(before, s))
    BY <1>1, <1>3, OutWalks
  <1>7. ASSUME NEW c \in CollectionId
        PROVE  collections[c] = None <=> before.collections[c] = None
    <2>1. before.collections[c] = None => collections[c] = None
      BY DEF CountsFollow
    <2>2. ASSUME before.collections[c] # None PROVE collections[c] # None
      <3>1. before.collections[c] \in CollectionInfo
        BY <2>2 DEF BurnTypeOK, StorageType
      <3> DEFINE counted == Visits(call.nft, s.drained, c) - OnStack(s, c)
                 was == before.collections[c]
                 left == IF counted >= was.nfts_count THEN 0 ELSE was.nfts_count - counted
      <3>2. collections[c] = [was EXCEPT !.nfts_count = left]
        BY <2>2 DEF CountsFollow
      <3>3. counted \in Int
        BY CountedType DEF Walked
      <3>4. was.nfts_count \in Nat
        BY <3>1 DEF CollectionInfo
      <3> HIDE DEF counted, was
      <3>5. left \in Nat
        BY <3>3, <3>4
      <3> HIDE DEF left
      <3>6. collections[c] \in CollectionInfo
        BY <3>1, <3>2, <3>5 DEF CollectionInfo, was
      <3>7. QED
        BY <3>6, CoreAssumption
    <2>3. QED
      BY <2>1, <2>2
  <1>8. QED
    BY <1>1, <1>5, <1>6, <1>7

(* A call that returns counts its visit, as the walk leaves its NFT.         *)
LEMMA ReturnFollows ==
    ASSUME BurnTypeOK, NEW s, Walked(before, call.nft, s), frames # <<>>, Follows(s),
           Return, collections[Frame.nft[1]] # None, UNCHANGED <<call, before>>
    PROVE  \E t : /\ t = WalkStep(before, s, call.budget)
                  /\ Walked(before, call.nft, t)
                  /\ t.drained = s.drained
                  /\ Follows(t)' /\ BurnTypeOK'
                  /\ Len(t.stack) = Len(frames) - 1
                  /\ Len(frames') = Len(frames) - 1
                  /\ status' = IF Len(frames) = 1 THEN "done" ELSE "running"
  <1> DEFINE L == Len(frames)
             F == Frame
             FrameType == [nft : Nft, budget : Int, entered : BOOLEAN]
  <1> USE DEF Follows
  <1>1. /\ L \in Nat \ {0} /\ Len(s.stack) = L /\ s.stack # <<>> /\ F.nft = s.stack[L]
        /\ F.nft[1] \in CollectionId /\ F.entered
    BY TopFrame DEF Return
  <1>2. PICK t : t = WalkOut(before, s)
    OBVIOUS
  <1>3. /\ t = WalkStep(before, s, call.budget)
        /\ Walked(before, call.nft, t)
        /\ ~AtEntry
        /\ before.collections[F.nft[1]] # None
    BY <1>2, ReturnStep
  <1>4. s \in WalkState
    BY DEF Walked
  <1>5. /\ Len(t.stack) = L - 1
        /\ \A i \in 1..(L - 1) : t.stack[i] = s.stack[i]
        /\ t.edges = s.edges
        /\ t.drained = s.drained
        /\ t.ok = (before.collections[F.nft[1]] # None)
    BY <1>1, <1>2, <1>4, OutFields
  <1>6. /\ collections' = [collections EXCEPT ![F.nft[1]].nfts_count = IF @ = 0 THEN 0 ELSE @ - 1]
        /\ frames' = SubSeq(frames, 1, L - 1)
        /\ status' = IF L = 1 THEN "done" ELSE "running"
        /\ nfts' = nfts /\ children' = children /\ resources' = resources
        /\ call' = call /\ before' = before
    BY DEF Return
  <1> HIDE DEF F
  <1>7. frames \in Seq(FrameType)
    BY DEF BurnTypeOK
  <1>8. /\ frames' \in Seq(FrameType)
        /\ Len(frames') = L - 1
        /\ \A i \in 1..(L - 1) : frames'[i] = frames[i]
    <2>1. L - 1 \in Nat /\ Len(frames) = (L - 1) + 1
      BY <1>1
    <2>2. /\ SubSeq(frames, 1, L - 1) \in Seq(FrameType)
          /\ Len(SubSeq(frames, 1, L - 1)) = L - 1
          /\ \A i \in 1..(L - 1) : SubSeq(frames, 1, L - 1)[i] = frames[i]
      <3> HIDE DEF FrameType, L
      <3>1. QED BY <1>7, <2>1, OneLess
    <2>3. QED
      BY <1>6, <2>2
  <1>9. \A i \in 1..(L - 1) : /\ frames[i].nft = s.stack[i]
                              /\ frames[i].budget = call.budget - i + 1
                              /\ frames[i].entered
    BY <1>1 DEF FramesFollow
  <1>10. ~AtEntry'
    <2>1. CASE L = 1
      BY <1>8, <2>1 DEF AtEntry
    <2>2. CASE L # 1
      <3>1. L - 1 \in 1..(L - 1)
        <4>1. L \in Nat \ {0} /\ L # 1
          BY <1>1, <2>2
        <4> HIDE DEF L
        <4>2. QED BY <4>1
      <3>2. frames'[L - 1].entered
        BY <1>8, <1>9, <3>1
      <3>3. QED
        BY <1>8, <3>2 DEF AtEntry, Frame
    <2>3. QED
      BY <2>1, <2>2
  <1>11. FramesFollow(t)'
    <2>1. \A i \in 1..(L - 1) : /\ frames'[i].nft = t.stack[i]
                                /\ frames'[i].budget = call.budget - i + 1
                                /\ frames'[i].entered
      BY <1>5, <1>8, <1>9
    <2>2. t.ok
      BY <1>3, <1>5
    <2>3. QED
      BY <1>5, <1>6, <1>8, <1>10, <2>1, <2>2 DEF FramesFollow
  <1>12. EdgesFollow(t)'
    BY <1>3, <1>5, <1>6, <1>10 DEF EdgesFollow
  <1>13. RecordsFollow(t)'
    <2>1. Reached(call.nft, t) = Reached(call.nft, s)
      BY <1>5 DEF Reached
    <2>2. QED
      BY <1>3, <1>6, <1>10, <2>1 DEF RecordsFollow
  <1>14. collections \in [CollectionId -> CollectionInfo \cup {None}]
    BY DEF BurnTypeOK, StorageType, Storage
  <1>15. /\ collections[F.nft[1]] \in CollectionInfo
         /\ before.collections[F.nft[1]] \in CollectionInfo
    BY <1>1, <1>3, <1>14 DEF BurnTypeOK, StorageType, F
  <1>16. ASSUME NEW c \in CollectionId
         PROVE  LET was == before.collections[c]
                    counted == Visits(call.nft, t.drained, c) - OnStack(t, c)
                IN IF was = None THEN collections'[c] = None
                   ELSE collections'[c] = [was EXCEPT !.nfts_count =
                                             IF counted >= was.nfts_count THEN 0
                                             ELSE was.nfts_count - counted]
    <2> DEFINE was == before.collections[c]
               counted == Visits(call.nft, s.drained, c) - OnStack(s, c)
               later == Visits(call.nft, t.drained, c) - OnStack(t, c)
               left == IF counted >= was.nfts_count THEN 0 ELSE was.nfts_count - counted
               leaves == IF later >= was.nfts_count THEN 0 ELSE was.nfts_count - later
    <2>1. IF was = None THEN collections[c] = None
          ELSE collections[c] = [was EXCEPT !.nfts_count = left]
      BY DEF CountsFollow
    <2>2. counted \in Int
      BY <1>4, CountedType
    <2>3. later = IF F.nft[1] = c THEN counted + 1 ELSE counted
      <3>1. Longer(t, s)
        BY <1>1, <1>5 DEF Longer
      <3>2. /\ OnStack(t, c) \in Nat
            /\ OnStack(s, c) = OnStack(t, c) + (IF s.stack[Len(s.stack)][1] = c THEN 1 ELSE 0)
        BY <3>1, OnStackOneMore
      <3>3. Visits(call.nft, s.drained, c) \in Nat
        BY <1>4, VisitsType DEF WalkState
      <3>4. QED
        BY <1>1, <1>5, <3>2, <3>3
    <2> HIDE DEF counted, later
    <2>4. CASE F.nft[1] # c
      <3>1. collections'[c] = collections[c]
        BY <1>6, <1>14, <2>4
      <3>2. QED
        BY <2>1, <2>3, <2>4, <3>1 DEF later
    <2>5. CASE F.nft[1] = c
      <3>1. was \in CollectionInfo /\ was # None /\ was.nfts_count \in Nat
        BY <1>3, <1>15, <2>5 DEF CollectionInfo
      <3>2. collections[c] = [was EXCEPT !.nfts_count = left]
        BY <2>1, <3>1
      <3>3. collections'[c] = [collections[c] EXCEPT !.nfts_count = IF @ = 0 THEN 0 ELSE @ - 1]
        BY <1>6, <1>14, <2>5
      <3> HIDE DEF was
      <3>4. left \in Nat /\ leaves = IF left = 0 THEN 0 ELSE left - 1
        BY <2>2, <2>3, <2>5, <3>1
      <3> HIDE DEF left, leaves
      <3>5. collections'[c] = [was EXCEPT !.nfts_count = leaves]
        BY <3>1, <3>2, <3>3, <3>4 DEF CollectionInfo
      <3>6. QED
        BY <3>1, <3>5 DEF was, leaves, later
    <2>6. QED
      BY <2>4, <2>5
  <1>17. CountsFollow(t)'
    BY <1>6, <1>16 DEF CountsFollow
  <1>18. BurnTypeOK'
    <2>1. collections' \in [CollectionId -> CollectionInfo \cup {None}]
      <3>1. [collections[F.nft[1]] EXCEPT !.nfts_count = IF @ = 0 THEN 0 ELSE @ - 1]
              \in CollectionInfo
        BY <1>15 DEF CollectionInfo
      <3>2. QED
        BY <1>1, <1>6, <1>14, <3>1
    <2>2. QED
      BY <1>6, <1>8, <2>1 DEF BurnTypeOK, StorageType, Storage
  <1>19. QED
    BY <1>3, <1>5, <1>6, <1>8, <1>11, <1>12, <1>13, <1>17, <1>18

-----------------------------------------------------------------------------
(* The invariant.                                                            *)

(* RmrkCore lets the walk take as many steps as the program needs.           *)
LEMMA WithinBound ==
    ASSUME before \in StorageType, NEW D \in SUBSET before.children
    PROVE  /\ Cardinality(D) \in Nat /\ Enough \in Nat
           /\ 2 * Cardinality(D) + 1 <= Enough
  <1>1. before.children \in SUBSET (Nft \X Nft)
    BY DEF StorageType
  <1>2. IsFiniteSet(before.children)
    BY <1>1, FinitelyManyNfts, FS_Product, FS_Subset
  <1>3. Cardinality(before.children) \in Nat
    BY <1>2, FS_CardinalityType
  <1>4. IsFiniteSet(D) /\ Cardinality(D) <= Cardinality(before.children)
    BY <1>2, FS_Subset
  <1>5. Cardinality(D) \in Nat
    BY <1>4, FS_CardinalityType
  <1>6. QED
    BY <1>3, <1>4, <1>5 DEF Enough

(* A step of the call changes neither its walk nor the walk's bound.         *)
LEMMA SameWalk ==
    ASSUME UNCHANGED <<call, before>>
    PROVE  TheWalk' = TheWalk /\ Enough' = Enough
  BY DEF TheWalk, Enough

(* A call that fails leaves what it found, and the walk has failed too.      *)
LEMMA FailKeeps ==
    ASSUME BurnTypeOK, Fail, UNCHANGED <<call, before>>, NEW k \in Nat, k <= Enough,
           ~TheWalk[k].ok
    PROVE  BurnInv'
  <1>1. before \in StorageType
    BY DEF BurnTypeOK
  <1>2. Storage' = before
    BY <1>1 DEF Fail, Storage, StorageType
  <1>3. Enough \in Nat
    <2>1. {} \in SUBSET before.children
      OBVIOUS
    <2>2. QED BY <1>1, <2>1, WithinBound
  <1>4. TheWalk[Enough] = TheWalk[k]
    BY <1>3, WalkStops DEF TheWalk
  <1>5. ~TheWalk'[Enough'].ok
    BY <1>4, SameWalk
  <1>6. status' = "failed" /\ frames' = <<>>
    BY DEF Fail
  <1>7. BurnTypeOK'
    BY <1>1, <1>2, <1>6 DEF BurnTypeOK
  <1>8. QED
    BY <1>2, <1>5, <1>6, <1>7 DEF BurnInv

(* Every step of the call keeps the invariant.                               *)
LEMMA BurnStepInv == BurnInv /\ [BurnNext]_burnVars => BurnInv'
  <1> SUFFICES ASSUME BurnInv, [BurnNext]_burnVars PROVE BurnInv'
    OBVIOUS
  <1>1. CASE UNCHANGED burnVars
    <2>1. /\ nfts' = nfts /\ children' = children /\ resources' = resources
          /\ collections' = collections /\ call' = call /\ before' = before
          /\ frames' = frames /\ status' = status
      BY <1>1 DEF burnVars, vars, nftVars, resourceVars, collectionVars
    <2>2. BurnTypeOK' <=> BurnTypeOK
      BY <2>1 DEF BurnTypeOK, Storage
    <2>3. \A s : Follows(s)' <=> Follows(s)
      BY <2>1 DEF Follows, FramesFollow, EdgesFollow, RecordsFollow, CountsFollow, AtEntry, Frame
    <2>4. TheWalk' = TheWalk /\ Enough' = Enough /\ Storage' = Storage
      BY <2>1, SameWalk DEF Storage
    <2>5. QED
      BY <2>1, <2>2, <2>3, <2>4 DEF BurnInv
  <1>2. CASE BurnNext
    <2>1. status = "running" /\ UNCHANGED <<call, before>> /\ BurnTypeOK /\ frames # <<>>
      BY <1>2 DEF BurnNext, BurnInv
    <2>2. PICK k \in Nat : \E s \in {TheWalk[k]} :
             /\ Walked(before, call.nft, s)
             /\ Follows(s)
             /\ k + Len(frames) = 2 * Cardinality(s.drained) + 1
      BY <2>1 DEF BurnInv
    <2>3. PICK s \in {TheWalk[k]} :
             /\ Walked(before, call.nft, s)
             /\ Follows(s)
             /\ k + Len(frames) = 2 * Cardinality(s.drained) + 1
      BY <2>2
    <2>4. TheWalk[k + 1] = WalkStep(before, s, call.budget)
      <3>1. \A j \in Nat : TheWalk[j + 1] = WalkStep(before, TheWalk[j], call.budget)
        BY WalkUnfolds DEF TheWalk
      <3>2. QED
        BY <3>1
    <2>5. /\ Cardinality(s.drained) \in Nat /\ Enough \in Nat
          /\ 2 * Cardinality(s.drained) + 1 <= Enough
      <3>1. before \in StorageType /\ s.drained \in SUBSET before.children
        BY <2>1, <2>3 DEF BurnTypeOK, Walked
      <3>2. QED
        BY <3>1, WithinBound
    <2>6. Len(frames) \in Nat \ {0}
      BY <2>1, <2>3, TopFrame DEF Follows
    <2>7. k + 1 <= Enough /\ k <= Enough
      BY <2>3, <2>5, <2>6
    <2>8. CASE Enter
      <3>1. CASE Frame.budget > 0
        <4>1. /\ Follows(s)' /\ BurnTypeOK'
              /\ Len(frames') = Len(frames) /\ frames' # <<>> /\ status' = status
          BY <2>1, <2>3, <2>8, <3>1, EnterFollows
        <4>2. Walked(before', call'.nft, s) /\ s \in {TheWalk'[k]}
          BY <2>1, <2>3, SameWalk
        <4>3. k + Len(frames') = 2 * Cardinality(s.drained) + 1
          BY <2>3, <4>1
        <4>4. QED
          BY <2>1, <4>1, <4>2, <4>3 DEF BurnInv
      <3>2. CASE ~(Frame.budget > 0)
        <4>1. Fail
          BY <2>8, <3>2 DEF Enter
        <4>2. ~s.ok
          BY <2>1, <2>3, <2>8, <3>2 DEF Follows, FramesFollow, AtEntry, Enter
        <4>3. QED
          BY <2>1, <2>3, <2>7, <4>1, <4>2, FailKeeps
      <3>3. QED
        BY <3>1, <3>2
    <2>9. CASE Drain
      <3>1. PICK t : /\ t = WalkStep(before, s, call.budget)
                     /\ Walked(before, call.nft, t)
                     /\ Cardinality(t.drained) = Cardinality(s.drained) + 1
                     /\ Follows(t)' /\ BurnTypeOK'
                     /\ Len(frames') = Len(frames) + 1 /\ frames' # <<>> /\ status' = status
        BY <2>1, <2>3, <2>9, DrainFollows
      <3>2. Walked(before', call'.nft, t) /\ t \in {TheWalk'[k + 1]}
        BY <2>1, <2>4, <3>1, SameWalk
      <3>3. k + 1 \in Nat /\ (k + 1) + Len(frames') = 2 * Cardinality(t.drained) + 1
        <4> DEFINE a == Len(frames)
                   b == Cardinality(s.drained)
        <4>1. a \in Nat /\ b \in Nat /\ k + a = 2 * b + 1
          BY <2>3, <2>5, <2>6
        <4>2. Len(frames') = a + 1 /\ Cardinality(t.drained) = b + 1
          BY <3>1
        <4> HIDE DEF a, b
        <4>3. (k + 1) + (a + 1) = 2 * (b + 1) + 1
          BY <4>1
        <4>4. QED
          BY <4>2, <4>3
      <3>4. QED
        BY <2>1, <3>1, <3>2, <3>3 DEF BurnInv
    <2>10. CASE Return
      <3>1. CASE collections[Frame.nft[1]] # None
        <4>1. PICK t : /\ t = WalkStep(before, s, call.budget)
                       /\ Walked(before, call.nft, t)
                       /\ t.drained = s.drained
                       /\ Follows(t)' /\ BurnTypeOK'
                       /\ Len(t.stack) = Len(frames) - 1
                       /\ Len(frames') = Len(frames) - 1
                       /\ status' = IF Len(frames) = 1 THEN "done" ELSE "running"
          BY <2>1, <2>3, <2>10, <3>1, ReturnFollows
        <4>2. Walked(before', call'.nft, t) /\ t \in {TheWalk'[k + 1]}
          BY <2>1, <2>4, <4>1, SameWalk
        <4>3. k + 1 \in Nat /\ (k + 1) + Len(frames') = 2 * Cardinality(t.drained) + 1
          BY <2>3, <2>5, <2>6, <4>1
        <4>4. Len(frames) # 1 => frames' # <<>>
          BY <2>6, <4>1
        <4>5. QED
          BY <4>1, <4>2, <4>3, <4>4 DEF BurnInv
      <3>2. CASE collections[Frame.nft[1]] = None
        <4>1. Fail
          BY <2>10, <3>2 DEF Return
        <4>2. ~TheWalk[k + 1].ok
          <5>1. /\ TheWalk[k + 1] = WalkOut(before, s)
                /\ before.collections[Frame.nft[1]] = None
            BY <2>1, <2>3, <2>4, <2>10, <3>2, ReturnStep
          <5>2. /\ s \in WalkState /\ s.stack # <<>>
                /\ Frame.nft = s.stack[Len(s.stack)]
            BY <2>1, <2>3, TopFrame DEF Follows, Walked
          <5>3. WalkOut(before, s).ok = (before.collections[s.stack[Len(s.stack)][1]] # None)
            BY <5>2, OutFields
          <5>4. QED
            BY <5>1, <5>2, <5>3
        <4>3. k + 1 \in Nat
          OBVIOUS
        <4>4. QED
          BY <2>1, <2>7, <4>1, <4>2, <4>3, FailKeeps
      <3>3. QED
        BY <3>1, <3>2
    <2>11. QED
      BY <1>2, <2>8, <2>9, <2>10 DEF BurnNext
  <1>3. QED
    BY <1>1, <1>2

(* The call starts where the walk starts.                                    *)
LEMMA BurnInitType == BurnInit => BurnTypeOK /\ before = Storage /\ status = "running"
  <1> SUFFICES ASSUME BurnInit PROVE BurnTypeOK /\ before = Storage /\ status = "running"
    OBVIOUS
  <1>1. PICK who \in Account, n \in Present, budget \in Budgets,
             owners \in [Present -> {None} \cup Account \cup Present] :
          /\ \A m \in Present : owners[m] \in {None, who} \cup (Present \ {m})
          /\ nfts = [m \in Nft |-> IF m \in Present /\ owners[m] # None
                                   THEN Record(owners[m]) ELSE None]
          /\ children \in SUBSET Edges(n)
          /\ collections \in [CollectionId ->
                {[issuer |-> who, max |-> None, nfts_count |-> k] : k \in 0..Cardinality(Present)}
                \cup {None}]
          /\ resources = [m \in Nft |-> NoResources]
          /\ call = [nft |-> n, budget |-> budget]
          /\ before = Storage
          /\ frames = <<[nft |-> n, budget |-> budget, entered |-> FALSE]>>
          /\ status = "running"
    BY ZenonT(40) DEF BurnInit
  <1>2. n \in Nft /\ budget \in Nat /\ Present \subseteq Nft
    BY BurnAssumption
  <1>3. nfts \in [Nft -> NftInfo \cup {None}]
    <2>1. \A o \in Account \cup Nft : Record(o) \in NftInfo
      BY DEF Record, NftInfo, AccountId
    <2>2. \A m \in Present : owners[m] # None => owners[m] \in Account \cup Nft
      BY <1>1, <1>2
    <2>3. nfts = [m \in Nft |-> IF m \in Present /\ owners[m] # None
                                THEN Record(owners[m]) ELSE None]
      BY <1>1
    <2>4. \A m \in Present : owners[m] # None => Record(owners[m]) \in NftInfo
      BY <2>1, <2>2
    <2>5. QED
      BY <2>3, <2>4
  <1>4. children \in SUBSET (Nft \X Nft)
    BY <1>1, <1>2 DEF Edges
  <1>5. resources \in [Nft -> [ResourceId -> ResourceInfo \cup {None}]]
    BY <1>1 DEF NoResources
  <1>6. collections \in [CollectionId -> CollectionInfo \cup {None}]
    <2>1. \A k \in 0..Cardinality(Present) :
             [issuer |-> who, max |-> None, nfts_count |-> k] \in CollectionInfo
      <3>1. Cardinality(Present) \in Nat
        BY <1>2, FinitelyManyNfts, FS_Subset, FS_CardinalityType
      <3>2. QED
        BY <3>1 DEF CollectionInfo
    <2>2. QED
      BY <1>1, <2>1
  <1>7. Storage \in StorageType
    BY <1>3, <1>4, <1>5, <1>6 DEF Storage, StorageType
  <1>8. frames \in Seq([nft : Nft, budget : Int, entered : BOOLEAN])
    BY <1>1, <1>2
  <1>9. QED
    BY <1>1, <1>2, <1>7, <1>8 DEF BurnTypeOK

LEMMA BurnStarts == BurnInit => BurnInv
  <1> SUFFICES ASSUME BurnInit PROVE BurnInv
    OBVIOUS
  <1>1. BurnTypeOK /\ before = Storage /\ status = "running"
    BY BurnInitType
  <1>2. PICK n \in Nft, budget \in Nat :
          /\ call = [nft |-> n, budget |-> budget]
          /\ frames = <<[nft |-> n, budget |-> budget, entered |-> FALSE]>>
    BY BurnAssumption DEF BurnInit
  <1>3. PICK s : s = WalkStart(before, n, budget)
    OBVIOUS
  <1>4. s = TheWalk[0]
    BY <1>2, <1>3, WalkUnfolds DEF TheWalk
  <1>5. /\ s.stack = <<n>> /\ s.edges = before.children \ Own(before, n)
        /\ s.drained = {} /\ (s.ok <=> budget > 0)
    BY <1>3 DEF WalkStart
  <1>6. Reached(n, s) = {n}
    BY <1>5 DEF Reached
  <1>7. s \in WalkState
    BY <1>1, <1>2, <1>3 DEF BurnTypeOK, StorageType, WalkState, WalkStart
  <1>8. Len(s.stack) = 1 /\ s.stack[1] = n
    BY <1>5
  <1>9. Walked(before, call.nft, s)
    BY <1>2, <1>5, <1>6, <1>7, <1>8 DEF Walked
  <1>10. /\ Len(frames) = 1 /\ frames # <<>> /\ AtEntry
         /\ Frame = [nft |-> n, budget |-> budget, entered |-> FALSE]
         /\ frames[1] = [nft |-> n, budget |-> budget, entered |-> FALSE]
    BY <1>2 DEF AtEntry, Frame
  <1>11. FramesFollow(s)
    <2>1. \A i \in 1..Len(frames) : /\ frames[i].nft = s.stack[i]
                                    /\ frames[i].budget = call.budget - i + 1
                                    /\ i < Len(frames) => frames[i].entered
      <3>1. \A i \in 1..Len(frames) : i = 1
        BY <1>10
      <3>2. frames[1].nft = s.stack[1] /\ frames[1].budget = call.budget - 1 + 1
        BY <1>2, <1>8, <1>10
      <3>3. QED
        BY <1>10, <3>1, <3>2
    <2>2. QED
      BY <1>5, <1>8, <1>10, <2>1 DEF FramesFollow
  <1>12. /\ before.children = children /\ before.nfts = nfts
         /\ before.resources = resources /\ before.collections = collections
    BY <1>1 DEF Storage
  <1>13. EdgesFollow(s)
    BY <1>5, <1>10, <1>12 DEF EdgesFollow
  <1>14. RecordsFollow(s)
    BY <1>2, <1>6, <1>10, <1>12 DEF RecordsFollow, Own
  <1>15. CountsFollow(s)
    <2> SUFFICES ASSUME NEW c \in CollectionId, collections[c] # None
                 PROVE  collections[c] = [collections[c] EXCEPT !.nfts_count =
                           IF Visits(n, s.drained, c) - OnStack(s, c) >= collections[c].nfts_count
                           THEN 0
                           ELSE collections[c].nfts_count
                                  - (Visits(n, s.drained, c) - OnStack(s, c))]
      BY <1>2, <1>12 DEF CountsFollow
    <2>1. Visits(n, s.drained, c) = IF n[1] = c THEN 1 ELSE 0
      <3>1. {e \in s.drained : e[2][1] = c} = {}
        BY <1>5
      <3>2. QED
        BY <3>1, FS_EmptySet DEF Visits
    <2>2. OnStack(s, c) = IF n[1] = c THEN 1 ELSE 0
      <3> DEFINE empty == [stack |-> <<>>]
      <3>1. Longer(empty, s)
        BY <1>8 DEF Longer
      <3>2. OnStack(empty, c) = 0
        BY NothingOnStack
      <3> HIDE DEF empty
      <3>3. OnStack(s, c) = OnStack(empty, c)
                              + (IF s.stack[Len(s.stack)][1] = c THEN 1 ELSE 0)
        BY <3>1, OnStackOneMore
      <3>4. QED
        BY <1>8, <3>2, <3>3
    <2>3. Visits(n, s.drained, c) - OnStack(s, c) = 0
      BY <2>1, <2>2
    <2>4. collections[c] \in CollectionInfo
      BY <1>1 DEF BurnTypeOK, Storage, StorageType
    <2>5. QED
      BY <2>3, <2>4 DEF CollectionInfo
  <1>16. 0 + Len(frames) = 2 * Cardinality(s.drained) + 1
    BY <1>5, <1>10, FS_EmptySet
  <1>17. QED
    BY <1>1, <1>4, <1>9, <1>10, <1>11, <1>13, <1>14, <1>15, <1>16 DEF BurnInv, Follows

(* The running program always follows the walk.                              *)
THEOREM BurnFollowsWalk == BurnSpec => []BurnInv
  BY BurnStarts, BurnStepInv, PTL DEF BurnSpec

(* A burn is refused only when RmrkCore's walk over the storage that the call *)
(* finds is refused (functions.rs:404, 426).                                 *)
THEOREM BurnsAreRefusedForCause == BurnSpec => []RefusedForCause
  <1>1. BurnInv => RefusedForCause
    <2> SUFFICES ASSUME BurnInv, status = "failed"
                 PROVE  ~Atomic!BurnWalk(call.nft, call.budget, Seen.children).ok
      BY DEF RefusedForCause
    <2>1. Seen = before /\ ~TheWalk[Enough].ok
      BY DEF BurnInv, Seen
    <2>2. Seen.children \in SUBSET (Nft \X Nft)
      BY <2>1 DEF BurnInv, BurnTypeOK, StorageType
    <2>3. Atomic!BurnWalk(call.nft, call.budget, Seen.children) = TheWalk[Enough]
      BY <2>1, <2>2, SeenWalk DEF TheWalk, Enough
    <2>4. QED
      BY <2>1, <2>3
  <1>2. QED
    BY <1>1, BurnFollowsWalk, PTL

-----------------------------------------------------------------------------
(* The refinement.                                                           *)

(* What RmrkCore computes from a walk w is a burn: the definition of NftBurn, *)
(* in the storage that is seen.                                              *)
LEMMA SeenVisits ==
    ASSUME NEW n, NEW drained, NEW c
    PROVE  Atomic!Visits(n, drained, c) = Visits(n, drained, c)
  BY SeenCardinality DEF Atomic!Visits, Visits

LEMMA SeenNames ==
    /\ Atomic!Nft = Nft
    /\ Atomic!CollectionId = CollectionId
    /\ Atomic!NoResources = NoResources
  BY DEF Atomic!Nft, Atomic!CollectionId, Atomic!NftId, Atomic!NoResources, Atomic!ResourceId,
         Nft, CollectionId, NftId, NoResources, ResourceId

(* When the walk is over, what the call has left of Children is what         *)
(* RmrkCore leaves: entries out of what was burned, and the entries that led *)
(* to it from the owner in its record, are gone.                             *)
LEMMA EntriesLeft ==
    ASSUME NEW st, NEW n, NEW s, Walked(st, n, s), s.stack = <<>>
    PROVE  s.edges = {e \in st.children : /\ e[1] \notin Reached(n, s)
                                          /\ e[2] \in Reached(n, s) => e \notin Own(st, e[2])}
  <1>1. s.edges = {e \in st.children \ s.drained : \A m \in Reached(n, s) : e \notin Own(st, m)}
    BY DEF Walked
  <1>2. \A e \in s.drained : e[1] \in Reached(n, s)
    BY DEF Walked
  <1>3. \A e \in s.edges : e[1] \notin Reached(n, s)
    <2>1. 1..Len(s.stack) = {}
      OBVIOUS
    <2>2. QED
      BY <2>1 DEF Walked
  <1>4. \A m : \A e \in Own(st, m) : e[2] = m
    BY DEF Own
  <1>5. QED
    BY <1>1, <1>2, <1>3, <1>4

(* The last call to return leaves what RmrkCore's NftBurn leaves.            *)
LEMMA LastReturn ==
    ASSUME BurnInv, BurnNext, status' = "done"
    PROVE  Atomic!NftBurn(call.nft, call.budget, Seen.children)
  <1>1. status = "running" /\ UNCHANGED <<call, before>> /\ BurnTypeOK /\ frames # <<>>
    BY DEF BurnNext, BurnInv
  <1>2. Return /\ collections[Frame.nft[1]] # None
    BY DEF BurnNext, Enter, Drain, Return, Fail
  <1>3. PICK k \in Nat : \E s \in {TheWalk[k]} :
           /\ Walked(before, call.nft, s)
           /\ Follows(s)
           /\ k + Len(frames) = 2 * Cardinality(s.drained) + 1
    BY <1>1 DEF BurnInv
  <1>4. PICK s \in {TheWalk[k]} :
           /\ Walked(before, call.nft, s)
           /\ Follows(s)
           /\ k + Len(frames) = 2 * Cardinality(s.drained) + 1
    BY <1>3
  <1>5. PICK w : /\ w = WalkStep(before, s, call.budget)
                 /\ Walked(before, call.nft, w)
                 /\ w.drained = s.drained
                 /\ Follows(w)' /\ BurnTypeOK'
                 /\ Len(w.stack) = Len(frames) - 1
                 /\ Len(frames') = Len(frames) - 1
                 /\ status' = IF Len(frames) = 1 THEN "done" ELSE "running"
    BY <1>1, <1>2, <1>4, ReturnFollows
  <1>6. Len(frames) = 1
    BY <1>5
  <1>7. w.stack = <<>> /\ frames' = <<>>
    BY <1>5, <1>6 DEF Walked, WalkState, BurnTypeOK
  <1>8. w = TheWalk[k + 1]
    <2>1. \A j \in Nat : TheWalk[j + 1] = WalkStep(before, TheWalk[j], call.budget)
      BY WalkUnfolds DEF TheWalk
    <2>2. QED
      BY <1>4, <1>5, <2>1
  <1>9. w = TheWalk[Enough]
    <2>1. /\ Cardinality(s.drained) \in Nat /\ Enough \in Nat
          /\ 2 * Cardinality(s.drained) + 1 <= Enough
      <3>1. before \in StorageType /\ s.drained \in SUBSET before.children
        BY <1>1, <1>4 DEF BurnTypeOK, Walked
      <3>2. QED
        BY <3>1, WithinBound
    <2>2. k + 1 <= Enough /\ k + 1 \in Nat
      BY <1>4, <1>6, <2>1
    <2>3. QED
      BY <1>7, <1>8, <2>1, <2>2, WalkStops DEF TheWalk
  <1>10. Seen = before /\ Seen' = Storage'
    BY <1>1 DEF Seen
  <1>11. Atomic!BurnWalk(call.nft, call.budget, Seen.children) = w
    <2>1. Seen.children \in SUBSET (Nft \X Nft)
      BY <1>1, <1>10 DEF BurnTypeOK, StorageType
    <2>2. QED
      BY <1>9, <1>10, <2>1, SeenWalk DEF TheWalk, Enough
  <1> DEFINE burned == Reached(call.nft, w)
  <1>12. ~AtEntry'
    BY <1>7 DEF AtEntry
  <1>13. /\ call' = call /\ before' = before
         /\ FramesFollow(w)' /\ EdgesFollow(w)' /\ RecordsFollow(w)' /\ CountsFollow(w)'
    BY <1>1, <1>5 DEF Follows
  <1>14. w.ok
    BY <1>12, <1>13 DEF FramesFollow
  <1>15. /\ nfts' \in [Nft -> NftInfo \cup {None}]
         /\ resources' \in [Nft -> [ResourceId -> ResourceInfo \cup {None}]]
         /\ collections' \in [CollectionId -> CollectionInfo \cup {None}]
         /\ before.collections \in [CollectionId -> CollectionInfo \cup {None}]
    BY <1>1, <1>5 DEF BurnTypeOK, StorageType, Storage
  <1>16. \A m \in Nft : IF m \in burned
                        THEN nfts'[m] = None /\ resources'[m] = NoResources
                        ELSE nfts'[m] = before.nfts[m] /\ resources'[m] = before.resources[m]
    BY <1>12, <1>13 DEF RecordsFollow
  <1>17. /\ nfts' = [m \in Nft |-> IF m \in burned THEN None ELSE before.nfts[m]]
         /\ resources' = [m \in Nft |-> IF m \in burned THEN NoResources ELSE before.resources[m]]
    <2> HIDE DEF burned
    <2>1. QED BY <1>15, <1>16
  <1>18. children' = {e \in before.children : /\ e[1] \notin burned
                                              /\ e[2] \in burned => e \notin Own(before, e[2])}
    <2>1. children' = w.edges
      BY <1>12, <1>13 DEF EdgesFollow
    <2>2. QED
      BY <1>5, <1>7, <2>1, EntriesLeft
  <1> DEFINE left(c) == IF Visits(call.nft, w.drained, c) >= before.collections[c].nfts_count
                        THEN 0
                        ELSE before.collections[c].nfts_count - Visits(call.nft, w.drained, c)
  <1>19. ASSUME NEW c \in CollectionId
         PROVE  collections'[c] =
                  IF before.collections[c] = None \/ \A m \in burned : m[1] # c
                  THEN before.collections[c]
                  ELSE [before.collections[c] EXCEPT !.nfts_count = left(c)]
    <2> DEFINE was == before.collections[c]
    <2>1. Visits(call.nft, w.drained, c) \in Nat
      BY <1>5, VisitsType DEF Walked, WalkState
    <2>2. Visits(call.nft, w.drained, c) - OnStack(w, c) = Visits(call.nft, w.drained, c)
      BY <1>7, <2>1, NothingOnStack
    <2>3. IF was = None THEN collections'[c] = None
          ELSE collections'[c] = [was EXCEPT !.nfts_count = left(c)]
      BY <1>13, <2>2 DEF CountsFollow
    <2>4. ASSUME was # None, \A m \in burned : m[1] # c
          PROVE  [was EXCEPT !.nfts_count = left(c)] = was
      <3>1. was \in CollectionInfo
        BY <1>15, <2>4
      <3>2. Visits(call.nft, w.drained, c) = 0
        <4>1. {e \in w.drained : e[2][1] = c} = {} /\ call.nft[1] # c
          BY <2>4 DEF Reached
        <4>2. QED
          BY <4>1, FS_EmptySet DEF Visits
      <3>3. was.nfts_count \in Nat
        BY <3>1 DEF CollectionInfo
      <3>4. left(c) = was.nfts_count
        BY <3>2, <3>3
      <3> HIDE DEF left, was
      <3>5. QED
        BY <3>1, <3>4 DEF CollectionInfo
    <2> HIDE DEF left, was
    <2>5. QED
      BY <2>3, <2>4 DEF was
  <1>20. collections' = [c \in CollectionId |->
                          IF before.collections[c] = None \/ \A m \in burned : m[1] # c
                          THEN before.collections[c]
                          ELSE [before.collections[c] EXCEPT !.nfts_count = left(c)]]
    <2> HIDE DEF left, burned
    <2>1. QED BY <1>15, <1>19
  <1>21. /\ w.drained \cap Seen.children = w.drained
         /\ {call.nft} \cup {e[2] : e \in w.drained} = burned
    BY <1>5, <1>10 DEF Walked, Reached
  <1>22. /\ Seen.nfts' = nfts' /\ Seen.resources' = resources'
         /\ Seen.children' = children' /\ Seen.collections' = collections'
    BY <1>10 DEF Storage
  <1>23. \A n : Atomic!OwnEntry(n) = Own(before, n)
    BY <1>10, SeenOwn
  <1> DEFINE walk == Atomic!BurnWalk(call.nft, call.budget, Seen.children)
             drained == walk.drained \cap Seen.children
             gone == {call.nft} \cup {e[2] : e \in drained}
  <1>24. drained = w.drained /\ gone = burned
    <2>1. drained = w.drained
      BY <1>11, <1>21
    <2> HIDE DEF drained, burned
    <2>2. QED BY <1>21, <2>1
  <1> HIDE DEF burned
  <1>25. walk.ok
    BY <1>11, <1>14
  <1> HIDE DEF walk, drained, gone
  <1>26. Seen.nfts' = [m \in Atomic!Nft |-> IF m \in gone THEN None ELSE Seen.nfts[m]]
    BY <1>10, <1>17, <1>22, <1>24, SeenNames
  <1>27. Seen.resources' =
           [m \in Atomic!Nft |-> IF m \in gone THEN Atomic!NoResources ELSE Seen.resources[m]]
    BY <1>10, <1>17, <1>22, <1>24, SeenNames
  <1>28. Seen.children' =
           {e \in Seen.children : /\ e[1] \notin gone
                                  /\ e[2] \in gone => e \notin Atomic!OwnEntry(e[2])}
    BY <1>10, <1>18, <1>22, <1>23, <1>24
  <1>29. Seen.collections' =
           [c \in Atomic!CollectionId |->
              IF Seen.collections[c] = None \/ \A m \in gone : m[1] # c
              THEN Seen.collections[c]
              ELSE [Seen.collections[c] EXCEPT !.nfts_count =
                      IF Atomic!Visits(call.nft, drained, c) >= Seen.collections[c].nfts_count
                      THEN 0
                      ELSE Seen.collections[c].nfts_count - Atomic!Visits(call.nft, drained, c)]]
    <2>1. \A c : Atomic!Visits(call.nft, drained, c) = Visits(call.nft, w.drained, c)
      BY <1>24, SeenVisits
    <2>2. \A c : left(c) = IF Atomic!Visits(call.nft, drained, c) >= Seen.collections[c].nfts_count
                           THEN 0
                           ELSE Seen.collections[c].nfts_count
                                  - Atomic!Visits(call.nft, drained, c)
      BY <1>10, <2>1
    <2> HIDE DEF left
    <2>3. QED BY <1>10, <1>20, <1>22, <1>24, <2>2, SeenNames
  <1>30. QED
    BY <1>25, <1>26, <1>27, <1>28, <1>29 DEF Atomic!NftBurn, walk, drained, gone

(* The recursion does what RmrkCore's burn does in one step, or nothing       *)
(* (functions.rs:399-433): burn_nft and reject_nft can be taken as atomic.   *)
THEOREM BurnsAreAtomic == BurnSpec => BurnIsAtomic
  <1>1. BurnInv /\ [BurnNext]_burnVars
          => [Atomic!NftBurn(call.nft, call.budget, Seen.children)]_Seen
    <2> SUFFICES ASSUME BurnInv, [BurnNext]_burnVars
                 PROVE  [Atomic!NftBurn(call.nft, call.budget, Seen.children)]_Seen
      OBVIOUS
    <2>1. CASE UNCHANGED burnVars
      BY <2>1 DEF burnVars, vars, nftVars, resourceVars, collectionVars, Seen, Storage
    <2>2. CASE BurnNext
      <3>1. status = "running" /\ before' = before /\ Seen = before
        BY <2>2 DEF BurnNext, Seen
      <3>2. CASE status' = "running"
        BY <3>1, <3>2 DEF Seen
      <3>3. CASE status' = "failed"
        <4>1. BurnInv'
          BY <2>2, BurnStepInv
        <4>2. Storage' = before'
          BY <3>3, <4>1 DEF BurnInv
        <4>3. QED
          BY <3>1, <3>3, <4>2 DEF Seen
      <3>4. CASE status' = "done"
        BY <2>2, <3>4, LastReturn
      <3>5. status' \in {"running", "done", "failed"}
        <4>1. BurnInv'
          BY <2>2, BurnStepInv
        <4>2. QED
          BY <4>1 DEF BurnInv, BurnTypeOK
      <3>6. QED
        BY <3>2, <3>3, <3>4, <3>5
    <2>3. QED
      BY <2>1, <2>2
  <1>2. QED
    BY <1>1, BurnFollowsWalk, PTL DEF BurnSpec, BurnIsAtomic

-----------------------------------------------------------------------------
(* How far a call is from its end: an entry that is drained costs a call, and *)
(* a call costs a removal and a return.                                      *)
StepsLeft ==
    IF status # "running" THEN 0
    ELSE 1 + 3 * Cardinality(children) + Len(frames) + (IF AtEntry THEN 1 ELSE 0)

LEMMA StepsLeftType ==
    ASSUME BurnTypeOK
    PROVE  /\ IsFiniteSet(children) /\ Cardinality(children) \in Nat /\ Len(frames) \in Nat
           /\ StepsLeft \in Nat
           /\ status = "running" => StepsLeft > 0
  <1>1. children \in SUBSET (Nft \X Nft)
    BY DEF BurnTypeOK, Storage, StorageType
  <1>2. IsFiniteSet(children)
    BY <1>1, FinitelyManyNfts, FS_Product, FS_Subset
  <1>3. Cardinality(children) \in Nat
    BY <1>2, FS_CardinalityType
  <1>4. Len(frames) \in Nat
    BY DEF BurnTypeOK
  <1>5. QED
    BY <1>2, <1>3, <1>4 DEF StepsLeft

(* Every step of a call brings it nearer to its end, whatever circles its     *)
(* entries make (functions.rs:399-433): a call over k entries takes no more   *)
(* than 3 * k + 3 steps.  That it takes them is the fairness of BurnSpec.     *)
THEOREM BurnsComeNearer == BurnSpec => [](StepsLeft \in Nat) /\ [][StepsLeft' < StepsLeft]_burnVars
  <1>1. ASSUME BurnInv, BurnNext PROVE StepsLeft' < StepsLeft
    <2>1. status = "running" /\ UNCHANGED <<call, before>> /\ BurnTypeOK /\ frames # <<>>
      BY <1>1 DEF BurnNext, BurnInv
    <2>2. BurnInv'
      BY <1>1, BurnStepInv
    <2>3. BurnTypeOK'
      BY <2>2 DEF BurnInv
    <2>4. /\ IsFiniteSet(children) /\ Cardinality(children) \in Nat /\ Len(frames) \in Nat
          /\ StepsLeft \in Nat /\ StepsLeft > 0
      BY <2>1, StepsLeftType
    <2>5. PICK s : Walked(before, call.nft, s) /\ Follows(s)
      BY <2>1, <1>1 DEF BurnInv
    <2>6. /\ Len(frames) \in Nat \ {0} /\ (AtEntry <=> ~Frame.entered)
          /\ \A i \in 1..Len(frames) : i < Len(frames) => frames[i].entered
      BY <2>1, <2>5, TopFrame DEF Follows, FramesFollow
    <2> DEFINE edges == Cardinality(children)
               calls == Len(frames)
    <2>7. StepsLeft = 1 + 3 * edges + calls + (IF AtEntry THEN 1 ELSE 0)
      BY <2>1 DEF StepsLeft
    <2>8. CASE status' # "running"
      BY <2>4, <2>8 DEF StepsLeft
    <2>9. CASE status' = "running" /\ Enter
      <3>1. Frame.budget > 0
        BY <2>9 DEF Enter, Fail
      <3>2. AtEntry
        BY <2>6, <2>9 DEF Enter
      <3>3. Cardinality(children') \in Nat /\ Cardinality(children') <= edges
        <4>1. children' \subseteq children
          BY <2>9, <3>1 DEF Enter
        <4>2. IsFiniteSet(children') /\ Cardinality(children') <= Cardinality(children)
          BY <2>4, <4>1, FS_Subset
        <4>3. QED
          BY <4>2, FS_CardinalityType
      <3>4. Len(frames') = calls /\ ~AtEntry'
        <4>1. frames' = [frames EXCEPT ![Len(frames)].entered = TRUE]
          BY <2>9, <3>1 DEF Enter
        <4>2. frames \in Seq([nft : Nft, budget : Int, entered : BOOLEAN])
          BY <2>1 DEF BurnTypeOK
        <4>3. Len(frames') = Len(frames) /\ frames'[Len(frames)].entered
          BY <2>6, <4>1, <4>2
        <4>4. QED
          BY <4>3 DEF AtEntry, Frame
      <3>5. StepsLeft' = 1 + 3 * Cardinality(children') + Len(frames')
        BY <2>4, <2>9, <3>3, <3>4 DEF StepsLeft
      <3> HIDE DEF edges, calls
      <3>6. edges \in Nat /\ calls \in Nat
        BY <2>4 DEF edges, calls
      <3>7. QED
        BY <2>7, <3>2, <3>3, <3>4, <3>5, <3>6
    <2>10. CASE status' = "running" /\ Drain
      <3>1. PICK e \in Entries(Frame.nft) :
               /\ children' = children \ {e}
               /\ frames' = Append(frames, [nft |-> e[2], budget |-> Frame.budget - 1,
                                            entered |-> FALSE])
        BY <2>10 DEF Drain
      <3>2. ~AtEntry
        BY <2>6, <2>10 DEF Drain
      <3>3. Cardinality(children') = edges - 1
        <4>1. e \in children
          BY DEF Entries
        <4>2. QED
          BY <2>4, <3>1, <4>1, FS_RemoveElement
      <3>4. Len(frames') = calls + 1
        BY <2>1, <3>1 DEF BurnTypeOK
      <3>5. StepsLeft' = 1 + 3 * (edges - 1) + (calls + 1) + (IF AtEntry' THEN 1 ELSE 0)
        BY <2>10, <3>3, <3>4 DEF StepsLeft
      <3> HIDE DEF edges, calls
      <3>6. edges \in Nat /\ calls \in Nat
        BY <2>4 DEF edges, calls
      <3>7. QED
        BY <2>7, <3>2, <3>5, <3>6
    <2>11. CASE status' = "running" /\ Return
      <3>1. /\ frames' = SubSeq(frames, 1, Len(frames) - 1) /\ children' = children
            /\ Len(frames) # 1
        BY <2>11 DEF Return, Fail
      <3>2. ~AtEntry
        BY <2>6, <2>11 DEF Return
      <3>3. Len(frames) - 1 \in Nat /\ Len(frames) = (Len(frames) - 1) + 1
        BY <2>6
      <3>4. /\ Len(frames') = Len(frames) - 1
            /\ \A i \in 1..(Len(frames) - 1) : frames'[i] = frames[i]
        BY <2>1, <3>1, <3>3, OneLess DEF BurnTypeOK
      <3>5. Len(frames) - 1 \in 1..(Len(frames) - 1) /\ Len(frames) - 1 \in 1..Len(frames)
            /\ Len(frames) - 1 < Len(frames)
        <4>1. \A l \in Nat \ {0} : l # 1 => l - 1 \in 1..(l - 1) /\ l - 1 \in 1..l /\ l - 1 < l
          OBVIOUS
        <4>2. QED
          BY <2>6, <3>1, <4>1
      <3>6. frames'[Len(frames')].entered
        BY <2>6, <3>4, <3>5
      <3>7. ~AtEntry'
        BY <3>6 DEF AtEntry, Frame
      <3>8. StepsLeft' = 1 + 3 * edges + (calls - 1)
        BY <2>4, <2>11, <3>1, <3>4, <3>7 DEF StepsLeft
      <3> HIDE DEF edges, calls
      <3>9. edges \in Nat /\ calls \in Nat
        BY <2>4 DEF edges, calls
      <3>10. QED
        BY <2>7, <3>2, <3>8, <3>9
    <2>12. QED
      BY <1>1, <2>8, <2>9, <2>10, <2>11 DEF BurnNext
  <1>2. BurnInv /\ [BurnNext]_burnVars => [StepsLeft' < StepsLeft]_burnVars
    BY <1>1
  <1>3. BurnInv => StepsLeft \in Nat
    BY StepsLeftType DEF BurnInv
  <1>4. QED
    BY <1>2, <1>3, BurnFollowsWalk, PTL DEF BurnSpec
=============================================================================
