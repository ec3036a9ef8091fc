--------------------------- MODULE NftForest_proofs ---------------------------
(***************************************************************************)
(* Facts about owners of owners for any number of NFTs, in a forest or     *)
(* not: what the climbs of the code compute where they end, and what       *)
(* hanging one NFT elsewhere does to the climbs from all of them.          *)
(***************************************************************************)
EXTENDS NftForest, TLAPS

(* The chain of n holds n and whatever owns one of its members.              *)
LEMMA ChainUpClosed ==
    ASSUME NEW parent, NEW n \in DOMAIN parent
    PROVE  /\ n \in Chain(parent, n)
           /\ Chain(parent, n) \subseteq DOMAIN parent
           /\ UpClosed(parent, Chain(parent, n))
  BY DEF Chain, UpClosed

(* And it is the least such set.                                             *)
LEMMA ChainLeast ==
    ASSUME NEW parent, NEW n, NEW S \in SUBSET DOMAIN parent, n \in S, UpClosed(parent, S)
    PROVE  Chain(parent, n) \subseteq S
  BY DEF Chain

(* Nothing is above an NFT that no NFT owns.                                 *)
LEMMA ChainOfRoot ==
    ASSUME NEW parent, NEW n \in DOMAIN parent, parent[n] \notin DOMAIN parent
    PROVE  Chain(parent, n) = {n}
  <1>1. UpClosed(parent, {n})
    BY DEF UpClosed
  <1>2. QED
    BY <1>1, ChainLeast, ChainUpClosed

(* Otherwise its chain is itself and the chain of its owner.                 *)
LEMMA ChainOfChild ==
    ASSUME NEW parent, NEW n \in DOMAIN parent, parent[n] \in DOMAIN parent
    PROVE  Chain(parent, n) = {n} \cup Chain(parent, parent[n])
  <1> DEFINE C == {n} \cup Chain(parent, parent[n])
  <1>1. n \in C /\ C \in SUBSET DOMAIN parent /\ UpClosed(parent, C)
    BY ChainUpClosed DEF UpClosed
  <1>2. Chain(parent, n) \subseteq C
    <2> HIDE DEF C
    <2> QED BY <1>1, ChainLeast
  <1>3. parent[n] \in Chain(parent, n)
    BY ChainUpClosed DEF UpClosed
  <1>4. Chain(parent, parent[n]) \subseteq Chain(parent, n)
    BY <1>3, ChainUpClosed, ChainLeast
  <1>5. QED
    BY <1>2, <1>4, ChainUpClosed

-----------------------------------------------------------------------------
(* Where the climb ends *)

\* The members of the chain that no NFT owns.
Tops(parent, n) == {r \in Chain(parent, n) : parent[r] \notin DOMAIN parent}

(* An NFT that another NFT owns has the tops of its owner.                   *)
LEMMA TopsStep ==
    ASSUME NEW parent, NEW n \in DOMAIN parent
    PROVE  Tops(parent, n) = IF parent[n] \in DOMAIN parent THEN Tops(parent, parent[n]) ELSE {n}
  BY ChainOfRoot, ChainOfChild DEF Tops

(* A top is above everything the climb meets before it.                      *)
LEMMA TopOfAll ==
    ASSUME NEW parent, NEW n \in DOMAIN parent, NEW m \in Chain(parent, n),
           NEW t \in Tops(parent, n)
    PROVE  t \in Tops(parent, m)
  <1> DEFINE S == {k \in DOMAIN parent : t \in Tops(parent, k)}
  <1>1. n \in S /\ S \in SUBSET DOMAIN parent
    OBVIOUS
  <1>2. UpClosed(parent, S)
    BY TopsStep DEF UpClosed
  <1>3. Chain(parent, n) \subseteq S
    <2> HIDE DEF S
    <2> QED BY <1>1, <1>2, ChainLeast
  <1>4. QED
    BY <1>3

(* There is at most one.                                                     *)
LEMMA OneTop ==
    ASSUME NEW parent, NEW n \in DOMAIN parent, NEW t \in Tops(parent, n),
           NEW u \in Tops(parent, n)
    PROVE  t = u
  <1>1. u \in DOMAIN parent /\ u \in Chain(parent, n) /\ parent[u] \notin DOMAIN parent
    BY ChainUpClosed DEF Tops
  <1>2. t \in Tops(parent, u)
    BY <1>1, TopOfAll
  <1>3. QED
    BY <1>1, <1>2, TopsStep

(* And there is one when the climb ends, and only then.                      *)
LEMMA EndsAtTop ==
    ASSUME NEW parent, NEW n \in DOMAIN parent
    PROVE  ClimbEnds(parent, n) <=> Tops(parent, n) # {}
  <1>1. ASSUME ClimbEnds(parent, n), Tops(parent, n) = {} PROVE FALSE
    <2>1. n \in Chain(parent, n) /\ Chain(parent, n) \in SUBSET Nested(parent)
      BY <1>1, ChainUpClosed DEF Tops, Nested
    <2>2. \A m \in Chain(parent, n) : parent[m] \in Chain(parent, n)
      BY <2>1, ChainUpClosed DEF UpClosed, Nested
    <2>3. QED
      BY <1>1, <2>1, <2>2 DEF ClimbEnds
  <1>2. ASSUME NEW t \in Tops(parent, n), NEW S \in SUBSET Nested(parent), n \in S,
               \A m \in S : parent[m] \in S
        PROVE  FALSE
    <2>1. S \in SUBSET DOMAIN parent /\ UpClosed(parent, S)
      BY <1>2 DEF Nested, UpClosed
    <2>2. t \in S
      BY <1>2, <2>1, ChainLeast DEF Tops
    <2>3. QED
      BY <2>2 DEF Tops, Nested
  <1>3. QED
    BY <1>1, <1>2 DEF ClimbEnds

(* Whatever is on the way up ends where n ends.                              *)
LEMMA SameEnd ==
    ASSUME NEW parent, NEW n \in DOMAIN parent, NEW m \in Chain(parent, n)
    PROVE  ClimbEnds(parent, m) <=> ClimbEnds(parent, n)
  <1>1. m \in DOMAIN parent /\ Chain(parent, m) \subseteq Chain(parent, n)
    BY ChainUpClosed, ChainLeast
  <1>2. Tops(parent, m) \subseteq Tops(parent, n)
    BY <1>1 DEF Tops
  <1>3. Tops(parent, n) \subseteq Tops(parent, m)
    BY TopOfAll
  <1>4. QED
    BY <1>1, <1>2, <1>3, EndsAtTop

-----------------------------------------------------------------------------
(* lookup_root_owner *)

Top(parent) == [m \in DOMAIN parent |-> CHOOSE r : r \in Tops(parent, m)]

(* Top solves the equation that defines the climb.                           *)
LEMMA TopSolves ==
    ASSUME NEW parent
    PROVE  Top(parent) = [m \in DOMAIN parent |->
               IF parent[m] \in DOMAIN parent THEN Top(parent)[parent[m]] ELSE m]
  <1>1. ASSUME NEW m \in DOMAIN parent
        PROVE  Top(parent)[m] = IF parent[m] \in DOMAIN parent
                                THEN Top(parent)[parent[m]] ELSE m
    <2>1. CASE parent[m] \in DOMAIN parent
      BY <2>1, TopsStep DEF Top
    <2>2. CASE parent[m] \notin DOMAIN parent
      <3>1. Tops(parent, m) = {m}
        BY <2>2, TopsStep
      <3>2. (CHOOSE r : r \in {m}) = m
        OBVIOUS
      <3>3. QED
        BY <2>2, <3>1, <3>2 DEF Top
    <2>3. QED
      BY <2>1, <2>2
  <1>2. QED
    BY <1>1 DEF Top

(* So the recursion of lookup_root_owner is one step of the climb at a time, *)
(* whether or not it ends.                                                   *)
LEMMA RootNftStep ==
    ASSUME NEW parent, NEW n \in DOMAIN parent
    PROVE  RootNft(parent, n) =
              IF parent[n] \in DOMAIN parent THEN RootNft(parent, parent[n]) ELSE n
  <1> DEFINE Climb(f) == [m \in DOMAIN parent |->
                             IF parent[m] \in DOMAIN parent THEN f[parent[m]] ELSE m]
             root == CHOOSE f : f = Climb(f)
  <1>1. root = Climb(root)
    <2>1. Top(parent) = Climb(Top(parent))
      BY TopSolves
    <2> HIDE DEF Climb
    <2>2. QED BY <2>1
  <1>2. \A m : RootNft(parent, m) = root[m]
    BY DEF RootNft
  <1>3. \A m \in DOMAIN parent :
           root[m] = IF parent[m] \in DOMAIN parent THEN root[parent[m]] ELSE m
    <2> HIDE DEF root
    <2> QED BY <1>1
  <1> HIDE DEF root
  <1>4. QED
    BY <1>2, <1>3

(* Whatever is on the way up has the same root.                              *)
LEMMA SameRoot ==
    ASSUME NEW parent, NEW n \in DOMAIN parent, NEW m \in Chain(parent, n)
    PROVE  RootNft(parent, m) = RootNft(parent, n)
  <1> DEFINE S == {k \in DOMAIN parent : RootNft(parent, k) = RootNft(parent, n)}
  <1>1. n \in S /\ S \in SUBSET DOMAIN parent
    OBVIOUS
  <1>2. UpClosed(parent, S)
    BY RootNftStep DEF UpClosed
  <1>3. Chain(parent, n) \subseteq S
    <2> HIDE DEF S
    <2> QED BY <1>1, <1>2, ChainLeast
  <1>4. QED
    BY <1>3

(* A climb that ends ends at the member of the chain that no NFT owns.       *)
LEMMA RootNftOnTop ==
    ASSUME NEW parent, NEW n \in DOMAIN parent, ClimbEnds(parent, n)
    PROVE  /\ RootNft(parent, n) \in Tops(parent, n)
           /\ RootNft(parent, n) \in DOMAIN parent
           /\ parent[RootNft(parent, n)] \notin DOMAIN parent
  <1>1. PICK t : t \in Tops(parent, n)
    BY EndsAtTop
  <1>2. t \in Chain(parent, n) /\ t \in DOMAIN parent /\ parent[t] \notin DOMAIN parent
    BY <1>1, ChainUpClosed DEF Tops
  <1>3. RootNft(parent, t) = t
    BY <1>2, RootNftStep
  <1>4. QED
    BY <1>1, <1>2, <1>3, SameRoot

-----------------------------------------------------------------------------
(* is_x_descendent_of_y *)

(* Where the climb from x ends it meets exactly the chain of x's owner.      *)
LEMMA IsDescendantIsAbove ==
    ASSUME NEW parent, NEW x \in DOMAIN parent, ClimbEnds(parent, x), NEW y
    PROVE  IsDescendant(parent, x, y)
              <=> parent[x] \in DOMAIN parent /\ y \in Chain(parent, parent[x])
  <1> DEFINE Climb(f) == [m \in DOMAIN parent |->
                             IF parent[m] \in DOMAIN parent
                             THEN parent[m] = y \/ f[parent[m]] ELSE FALSE]
             above == [m \in DOMAIN parent |->
                          parent[m] \in DOMAIN parent /\ y \in Chain(parent, parent[m])]
             below == CHOOSE f : f = Climb(f)
  <1>1. above = Climb(above)
    <2>1. ASSUME NEW m \in DOMAIN parent
          PROVE  above[m] = Climb(above)[m]
      <3>1. CASE parent[m] \notin DOMAIN parent
        BY <3>1
      <3>2. CASE parent[m] \in DOMAIN parent
        <4>1. y \in Chain(parent, parent[m]) <=>
                 \/ parent[m] = y
                 \/ /\ parent[parent[m]] \in DOMAIN parent
                    /\ y \in Chain(parent, parent[parent[m]])
          BY <3>2, ChainOfRoot, ChainOfChild
        <4>2. QED
          BY <3>2, <4>1
      <3>3. QED
        BY <3>1, <3>2
    <2>2. QED
      BY <2>1
  <1>2. below = Climb(below)
    <2> HIDE DEF Climb, above
    <2> QED BY <1>1
  <1>3. IsDescendant(parent, x, y) = below[x]
    BY DEF IsDescendant
  <1> HIDE DEF below
  <1> DEFINE S == {m \in DOMAIN parent : below[m] # above[m]}
  <1>4. \A m \in S : parent[m] \in S /\ m \in Nested(parent)
    <2> SUFFICES ASSUME NEW m \in S PROVE parent[m] \in S /\ m \in Nested(parent)
      OBVIOUS
    <2>1. /\ below[m] = Climb(below)[m]
          /\ above[m] = Climb(above)[m]
      BY <1>1, <1>2
    <2>2. parent[m] \in DOMAIN parent
      BY <2>1
    <2>3. below[parent[m]] # above[parent[m]]
      BY <2>1, <2>2
    <2>4. QED
      BY <2>2, <2>3 DEF Nested
  <1>5. x \notin S
    <2> HIDE DEF S
    <2>1. S \in SUBSET Nested(parent)
      BY <1>4
    <2>2. QED
      BY <1>4, <2>1 DEF ClimbEnds
  <1>6. QED
    BY <1>3, <1>5

-----------------------------------------------------------------------------
(* Hanging an NFT elsewhere *)

(* The climbs that do not meet n stay what they were.                        *)
LEMMA HangElsewhere ==
    ASSUME NEW parent, NEW n \in DOMAIN parent, NEW q, NEW m \in DOMAIN parent,
           n \notin Chain(parent, m)
    PROVE  /\ Chain(Hang(parent, n, q), m) = Chain(parent, m)
           /\ ClimbEnds(Hang(parent, n, q), m) <=> ClimbEnds(parent, m)
           /\ ClimbEnds(parent, m) =>
                 /\ RootNft(Hang(parent, n, q), m) = RootNft(parent, m)
                 /\ RootNft(parent, m) # n
  <1> DEFINE hung == Hang(parent, n, q)
  <1>1. DOMAIN hung = DOMAIN parent /\ \A k \in DOMAIN parent : k # n => hung[k] = parent[k]
    BY DEF Hang
  <1> HIDE DEF hung
  <1>2. Chain(hung, m) \subseteq Chain(parent, m)
    <2>1. m \in Chain(parent, m) /\ Chain(parent, m) \in SUBSET DOMAIN hung
      BY <1>1, ChainUpClosed
    <2>2. UpClosed(hung, Chain(parent, m))
      BY <1>1, ChainUpClosed DEF UpClosed
    <2>3. QED
      BY <2>1, <2>2, ChainLeast
  <1>3. Chain(parent, m) \subseteq Chain(hung, m)
    <2>1. m \in Chain(hung, m) /\ Chain(hung, m) \in SUBSET DOMAIN parent
      BY <1>1, ChainUpClosed
    <2>2. UpClosed(parent, Chain(hung, m))
      BY <1>1, <1>2, ChainUpClosed DEF UpClosed
    <2>3. QED
      BY <2>1, <2>2, ChainLeast
  <1>4. Tops(hung, m) = Tops(parent, m)
    BY <1>1, <1>2, <1>3, ChainUpClosed DEF Tops
  <1>5. ClimbEnds(hung, m) <=> ClimbEnds(parent, m)
    BY <1>1, <1>4, EndsAtTop
  <1>6. ASSUME ClimbEnds(parent, m)
        PROVE  RootNft(hung, m) = RootNft(parent, m) /\ RootNft(parent, m) # n
    <2>1. RootNft(hung, m) \in Tops(parent, m) /\ RootNft(parent, m) \in Tops(parent, m)
      BY <1>1, <1>4, <1>5, <1>6, RootNftOnTop
    <2>2. n \notin Tops(parent, m)
      BY DEF Tops
    <2>3. QED
      BY <2>1, <2>2, OneTop
  <1>7. QED
    BY <1>2, <1>3, <1>5, <1>6 DEF hung

(* What was below n is still below n, and ends where n ends now.             *)
LEMMA HangCarries ==
    ASSUME NEW parent, NEW n \in DOMAIN parent, NEW q, NEW m \in DOMAIN parent,
           n \in Chain(parent, m)
    PROVE  /\ n \in Chain(Hang(parent, n, q), m)
           /\ ClimbEnds(Hang(parent, n, q), m) <=> ClimbEnds(Hang(parent, n, q), n)
           /\ RootNft(Hang(parent, n, q), m) = RootNft(Hang(parent, n, q), n)
  <1> DEFINE hung == Hang(parent, n, q)
  <1>1. DOMAIN hung = DOMAIN parent
    BY DEF Hang
  <1>2. n \in Chain(hung, m)
    <2> SUFFICES ASSUME n \notin Chain(hung, m) PROVE FALSE
      OBVIOUS
    <2>1. \A k \in DOMAIN parent : k # n => hung[k] = parent[k]
      BY DEF Hang
    <2> HIDE DEF hung
    <2>2. m \in Chain(hung, m) /\ Chain(hung, m) \in SUBSET DOMAIN parent
      BY <1>1, ChainUpClosed
    <2>3. UpClosed(parent, Chain(hung, m))
      BY <1>1, <2>1, <2>2, ChainUpClosed DEF UpClosed
    <2>4. QED
      BY <2>2, <2>3, ChainLeast
  <1> HIDE DEF hung
  <1>3. QED
    <2>1. /\ ClimbEnds(hung, m) <=> ClimbEnds(hung, n)
          /\ RootNft(hung, m) = RootNft(hung, n)
      BY <1>1, <1>2, SameEnd, SameRoot
    <2>2. QED
      BY <1>2, <2>1 DEF hung

(* An NFT that goes to an account, or to nobody, is a root.                  *)
LEMMA HangFree ==
    ASSUME NEW parent, NEW n \in DOMAIN parent, NEW q, q \notin DOMAIN parent
    PROVE  ClimbEnds(Hang(parent, n, q), n)
  <1> DEFINE hung == Hang(parent, n, q)
  <1>1. n \in DOMAIN hung /\ hung[n] \notin DOMAIN hung
    BY DEF Hang
  <1> HIDE DEF hung
  <1>2. ClimbEnds(hung, n)
    BY <1>1, TopsStep, EndsAtTop
  <1>3. QED
    BY <1>2 DEF hung

(* One that goes below an NFT it is neither nor is above ends where that one *)
(* ends: this is what the checks for self and descendants are good for.      *)
LEMMA HangBelow ==
    ASSUME NEW parent, NEW n \in DOMAIN parent, NEW q \in DOMAIN parent,
           q # n, ClimbEnds(parent, q), ~IsDescendant(parent, q, n)
    PROVE  ClimbEnds(Hang(parent, n, q), n)
  <1> DEFINE hung == Hang(parent, n, q)
  <1>1. n \notin Chain(parent, q)
    BY IsDescendantIsAbove, ChainOfRoot, ChainOfChild
  <1>2. ClimbEnds(hung, q)
    BY <1>1, HangElsewhere
  <1>3. n \in DOMAIN hung /\ hung[n] = q /\ q \in DOMAIN hung
    BY DEF Hang
  <1> HIDE DEF hung
  <1>4. q \in Chain(hung, n)
    BY <1>3, ChainUpClosed DEF UpClosed
  <1>5. ClimbEnds(hung, n)
    BY <1>2, <1>3, <1>4, SameEnd
  <1>6. QED
    BY <1>5 DEF hung
=============================================================================
