---------------------------- MODULE OpenFileProofs ----------------------------
(***************************************************************************)
(* Proofs about one open file, for drives, blocks and files of every size, *)
(* any bytes and any number of failed transfers.                           *)
(***************************************************************************)
EXTENDS OpenFile, FiniteSetTheorems, WellFoundedInduction, TLAPS

-----------------------------------------------------------------------------
(* Numbers.                                                                *)

\* A set of numbers that is not empty has a least one.
LEMMA LeastNumber ==
  ASSUME NEW S \in SUBSET Nat, S # {}
  PROVE  \E x \in S : \A y \in S : x <= y
<1>1. \E x \in S : \A y \in S : ~(<<y, x>> \in OpToRel(<, Nat))
  BY NatLessThanWellFounded, WFMin
<1>2. \A x, y \in S : ~(<<y, x>> \in OpToRel(<, Nat)) => x <= y
  <2> SUFFICES ASSUME NEW x \in S, NEW y \in S, ~(x <= y)
               PROVE  <<y, x>> \in OpToRel(<, Nat)
    OBVIOUS
  <2>1. y < x /\ x \in Nat /\ y \in Nat
    OBVIOUS
  <2> QED BY <2>1 DEF OpToRel
<1> QED BY <1>1, <1>2

\* Induction over the places of a chain: what holds at the first place and, with one,
\* at the next, holds at all.
LEMMA Places ==
  ASSUME NEW k \in Nat, NEW S, 0 \in S,
         \A n \in 0 .. k - 1 : n \in S => n + 1 \in S
  PROVE  \A n \in 0 .. k : n \in S
<1> DEFINE Bad == {n \in 0 .. k : n \notin S}
<1> SUFFICES ASSUME Bad # {} PROVE FALSE
  OBVIOUS
<1>1. PICK x \in Bad : \A y \in Bad : x <= y
  <2>1. Bad \in SUBSET Nat
    OBVIOUS
  <2> HIDE DEF Bad
  <2> QED BY <2>1, LeastNumber
<1>2. x # 0 /\ x - 1 \in 0 .. k - 1
  OBVIOUS
<1>3. x - 1 \notin Bad
  BY <1>1, <1>2
<1>4. x - 1 \in S
  BY <1>2, <1>3
<1>5. (x - 1) + 1 \in S
  BY <1>2, <1>4
<1> QED BY <1>5

\* What the assumptions say of sizes and blocks.
LEMMA Sizes ==
  /\ BlkCount \in Nat \ {0} /\ DataLen \in Nat \ {0} /\ MaxSize \in Nat \ {0} /\ MaxFaults \in Nat
  /\ 0 \notin Blocks /\ Blocks \subseteq Nat /\ 0 \in Ptrs /\ Blocks \subseteq Ptrs
  /\ Offs \subseteq Nat /\ Stale \in Int
  BY SizeAssumption DEF Blocks, Offs, Ptrs, Stale

\* The places in a chain and the positions where their blocks begin.
LEMMA PlaceOf ==
  ASSUME NEW n \in Nat
  PROVE  /\ (DataLen * n) \div DataLen = n
         /\ DataLen * n + DataLen = DataLen * (n + 1)
         /\ DataLen * n - DataLen = DataLen * (n - 1)
         /\ DataLen * n \in Nat /\ (DataLen * n = 0 <=> n = 0)
  BY Sizes

\* The positions before and after a position.
LEMMA PositionFacts ==
  ASSUME NEW p \in Positions
  PROVE  /\ p \in Nat /\ p \div DataLen \in 0 .. BlkCount /\ p = DataLen * (p \div DataLen)
         /\ p \div DataLen < BlkCount => /\ p + DataLen \in Positions
                                         /\ (p + DataLen) \div DataLen = p \div DataLen + 1
         /\ p # 0 => /\ p \div DataLen > 0 /\ p - DataLen \in Positions
                     /\ (p - DataLen) \div DataLen = p \div DataLen - 1
<1>1. PICK n \in 0 .. BlkCount : p = DataLen * n
  BY DEF Positions
<1>2. p \div DataLen = n /\ p \in Nat
  BY <1>1, PlaceOf, Sizes
<1>3. ASSUME n < BlkCount
      PROVE  p + DataLen \in Positions /\ (p + DataLen) \div DataLen = n + 1
  <2>1. p + DataLen = DataLen * (n + 1) /\ n + 1 \in 0 .. BlkCount
    BY <1>1, <1>3, PlaceOf, Sizes
  <2> QED BY <2>1, PlaceOf DEF Positions
<1>4. ASSUME p # 0
      PROVE  n > 0 /\ p - DataLen \in Positions /\ (p - DataLen) \div DataLen = n - 1
  <2>1. n > 0
    BY <1>1, <1>4, PlaceOf, Sizes
  <2>2. p - DataLen = DataLen * (n - 1) /\ n - 1 \in 0 .. BlkCount
    BY <1>1, <2>1, PlaceOf, Sizes
  <2> QED BY <2>1, <2>2, PlaceOf DEF Positions
<1> QED BY <1>1, <1>2, <1>3, <1>4

-----------------------------------------------------------------------------
(* Chains.                                                                 *)

\* The block after block a.
Follow(d, a) == IF a = 0 \/ ~d[a].known THEN 0 ELSE d[a].next

\* The blocks that Walk goes through are there.
LEMMA WalkSteps ==
  ASSUME NEW d, NEW f
  PROVE  /\ Walk(d, f) = [n \in 0 .. BlkCount |-> Walk(d, f)[n]]
         /\ Walk(d, f)[0] = f
         /\ \A n \in 0 .. BlkCount - 1 : Walk(d, f)[n + 1] = Follow(d, Walk(d, f)[n])
<1> DEFINE G(g) == [n \in 0 .. BlkCount |->
                      IF n = 0 THEN f
                      ELSE IF g[n - 1] = 0 \/ ~d[g[n - 1]].known THEN 0 ELSE d[g[n - 1]].next]
           Part(k, g) == g[0] = f /\ \A n \in 0 .. k - 1 : g[n + 1] = Follow(d, g[n])
           S == {k \in 0 .. BlkCount : \E g : Part(k, g)}
<1>1. 0 \in S
  <2>1. Part(0, [n \in {0} |-> f])
    OBVIOUS
  <2>2. 0 \in 0 .. BlkCount
    BY Sizes
  <2> HIDE DEF Part
  <2> QED BY <2>1, <2>2
<1>2. ASSUME NEW k \in 0 .. BlkCount - 1, k \in S
      PROVE  k + 1 \in S
  <2>1. PICK g : Part(k, g)
    BY <1>2
  <2> DEFINE h == [n \in 0 .. k + 1 |-> IF n = k + 1 THEN Follow(d, g[k]) ELSE g[n]]
  <2>2. h[0] = f
    BY <2>1, <1>2, Sizes
  <2>3. \A n \in 0 .. (k + 1) - 1 : h[n + 1] = Follow(d, h[n])
    <3> TAKE n \in 0 .. (k + 1) - 1
    <3>1. h[n] = g[n]
      BY <1>2, Sizes
    <3>2. CASE n = k
      BY <3>1, <3>2, <1>2, Sizes
    <3>3. CASE n # k
      <4>1. n \in 0 .. k - 1 /\ n + 1 \in 0 .. k + 1 /\ n + 1 # k + 1
        BY <3>3, <1>2, Sizes
      <4>2. h[n + 1] = g[n + 1]
        BY <4>1
      <4> QED BY <4>1, <4>2, <3>1, <2>1
    <3> QED BY <3>2, <3>3
  <2>4. Part(k + 1, h)
    BY <2>2, <2>3
  <2>5. k + 1 \in 0 .. BlkCount
    BY <1>2, Sizes
  <2> HIDE DEF h, Part
  <2> QED BY <2>4, <2>5
<1>3. BlkCount \in S
  <2> HIDE DEF S
  <2>1. \A n \in 0 .. BlkCount : n \in S
    BY <1>1, <1>2, Places, Sizes
  <2> QED BY <2>1, Sizes
<1>4. PICK g : Part(BlkCount, g)
  BY <1>3
<1> DEFINE r == [n \in 0 .. BlkCount |-> g[n]]
<1>5. r = G(r)
  <2> SUFFICES ASSUME NEW n \in 0 .. BlkCount PROVE r[n] = G(r)[n]
    OBVIOUS
  <2>1. CASE n = 0
    BY <2>1, <1>4
  <2>2. CASE n # 0
    <3>1. n - 1 \in 0 .. BlkCount - 1 /\ n - 1 \in 0 .. BlkCount /\ (n - 1) + 1 = n
      BY <2>2, Sizes
    <3>2. g[n] = Follow(d, g[n - 1])
      BY <3>1, <1>4
    <3>3. r[n - 1] = g[n - 1] /\ r[n] = g[n]
      BY <3>1
    <3> QED BY <3>2, <3>3, <2>2 DEF Follow
  <2> QED BY <2>1, <2>2
<1>6. Walk(d, f) = G(Walk(d, f))
  <2>1. Walk(d, f) = CHOOSE w : w = G(w)
    BY DEF Walk
  <2> HIDE DEF G, r
  <2> QED BY <1>5, <2>1
<1> DEFINE w == Walk(d, f)
<1>7. w = [n \in 0 .. BlkCount |-> w[n]] /\ w[0] = f
  BY <1>6, Sizes
<1>8. ASSUME NEW n \in 0 .. BlkCount - 1
      PROVE  w[n + 1] = Follow(d, w[n])
  <2>1. n + 1 \in 0 .. BlkCount /\ n + 1 # 0 /\ (n + 1) - 1 = n
    BY Sizes
  <2> HIDE DEF w
  <2>2. w[n + 1] = IF w[n] = 0 \/ ~d[w[n]].known THEN 0 ELSE d[w[n]].next
    BY <2>1, <1>6 DEF w
  <2> QED BY <2>2 DEF Follow
<1> QED BY <1>7, <1>8

\* They are blocks of the drive, or 0.
LEMMA WalkType ==
  ASSUME NEW d \in [Blocks -> Blks], NEW f \in Ptrs
  PROVE  /\ Walk(d, f) \in [0 .. BlkCount -> Ptrs]
         /\ \A a \in Ptrs : Follow(d, a) \in Ptrs
<1> DEFINE w == Walk(d, f)
           S == {n \in 0 .. BlkCount : w[n] \in Ptrs}
<1>1. \A a \in Ptrs : Follow(d, a) \in Ptrs
  BY Sizes DEF Follow, Ptrs, Blks
<1>2. 0 \in S
  BY WalkSteps, Sizes
<1>3. \A n \in 0 .. BlkCount - 1 : n \in S => n + 1 \in S
  <2> TAKE n \in 0 .. BlkCount - 1
  <2>1. w[n + 1] = Follow(d, w[n])
    BY WalkSteps
  <2>2. n + 1 \in 0 .. BlkCount
    BY Sizes
  <2> HIDE DEF w
  <2> QED BY <2>1, <2>2, <1>1
<1>4. \A n \in 0 .. BlkCount : n \in S
  <2> HIDE DEF S
  <2> QED BY <1>2, <1>3, Places, Sizes
<1>5. w = [n \in 0 .. BlkCount |-> w[n]]
  BY WalkSteps
<1> HIDE DEF w
<1>6. w \in [0 .. BlkCount -> Ptrs]
  BY <1>4, <1>5
<1> QED BY <1>1, <1>6 DEF w

\* After the end of a chain there is nothing.
LEMMA WalkEnds ==
  ASSUME NEW d, NEW f, NEW m \in 0 .. BlkCount, Walk(d, f)[m] = 0,
         NEW n \in 0 .. BlkCount, m <= n
  PROVE  Walk(d, f)[n] = 0
<1> DEFINE w == Walk(d, f)
           S == {k \in 0 .. BlkCount - m : w[m + k] = 0}
<1>1. 0 \in S
  BY Sizes
<1>2. \A k \in 0 .. (BlkCount - m) - 1 : k \in S => k + 1 \in S
  <2> TAKE k \in 0 .. (BlkCount - m) - 1
  <2>1. m + k \in 0 .. BlkCount - 1 /\ k + 1 \in 0 .. BlkCount - m /\ (m + k) + 1 = m + (k + 1)
    BY Sizes
  <2>2. w[(m + k) + 1] = Follow(d, w[m + k])
    BY <2>1, WalkSteps
  <2> HIDE DEF w
  <2> QED BY <2>1, <2>2 DEF Follow
<1>3. BlkCount - m \in Nat /\ n - m \in 0 .. BlkCount - m /\ m + (n - m) = n
  BY Sizes
<1>4. n - m \in S
  <2> HIDE DEF S
  <2> QED BY <1>1, <1>2, <1>3, Places
<1> QED BY <1>3, <1>4

\* Chains are the same on two drives as far as their blocks lead to the same ones.
LEMMA WalkFrame ==
  ASSUME NEW d, NEW e, NEW f, NEW k \in 0 .. BlkCount,
         \A n \in 0 .. k - 1 : Follow(e, Walk(d, f)[n]) = Follow(d, Walk(d, f)[n])
  PROVE  \A n \in 0 .. k : Walk(e, f)[n] = Walk(d, f)[n]
<1> DEFINE w == Walk(d, f)
           v == Walk(e, f)
           S == {n \in 0 .. k : v[n] = w[n]}
<1>1. 0 \in S
  BY WalkSteps, Sizes
<1>2. \A n \in 0 .. k - 1 : n \in S => n + 1 \in S
  <2> TAKE n \in 0 .. k - 1
  <2>1. n \in 0 .. BlkCount - 1 /\ n + 1 \in 0 .. k
    BY Sizes
  <2>2. w[n + 1] = Follow(d, w[n]) /\ v[n + 1] = Follow(e, v[n])
    BY <2>1, WalkSteps
  <2>3. Follow(e, w[n]) = Follow(d, w[n])
    OBVIOUS
  <2> HIDE DEF w, v
  <2> QED BY <2>1, <2>2, <2>3
<1>3. k \in Nat
  BY Sizes
<1>4. \A n \in 0 .. k : n \in S
  <2> HIDE DEF S
  <2> QED BY <1>1, <1>2, <1>3, Places
<1> QED BY <1>4

\* The rest of a chain is the chain of its first block.
LEMMA WalkRest ==
  ASSUME NEW d, NEW f, NEW m \in 0 .. BlkCount, NEW n \in 0 .. BlkCount - m
  PROVE  Walk(d, Walk(d, f)[m])[n] = Walk(d, f)[m + n]
<1> DEFINE w == Walk(d, f)
           v == Walk(d, w[m])
           S == {k \in 0 .. BlkCount - m : v[k] = w[m + k]}
<1>1. 0 \in S
  <2>1. v[0] = w[m] /\ m + 0 = m /\ 0 \in 0 .. BlkCount - m
    BY WalkSteps, Sizes
  <2> HIDE DEF v, w
  <2> QED BY <2>1
<1>2. \A k \in 0 .. (BlkCount - m) - 1 : k \in S => k + 1 \in S
  <2> TAKE k \in 0 .. (BlkCount - m) - 1
  <2>1. /\ m + k \in 0 .. BlkCount - 1 /\ k \in 0 .. BlkCount - 1
        /\ k + 1 \in 0 .. BlkCount - m /\ (m + k) + 1 = m + (k + 1)
    BY Sizes
  <2>2. w[(m + k) + 1] = Follow(d, w[m + k]) /\ v[k + 1] = Follow(d, v[k])
    BY <2>1, WalkSteps
  <2> HIDE DEF w, v
  <2> QED BY <2>1, <2>2
<1>3. BlkCount - m \in Nat
  BY Sizes
<1>4. \A k \in 0 .. BlkCount - m : k \in S
  <2> HIDE DEF S
  <2> QED BY <1>1, <1>2, <1>3, Places
<1> QED BY <1>4

\* No chain: it begins at 0.
LEMMA WalkNone ==
  ASSUME NEW d
  PROVE  \A n \in 0 .. BlkCount : Walk(d, 0)[n] = 0
<1>1. Walk(d, 0)[0] = 0 /\ 0 \in 0 .. BlkCount
  BY WalkSteps, Sizes
<1> QED BY <1>1, WalkEnds

\* There are no more blocks in a chain without a cycle than there are on the drive.
LEMMA WalkShort ==
  ASSUME NEW d \in [Blocks -> Blks], NEW f \in Ptrs,
         \A m, n \in 0 .. BlkCount : Walk(d, f)[m] = Walk(d, f)[n] /\ Walk(d, f)[m] # 0 => m = n
  PROVE  NoCycle(Walk(d, f))
<1> DEFINE w == Walk(d, f)
<1> SUFFICES ASSUME w[BlkCount] # 0 PROVE FALSE
  BY DEF NoCycle
<1>1. \A n \in 0 .. BlkCount : w[n] \in Blocks
  <2> TAKE n \in 0 .. BlkCount
  <2>1. w[n] # 0
    BY WalkEnds, Sizes
  <2>2. w \in [0 .. BlkCount -> Ptrs]
    BY WalkType
  <2> HIDE DEF w
  <2> QED BY <2>1, <2>2 DEF Ptrs
<1>2. w \in [0 .. BlkCount -> Blocks]
  BY <1>1, WalkType
<1>3. IsFiniteSet(0 .. BlkCount) /\ Cardinality(0 .. BlkCount) = BlkCount + 1
  BY FS_Interval, Sizes
<1>4. IsFiniteSet(Blocks) /\ Cardinality(Blocks) = BlkCount
  <2>1. IsFiniteSet(1 .. BlkCount) /\ Cardinality(1 .. BlkCount) = BlkCount
    BY FS_Interval, Sizes
  <2> QED BY <2>1 DEF Blocks
<1>7. \A m, n \in 0 .. BlkCount : w[m] = w[n] /\ w[m] # 0 => m = n
  OBVIOUS
<1> HIDE DEF w
<1>5. \A m, n \in 0 .. BlkCount : w[m] = w[n] => m = n
  BY <1>1, <1>7, Sizes
<1>6. w \in Injection(0 .. BlkCount, Blocks)
  BY <1>2, <1>5 DEF Injection, IsInjective
<1>8. Cardinality(0 .. BlkCount) <= Cardinality(Blocks)
  BY <1>4, <1>6, FS_Injection
<1> QED BY <1>3, <1>4, <1>8, Sizes

\* Chains whose blocks all lead back to where they were reached from have no cycle.
LEMMA WalkNoCycle ==
  ASSUME NEW d \in [Blocks -> Blks], NEW f \in Ptrs,
         \A n \in 0 .. BlkCount - 1 : Walk(d, f)[n] # 0 =>
           d[Walk(d, f)[n]].prev = IF n = 0 THEN 0 ELSE Walk(d, f)[n - 1],
         Walk(d, f)[BlkCount] = 0
  PROVE  NoCycle(Walk(d, f))
<1> DEFINE w == Walk(d, f)
           S == {m \in 0 .. BlkCount : \A n \in 0 .. BlkCount : m < n /\ w[m] # 0 => w[m] # w[n]}
<1>0. ASSUME NEW n \in 0 .. BlkCount, w[n] # 0
      PROVE  n \in 0 .. BlkCount - 1 /\ \A k \in 0 .. n : w[k] # 0
  <2>1. n # BlkCount
    BY <1>0
  <2>2. \A k \in 0 .. n : w[k] # 0
    <3> TAKE k \in 0 .. n
    <3>1. k \in 0 .. BlkCount /\ k <= n
      BY Sizes
    <3> QED BY <3>1, <1>0, WalkEnds
  <2> QED BY <2>1, <2>2, Sizes
<1>1. 0 \in S
  <2> SUFFICES ASSUME NEW n \in 0 .. BlkCount, 0 < n, w[0] # 0, w[0] = w[n] PROVE FALSE
    BY Sizes
  <2>1. n \in 0 .. BlkCount - 1 /\ w[n - 1] # 0 /\ 0 \in 0 .. BlkCount - 1
    <3>1. n - 1 \in 0 .. n
      BY Sizes
    <3> HIDE DEF w
    <3> QED BY <1>0, <3>1, Sizes
  <2>2. d[w[0]].prev = 0 /\ d[w[n]].prev = w[n - 1]
    BY <2>1
  <2> HIDE DEF w
  <2> QED BY <2>1, <2>2
<1>2. \A m \in 0 .. BlkCount - 1 : m \in S => m + 1 \in S
  <2> SUFFICES ASSUME NEW m \in 0 .. BlkCount - 1, m \in S,
                      NEW n \in 0 .. BlkCount, m + 1 < n, w[m + 1] # 0, w[m + 1] = w[n]
               PROVE  FALSE
    BY Sizes
  <2>1. /\ n \in 0 .. BlkCount - 1 /\ m + 1 \in 0 .. BlkCount - 1 /\ w[m] # 0
        /\ n - 1 \in 0 .. BlkCount /\ m < n - 1 /\ (m + 1) - 1 = m /\ m + 1 # 0 /\ n # 0
    <3>1. m + 1 \in 0 .. BlkCount /\ m \in 0 .. m + 1
      BY Sizes
    <3> HIDE DEF w, S
    <3> QED BY <1>0, <3>1, Sizes
  <2>2. d[w[m + 1]].prev = w[m] /\ d[w[n]].prev = w[n - 1]
    <3>1. d[w[m + 1]].prev = w[(m + 1) - 1] /\ d[w[n]].prev = w[n - 1]
      BY <2>1
    <3> HIDE DEF w, S
    <3> QED BY <3>1, <2>1
  <2>3. w[m] # w[n - 1]
    BY <2>1
  <2> HIDE DEF w, S
  <2> QED BY <2>2, <2>3
<1>3. \A m \in 0 .. BlkCount : m \in S
  <2> HIDE DEF S
  <2> QED BY <1>1, <1>2, Places, Sizes
<1>4. \A m, n \in 0 .. BlkCount : w[m] = w[n] /\ w[m] # 0 => m = n
  <2> HIDE DEF w
  <2> SUFFICES ASSUME NEW m \in 0 .. BlkCount, NEW n \in 0 .. BlkCount, w[m] = w[n], w[m] # 0, m # n
               PROVE  FALSE
    OBVIOUS
  <2>1. m < n \/ n < m
    BY Sizes
  <2> QED BY <2>1, <1>3
<1> QED BY <1>4, WalkShort

-----------------------------------------------------------------------------
(* Changes of a block and what they do to the chains.                      *)

\* A block gets new content and leads to the same block as before.
LEMMA WalkSame ==
  ASSUME NEW d, NEW e, NEW f,
         \A n \in 0 .. BlkCount - 1 : Follow(e, Walk(d, f)[n]) = Follow(d, Walk(d, f)[n])
  PROVE  Walk(e, f) = Walk(d, f)
<1>1. BlkCount \in 0 .. BlkCount
  BY Sizes
<1>2. \A n \in 0 .. BlkCount : Walk(e, f)[n] = Walk(d, f)[n]
  BY <1>1, WalkFrame
<1>3. Walk(e, f) = [n \in 0 .. BlkCount |-> Walk(e, f)[n]] /\ Walk(d, f) = [n \in 0 .. BlkCount |-> Walk(d, f)[n]]
  BY WalkSteps
<1> DEFINE v == Walk(e, f)
           w == Walk(d, f)
<1> HIDE DEF v, w
<1> QED
  <2>1. \A n \in 0 .. BlkCount : v[n] = w[n]
    BY <1>2 DEF v, w
  <2>2. v = [n \in 0 .. BlkCount |-> v[n]] /\ w = [n \in 0 .. BlkCount |-> w[n]]
    BY <1>3 DEF v, w
  <2>3. v = w
    BY <2>1, <2>2
  <2> QED BY <2>3 DEF v, w

\* The m-th block leads to block b now: the chain is as before up to it, goes on with b
\* and ends there, if b is a block nobody has written.  It has no cycle if b was not
\* part of it.
LEMMA WalkGrown ==
  ASSUME NEW d \in [Blocks -> Blks], NEW e \in [Blocks -> Blks], NEW f \in Ptrs,
         NEW m \in 0 .. BlkCount, NEW b \in Ptrs,
         NoCycle(Walk(d, f)), Walk(d, f)[m] # 0,
         \A a \in Blocks : a # Walk(d, f)[m] => e[a] = d[a],
         Follow(e, Walk(d, f)[m]) = b,
         b # 0 => ~d[b].known /\ \A n \in 0 .. BlkCount : Walk(d, f)[n] # b
  PROVE  /\ m < BlkCount
         /\ \A n \in 0 .. m : Walk(e, f)[n] = Walk(d, f)[n]
         /\ Walk(e, f)[m + 1] = b
         /\ \A n \in m + 2 .. BlkCount : Walk(e, f)[n] = 0
         /\ NoCycle(Walk(e, f))
<1> DEFINE w == Walk(d, f)
           v == Walk(e, f)
<1>1. w \in [0 .. BlkCount -> Ptrs] /\ v \in [0 .. BlkCount -> Ptrs]
  BY WalkType
<1>2. m < BlkCount /\ m + 1 \in 0 .. BlkCount /\ m \in 0 .. BlkCount - 1
  BY Sizes DEF NoCycle
<1>3. \A n \in 0 .. m : v[n] = w[n]
  <2> SUFFICES \A n \in 0 .. m - 1 : Follow(e, w[n]) = Follow(d, w[n])
    BY WalkFrame
  <2> TAKE n \in 0 .. m - 1
  <2>1. n \in 0 .. BlkCount /\ n # m
    BY Sizes
  <2>2. w[n] # w[m]
    BY <2>1 DEF NoCycle
  <2>3. w[n] \in Ptrs
    BY <1>1, <2>1
  <2>4. w[n] = 0 \/ e[w[n]] = d[w[n]]
    BY <2>2, <2>3 DEF Ptrs
  <2> HIDE DEF w
  <2> QED BY <2>4 DEF Follow
<1>4. v[m + 1] = b
  <2>1. v[m + 1] = Follow(e, v[m])
    BY <1>2, WalkSteps
  <2>2. v[m] = w[m]
    BY <1>3
  <2>3. Follow(e, w[m]) = b
    OBVIOUS
  <2> HIDE DEF v, w
  <2> QED BY <2>1, <2>2, <2>3
<1>5. \A n \in m + 2 .. BlkCount : v[n] = 0
  <2> TAKE n \in m + 2 .. BlkCount
  <2>1. m + 1 \in 0 .. BlkCount - 1 /\ (m + 1) + 1 = m + 2 /\ m + 2 \in 0 .. BlkCount
        /\ n \in 0 .. BlkCount /\ m + 2 <= n
    BY <1>2, Sizes
  <2>2. v[m + 2] = Follow(e, v[m + 1])
    BY <2>1, WalkSteps
  <2>3. Follow(e, b) = 0
    <3>1. CASE b = 0
      BY <3>1 DEF Follow
    <3>2. CASE b # 0
      <4>1. b \in Blocks /\ b # w[m]
        BY <3>2 DEF Ptrs
      <4>2. e[b] = d[b] /\ ~d[b].known
        BY <3>2, <4>1
      <4> QED BY <4>2 DEF Follow
    <3> QED BY <3>1, <3>2
  <2>4. v[m + 2] = 0
    BY <2>2, <2>3, <1>4
  <2> QED BY <2>1, <2>4, WalkEnds
<1>6. NoCycle(v)
  <2>1. \A i, j \in 0 .. BlkCount : v[i] = v[j] /\ v[i] # 0 => i = j
    <3>1. \A i \in 0 .. BlkCount : i \in 0 .. m \/ i = m + 1 \/ i \in m + 2 .. BlkCount
      BY Sizes
    <3>2. \A i \in 0 .. m : i \in 0 .. BlkCount /\ w[i] # b
      <4> TAKE i \in 0 .. m
      <4>1. i \in 0 .. BlkCount /\ i <= m
        BY Sizes
      <4>2. w[i] # 0
        BY <4>1, WalkEnds
      <4> QED BY <4>1, <4>2
    <3>3. \A i, j \in 0 .. BlkCount : w[i] = w[j] /\ w[i] # 0 => i = j
      BY DEF NoCycle
    <3> HIDE DEF v, w
    <3> TAKE i, j \in 0 .. BlkCount
    <3> QED BY <3>1, <3>2, <3>3, <1>3, <1>4, <1>5
  <2> QED BY <2>1, WalkShort
<1> QED BY <1>2, <1>3, <1>4, <1>5, <1>6

\* The m-th block is the last one now: the chain is as before up to it, and the blocks
\* behind it are a chain of their own.
LEMMA WalkCut ==
  ASSUME NEW d \in [Blocks -> Blks], NEW e \in [Blocks -> Blks], NEW f \in Ptrs,
         NEW m \in 0 .. BlkCount,
         NoCycle(Walk(d, f)), Walk(d, f)[m] # 0,
         \A a \in Blocks : a # Walk(d, f)[m] => e[a] = d[a],
         Follow(e, Walk(d, f)[m]) = 0
  PROVE  /\ m < BlkCount
         /\ \A n \in 0 .. m : Walk(e, f)[n] = Walk(d, f)[n]
         /\ \A n \in m + 1 .. BlkCount : Walk(e, f)[n] = 0
         /\ NoCycle(Walk(e, f))
         /\ \A n \in 0 .. BlkCount - (m + 1) : Walk(e, Walk(d, f)[m + 1])[n] = Walk(d, f)[m + 1 + n]
         /\ \A n \in 0 .. BlkCount : n > BlkCount - (m + 1) => Walk(e, Walk(d, f)[m + 1])[n] = 0
         /\ NoCycle(Walk(e, Walk(d, f)[m + 1]))
<1> DEFINE w == Walk(d, f)
           v == Walk(e, f)
           r == Walk(d, w[m + 1])
           s == Walk(e, w[m + 1])
<1>1. /\ m < BlkCount
      /\ \A n \in 0 .. m : v[n] = w[n]
      /\ v[m + 1] = 0
      /\ \A n \in m + 2 .. BlkCount : v[n] = 0
      /\ NoCycle(v)
  <2>1. 0 \in Ptrs
    BY Sizes
  <2> QED BY <2>1, WalkGrown
<1>2. \A n \in m + 1 .. BlkCount : v[n] = 0
  <2> HIDE DEF v
  <2> QED BY <1>1, Sizes
<1>3. w \in [0 .. BlkCount -> Ptrs] /\ m + 1 \in 0 .. BlkCount /\ BlkCount - (m + 1) \in 0 .. BlkCount
  BY <1>1, WalkType, Sizes
<1>4. \A n \in 0 .. BlkCount - (m + 1) : r[n] = w[(m + 1) + n]
  <2> DEFINE k == m + 1
  <2>1. k \in 0 .. BlkCount
    BY <1>3
  <2> HIDE DEF k
  <2>2. \A n \in 0 .. BlkCount - k : Walk(d, Walk(d, f)[k])[n] = Walk(d, f)[k + n]
    BY <2>1, WalkRest
  <2> QED BY <2>2 DEF k
<1>5. w[BlkCount] = 0 /\ \A i, j \in 0 .. BlkCount : w[i] = w[j] /\ w[i] # 0 => i = j
  BY DEF NoCycle
<1>6. \A n \in 0 .. BlkCount : n >= BlkCount - (m + 1) => r[n] = 0
  <2> TAKE n \in 0 .. BlkCount
  <2> HAVE n >= BlkCount - (m + 1)
  <2>1. (m + 1) + (BlkCount - (m + 1)) = BlkCount /\ BlkCount - (m + 1) \in 0 .. BlkCount - (m + 1)
    BY <1>3, Sizes
  <2>2. r[BlkCount - (m + 1)] = 0
    BY <2>1, <1>4, <1>5
  <2> QED BY <2>2, <1>3, WalkEnds
<1>7. r = s
  <2> SUFFICES \A n \in 0 .. BlkCount - 1 : Follow(e, r[n]) = Follow(d, r[n])
    BY WalkSame
  <2> TAKE n \in 0 .. BlkCount - 1
  <2>1. CASE r[n] = 0
    BY <2>1 DEF Follow
  <2>2. CASE r[n] # 0
    <3>1. n \in 0 .. BlkCount - (m + 1)
      <4> HIDE DEF r
      <4> QED BY <2>2, <1>6, <1>3, Sizes
    <3>2. r[n] = w[(m + 1) + n] /\ (m + 1) + n \in 0 .. BlkCount /\ (m + 1) + n # m
      BY <3>1, <1>4, <1>3, Sizes
    <3> HIDE DEF r, w
    <3>3. w[(m + 1) + n] # w[m] /\ w[(m + 1) + n] \in Blocks
      BY <3>2, <2>2, <1>5, <1>3 DEF Ptrs
    <3>4. e[r[n]] = d[r[n]]
      BY <3>2, <3>3 DEF w
    <3> QED BY <3>4 DEF Follow
  <2> QED BY <2>1, <2>2
<1>8. NoCycle(r)
  <2>1. BlkCount \in 0 .. BlkCount /\ BlkCount >= BlkCount - (m + 1)
    BY <1>3, Sizes
  <2>2. r[BlkCount] = 0
    BY <2>1, <1>6
  <2>3. \A i, j \in 0 .. BlkCount : r[i] = r[j] /\ r[i] # 0 => i = j
    <3> HIDE DEF r, w
    <3> SUFFICES ASSUME NEW i \in 0 .. BlkCount, NEW j \in 0 .. BlkCount, r[i] = r[j], r[i] # 0
                 PROVE  i = j
      OBVIOUS
    <3>1. i \in 0 .. BlkCount - (m + 1) /\ j \in 0 .. BlkCount - (m + 1)
      BY <1>6, <1>3, Sizes
    <3>2. r[i] = w[(m + 1) + i] /\ r[j] = w[(m + 1) + j]
      BY <3>1, <1>4
    <3>3. (m + 1) + i \in 0 .. BlkCount /\ (m + 1) + j \in 0 .. BlkCount
      BY <3>1, <1>3, Sizes
    <3>4. (m + 1) + i = (m + 1) + j
      BY <3>2, <3>3, <1>5
    <3> QED BY <3>4, <3>1, <1>3, Sizes
  <2> HIDE DEF r
  <2> QED BY <2>2, <2>3 DEF NoCycle
<1>9. \A n \in 0 .. BlkCount - (m + 1) : s[n] = w[m + 1 + n]
  BY <1>4, <1>7
<1>10. \A n \in 0 .. BlkCount : n > BlkCount - (m + 1) => s[n] = 0
  <2> HIDE DEF r, s
  <2> QED BY <1>6, <1>7, <1>3, Sizes
<1>11. NoCycle(s)
  BY <1>7, <1>8
<1> QED BY <1>1, <1>2, <1>9, <1>10, <1>11

\* The first block of a chain is given back: the others are a chain.
LEMMA WalkTail ==
  ASSUME NEW d \in [Blocks -> Blks], NEW e \in [Blocks -> Blks], NEW f \in Blocks,
         d[f].known, NoCycle(Walk(d, f)),
         \A a \in Blocks : a # f => e[a] = d[a]
  PROVE  /\ d[f].next \in Ptrs
         /\ \A n \in 0 .. BlkCount - 1 : Walk(e, d[f].next)[n] = Walk(d, f)[n + 1]
         /\ Walk(e, d[f].next)[BlkCount] = 0
         /\ NoCycle(Walk(e, d[f].next))
<1> DEFINE w == Walk(d, f)
           r == Walk(d, w[1])
           s == Walk(e, w[1])
<1>0. 1 \in 0 .. BlkCount /\ 0 \in 0 .. BlkCount - 1 /\ 0 \in 0 .. BlkCount /\ f # 0 /\ f \in Ptrs
  BY Sizes
<1>1. w[1] = d[f].next /\ w[0] = f
  <2>1. w[0] = f /\ w[0 + 1] = Follow(d, w[0])
    BY <1>0, WalkSteps
  <2> HIDE DEF w
  <2> QED BY <2>1, <1>0 DEF Follow
<1>2. w \in [0 .. BlkCount -> Ptrs]
  BY <1>0, WalkType
<1>3. w[BlkCount] = 0 /\ \A i, j \in 0 .. BlkCount : w[i] = w[j] /\ w[i] # 0 => i = j
  BY DEF NoCycle
<1>4. \A n \in 0 .. BlkCount - 1 : r[n] = w[n + 1]
  <2> TAKE n \in 0 .. BlkCount - 1
  <2>1. r[n] = w[1 + n]
    BY <1>0, WalkRest
  <2>2. 1 + n = n + 1
    BY Sizes
  <2> QED BY <2>1, <2>2
<1>5. r[BlkCount] = 0
  <2>1. BlkCount - 1 \in 0 .. BlkCount - 1 /\ (BlkCount - 1) + 1 = BlkCount /\ BlkCount - 1 \in 0 .. BlkCount
        /\ BlkCount - 1 <= BlkCount /\ BlkCount \in 0 .. BlkCount
    BY Sizes
  <2>2. r[BlkCount - 1] = 0
    BY <2>1, <1>3, <1>4
  <2> QED BY <2>1, <2>2, WalkEnds
<1>6. \A n \in 0 .. BlkCount : r[n] # 0 => n \in 0 .. BlkCount - 1 /\ r[n] = w[n + 1] /\ n + 1 \in 0 .. BlkCount
  <2> HIDE DEF r, w
  <2> QED BY <1>4, <1>5, Sizes
<1>7. r = s
  <2> SUFFICES \A n \in 0 .. BlkCount - 1 : Follow(e, r[n]) = Follow(d, r[n])
    BY WalkSame
  <2> TAKE n \in 0 .. BlkCount - 1
  <2>1. CASE r[n] = 0
    BY <2>1 DEF Follow
  <2>2. CASE r[n] # 0
    <3>1. r[n] = w[n + 1] /\ n + 1 \in 0 .. BlkCount /\ n + 1 # 0
      BY <2>2, <1>4, Sizes
    <3> HIDE DEF r, w
    <3>2. w[n + 1] # f /\ w[n + 1] \in Blocks
      BY <3>1, <2>2, <1>0, <1>1, <1>2, <1>3 DEF Ptrs
    <3>3. e[r[n]] = d[r[n]]
      BY <3>1, <3>2
    <3> QED BY <3>3 DEF Follow
  <2> QED BY <2>1, <2>2
<1>8. NoCycle(r)
  <2>1. \A i, j \in 0 .. BlkCount : r[i] = r[j] /\ r[i] # 0 => i = j
    <3> HIDE DEF r, w
    <3> SUFFICES ASSUME NEW i \in 0 .. BlkCount, NEW j \in 0 .. BlkCount, r[i] = r[j], r[i] # 0
                 PROVE  i = j
      OBVIOUS
    <3>1. i + 1 = j + 1
      BY <1>3, <1>6
    <3> QED BY <3>1, Sizes
  <2> HIDE DEF r
  <2> QED BY <2>1, <1>5 DEF NoCycle
<1> HIDE DEF r, s, w
<1>9. d[f].next \in Ptrs
  BY <1>0, <1>1, <1>2
<1> QED BY <1>1, <1>4, <1>5, <1>7, <1>8, <1>9 DEF r, s, w

-----------------------------------------------------------------------------
(* The variables.                                                          *)

\* A handle, a piece of locals and a block keep their shape under the changes that are
\* made to them.
Hnds  == [size : 0 .. MaxSize, first_blk : Ptrs, curr_blk : Ptrs, curr_pos : Positions]
Locs  == [last_blk : Ptrs, last_pos : Positions, len : 0 .. MaxSize, offset : 0 .. MaxSize,
          os : Int, append : BOOLEAN, update_item : BOOLEAN, free_from : Ptrs]
CallSet == [op : {"none", "write", "read", "trunc"}, len : 0 .. MaxSize, offset : 0 .. MaxSize,
          v : Bytes \cup {0}]

\* The values between two calls have their types.
LEMMA Constants0 ==
  /\ NoCall \in CallSet /\ NoLoc \in Locs /\ 0 \in Positions /\ 0 \in 0 .. MaxSize
  /\ NoCall.op = "none" /\ NoLoc.len = 0 /\ NoLoc.offset = 0 /\ NoLoc.append = FALSE
  /\ NoLoc.last_blk = 0 /\ NoLoc.free_from = 0
<1>1. 0 \in Positions
  <2>1. 0 = DataLen * 0 /\ 0 \in 0 .. BlkCount
    BY Sizes
  <2> QED BY <2>1 DEF Positions
<1> QED BY <1>1, Sizes DEF NoCall, NoLoc, CallSet, Locs

\* Where seek starts: where the handle is, or at the first block.
LEMMA StartPosFacts ==
  ASSUME NEW h \in Hnds, NEW p
  PROVE  /\ StartPos(h, p) \in Hnds /\ init_pos(h) \in Hnds
         /\ StartPos(h, p).first_blk = h.first_blk /\ StartPos(h, p).size = h.size
         /\ init_pos(h).first_blk = h.first_blk /\ init_pos(h).curr_blk = h.first_blk
         /\ init_pos(h).curr_pos = 0 /\ init_pos(h).size = h.size
         /\ IF FromStart(p) THEN StartPos(h, p) = init_pos(h) ELSE StartPos(h, p) = h /\ hnd.curr_blk # 0
  BY Constants0 DEF StartPos, FromStart, init_pos, Hnds

\* The blocks that are written have their type.
LEMMA BlkFacts ==
  /\ Zeros \in [Offs -> Bytes \cup {0, Stale}]
  /\ Junk \in Blks /\ ~Junk.known
  /\ \A p, n \in Ptrs, x \in [Offs -> Bytes \cup {0, Stale}] :
       /\ DataBlk(p, n, x) \in Blks /\ DataBlk(p, n, x).known
       /\ DataBlk(p, n, x).prev = p /\ DataBlk(p, n, x).next = n
  /\ \A c \in Blks : Forgotten(c) \in Blks /\ ~Forgotten(c).known
  BY Sizes DEF Zeros, Junk, Blks, DataBlk, Forgotten

\* The place of the handle.
LEMMA HereFacts ==
  ASSUME Shapes
  PROVE  /\ Here \in Nat /\ slip \in Nat /\ hnd.curr_pos \in Nat
         /\ hnd.curr_pos \div DataLen \in 0 .. BlkCount
         /\ hnd.curr_pos = DataLen * (hnd.curr_pos \div DataLen)
         /\ Here < BlkCount => /\ hnd.curr_pos + DataLen \in Positions
                               /\ (hnd.curr_pos + DataLen) \div DataLen + slip = Here + 1
         /\ hnd.curr_pos # 0 => /\ Here > 0 /\ hnd.curr_pos - DataLen \in Positions
                                /\ (hnd.curr_pos - DataLen) \div DataLen + slip = Here - 1
<1>1. hnd.curr_pos \in Positions /\ slip \in Nat
  BY Sizes DEF Shapes
<1> DEFINE k == hnd.curr_pos \div DataLen
<1>2. k \in 0 .. BlkCount /\ Here = k + slip
  BY <1>1, PositionFacts DEF Here
<1>3. Here < BlkCount => k < BlkCount
  BY <1>1, <1>2, Sizes
<1>4. k < BlkCount => hnd.curr_pos + DataLen \in Positions /\ (hnd.curr_pos + DataLen) \div DataLen = k + 1
  BY <1>1, PositionFacts
<1>5. hnd.curr_pos # 0 => /\ k > 0 /\ hnd.curr_pos - DataLen \in Positions
                          /\ (hnd.curr_pos - DataLen) \div DataLen = k - 1
  BY <1>1, PositionFacts
<1>6. hnd.curr_pos \in Nat /\ hnd.curr_pos = DataLen * k
  BY <1>1, PositionFacts
<1>7. k \in Nat
  BY <1>2, Sizes
<1>8. Here \in Nat /\ \A x : x = k + 1 => x + slip = Here + 1
  BY <1>1, <1>2, <1>7
<1>9. (k > 0 => Here > 0) /\ \A x : x = k - 1 => x + slip = Here - 1
  BY <1>1, <1>2, <1>7
<1>10. k \in 0 .. BlkCount
  BY <1>2
<1> HIDE DEF k
<1> QED BY <1>1, <1>3, <1>4, <1>5, <1>6, <1>8, <1>9, <1>10 DEF k

\* The chain of the file.
LEMMA AtFacts ==
  ASSUME Shapes
  PROVE  /\ At \in [0 .. BlkCount -> Ptrs] /\ At[0] = First /\ First \in Ptrs
         /\ At = Walk(disk, First)
         /\ \A n \in 0 .. BlkCount - 1 : At[n + 1] = Follow(disk, At[n])
         /\ \A m, n \in 0 .. BlkCount : m <= n /\ At[m] = 0 => At[n] = 0
         /\ ChainBlks(First) = {At[n] : n \in 0 .. BlkCount} \ {0}
<1>1. disk \in [Blocks -> Blks] /\ First \in Ptrs /\ hnd.first_blk \in Ptrs
  BY Sizes DEF Shapes, First
<1>2. At = Walk(disk, First)
  BY DEF At, BlkAt
<1> QED BY <1>1, <1>2, WalkType, WalkSteps, WalkEnds DEF ChainBlks, BlkAt

\* The chain stays as it is with the drive and its first block.
LEMMA AtSame ==
  ASSUME disk' = disk, First' = First
  PROVE  At' = At /\ ChainBlks(First)' = ChainBlks(First)
  BY DEF At, BlkAt, ChainBlks

\* A handle that is in a chain is at a place of it.
LEMMA PlaceRange ==
  ASSUME Shapes, NEW at, NEW b, Nth(at, Here, b)
  PROVE  Here \in 0 .. BlkCount /\ b = at[Here] /\ b # 0
  BY HereFacts, Sizes DEF Nth

\* Between two calls the chain is whole and the handle in it.
LEMMA IdleChain ==
  ASSUME IInv, pc = "idle", Usable
  PROVE  /\ Shapes /\ Unmarked /\ Calls /\ Walkable /\ Placed /\ ~Growing /\ ~Emptying
         /\ First = hnd.first_blk /\ At = BlkAt(hnd.first_blk) /\ call.op = "none"
         /\ hnd.curr_blk # 0 => Nth(At, Here, hnd.curr_blk)
         /\ faults = 0 => before.lost = used \ ChainBlks(First)
         /\ item.blk \in {0, hnd.first_blk}
<1>1. Shapes /\ Unmarked /\ Calls /\ Walkable /\ Placed /\ Accounted /\ ItemRight
  BY DEF IInv, Live
<1>2. ~Growing /\ ~Emptying /\ ~Emptied /\ Spare = {}
  BY DEF Growing, Emptying, Emptied, Spare
<1>3. call.op = "none" /\ First = hnd.first_blk
  BY <1>1, <1>2 DEF Shapes, First
<1> QED BY <1>1, <1>2, <1>3 DEF Placed, Accounted, ItemRight, At

\* A call starts with seek, from the place of the handle or from the first block.
LEMMA EnterSeek ==
  ASSUME IInv, Enter, pc' = "seek", hnd' = StartPos(hnd, call'.offset), Slip(call'.offset),
         Shapes', Calls', call'.op = "write" /\ call'.len = 0 => InChain(call'.offset, slip')
  PROVE  IInv'
<1>1. /\ pc = "idle" /\ Shapes /\ Unmarked /\ Walkable /\ First = hnd.first_blk
      /\ hnd.curr_blk # 0 => Nth(At, Here, hnd.curr_blk)
      /\ faults = 0 => before.lost = used \ ChainBlks(First)
      /\ item.blk \in {0, hnd.first_blk} /\ ~Growing /\ ~Emptying
  BY IdleChain DEF Enter
<1>2. hnd \in Hnds
  BY <1>1 DEF Shapes, Hnds
<1>3. hnd'.first_blk = hnd.first_blk
  BY <1>2, StartPosFacts
<1>4. disk' = disk /\ used' = used /\ item' = item /\ faults' = faults /\ ~Emptying' /\ ~Emptied'
  BY <1>1 DEF Enter, Emptying, Emptied
<1>5. First' = First
  BY <1>1, <1>3, <1>4 DEF First
<1>6. At' = At /\ ChainBlks(First)' = ChainBlks(First)
  BY <1>4, <1>5, AtSame
<1>7. Unmarked'
  BY <1>1, <1>4 DEF Unmarked
<1>8. Walkable'
  BY <1>1, <1>4, <1>6 DEF Walkable, Growing
<1>9. Placed'
  <2>1. hnd'.curr_blk # 0 => Nth(At, Here', hnd'.curr_blk)
    <3>1. CASE ~FromStart(call'.offset)
      <4>1. hnd' = hnd /\ slip' = slip
        BY <3>1, <1>2, StartPosFacts DEF Slip
      <4>2. Here' = Here
        BY <4>1 DEF Here
      <4> QED BY <4>1, <4>2, <1>1
    <3>2. CASE FromStart(call'.offset)
      <4>1. hnd' = init_pos(hnd) /\ slip' = 0
        BY <3>2, <1>2, StartPosFacts DEF Slip
      <4>2. hnd'.curr_blk = First /\ Here' = 0
        BY <4>1, <1>1, <1>2, StartPosFacts, Sizes DEF Here
      <4> QED BY <4>2, <1>1, AtFacts, Sizes DEF Nth
    <3> QED BY <3>1, <3>2
  <2>2. hnd'.curr_blk = 0 => hnd'.first_blk = 0
    BY <1>2, StartPosFacts
  <2>3. (call.op = "write" /\ call.len = 0 => InChain(call.offset, slip))'
    BY <1>3, <1>4 DEF InChain, BlkAt
  <2>4. hnd'.first_blk = 0 => slip' = 0
    <3> SUFFICES ASSUME hnd.first_blk = 0, ~FromStart(call'.offset) PROVE FALSE
      BY <1>3 DEF Slip
    <3>1. Nth(At, Here, hnd.curr_blk) /\ Here \in Nat /\ At = Walk(disk, 0)
      BY <1>1, AtFacts, HereFacts DEF FromStart
    <3>2. Here \in 0 .. BlkCount /\ Walk(disk, 0)[Here] # 0
      BY <3>1, Sizes DEF Nth
    <3> QED BY <3>2, WalkNone
  <2> QED BY <2>1, <2>2, <2>3, <2>4, <1>6 DEF Placed
<1>10. Accounted'
  <2>1. before'.lost = before.lost
    BY DEF Enter, Snapshot
  <2>2. Spare' = {}
    BY DEF Spare
  <2> QED BY <2>1, <2>2, <1>1, <1>4, <1>5, <1>6 DEF Accounted
<1>11. ItemRight'
  BY <1>1, <1>3, <1>4 DEF ItemRight
<1>12. Buffered' /\ Cut'
  BY DEF Buffered, Cut
<1> QED BY <1>7, <1>8, <1>9, <1>10, <1>11, <1>12 DEF IInv

-----------------------------------------------------------------------------
(* Calls keep the invariant.                                               *)

\* How far the handle has slipped when a call begins.
LEMMA SlipFacts ==
  ASSUME Shapes, Enter, NEW p, Slip(p)
  PROVE  faults' = faults /\ slip' \in 0 .. faults'
<1>1. faults' = faults /\ slip \in 0 .. faults /\ faults \in Nat
  BY Sizes DEF Shapes, Enter
<1> QED BY <1>1 DEF Slip

\* A call of tfs_write begins.
LEMMA WriteCalled ==
  ASSUME IInv, EmptyAppends = FALSE,
         NEW len \in 0 .. MaxSize, NEW offset \in 0 .. MaxSize, NEW v \in Bytes,
         offset + len <= MaxSize, tfs_write(len, offset, v)
  PROVE  IInv'
<1>1. /\ Enter /\ pc' = "seek" /\ hnd' = StartPos(hnd, offset) /\ Slip(offset)
      /\ call' = Arguments("write", len, offset, v)
      /\ loc' = [NoLoc EXCEPT !.len = len, !.offset = offset]
      /\ len = 0 => InChain(offset, slip')
  BY DEF tfs_write
<1>2. call'.offset = offset /\ call'.len = len /\ call'.op = "write" /\ call' \in CallSet
  BY <1>1 DEF Arguments, CallSet
<1>3. loc' \in Locs /\ loc'.len = len /\ loc'.offset = offset /\ loc'.append = FALSE
  BY <1>1, Constants0 DEF Locs
<1>4. Shapes
  BY DEF IInv
<1>5. hnd' \in Hnds
  BY <1>1, <1>4, StartPosFacts DEF Shapes, Hnds
<1>6. Shapes'
  BY <1>1, <1>2, <1>3, <1>4, <1>5, SlipFacts DEF Shapes, Enter, CallSet, Locs, Hnds, Labels
<1>7. Calls'
  BY <1>1, <1>2, <1>3, Constants0 DEF Calls, Enter
<1> QED BY <1>1, <1>2, <1>6, <1>7, EnterSeek

\* A call of tfs_read begins.
LEMMA ReadCalled ==
  ASSUME IInv, NEW len \in 0 .. MaxSize, NEW offset \in 0 .. MaxSize,
         tfs_read(len, offset)
  PROVE  IInv'
<1>1. /\ Enter /\ pc' = "seek" /\ hnd' = StartPos(hnd, offset) /\ Slip(offset)
      /\ call' = Arguments("read", len, offset, 0) /\ offset <= hnd.size
      /\ loc' = [NoLoc EXCEPT !.len = IF len > hnd.size - offset THEN hnd.size - offset ELSE len,
                              !.offset = offset]
  BY DEF tfs_read
<1>2. call'.offset = offset /\ call'.len = len /\ call'.op = "read" /\ call' \in CallSet
  BY <1>1 DEF Arguments, CallSet
<1>3. Shapes
  BY DEF IInv
<1>4. loc' \in Locs /\ loc'.append = FALSE /\ loc'.free_from = 0
  <2>1. (IF len > hnd.size - offset THEN hnd.size - offset ELSE len) \in 0 .. MaxSize
    BY <1>1, <1>3, Sizes DEF Shapes
  <2> QED BY <1>1, <2>1, Constants0 DEF Locs
<1>5. hnd' \in Hnds
  BY <1>1, <1>3, StartPosFacts DEF Shapes, Hnds
<1>6. Shapes'
  BY <1>1, <1>2, <1>3, <1>4, <1>5, SlipFacts DEF Shapes, Enter, CallSet, Locs, Hnds, Labels
<1>7. Calls'
  BY <1>1, <1>2, <1>4 DEF Calls, Enter
<1> QED BY <1>1, <1>2, <1>6, <1>7, EnterSeek

\* A call of tfs_read behind the end returns at once.
LEMMA ReadBeyond ==
  ASSUME IInv, NEW offset, tfs_read_beyond(offset)
  PROVE  IInv'
<1>1. /\ pc = "idle" /\ Usable /\ UNCHANGED <<hnd, pc, call, loc, disk, used, item, blk_buf, slip, faults>>
      /\ tfs_last_error' = "OK" /\ before'.lost = before.lost
  BY DEF tfs_read_beyond, Enter, Snapshot
<1>2. /\ Shapes /\ Unmarked /\ Walkable /\ Placed /\ Calls /\ First = hnd.first_blk
      /\ item.blk \in {0, hnd.first_blk} /\ ~Emptying /\ Accounted
  BY <1>1, IdleChain DEF IInv, Live
<1>3. First' = First /\ ~Emptying' /\ ~Emptied' /\ Here' = Here
  BY <1>1, <1>2 DEF First, Emptying, Emptied, Here
<1>4. At' = At /\ ChainBlks(First)' = ChainBlks(First)
  BY <1>1, <1>3, AtSame
<1>5. Shapes' /\ Unmarked' /\ Calls' /\ ItemRight'
  BY <1>1, <1>2, <1>3 DEF Shapes, Unmarked, Calls, ItemRight
<1>6. Walkable' /\ Placed' /\ Buffered' /\ Cut'
  BY <1>1, <1>2, <1>3, <1>4 DEF Walkable, Growing, Placed, Buffered, Cut
<1>7. Accounted'
  <2>1. Spare' = {} /\ Spare = {}
    BY <1>1 DEF Spare
  <2> QED BY <2>1, <1>1, <1>2, <1>4 DEF Accounted
<1> QED BY <1>5, <1>6, <1>7 DEF IInv

\* A call of tfs_trunc begins.
LEMMA TruncCalled ==
  ASSUME IInv, NEW size \in 0 .. MaxSize, tfs_trunc(size)
  PROVE  IInv'
<1>1. Enter /\ call' = Arguments("trunc", 0, size, 0)
  BY DEF tfs_trunc
<1>2. call'.offset = size /\ call'.len = 0 /\ call'.op = "trunc" /\ call' \in CallSet
  BY <1>1, Sizes DEF Arguments, CallSet
<1>3. Shapes
  BY DEF IInv
<1>4. CASE size # 0
  <2>1. pc' = "seek" /\ hnd' = StartPos(hnd, size) /\ Slip(size) /\ loc' = [NoLoc EXCEPT !.offset = size]
    BY <1>4 DEF tfs_trunc
  <2>2. loc' \in Locs /\ loc'.append = FALSE /\ loc'.free_from = 0
    BY <2>1, Constants0 DEF Locs
  <2>3. hnd' \in Hnds
    BY <2>1, <1>3, StartPosFacts DEF Shapes, Hnds
  <2>4. Shapes'
    BY <1>1, <1>2, <1>3, <2>1, <2>2, <2>3, SlipFacts DEF Shapes, Enter, CallSet, Locs, Hnds, Labels
  <2>5. Calls'
    BY <1>1, <1>4, <2>1, <2>2, <1>2 DEF Calls, Enter
  <2> QED BY <1>1, <1>2, <2>1, <2>4, <2>5, EnterSeek
<1>5. CASE size = 0
  <2>1. /\ pc' = "freeing" /\ loc' = [NoLoc EXCEPT !.free_from = hnd.first_blk]
        /\ UNCHANGED <<hnd, disk, used, item, blk_buf, slip, faults>>
        /\ tfs_last_error' = "OK" /\ before'.lost = before.lost
    BY <1>1, <1>5 DEF tfs_trunc, Enter, Snapshot
  <2>2. /\ pc = "idle" /\ Unmarked /\ Walkable /\ First = hnd.first_blk /\ ~Growing
        /\ hnd.curr_blk # 0 => Nth(At, Here, hnd.curr_blk)
        /\ faults = 0 => before.lost = used \ ChainBlks(First)
        /\ item.blk \in {0, hnd.first_blk} /\ At = BlkAt(hnd.first_blk)
    BY <1>1, IdleChain DEF Enter
  <2>3. loc' \in Locs /\ loc'.free_from = hnd.first_blk
    BY <2>1, <1>3, Constants0 DEF Locs, Shapes
  <2>4. Shapes'
    BY <1>2, <1>3, <2>1, <2>3 DEF Shapes, CallSet, Locs, Labels
  <2>5. Emptying' /\ First' = 0 /\ ~Emptied'
    BY <1>2, <1>5, <2>1 DEF Emptying, Emptied, First
  <2>6. At' = Walk(disk, 0) /\ \A n \in 0 .. BlkCount : At'[n] = 0
    BY <2>1, <2>5, WalkNone DEF At, BlkAt
  <2>7. BlkAt(loc.free_from)' = At /\ BlkAt(hnd.first_blk)' = At
    BY <2>1, <2>2, <2>3 DEF BlkAt
  <2>8. Calls' /\ Unmarked'
    BY <1>2, <1>5, <2>1, <2>2 DEF Calls, Unmarked
  <2>9. Walkable'
    <3>1. NoCycle(At')
      BY <2>6, Sizes DEF NoCycle
    <3> QED BY <3>1, <2>6 DEF Walkable
  <2>10. Cut'
    BY <1>3, <2>1, <2>2, <2>6, <2>7, Sizes DEF Cut, Walkable
  <2>11. Placed' /\ Buffered'
    BY <2>1, <2>5 DEF Placed, Buffered
  <2>12. Accounted'
    <3>1. Spare' = ChainBlks(hnd.first_blk)
      BY <2>1, <2>3 DEF Spare, ChainBlks, BlkAt
    <3>2. ChainBlks(First)' = {}
      <4>1. ChainBlks(First)' = {At'[n] : n \in 0 .. BlkCount} \ {0}
        BY DEF ChainBlks, At
      <4> QED BY <4>1, <2>6
    <3> QED BY <3>1, <3>2, <2>1, <2>2 DEF Accounted
  <2>13. ItemRight'
    <3>1. Here' = Here
      BY <2>1 DEF Here
    <3> QED BY <2>1, <2>2, <2>3, <2>5, <2>7, <3>1 DEF ItemRight
  <2> QED BY <2>4, <2>8, <2>9, <2>10, <2>11, <2>12, <2>13 DEF IInv
<1> QED BY <1>4, <1>5

\* A chain that callers find sound after a step can be walked.
LEMMA SoundWalkNext ==
  ASSUME Shapes', hnd'.first_blk \in Ptrs, SoundChain(hnd.first_blk)', At' = BlkAt(hnd.first_blk)'
  PROVE  /\ NoCycle(At')
         /\ \A n \in 0 .. BlkCount : At'[n] # 0 =>
              /\ At'[n] \in used' /\ disk'[At'[n]].known
              /\ disk'[At'[n]].prev = IF n = 0 THEN 0 ELSE At'[n - 1]
<1> DEFINE w == Walk(disk', hnd'.first_blk)
<1>1. At' = w /\ disk' \in [Blocks -> Blks]
  BY DEF BlkAt, Shapes
<1>2. /\ w[BlkCount] = 0
      /\ \A n \in 0 .. BlkCount - 1 :
           w[n] # 0 => disk'[w[n]].known /\ w[n] \in used' /\ disk'[w[n]].prev = IF n = 0 THEN 0 ELSE w[n - 1]
  BY <1>1 DEF SoundChain
<1>3. NoCycle(w)
  BY <1>1, <1>2, WalkNoCycle
<1>4. \A n \in 0 .. BlkCount : w[n] # 0 => n \in 0 .. BlkCount - 1
  <2> HIDE DEF w
  <2> QED BY <1>2, Sizes
<1> HIDE DEF w
<1> QED BY <1>1, <1>2, <1>3, <1>4

\* A file that is opened again has a handle at its start.
LEMMA Reopened ==
  ASSUME IInv, Saved, reopen
  PROVE  IInv'
<1> DEFINE h == [size |-> item.size, first_blk |-> item.blk, curr_blk |-> 0, curr_pos |-> 0]
<1>1. /\ pc = "idle" /\ Usable /\ hnd' = init_pos(h) /\ tfs_last_error' = "OK" /\ slip' = 0
      /\ before'.lost = IF Unsaved THEN used \ ChainBlks(item.blk) ELSE before.lost
      /\ UNCHANGED <<disk, used, item, blk_buf, pc, call, loc, faults>>
  BY DEF reopen, Snapshot
<1>2. /\ Shapes /\ Unmarked /\ Calls /\ Walkable /\ First = hnd.first_blk /\ At = BlkAt(hnd.first_blk)
      /\ faults = 0 => before.lost = used \ ChainBlks(First)
      /\ item.blk \in {0, hnd.first_blk} /\ ~Growing /\ call.op = "none"
  BY <1>1, IdleChain
<1>3. h \in Hnds /\ h.first_blk = item.blk
  BY <1>2, Sizes, Constants0 DEF Hnds, Shapes
<1> HIDE DEF h
<1>4. hnd' \in Hnds /\ hnd'.first_blk = item.blk /\ hnd'.curr_blk = item.blk /\ hnd'.curr_pos = 0
  BY <1>1, <1>3, StartPosFacts
<1>5. Shapes' /\ Unmarked'
  BY <1>1, <1>2, <1>4, Sizes DEF Shapes, Hnds, Unmarked
<1>6. First' = item.blk /\ ~Emptying' /\ ~Emptied' /\ At' = BlkAt(item.blk) /\ item.blk \in Ptrs
  BY <1>1, <1>2, <1>4 DEF First, Emptying, Emptied, At, BlkAt, Shapes
<1>7. /\ NoCycle(BlkAt(item.blk))
      /\ \A n \in 0 .. BlkCount : BlkAt(item.blk)[n] # 0 =>
           /\ BlkAt(item.blk)[n] \in used /\ disk[BlkAt(item.blk)[n]].known
           /\ disk[BlkAt(item.blk)[n]].prev = IF n = 0 THEN 0 ELSE BlkAt(item.blk)[n - 1]
  <2>1. CASE item.blk = 0
    <3>1. \A n \in 0 .. BlkCount : BlkAt(item.blk)[n] = 0
      BY <2>1, WalkNone DEF BlkAt
    <3> QED BY <3>1, Sizes DEF NoCycle
  <2>2. CASE item.blk = hnd.first_blk
    BY <1>2, <2>2 DEF Walkable
  <2> QED BY <1>2, <2>1, <2>2
<1>8. Walkable'
  BY <1>1, <1>6, <1>7 DEF Walkable, Growing
<1>9. Placed'
  <2>1. At'[0] = item.blk /\ Here' = 0
    BY <1>1, <1>4, <1>6, WalkSteps, Sizes DEF Here, BlkAt
  <2> QED BY <2>1, <1>1, <1>4, Sizes DEF Placed, Nth
<1>10. Accounted'
  <2>1. Spare' = {} /\ ChainBlks(First)' = ChainBlks(item.blk)
    BY <1>1, <1>6 DEF Spare, ChainBlks, BlkAt
  <2>2. CASE Unsaved
    BY <1>1, <2>1, <2>2 DEF Accounted
  <2>3. CASE ~Unsaved /\ faults = 0
    <3>1. item.blk = hnd.first_blk
      BY <1>1, <1>2, <2>3 DEF Saved
    <3> QED BY <1>1, <1>2, <2>1, <2>3, <3>1 DEF Accounted
  <2> QED BY <1>1, <2>2, <2>3 DEF Accounted
<1>11. Calls' /\ ItemRight'
  BY <1>1, <1>2, <1>4, <1>6 DEF ItemRight, Calls
<1>12. Buffered' /\ Cut'
  BY <1>1 DEF Buffered, Cut
<1> QED BY <1>5, <1>8, <1>9, <1>10, <1>11, <1>12 DEF IInv

-----------------------------------------------------------------------------
(* Steps that leave the chain alone.                                       *)

\* What stays while a call goes on and the drive does not change.
LEMMA Quiet ==
  ASSUME IInv, pc \notin {"idle", "update"}, UNCHANGED <<disk, used, item>>, hnd'.first_blk = hnd.first_blk,
         ~Emptying, ~Emptying'
  PROVE  /\ At' = At /\ First' = First /\ First = hnd.first_blk
         /\ ChainBlks(First)' = ChainBlks(First)
         /\ \A b \in Ptrs : Fresh(b)' = Fresh(b)
         /\ Unmarked' /\ item.blk \in {0, hnd.first_blk} /\ (call' = call => ItemRight')
         /\ Shapes /\ Calls /\ Walkable /\ Placed /\ Buffered /\ Cut /\ Accounted /\ ItemRight
<1>1. Shapes /\ Calls /\ Walkable /\ Placed /\ Buffered /\ Cut /\ Accounted /\ ItemRight /\ Unmarked
  BY DEF IInv, Live
<1>2. First' = First /\ First = hnd.first_blk
  BY DEF First
<1>3. At' = At /\ ChainBlks(First)' = ChainBlks(First)
  BY <1>2, AtSame
<1>4. \A b \in Ptrs : Fresh(b)' = Fresh(b)
  BY <1>3 DEF Fresh
<1>5. Unmarked'
  BY <1>1 DEF Unmarked
<1>6. item.blk \in {0, hnd.first_blk}
  BY <1>1 DEF ItemRight, Emptied
<1>7. call.op # "trunc" \/ call.offset # 0
  BY <1>1 DEF Calls, Emptying
<1>8. call' = call => ItemRight'
  BY <1>6, <1>7 DEF ItemRight, Emptied
<1> QED BY <1>1, <1>2, <1>3, <1>4, <1>5, <1>6, <1>8

\* A call that returns with a chain that is sound and the handle in its place.
LEMMA ReturnSound ==
  ASSUME Returned, Shapes', Unmarked', NoCycle(At'),
         \A n \in 0 .. BlkCount : At'[n] # 0 =>
           /\ At'[n] \in used' /\ disk'[At'[n]].known
           /\ disk'[At'[n]].prev = IF n = 0 THEN 0 ELSE At'[n - 1],
         hnd'.curr_blk # 0 => Nth(At', Here', hnd'.curr_blk),
         faults' = 0 => before'.lost = used' \ ChainBlks(First)',
         item'.blk \in {0, hnd'.first_blk}
  PROVE  IInv'
<1>1. pc' = "idle" /\ call' = NoCall /\ loc' = NoLoc
  BY DEF Returned
<1>2. Calls'
  BY <1>1, Constants0 DEF Calls
<1>3. Walkable'
  BY <1>1 DEF Walkable
<1>4. Placed'
  BY <1>1 DEF Placed
<1>5. Buffered' /\ Cut' /\ ItemRight'
  BY <1>1 DEF Buffered, Cut, ItemRight, Emptied, Emptying
<1>6. Accounted'
  BY <1>1 DEF Accounted, Spare
<1> QED BY <1>2, <1>3, <1>4, <1>5, <1>6 DEF IInv

\* A call that is cut short by a failed transfer: callers go on with the handle only if
\* they find the chain sound.
LEMMA ReturnFailed ==
  ASSUME Returned, faults' > 0, Shapes', Unmarked',
         Usable' => /\ hnd'.curr_blk # 0 => Nth(At', Here', hnd'.curr_blk)
                    /\ item'.blk \in {0, hnd'.first_blk}
  PROVE  IInv'
<1>1. CASE ~Usable'
  BY <1>1 DEF Returned, IInv, Live
<1>2. CASE Usable'
  <2>1. ~Emptying' /\ First' = hnd'.first_blk /\ faults' # 0
    BY DEF Returned, Emptying, First, Shapes
  <2>2. At' = BlkAt(hnd.first_blk)' /\ hnd'.first_blk \in Ptrs /\ SoundChain(hnd.first_blk)'
    BY <1>2, <2>1 DEF At, Shapes, Usable
  <2>3. /\ NoCycle(At')
        /\ \A n \in 0 .. BlkCount : At'[n] # 0 =>
             /\ At'[n] \in used' /\ disk'[At'[n]].known
             /\ disk'[At'[n]].prev = IF n = 0 THEN 0 ELSE At'[n - 1]
    BY <2>2, SoundWalkNext
  <2> QED BY <1>2, <2>1, <2>3, ReturnSound
<1> QED BY <1>1, <1>2

\* A call that returns from where it has not changed anything.
LEMMA ReturnQuiet ==
  ASSUME IInv, Returned, pc \notin {"idle", "update"}, UNCHANGED <<disk, item, before>>,
         used' = used \/ (used \subseteq used' /\ faults' > 0),
         hnd'.first_blk = hnd.first_blk, ~Emptying, Shapes',
         faults' = 0 => faults = 0,
         hnd'.curr_blk # 0 => Nth(At, Here', hnd'.curr_blk),
         faults' > 0 \/ (~Growing /\ pc \notin {"link", "store", "freeing"})
  PROVE  IInv'
<1>1. ~Emptying'
  BY DEF Emptying, Returned
<1>2. /\ Shapes /\ Walkable /\ Accounted /\ ItemRight /\ Unmarked
  BY DEF IInv, Live
<1>3. First' = First /\ First = hnd.first_blk
  BY <1>1 DEF First
<1>4. At' = At /\ ChainBlks(First)' = ChainBlks(First)
  BY <1>3, AtSame
<1>5. Unmarked' /\ item'.blk \in {0, hnd'.first_blk}
  BY <1>2 DEF Unmarked, ItemRight, Emptied
<1>6. CASE faults' > 0
  BY <1>4, <1>5, <1>6, ReturnFailed
<1>7. CASE ~(faults' > 0)
  <2>1. Spare = {} /\ used' = used
    BY <1>7 DEF Spare
  <2>2. NoCycle(At') /\ \A n \in 0 .. BlkCount : At'[n] # 0 =>
           /\ At'[n] \in used' /\ disk'[At'[n]].known
           /\ disk'[At'[n]].prev = IF n = 0 THEN 0 ELSE At'[n - 1]
    BY <1>2, <1>4, <1>7, <2>1 DEF Walkable
  <2>3. faults' = 0 => before'.lost = used' \ ChainBlks(First)'
    BY <1>2, <1>4, <2>1 DEF Accounted
  <2> QED BY <1>4, <1>5, <2>2, <2>3, ReturnSound
<1> QED BY <1>6, <1>7

\* A failed transfer of an action, or none.
LEMMA FaultFacts ==
  ASSUME Shapes, Fault \/ NoFault
  PROVE  /\ faults' \in 0 .. MaxFaults /\ (faults' = 0 => faults = 0) /\ slip \in 0 .. faults'
         /\ tfs_last_error' = "IO" => faults' > 0
         /\ tfs_last_error' \in {"OK", "IO", "DISK_FULL", "UNEXP_EOF"}
  BY Sizes DEF Shapes, Fault, NoFault

\* drive_read_block: the block is in the buffer, or the call has failed.
LEMMA ReadFacts ==
  ASSUME Shapes, NEW b \in Blocks, drive_read_block(b)
  PROVE  /\ faults' \in 0 .. MaxFaults /\ (faults' = 0 => faults = 0) /\ slip \in 0 .. faults'
         /\ tfs_last_error' = "IO" => faults' > 0
         /\ tfs_last_error' \in {"OK", "IO", "DISK_FULL", "UNEXP_EOF"}
         /\ blk_buf' \in Blks
         /\ \/ blk_buf' = disk[b] /\ NoFault
            \/ tfs_last_error' = "IO"
<1>1. disk[b] \in Blks /\ blk_buf \in Blks
  BY DEF Shapes
<1> QED BY <1>1, FaultFacts DEF drive_read_block, Fault

\* seek goes back by a block.
LEMMA SeekBack ==
  ASSUME IInv, seek_back
  PROVE  IInv'
<1>1. /\ pc = "seek" /\ hnd.curr_blk # 0 /\ hnd.curr_pos > call.offset
      /\ UNCHANGED <<disk, used, item, got, ret, before, slip>>
  BY DEF seek_back, Seeking, Behind
<1>2. Shapes /\ Calls /\ Walkable /\ Placed /\ Accounted /\ ItemRight /\ ~Emptying /\ ~Growing
  BY <1>1 DEF IInv, Live, Emptying, Growing
<1>3. hnd \in Hnds /\ hnd.curr_blk \in Blocks /\ disk[hnd.curr_blk] \in Blks
  BY <1>1, <1>2 DEF Shapes, Hnds, Ptrs
<1>4. hnd.curr_blk = At[Here] /\ Here \in 0 .. BlkCount /\ Here > 0
      /\ hnd.curr_pos - DataLen \in Positions /\ (hnd.curr_pos - DataLen) \div DataLen + slip = Here - 1
  <2>1. hnd.curr_pos # 0
    BY <1>1, <1>2 DEF Shapes
  <2> QED BY <2>1, <1>1, <1>2, HereFacts DEF Placed, Nth
<1>5. disk[hnd.curr_blk].prev = At[Here - 1]
  BY <1>1, <1>2, <1>4, Sizes DEF Walkable
<1>6. CASE Fault /\ Returned /\ UNCHANGED <<hnd, blk_buf>>
  <2>1. Shapes'
    BY <1>1, <1>2, <1>6, FaultFacts, Constants0 DEF Shapes, Returned, Labels, CallSet, Locs
  <2>2. Nth(At, Here', hnd'.curr_blk)
    BY <1>1, <1>4, <1>6 DEF Here, Nth
  <2>3. faults' > 0 /\ (faults' = 0 => faults = 0)
    BY <1>2, <1>6, FaultFacts, Sizes DEF Fault, Shapes
  <2> QED BY <1>1, <1>2, <1>6, <2>1, <2>2, <2>3, ReturnQuiet
<1>7. CASE /\ blk_buf' = disk[hnd.curr_blk] /\ blk_buf'.prev = 0
           /\ tfs_last_error' = "UNEXP_EOF" /\ Returned /\ UNCHANGED <<hnd, faults>>
  <2>1. Shapes'
    BY <1>1, <1>2, <1>3, <1>7, Constants0 DEF Shapes, Returned, Labels, CallSet, Locs
  <2>2. Nth(At, Here', hnd'.curr_blk)
    BY <1>1, <1>4, <1>7 DEF Here, Nth
  <2>3. \/ faults' > 0
        \/ UNCHANGED used
    BY <1>1
  <2> QED BY <1>1, <1>2, <1>7, <2>1, <2>2, ReturnQuiet
<1>8. CASE /\ blk_buf' = disk[hnd.curr_blk] /\ blk_buf'.prev # 0
           /\ hnd' = [hnd EXCEPT !.curr_blk = blk_buf'.prev, !.curr_pos = @ - DataLen]
           /\ NoFault /\ UNCHANGED <<pc, call, loc>>
  <2>1. hnd' \in Hnds /\ hnd'.first_blk = hnd.first_blk /\ hnd'.curr_blk = At[Here - 1] /\ hnd'.curr_blk # 0
        /\ Here' = Here - 1
    BY <1>1, <1>3, <1>4, <1>5, <1>8 DEF Hnds, Blks, Here
  <2>2. Shapes'
    BY <1>1, <1>2, <1>3, <1>8, <2>1 DEF Shapes, NoFault, Hnds
  <2>3. ~Emptying'
    BY <1>1, <1>8 DEF Emptying
  <2>4. At' = At /\ First' = First /\ ChainBlks(First)' = ChainBlks(First) /\ Unmarked' /\ ItemRight'
    BY <1>1, <1>2, <1>8, <2>1, <2>3, Quiet
  <2>5. Calls' /\ Walkable' /\ Buffered' /\ Cut'
    BY <1>1, <1>2, <1>8, <2>4 DEF Calls, NoFault, Walkable, Growing, Buffered, Cut
  <2>6. Placed'
    <3>1. InChain(call.offset, slip)' = InChain(call.offset, slip)
      BY <1>1, <1>8, <2>1 DEF InChain, BlkAt
    <3>2. Nth(At', Here', hnd'.curr_blk)
      BY <1>4, <2>1, <2>4, Sizes DEF Nth
    <3> QED BY <1>1, <1>2, <1>8, <2>1, <3>1, <3>2 DEF Placed
  <2>7. Accounted'
    BY <1>1, <1>2, <1>8, <2>4 DEF Accounted, Spare, NoFault
  <2> QED BY <2>2, <2>4, <2>5, <2>6, <2>7 DEF IInv
<1> QED BY <1>6, <1>7, <1>8 DEF seek_back

\* The block behind the current one, with its place.
LEMMA NextPlace ==
  ASSUME Shapes, Walkable, Nth(At, Here, hnd.curr_blk), disk[hnd.curr_blk].known
  PROVE  /\ Here < BlkCount /\ Here \in 0 .. BlkCount - 1 /\ hnd.curr_blk \in Blocks
         /\ At[Here + 1] = disk[hnd.curr_blk].next
         /\ hnd.curr_pos + DataLen \in Positions
         /\ (hnd.curr_pos + DataLen) \div DataLen + slip = Here + 1
<1>1. Here \in 0 .. BlkCount /\ At[BlkCount] = 0
  BY HereFacts, Sizes DEF Walkable, NoCycle, Nth
<1>2. Here < BlkCount /\ Here \in 0 .. BlkCount - 1
  BY <1>1, Sizes DEF Nth
<1>3. At[Here + 1] = Follow(disk, At[Here])
  BY <1>2, AtFacts
<1>4. At[Here + 1] = disk[hnd.curr_blk].next
  BY <1>3 DEF Follow, Nth
<1>5. hnd.curr_blk \in Blocks
  BY DEF Shapes, Ptrs, Nth
<1> QED BY <1>2, <1>4, <1>5, HereFacts

\* seek goes forward by a block.
LEMMA SeekForward ==
  ASSUME IInv, seek_forward
  PROVE  IInv'
<1>1. /\ pc = "seek" /\ hnd.curr_blk # 0 /\ hnd.curr_pos + DataLen <= call.offset
      /\ drive_read_block(hnd.curr_blk)
      /\ UNCHANGED <<disk, used, item, got, ret, before, slip>>
  BY DEF seek_forward, Seeking, Ahead
<1>2. Shapes /\ Calls /\ Walkable /\ Placed /\ Accounted /\ ItemRight /\ ~Emptying /\ ~Growing
  BY <1>1 DEF IInv, Live, Emptying, Growing
<1>3. hnd \in Hnds /\ hnd.curr_blk \in Blocks /\ disk[hnd.curr_blk] \in Blks /\ loc \in Locs
  BY <1>1, <1>2 DEF Shapes, Hnds, Ptrs, Locs
<1>4. /\ Nth(At, Here, hnd.curr_blk) /\ hnd.curr_blk = At[Here] /\ disk[hnd.curr_blk].known
      /\ Here \in 0 .. BlkCount
  <2>1. Nth(At, Here, hnd.curr_blk) /\ Here \in Nat
    BY <1>1, <1>2, HereFacts DEF Placed
  <2>2. Here \in 0 .. BlkCount /\ hnd.curr_blk = At[Here] /\ hnd.curr_blk # 0
    BY <2>1, Sizes DEF Nth
  <2> QED BY <1>2, <2>1, <2>2 DEF Walkable
<1>5. /\ At[Here + 1] = disk[hnd.curr_blk].next
      /\ hnd.curr_pos + DataLen \in Positions /\ (hnd.curr_pos + DataLen) \div DataLen + slip = Here + 1
  BY <1>1, <1>2, <1>4, NextPlace
<1>6. CASE Failed
  <2>1. Returned /\ UNCHANGED hnd /\ (tfs_last_error' = "IO" \/ NoFault)
    BY <1>2, <1>3, <1>1, <1>6, ReadFacts DEF seek_forward
  <2>2. Shapes'
    BY <1>1, <1>2, <1>3, <2>1, ReadFacts, Constants0 DEF Shapes, Returned, Labels, CallSet, Locs
  <2>3. Nth(At, Here', hnd'.curr_blk)
    BY <1>1, <1>4, <2>1 DEF Here, Nth
  <2>4. faults' = 0 => faults = 0
    BY <1>1, <1>2, <1>3, ReadFacts
  <2>5. faults' > 0
    BY <1>1, <1>2, <1>3, <1>6, <2>1, ReadFacts DEF Calls, NoFault, Failed
  <2> QED BY <1>1, <1>2, <2>1, <2>2, <2>3, <2>4, <2>5, ReturnQuiet
<1>7. CASE ~Failed
  <2>1. /\ hnd' = [hnd EXCEPT !.curr_blk = blk_buf'.next, !.curr_pos = @ + DataLen]
        /\ loc' = [loc EXCEPT !.last_blk = hnd.curr_blk, !.last_pos = hnd.curr_pos]
        /\ UNCHANGED <<pc, call>>
    BY <1>7 DEF seek_forward
  <2>2. blk_buf' = disk[hnd.curr_blk] /\ NoFault
    BY <1>1, <1>2, <1>3, <1>7, ReadFacts DEF Failed
  <2>3. hnd' \in Hnds /\ hnd'.first_blk = hnd.first_blk /\ hnd'.curr_blk = At[Here + 1] /\ Here' = Here + 1
    BY <1>1, <1>3, <1>5, <2>1, <2>2 DEF Hnds, Blks, Here
  <2>4. loc' \in Locs /\ loc'.last_blk = hnd.curr_blk /\ loc'.last_pos = hnd.curr_pos
        /\ loc'.offset = loc.offset /\ loc'.len = loc.len
    BY <1>3, <2>1 DEF Locs, Hnds, Ptrs
  <2>5. Shapes'
    BY <1>1, <1>2, <1>3, <2>1, <2>2, <2>3, <2>4 DEF Shapes, NoFault, Hnds, Locs
  <2>6. ~Emptying'
    BY <1>1, <2>1 DEF Emptying
  <2>7. At' = At /\ First' = First /\ ChainBlks(First)' = ChainBlks(First) /\ Unmarked' /\ ItemRight'
    BY <1>1, <1>2, <2>1, <2>3, <2>6, Quiet
  <2>8. Calls' /\ Walkable' /\ Buffered' /\ Cut'
    BY <1>1, <1>2, <2>1, <2>2, <2>4, <2>7 DEF Calls, NoFault, Walkable, Growing, Buffered, Cut
  <2>9. Placed'
    <3>1. InChain(call.offset, slip)' = InChain(call.offset, slip)
      BY <1>1, <2>1, <2>3 DEF InChain, BlkAt
    <3>2. loc'.last_pos \div DataLen + slip' = Here
      BY <1>1, <2>4 DEF Here
    <3>3. hnd'.curr_blk = disk[hnd.curr_blk].next
      BY <1>5, <2>3
    <3>4. Nth(At', loc'.last_pos \div DataLen + slip', loc'.last_blk)
      BY <1>4, <2>4, <2>7, <3>2 DEF Nth
    <3>5. hnd'.curr_blk # 0 => Nth(At', Here', hnd'.curr_blk)
      <4>1. Here' <= BlkCount
        BY <1>1, <1>2, <1>4, <2>3, NextPlace, HereFacts, Sizes
      <4> QED BY <2>3, <2>7, <4>1 DEF Nth
    <3> QED BY <1>1, <1>2, <2>1, <2>2, <2>4, <3>1, <3>3, <3>4, <3>5 DEF Placed
  <2>10. Accounted'
    BY <1>1, <1>2, <2>1, <2>2, <2>7 DEF Accounted, Spare, NoFault
  <2> QED BY <2>5, <2>7, <2>8, <2>9, <2>10 DEF IInv
<1> QED BY <1>6, <1>7

\* A block that was looked for has been read.
LEMMA SeekOk ==
  ASSUME IInv, seek_ok
  PROVE  IInv'
<1>1. /\ pc = "seek" /\ hnd.curr_blk # 0 /\ ~(hnd.curr_pos > call.offset)
      /\ ~(hnd.curr_pos + DataLen <= call.offset)
      /\ drive_read_block(hnd.curr_blk)
      /\ UNCHANGED <<disk, used, item, hnd, got, ret, before, slip>>
  BY DEF seek_ok, Seeking, Behind, Ahead
<1>2. Shapes /\ Calls /\ Walkable /\ Placed /\ Accounted /\ ItemRight /\ ~Emptying /\ ~Growing
  BY <1>1 DEF IInv, Live, Emptying, Growing
<1>3. hnd \in Hnds /\ hnd.curr_blk \in Blocks /\ disk[hnd.curr_blk] \in Blks /\ loc \in Locs
  BY <1>1, <1>2 DEF Shapes, Hnds, Ptrs, Locs
<1>4. /\ Nth(At, Here, hnd.curr_blk) /\ hnd.curr_blk = At[Here] /\ disk[hnd.curr_blk].known
      /\ Here \in 0 .. BlkCount
  <2>1. Nth(At, Here, hnd.curr_blk) /\ Here \in Nat
    BY <1>1, <1>2, HereFacts DEF Placed
  <2>2. Here \in 0 .. BlkCount /\ hnd.curr_blk = At[Here] /\ hnd.curr_blk # 0
    BY <2>1, Sizes DEF Nth
  <2> QED BY <1>2, <2>1, <2>2 DEF Walkable
<1>5. faults' = 0 => faults = 0
  BY <1>1, <1>2, <1>3, ReadFacts
<1>6. Here' = Here /\ Nth(At, Here', hnd'.curr_blk)
  BY <1>1, <1>4 DEF Here, Nth
<1>7. CASE Returned
  <2>1. Shapes'
    BY <1>1, <1>2, <1>3, <1>7, ReadFacts, Constants0 DEF Shapes, Returned, Labels, CallSet, Locs
  <2> QED BY <1>1, <1>2, <1>5, <1>6, <1>7, <2>1, ReturnQuiet
<1>8. CASE ~Returned
  <2> DEFINE l == [loc EXCEPT !.os = call.offset - hnd.curr_pos]
  <2>1. ~Failed /\ Found # "done" /\ pc' = Found /\ loc' = l /\ UNCHANGED call
    BY <1>8 DEF seek_ok, Proceed
  <2>2. blk_buf' = disk[hnd.curr_blk] /\ NoFault
    BY <1>1, <1>2, <1>3, <2>1, ReadFacts DEF Failed
  <2>3. loc' \in Locs /\ loc'.os = call.offset - hnd.curr_pos /\ loc'.len = loc.len
        /\ loc'.offset = loc.offset /\ loc'.append = loc.append
    <3>1. call.offset - hnd.curr_pos \in Int
      BY <1>2, HereFacts DEF Shapes
    <3> QED BY <1>3, <2>1, <3>1 DEF Locs
  <2>4. \/ pc' = "fill" /\ call.op = "write"
        \/ pc' = "copy" /\ call.op = "read"
        \/ pc' = "cut" /\ call.op = "trunc"
    BY <1>1, <1>2, <2>1 DEF Found, Shapes
  <2>5. loc'.os \in Offs
    <3>1. hnd.curr_pos \in Nat /\ call.offset \in Nat
      BY <1>2, HereFacts DEF Shapes
    <3> QED BY <3>1, <1>1, <2>3, Sizes DEF Offs
  <2>6. Shapes'
    BY <1>1, <1>2, <1>3, <2>1, <2>2, <2>3, <2>4 DEF Shapes, NoFault, Locs, Labels
  <2>7. ~Emptying'
    BY <2>4 DEF Emptying
  <2>8. At' = At /\ First' = First /\ ChainBlks(First)' = ChainBlks(First) /\ Unmarked' /\ ItemRight'
    BY <1>1, <1>2, <2>1, <2>7, Quiet
  <2>9. Calls' /\ Cut'
    BY <1>1, <1>2, <2>1, <2>2, <2>3, <2>4, <2>5 DEF Calls, NoFault, Cut
  <2>10. ~Growing' /\ loc'.append = FALSE
    BY <1>1, <1>2, <2>3, <2>4 DEF Growing, Calls
  <2>11. Walkable'
    BY <1>1, <1>2, <2>8 DEF Walkable
  <2>12. Placed'
    BY <1>1, <1>6, <2>4, <2>8 DEF Placed
  <2>13. Buffered'
    BY <1>1, <1>2, <1>4, <2>2, <2>4, <2>8, <2>10 DEF Buffered, Walkable, Here
  <2>14. Accounted'
    BY <1>1, <1>2, <2>2, <2>4, <2>8 DEF Accounted, Spare, NoFault
  <2> QED BY <2>6, <2>8, <2>9, <2>11, <2>12, <2>13, <2>14 DEF IInv
<1> QED BY <1>7, <1>8

\* A read is at the end of the chain.
LEMMA SeekEof ==
  ASSUME IInv, seek_eof
  PROVE  IInv'
<1>1. /\ pc = "seek" /\ hnd.curr_blk = 0 /\ call.op = "read" /\ Returned
      /\ UNCHANGED <<disk, used, item, hnd, blk_buf, tfs_last_error, got, ret, before, slip, faults>>
  BY DEF seek_eof
<1>2. Shapes /\ ~Emptying /\ ~Growing
  BY <1>1 DEF IInv, Emptying, Growing
<1>3. Shapes'
  BY <1>1, <1>2, Constants0 DEF Shapes, Returned, Labels, CallSet, Locs
<1> QED BY <1>1, <1>2, <1>3, ReturnQuiet

\* The handle goes back to the last block.
LEMMA SeekAppend ==
  ASSUME IInv, seek_append
  PROVE  IInv'
<1>1. /\ pc = "seek" /\ hnd.curr_blk = 0 /\ call.op # "read" /\ hnd.first_blk # 0
      /\ hnd' = LastPos(hnd) /\ pc' = "extend"
      /\ UNCHANGED <<disk, used, item, blk_buf, tfs_last_error, call, loc, got, ret, before, slip, faults>>
  BY DEF seek_append
<1>2. Shapes /\ Calls /\ Walkable /\ Placed /\ Accounted /\ ItemRight /\ ~Emptying /\ ~Emptying' /\ ~Growing
  BY <1>1 DEF IInv, Live, Emptying, Growing
<1>3. hnd \in Hnds /\ loc \in Locs
  BY <1>2 DEF Shapes, Hnds, Locs
<1>4. /\ hnd' \in Hnds /\ hnd'.first_blk = hnd.first_blk
      /\ hnd'.curr_blk = loc.last_blk /\ hnd'.curr_pos = loc.last_pos
  BY <1>1, <1>3 DEF LastPos, Hnds, Locs
<1>5. /\ At' = At /\ First' = First /\ ChainBlks(First)' = ChainBlks(First) /\ Unmarked' /\ ItemRight'
      /\ First = hnd.first_blk
  BY <1>1, <1>2, <1>4, Quiet
<1> DEFINE n == loc.last_pos \div DataLen + slip
<1>6. /\ loc.last_blk # 0 /\ loc.last_blk = At[n] /\ n <= BlkCount
      /\ disk[loc.last_blk].next = 0 /\ blk_buf = disk[loc.last_blk]
      /\ loc.last_pos + DataLen <= call.offset
  BY <1>1, <1>2 DEF Placed, Nth
<1> DEFINE m == loc.last_pos \div DataLen
<1>7. /\ n \in 0 .. BlkCount /\ loc.last_pos \in Nat /\ loc.last_pos = DataLen * m /\ Here' = n
      /\ m \in Nat /\ n = m + slip /\ slip \in Nat
  <2>1. m \in 0 .. BlkCount /\ loc.last_pos \in Nat /\ loc.last_pos = DataLen * m
    BY <1>3, PositionFacts DEF Locs
  <2>2. slip \in Nat
    BY <1>2, HereFacts
  <2>3. Here' = n
    BY <1>1, <1>4 DEF Here
  <2> QED BY <1>6, <2>1, <2>2, <2>3, Sizes
<1>8. disk[loc.last_blk].known /\ disk[loc.last_blk].prev = IF n = 0 THEN 0 ELSE At[n - 1]
  BY <1>2, <1>6, <1>7 DEF Walkable
\* A write of nothing has found its block before.
<1>9. call.op = "write" => call.len # 0
  <2> SUFFICES ASSUME call.op = "write", call.len = 0 PROVE FALSE
    OBVIOUS
  <2> DEFINE k == call.offset \div DataLen
  <2>1. k + slip <= BlkCount /\ At[k + slip] # 0
    BY <1>1, <1>2, <1>5 DEF Placed, InChain, At
  <2>2. n < BlkCount /\ n \in 0 .. BlkCount - 1
    BY <1>2, <1>6, <1>7, Sizes DEF Walkable, NoCycle
  <2>3. At[n + 1] = 0
    <3>1. At[n + 1] = Follow(disk, At[n])
      BY <1>2, <2>2, AtFacts
    <3> HIDE DEF n
    <3> QED BY <3>1, <1>6, <1>8 DEF Follow, n
  <2>4. k \in Nat /\ m + 1 <= k
    <3>1. call.offset \in Nat /\ DataLen * m + DataLen = DataLen * (m + 1)
      BY <1>2, <1>7, PlaceOf DEF Shapes
    <3>2. DataLen * (m + 1) <= call.offset
      BY <1>6, <1>7, <3>1
    <3>3. k \in Nat /\ call.offset < DataLen * k + DataLen
      BY <3>1, Sizes
    <3>4. DataLen * k + DataLen = DataLen * (k + 1)
      BY <3>3, PlaceOf
    <3> HIDE DEF k, m, n
    <3>5. DataLen * (m + 1) < DataLen * (k + 1) /\ m + 1 \in Nat /\ k + 1 \in Nat
      BY <3>2, <3>3, <3>4, <1>7, <3>1, Sizes
    <3>6. m + 1 < k + 1
      BY <3>5, Sizes
    <3> QED BY <3>3, <3>6, <1>7
  <2> HIDE DEF k, m, n
  <2>5. k + slip \in 0 .. BlkCount /\ n + 1 \in 0 .. BlkCount /\ n + 1 <= k + slip
    BY <1>7, <2>1, <2>2, <2>4, Sizes
  <2> QED BY <2>1, <2>3, <2>4, <2>5, <1>2, AtFacts
<1>10. Shapes'
  BY <1>1, <1>2, <1>4 DEF Shapes, Hnds, Labels
<1>11. Calls'
  <2>1. hnd'.curr_pos <= call.offset
    BY <1>2, <1>4, <1>6, <1>7, Sizes DEF Shapes
  <2>2. call.op \in {"write", "trunc"}
    BY <1>1, <1>2 DEF Shapes
  <2> QED BY <1>1, <1>2, <1>9, <2>1, <2>2 DEF Calls
<1>12. Walkable' /\ Placed' /\ Cut'
  BY <1>1, <1>2, <1>4, <1>5, <1>6, <1>7 DEF Walkable, Growing, Placed, Nth, Cut
<1>13. Buffered'
  BY <1>1, <1>4, <1>5, <1>6, <1>7, <1>8 DEF Buffered
<1>14. Accounted'
  BY <1>1, <1>2, <1>5 DEF Accounted, Spare
<1> QED BY <1>5, <1>10, <1>11, <1>12, <1>13, <1>14 DEF IInv

\* What alloc_block returns.
LEMMA AllocFacts ==
  ASSUME Shapes, Unmarked, NEW b \in Blocks \cup {0}, alloc_block(b)
  PROVE  /\ used' \subseteq Blocks /\ used \subseteq used'
         /\ faults' \in 0 .. MaxFaults /\ (faults' = 0 => faults = 0) /\ slip \in 0 .. faults'
         /\ tfs_last_error' = "IO" => faults' > 0
         /\ tfs_last_error' \in {"OK", "IO", "DISK_FULL", "UNEXP_EOF"}
         /\ b = 0 => tfs_last_error' \in {"IO", "DISK_FULL"}
         /\ b = 0 /\ tfs_last_error' = "DISK_FULL" => used' = used
         /\ b # 0 => /\ b \in Blocks /\ b \notin used /\ ~disk[b].known /\ used' = used \cup {b}
                     /\ tfs_last_error' = tfs_last_error /\ faults' = faults
<1> DEFINE free == Blocks \ used
<1>1. free # {} => Min(free) \in free
  <2> SUFFICES ASSUME free # {} PROVE Min(free) \in free
    OBVIOUS
  <2>1. \E x \in free : \A y \in free : x <= y
    BY LeastNumber, Sizes
  <2> QED BY <2>1 DEF Min
<1> HIDE DEF free
<1>2. free \subseteq Blocks /\ 0 \notin free /\ used \subseteq Blocks
  BY Sizes DEF Shapes, free
<1>3. CASE free # {} /\ b = Min(free) /\ used' = used \cup {b} /\ NoFault
  BY <1>1, <1>2, <1>3 DEF NoFault, Shapes, Unmarked, free
<1>4. CASE free = {} /\ b = 0 /\ tfs_last_error' = "DISK_FULL" /\ UNCHANGED <<used, faults>>
  BY <1>2, <1>4, Sizes DEF Shapes
<1>5. CASE free # {} /\ b = 0 /\ Fault /\ used' \in {used, used \cup {Min(free)}}
  <2>1. faults' \in 0 .. MaxFaults /\ faults' > 0 /\ tfs_last_error' = "IO"
    BY <1>5, Sizes DEF Fault, Shapes
  <2>2. used' \subseteq Blocks /\ used \subseteq used'
    BY <1>1, <1>2, <1>5
  <2>3. slip \in 0 .. faults'
    BY <1>5, Sizes DEF Fault, Shapes
  <2> QED BY <1>5, <2>1, <2>2, <2>3, Sizes
<1> QED BY <1>3, <1>4, <1>5 DEF alloc_block, free

-----------------------------------------------------------------------------
(* Steps that add a block to the chain.                                    *)

\* A chain of one block, which nobody has written yet.
LEMMA WalkNew ==
  ASSUME NEW d, NEW b \in Blocks, ~d[b].known
  PROVE  /\ Walk(d, b)[0] = b /\ \A n \in 1 .. BlkCount : Walk(d, b)[n] = 0
         /\ NoCycle(Walk(d, b))
<1> DEFINE w == Walk(d, b)
<1>1. w[0] = b /\ w[0 + 1] = Follow(d, w[0])
  <2>1. 0 \in 0 .. BlkCount - 1
    BY Sizes
  <2> QED BY <2>1, WalkSteps
<1> HIDE DEF w
<1>2. w[1] = 0
  BY <1>1 DEF Follow
<1>3. \A n \in 1 .. BlkCount : w[n] = 0
  <2> TAKE n \in 1 .. BlkCount
  <2>1. 1 \in 0 .. BlkCount /\ n \in 0 .. BlkCount /\ 1 <= n
    BY Sizes
  <2> QED BY <1>2, <2>1, WalkEnds DEF w
<1>4. NoCycle(w)
  BY <1>1, <1>3, Sizes DEF NoCycle
<1> QED BY <1>1, <1>3, <1>4 DEF w

\* seek allocates the first block of a file.
LEMMA SeekFirst ==
  ASSUME IInv, seek_first
  PROVE  IInv'
<1>1. /\ pc = "seek" /\ hnd.curr_blk = 0 /\ call.op # "read" /\ hnd.first_blk = 0
      /\ UNCHANGED <<disk, item, got, ret, before, slip>>
  BY DEF seek_first
<1>2. PICK b \in Blocks \cup {0} :
        /\ alloc_block(b)
        /\ hnd' = IF b = 0 THEN [hnd EXCEPT !.first_blk = 0]
                  ELSE init_pos([hnd EXCEPT !.first_blk = b])
  BY DEF seek_first
<1>3. /\ Shapes /\ Unmarked /\ Calls /\ Walkable /\ Placed /\ Accounted /\ ItemRight
      /\ ~Emptying /\ ~Growing /\ First = 0
  BY <1>1 DEF IInv, Live, Emptying, Growing, First
<1>9. slip = 0 /\ item.blk = 0
  BY <1>1, <1>3 DEF Placed, ItemRight, Emptied
<1>4. hnd \in Hnds /\ 0 \in Ptrs /\ b \in Ptrs /\ tfs_last_error = "OK"
  BY <1>1, <1>3, Sizes DEF Shapes, Hnds, Ptrs, Calls
<1>5. Unmarked'
  BY <1>1, <1>2, <1>3, AllocFacts DEF Unmarked
<1>6. ChainBlks(First) = {}
  BY <1>3, WalkNone DEF ChainBlks, BlkAt
<1>7. CASE b = 0
  <2>1. Failed /\ Returned /\ UNCHANGED blk_buf /\ tfs_last_error' \in {"IO", "DISK_FULL"}
    BY <1>2, <1>3, <1>7, AllocFacts DEF seek_first, Failed
  <2>2. hnd' = [hnd EXCEPT !.first_blk = 0]
    BY <1>2, <1>7
  <2>3. hnd' \in Hnds /\ hnd'.first_blk = hnd.first_blk /\ hnd'.curr_blk = 0
    BY <1>1, <1>4, <2>2 DEF Hnds
  <2>4. Shapes'
    BY <1>1, <1>2, <1>3, <2>1, <2>3, AllocFacts, Constants0 DEF Shapes, Hnds, Returned, Labels, CallSet, Locs
  <2>5. CASE tfs_last_error' = "IO"
    <3>1. faults' > 0
      BY <1>2, <1>3, <2>5, AllocFacts
    <3> QED BY <1>1, <1>5, <1>9, <2>1, <2>3, <2>4, <3>1, ReturnFailed
  <2>6. CASE tfs_last_error' = "DISK_FULL"
    <3>1. used' = used /\ (faults' = 0 => faults = 0)
      BY <1>2, <1>3, <1>7, <2>6, AllocFacts
    <3> QED BY <1>1, <1>3, <2>1, <2>3, <2>4, <3>1, ReturnQuiet
  <2> QED BY <2>1, <2>5, <2>6
<1>8. CASE b # 0
  <2>1. /\ b \in Blocks /\ b \notin used /\ ~disk[b].known /\ used' = used \cup {b}
        /\ tfs_last_error' = "OK" /\ faults' = faults
    BY <1>2, <1>3, <1>4, <1>8, AllocFacts
  <2>2. blk_buf' = DataBlk(0, 0, Zeros) /\ pc' = "extend" /\ UNCHANGED <<call, loc>>
    BY <2>1 DEF seek_first, Failed
  <2>3. hnd' \in Hnds /\ hnd'.first_blk = b /\ hnd'.curr_blk = b /\ hnd'.curr_pos = 0
    <3> DEFINE g == [hnd EXCEPT !.first_blk = b]
    <3>1. g \in Hnds /\ g.first_blk = b
      BY <1>4 DEF Hnds
    <3>2. hnd' = init_pos(g)
      BY <1>2, <1>8
    <3> HIDE DEF g
    <3> QED BY <3>1, <3>2, StartPosFacts
  <2>4. blk_buf' \in Blks /\ blk_buf'.known /\ blk_buf'.prev = 0 /\ blk_buf'.next = 0
    BY <1>4, <2>2, BlkFacts
  <2>5. Shapes'
    BY <1>1, <1>2, <1>3, <2>1, <2>2, <2>3, <2>4, AllocFacts DEF Shapes, Hnds, Labels
  <2>6. ~Emptying' /\ First' = b /\ At' = Walk(disk, b) /\ Here' = 0
    BY <1>1, <1>9, <2>2, <2>3, Sizes DEF Emptying, First, At, BlkAt, Here
  <2>7. At'[0] = b /\ (\A n \in 1 .. BlkCount : At'[n] = 0) /\ NoCycle(At')
    BY <2>1, <2>6, WalkNew
  <2>8. \A n \in 0 .. BlkCount : At'[n] # 0 => n = 0
    BY <2>7, Sizes
  <2>9. call.op = "write" => call.len # 0
    <3> SUFFICES ASSUME call.op = "write", call.len = 0 PROVE FALSE
      OBVIOUS
    <3> DEFINE k == call.offset \div DataLen + slip
    <3>1. k <= BlkCount /\ Walk(disk, 0)[k] # 0
      BY <1>1, <1>3 DEF Placed, InChain, BlkAt
    <3>2. k \in 0 .. BlkCount
      <4>1. call.offset \in Nat
        BY <1>3 DEF Shapes
      <4>2. k \in Nat
        BY <1>9, <4>1, Sizes
      <4> QED BY <3>1, <4>2, Sizes
    <3> HIDE DEF k
    <3> QED BY <3>1, <3>2, WalkNone
  <2>10. Calls'
    <3>1. call.op \in {"write", "trunc"} /\ 0 <= call.offset
      BY <1>1, <1>3 DEF Shapes
    <3> QED BY <1>1, <1>3, <2>1, <2>2, <2>3, <2>9, <3>1 DEF Calls
  <2>11. Walkable'
    BY <1>1, <2>1, <2>2, <2>3, <2>7, <2>8 DEF Walkable, Growing
  <2>12. Placed' /\ Cut'
    BY <1>8, <2>2, <2>3, <2>6, <2>7, Sizes DEF Placed, Nth, Cut
  <2>13. Buffered'
    BY <1>1, <2>1, <2>2, <2>3, <2>4, <2>6 DEF Buffered
  <2>14. Accounted'
    <3>1. ChainBlks(First)' = {b}
      <4>1. ChainBlks(First)' = {At'[n] : n \in 0 .. BlkCount} \ {0}
        BY DEF ChainBlks, At
      <4> QED BY <4>1, <1>8, <2>7, <2>8, Sizes
    <3>2. faults = 0 => before.lost = used
      BY <1>1, <1>3, <1>6 DEF Accounted, Spare
    <3> QED BY <1>1, <2>1, <2>2, <3>1, <3>2 DEF Accounted, Spare
  <2>15. ItemRight'
    BY <1>1, <1>9, <2>2, <2>6 DEF ItemRight, Emptied
  <2> QED BY <1>5, <2>5, <2>10, <2>11, <2>12, <2>13, <2>14, <2>15 DEF IInv
<1> QED BY <1>7, <1>8

\* seek allocates a block behind the last.
LEMMA SeekExtend ==
  ASSUME IInv, seek_extend
  PROVE  IInv'
<1>1. /\ pc = "extend" /\ hnd.curr_pos + DataLen <= call.offset /\ pc' = "link"
      /\ UNCHANGED <<disk, item, hnd, call, loc, got, ret, before, slip>>
  BY DEF seek_extend, Ahead
<1>2. PICK b \in Blocks \cup {0} : alloc_block(b) /\ blk_buf' = [blk_buf EXCEPT !.next = b]
  BY DEF seek_extend
<1>3. /\ Shapes /\ Unmarked /\ Calls /\ Walkable /\ Placed /\ Buffered /\ Accounted /\ ItemRight
      /\ ~Emptying /\ ~Emptying'
  BY <1>1 DEF IInv, Live, Emptying
<1>4. b \in Ptrs /\ tfs_last_error = "OK"
  BY <1>1, <1>3, Sizes DEF Ptrs, Calls
<1>5. blk_buf' \in Blks /\ blk_buf'.next = b /\ blk_buf'.known = blk_buf.known /\ blk_buf'.prev = blk_buf.prev
  BY <1>2, <1>3, <1>4 DEF Shapes, Blks
<1>6. Unmarked' /\ used \subseteq used' /\ (faults' = 0 => faults = 0)
  BY <1>1, <1>2, <1>3, AllocFacts DEF Unmarked
<1>7. Shapes'
  BY <1>1, <1>2, <1>3, <1>5, AllocFacts DEF Shapes, Labels
<1>8. First' = First /\ At' = At /\ ChainBlks(First)' = ChainBlks(First) /\ Here' = Here
  <2>1. First' = First /\ Here' = Here
    BY <1>1, <1>3 DEF First, Here
  <2> QED BY <1>1, <2>1, AtSame
<1>9. Calls'
  <2>1. tfs_last_error' # "UNEXP_EOF"
    BY <1>2, <1>3, <1>4, AllocFacts
  <2> QED BY <1>1, <1>3, <2>1 DEF Calls
<1>10. Walkable'
  BY <1>1, <1>3, <1>6, <1>8 DEF Walkable, Growing
<1>11. Placed' /\ Cut'
  BY <1>1, <1>3, <1>8 DEF Placed, Nth, Cut
<1>12. b # 0 => Fresh(b)'
  <2> SUFFICES ASSUME b # 0 PROVE Fresh(b)'
    OBVIOUS
  <2>1. b \notin used /\ b \in used' /\ ~disk[b].known
    BY <1>2, <1>3, AllocFacts
  <2>2. \A n \in 0 .. BlkCount : At[n] # b
    BY <1>3, <2>1 DEF Walkable
  <2> QED BY <1>1, <1>8, <2>1, <2>2 DEF Fresh
<1>13. Buffered'
  <2>1. b = 0 <=> tfs_last_error' # "OK"
    BY <1>2, <1>3, <1>4, AllocFacts
  <2>2. Fresh(blk_buf.next)' <=> Fresh(b)'
    BY <1>5 DEF Fresh
  <2> QED BY <1>1, <1>3, <1>5, <1>8, <1>12, <2>1, <2>2 DEF Buffered
<1>14. Accounted'
  <2> SUFFICES ASSUME faults' = 0 PROVE before.lost = used' \ (ChainBlks(First) \cup {b})
    BY <1>1, <1>5, <1>8 DEF Accounted, Spare
  <2>1. before.lost = used \ ChainBlks(First)
    BY <1>1, <1>3, <1>6 DEF Accounted, Spare
  <2>2. used' = IF b = 0 THEN used ELSE used \cup {b}
    BY <1>2, <1>3, AllocFacts
  <2>3. b \notin used
    BY <1>2, <1>3, AllocFacts, Sizes DEF Shapes
  <2> QED BY <2>1, <2>2, <2>3
<1>15. ItemRight'
  BY <1>1, <1>3 DEF ItemRight, Emptied
<1> QED BY <1>6, <1>7, <1>9, <1>10, <1>11, <1>13, <1>14, <1>15 DEF IInv

\* seek has come to the block, which is a new one.
LEMMA SeekDone ==
  ASSUME IInv, seek_done
  PROVE  IInv'
<1>1. /\ pc = "extend" /\ ~(hnd.curr_pos + DataLen <= call.offset) /\ pc' = Appended
      /\ loc' = [loc EXCEPT !.append = TRUE, !.update_item = TRUE, !.os = call.offset - hnd.curr_pos]
      /\ UNCHANGED <<disk, used, item, hnd, blk_buf, tfs_last_error, call, got, ret, before, slip, faults>>
  BY DEF seek_done, Ahead
<1>2. Shapes /\ Calls
  BY <1>1 DEF IInv, Live
<1>3. \/ pc' = "fill" /\ call.op = "write"
      \/ pc' = "cutstore" /\ call.op = "trunc"
  BY <1>1, <1>2 DEF Appended, Calls
<1>4. ~Emptying /\ ~Emptying'
  BY <1>1, <1>3 DEF Emptying
<1>5. /\ At' = At /\ First' = First /\ ChainBlks(First)' = ChainBlks(First)
      /\ Unmarked' /\ ItemRight' /\ Walkable /\ Placed /\ Buffered /\ Accounted
  BY <1>1, <1>4, Quiet
<1>6. /\ loc' \in Locs /\ loc'.append = TRUE /\ loc'.os = call.offset - hnd.curr_pos
      /\ loc'.len = loc.len /\ loc'.offset = loc.offset /\ loc'.free_from = loc.free_from
  <2>1. call.offset - hnd.curr_pos \in Int /\ loc \in Locs
    BY <1>2, HereFacts DEF Shapes, Locs
  <2> QED BY <1>1, <2>1 DEF Locs
<1>7. loc'.os \in Offs
  <2>1. hnd.curr_pos \in Nat /\ call.offset \in Nat /\ hnd.curr_pos <= call.offset
    BY <1>1, <1>2, HereFacts DEF Shapes, Calls
  <2> QED BY <2>1, <1>1, <1>6, Sizes DEF Offs
<1>8. Shapes'
  BY <1>1, <1>2, <1>3, <1>6 DEF Shapes, Locs, Labels
<1>9. Calls'
  BY <1>1, <1>2, <1>3, <1>6, <1>7 DEF Calls
<1>10. Here' = Here
  BY <1>1 DEF Here
<1>11. Walkable' /\ Placed' /\ Cut'
  BY <1>1, <1>3, <1>5, <1>6, <1>10 DEF Walkable, Growing, Placed, Nth, Cut
<1>12. Buffered'
  BY <1>1, <1>2, <1>3, <1>5, <1>6, <1>10 DEF Buffered, Calls
<1>13. Accounted'
  BY <1>1, <1>3, <1>5 DEF Accounted, Spare
<1> QED BY <1>5, <1>8, <1>9, <1>11, <1>12, <1>13 DEF IInv

-----------------------------------------------------------------------------
(* Steps that write the current block.                                     *)

\* What drive_write_block does to a marked block.
LEMMA PutFacts ==
  ASSUME Shapes, Unmarked, NEW b \in used, NEW c \in Blks, drive_write_block(b, c), used' = used
  PROVE  /\ disk' \in [Blocks -> Blks] /\ Unmarked'
         /\ faults' \in 0 .. MaxFaults /\ (faults' = 0 => faults = 0) /\ slip \in 0 .. faults'
         /\ tfs_last_error' = "IO" => faults' > 0
         /\ tfs_last_error' \in {"OK", "IO", "DISK_FULL", "UNEXP_EOF"}
         /\ \/ disk' = [disk EXCEPT ![b] = c] /\ NoFault
            \/ tfs_last_error' = "IO"
<1>1. disk' \in {disk, [disk EXCEPT ![b] = c]} /\ (Fault \/ NoFault)
  BY DEF drive_write_block
<1>2. disk \in [Blocks -> Blks] /\ used \subseteq Blocks
  BY DEF Shapes
<1>3. disk' \in [Blocks -> Blks] /\ Unmarked'
  BY <1>1, <1>2 DEF Unmarked
<1> QED BY <1>1, <1>3, FaultFacts DEF drive_write_block, Fault

\* The last block of the chain is written, and leads to a fresh block or to none.  A
\* chain that went on behind it ends there, if it leads to none.
LEMMA StoreLast ==
  ASSUME Shapes, Walkable, Nth(At, Here, hnd.curr_blk),
         blk_buf.known, blk_buf.prev = IF Here = 0 THEN 0 ELSE At[Here - 1],
         blk_buf.next = 0 \/ Fresh(blk_buf.next),
         disk' = [disk EXCEPT ![hnd.curr_blk] = blk_buf], First' = First, used' = used
  PROVE  /\ Here < BlkCount
         /\ \A n \in 0 .. Here : At'[n] = At[n]
         /\ At'[Here + 1] = blk_buf.next
         /\ NoCycle(At')
         /\ \A n \in 0 .. BlkCount : At'[n] # 0 =>
              /\ At'[n] \in used' /\ n \in 0 .. Here + 1
              /\ IF n = Here + 1 THEN At'[n] = blk_buf.next /\ ~disk'[blk_buf.next].known
                 ELSE /\ disk'[At'[n]].known
                      /\ disk'[At'[n]].prev = IF n = 0 THEN 0 ELSE At'[n - 1]
         /\ ~disk[hnd.curr_blk].known \/ disk[hnd.curr_blk].next = 0 =>
              ChainBlks(First)' = (ChainBlks(First) \cup {blk_buf.next}) \ {0}
<1> DEFINE m == Here
           b == blk_buf.next
<1>0. hnd.curr_blk # 0 /\ hnd.curr_blk = At[m] /\ m \in 0 .. BlkCount
  BY PlaceRange
<1>1. /\ disk \in [Blocks -> Blks] /\ blk_buf \in Blks /\ hnd.curr_blk \in Blocks /\ b \in Ptrs
      /\ used \subseteq Blocks
  BY <1>0, Sizes DEF Shapes, Ptrs, Blks
<1>2. disk' \in [Blocks -> Blks] /\ First \in Ptrs /\ m \in 0 .. BlkCount
  BY <1>0, <1>1, AtFacts
<1>3. At = Walk(disk, First) /\ At' = Walk(disk', First)
  BY DEF At, BlkAt
<1>4. NoCycle(At) /\ At[BlkCount] = 0 /\ \A i, j \in 0 .. BlkCount : At[i] = At[j] /\ At[i] # 0 => i = j
  BY DEF Walkable, NoCycle
<1>5. Follow(disk', At[m]) = b
  BY <1>0, <1>1 DEF Follow
<1>6. \A a \in Blocks : a # At[m] => disk'[a] = disk[a]
  BY <1>0, <1>1
<1>7. b # 0 => b \in used /\ ~disk[b].known /\ \A n \in 0 .. BlkCount : At[n] # b
  BY DEF Fresh
<1>8. /\ m < BlkCount
      /\ \A n \in 0 .. m : At'[n] = At[n]
      /\ At'[m + 1] = b
      /\ \A n \in m + 2 .. BlkCount : At'[n] = 0
      /\ NoCycle(At')
  <2> DEFINE d == disk
             e == disk'
             f == First
  <2>1. d \in [Blocks -> Blks] /\ e \in [Blocks -> Blks] /\ f \in Ptrs /\ m \in 0 .. BlkCount /\ b \in Ptrs
    BY <1>1, <1>2
  <2>2. /\ NoCycle(Walk(d, f)) /\ Walk(d, f)[m] # 0
        /\ \A a \in Blocks : a # Walk(d, f)[m] => e[a] = d[a]
        /\ Follow(e, Walk(d, f)[m]) = b
        /\ b # 0 => ~d[b].known /\ \A n \in 0 .. BlkCount : Walk(d, f)[n] # b
    BY <1>0, <1>3, <1>4, <1>5, <1>6, <1>7
  <2> HIDE DEF d, e, f, m, b
  <2>3. /\ m < BlkCount
        /\ \A n \in 0 .. m : Walk(e, f)[n] = Walk(d, f)[n]
        /\ Walk(e, f)[m + 1] = b
        /\ \A n \in m + 2 .. BlkCount : Walk(e, f)[n] = 0
        /\ NoCycle(Walk(e, f))
    BY <2>1, <2>2, WalkGrown
  <2> QED BY <2>3, <1>3 DEF d, e, f
<1>9. ASSUME NEW n \in 0 .. BlkCount, At'[n] # 0
      PROVE  /\ At'[n] \in used' /\ n \in 0 .. m + 1
             /\ IF n = m + 1 THEN At'[n] = b /\ ~disk'[b].known
                ELSE /\ disk'[At'[n]].known
                     /\ disk'[At'[n]].prev = IF n = 0 THEN 0 ELSE At'[n - 1]
  <2>1. n \in 0 .. m \/ n = m + 1
    BY <1>2, <1>8, <1>9, Sizes
  <2>2. CASE n = m + 1
    <3>1. b # 0 /\ b # At[m] /\ b \in Blocks
      BY <1>0, <1>1, <1>2, <1>7, <1>8, <1>9, <2>2
    <3>2. ~disk'[b].known
      BY <3>1, <1>6, <1>7
    <3> QED BY <3>1, <3>2, <2>2, <1>7, <1>8
  <2>3. CASE n = m
    <3>1. At'[n] = hnd.curr_blk /\ disk'[hnd.curr_blk] = blk_buf
      BY <2>3, <1>0, <1>1, <1>2, <1>8
    <3>2. n # 0 => At'[n - 1] = At[n - 1]
      BY <2>3, <1>2, <1>8, Sizes
    <3>3. hnd.curr_blk \in used
      BY <1>0, <1>2 DEF Walkable
    <3> QED BY <3>1, <3>2, <3>3, <2>3, <1>0, <1>2
  <2>4. CASE n \in 0 .. m /\ n # m
    <3>1. At'[n] = At[n] /\ At[n] # 0 /\ At[n] # hnd.curr_blk
      BY <2>4, <1>0, <1>2, <1>4, <1>8, <1>9
    <3>2. At[n] \in used /\ disk[At[n]].known /\ disk[At[n]].prev = IF n = 0 THEN 0 ELSE At[n - 1]
      BY <3>1 DEF Walkable
    <3>3. disk'[At[n]] = disk[At[n]]
      BY <1>0, <1>1, <1>6, <3>1, <3>2
    <3>4. n # 0 => At'[n - 1] = At[n - 1]
      BY <2>4, <1>2, <1>8, Sizes
    <3> QED BY <3>1, <3>2, <3>3, <3>4, <2>4, <1>2
  <2> QED BY <2>1, <2>2, <2>3, <2>4
<1>10. ASSUME ~disk[hnd.curr_blk].known \/ disk[hnd.curr_blk].next = 0
       PROVE  ChainBlks(First)' = (ChainBlks(First) \cup {b}) \ {0}
  <2>1. /\ ChainBlks(First)' = {At'[n] : n \in 0 .. BlkCount} \ {0}
        /\ ChainBlks(First) = {At[n] : n \in 0 .. BlkCount} \ {0}
    BY DEF ChainBlks, At
  <2>2. \A n \in m + 1 .. BlkCount : At[n] = 0
    <3> TAKE n \in m + 1 .. BlkCount
    <3>0. m \in 0 .. BlkCount - 1
      BY <1>2, <1>8, Sizes
    <3>1. At[m + 1] = Follow(disk, At[m])
      BY <3>0, AtFacts
    <3>2. At[m + 1] = 0
      BY <3>1, <1>0, <1>10 DEF Follow
    <3>3. m + 1 \in 0 .. BlkCount /\ n \in 0 .. BlkCount /\ m + 1 <= n
      BY <1>2, Sizes
    <3> QED BY <3>2, <3>3, AtFacts
  <2>3. \A n \in 0 .. BlkCount : n \in 0 .. m \/ n = m + 1 \/ n \in m + 2 .. BlkCount
    BY <1>2, Sizes
  <2>4. (\A n \in 0 .. m : n \in 0 .. BlkCount) /\ m + 1 \in 0 .. BlkCount /\ m + 1 \in m + 1 .. BlkCount
        /\ \A n \in m + 2 .. BlkCount : n \in m + 1 .. BlkCount
    BY <1>2, <1>8, Sizes
  <2> HIDE DEF m, b
  <2> QED BY <2>1, <2>2, <2>3, <2>4, <1>8
<1> QED BY <1>8, <1>9, <1>10

\* A block inside the chain is written again.
LEMMA StoreAgain ==
  ASSUME Shapes, Walkable, ~Growing, Nth(At, Here, hnd.curr_blk),
         blk_buf.known, blk_buf.prev = IF Here = 0 THEN 0 ELSE At[Here - 1],
         blk_buf.next = disk[hnd.curr_blk].next,
         disk' = [disk EXCEPT ![hnd.curr_blk] = blk_buf], First' = First, used' = used
  PROVE  /\ At' = At /\ ChainBlks(First)' = ChainBlks(First) /\ NoCycle(At')
         /\ \A n \in 0 .. BlkCount : At'[n] # 0 =>
              /\ At'[n] \in used' /\ disk'[At'[n]].known
              /\ disk'[At'[n]].prev = IF n = 0 THEN 0 ELSE At'[n - 1]
         /\ disk'[hnd.curr_blk].next = disk[hnd.curr_blk].next
<1>1. /\ disk \in [Blocks -> Blks] /\ hnd.curr_blk \in Blocks /\ used \subseteq Blocks
      /\ Here \in 0 .. BlkCount /\ hnd.curr_blk = At[Here] /\ hnd.curr_blk # 0
  BY PlaceRange DEF Shapes, Ptrs
<1>2. disk[hnd.curr_blk].known
  BY <1>1 DEF Walkable
<1>3. \A a : Follow(disk', a) = Follow(disk, a) \/ a \notin Ptrs
  BY <1>1, <1>2 DEF Follow, Ptrs
<1>4. \A n \in 0 .. BlkCount - 1 : At[n] \in Ptrs
  BY AtFacts, Sizes
<1>5. Walk(disk', First) = Walk(disk, First)
  <2> DEFINE d == disk
             e == disk'
             f == First
  <2>1. \A n \in 0 .. BlkCount - 1 : Follow(e, Walk(d, f)[n]) = Follow(d, Walk(d, f)[n])
    <3> TAKE n \in 0 .. BlkCount - 1
    <3>1. At = Walk(disk, First)
      BY AtFacts
    <3>2. Follow(disk', At[n]) = Follow(disk, At[n])
      BY <1>3, <1>4
    <3> QED BY <3>1, <3>2
  <2> HIDE DEF d, e, f
  <2>2. Walk(e, f) = Walk(d, f)
    BY <2>1, WalkSame
  <2> QED BY <2>2 DEF d, e, f
<1>6. At' = At
  BY <1>5 DEF At, BlkAt
<1>7. ChainBlks(First)' = ChainBlks(First)
  BY <1>6 DEF ChainBlks, At
<1>8. \A n \in 0 .. BlkCount : At[n] # 0 =>
        /\ At[n] \in used /\ disk'[At[n]].known
        /\ disk'[At[n]].prev = IF n = 0 THEN 0 ELSE At[n - 1]
  <2> SUFFICES ASSUME NEW n \in 0 .. BlkCount, At[n] # 0
               PROVE  /\ At[n] \in used /\ disk'[At[n]].known
                      /\ disk'[At[n]].prev = IF n = 0 THEN 0 ELSE At[n - 1]
    OBVIOUS
  <2>1. /\ At[n] \in used /\ disk[At[n]].known
        /\ disk[At[n]].prev = IF n = 0 THEN 0 ELSE At[n - 1]
    BY DEF Walkable
  <2>2. CASE n = Here
    BY <2>1, <2>2, <1>1
  <2>3. CASE n # Here
    <3>1. At[n] # hnd.curr_blk
      BY <2>3, <1>1 DEF Walkable, NoCycle
    <3> QED BY <3>1, <2>1, <1>1
  <2> QED BY <2>2, <2>3
<1> QED BY <1>1, <1>6, <1>7, <1>8 DEF Walkable

\* The current block stays in its place, whether it is written or not.
LEMMA StoreKeepsPlace ==
  ASSUME Shapes, Walkable, Nth(At, Here, hnd.curr_blk), First' = First,
         disk' \in {disk, [disk EXCEPT ![hnd.curr_blk] = blk_buf]}
  PROVE  Nth(At', Here, hnd.curr_blk)
<1>1. Here \in 0 .. BlkCount /\ hnd.curr_blk = At[Here] /\ hnd.curr_blk # 0 /\ disk \in [Blocks -> Blks]
  BY PlaceRange DEF Shapes
<1>2. \A n \in 0 .. Here - 1 : Follow(disk', At[n]) = Follow(disk, At[n])
  <2> TAKE n \in 0 .. Here - 1
  <2>1. n \in 0 .. BlkCount /\ n # Here
    BY <1>1, Sizes
  <2>2. At[n] # hnd.curr_blk
    BY <1>1, <2>1 DEF Walkable, NoCycle
  <2>3. At[n] \in Ptrs
    BY <2>1, AtFacts
  <2>4. At[n] = 0 \/ disk'[At[n]] = disk[At[n]]
    BY <1>1, <2>2, <2>3 DEF Ptrs
  <2> QED BY <2>4 DEF Follow
<1>3. \A n \in 0 .. Here : At'[n] = At[n]
  <2> DEFINE d == disk
             e == disk'
             f == First
             k == Here
  <2>1. k \in 0 .. BlkCount /\ \A n \in 0 .. k - 1 : Follow(e, Walk(d, f)[n]) = Follow(d, Walk(d, f)[n])
    BY <1>1, <1>2, AtFacts
  <2> HIDE DEF d, e, f, k
  <2>2. \A n \in 0 .. k : Walk(e, f)[n] = Walk(d, f)[n]
    BY <2>1, WalkFrame
  <2> QED BY <2>2 DEF d, e, f, k, At, BlkAt
<1>4. Here \in 0 .. Here
  BY <1>1
<1> QED BY <1>1, <1>3, <1>4 DEF Nth

\* The last block is linked to the new one.
LEMMA SeekLink ==
  ASSUME IInv, seek_link
  PROVE  IInv'
<1>1. /\ pc = "link" /\ drive_write_block(hnd.curr_blk, blk_buf)
      /\ UNCHANGED <<used, item, got, ret, before, slip>>
  BY DEF seek_link
<1>2. /\ Shapes /\ Unmarked /\ Calls /\ Walkable /\ Placed /\ Buffered /\ Accounted /\ ItemRight /\ ~Emptying
      /\ Here \in 0 .. BlkCount /\ Nth(At, Here, hnd.curr_blk)
  <2>1. Shapes /\ Unmarked /\ Calls /\ Walkable /\ Placed /\ Buffered /\ Accounted /\ ItemRight /\ ~Emptying
    BY <1>1 DEF IInv, Live, Emptying
  <2>2. Nth(At, Here, hnd.curr_blk)
    BY <1>1, <2>1 DEF Placed
  <2> QED BY <2>1, <2>2, PlaceRange
<1>3. hnd \in Hnds /\ hnd.curr_blk # 0 /\ hnd.curr_blk = At[Here] /\ hnd.curr_blk \in used /\ hnd.curr_blk \in Ptrs
  BY <1>1, <1>2 DEF Shapes, Hnds, Placed, Nth, Walkable
<1>4. /\ disk' \in [Blocks -> Blks] /\ Unmarked'
      /\ faults' \in 0 .. MaxFaults /\ (faults' = 0 => faults = 0) /\ slip \in 0 .. faults'
      /\ tfs_last_error' = "IO" => faults' > 0
      /\ tfs_last_error' \in {"OK", "IO", "DISK_FULL", "UNEXP_EOF"}
      /\ \/ disk' = [disk EXCEPT ![hnd.curr_blk] = blk_buf] /\ NoFault
         \/ tfs_last_error' = "IO"
  <2>1. blk_buf \in Blks
    BY <1>2 DEF Shapes
  <2> QED BY <1>1, <1>2, <1>3, <2>1, PutFacts
<1>5. /\ blk_buf.known /\ blk_buf.prev = IF Here = 0 THEN 0 ELSE At[Here - 1]
      /\ blk_buf.next = 0 \/ Fresh(blk_buf.next)
      /\ ~disk[hnd.curr_blk].known \/ disk[hnd.curr_blk].next = 0
      /\ blk_buf.next = 0 <=> tfs_last_error # "OK"
      /\ blk_buf.next \in Ptrs
  BY <1>1, <1>2 DEF Buffered, Shapes, Blks
<1>6. faults = 0 => before.lost = used \ (ChainBlks(First) \cup {blk_buf.next})
  BY <1>1, <1>2 DEF Accounted, Spare
<1>7. CASE Failed
  <2>1. Returned /\ UNCHANGED <<hnd, blk_buf>>
    BY <1>7 DEF seek_link
  <2>2. Shapes'
    BY <1>1, <1>2, <1>4, <2>1, Constants0 DEF Shapes, Returned, Labels, CallSet, Locs
  <2>3. CASE tfs_last_error' = "IO"
    <3>1. First' = First /\ Here' = Here
      BY <1>1, <1>2, <2>1 DEF First, Emptying, Returned, Here
    <3>2. Nth(At', Here', hnd'.curr_blk)
      BY <1>1, <1>2, <2>1, <3>1, StoreKeepsPlace DEF drive_write_block
    <3>3. item'.blk \in {0, hnd'.first_blk}
      BY <1>1, <1>2, <2>1 DEF ItemRight, Emptied
    <3> QED BY <1>4, <2>1, <2>2, <2>3, <3>2, <3>3, ReturnFailed
  <2>4. CASE tfs_last_error' # "IO"
    <3>1. /\ disk' = [disk EXCEPT ![hnd.curr_blk] = blk_buf] /\ blk_buf.next = 0
          /\ First' = First /\ Here' = Here
      BY <1>1, <1>2, <1>4, <1>5, <1>7, <2>1, <2>4 DEF NoFault, Failed, First, Emptying, Returned, Here
    <3>2. /\ Here < BlkCount /\ (\A n \in 0 .. Here : At'[n] = At[n]) /\ At'[Here + 1] = 0 /\ NoCycle(At')
          /\ \A n \in 0 .. BlkCount : At'[n] # 0 =>
               /\ At'[n] \in used' /\ n \in 0 .. Here + 1
               /\ IF n = Here + 1 THEN At'[n] = blk_buf.next /\ ~disk'[blk_buf.next].known
                  ELSE /\ disk'[At'[n]].known
                       /\ disk'[At'[n]].prev = IF n = 0 THEN 0 ELSE At'[n - 1]
          /\ ChainBlks(First)' = (ChainBlks(First) \cup {0}) \ {0}
      BY <1>1, <1>2, <1>3, <1>5, <3>1, StoreLast
    <3>3. \A n \in 0 .. BlkCount : At'[n] # 0 =>
            /\ At'[n] \in used' /\ disk'[At'[n]].known
            /\ disk'[At'[n]].prev = IF n = 0 THEN 0 ELSE At'[n - 1]
      BY <3>2
    <3>4. Nth(At', Here', hnd'.curr_blk)
      BY <1>2, <1>3, <2>1, <3>1, <3>2 DEF Nth
    <3>5. faults' = 0 => before'.lost = used' \ ChainBlks(First)'
      <4>1. 0 \notin used
        BY <1>2, Sizes DEF Shapes
      <4> QED BY <4>1, <1>1, <1>4, <1>6, <3>1, <3>2
    <3>6. item'.blk \in {0, hnd'.first_blk}
      BY <1>1, <1>2, <2>1 DEF ItemRight, Emptied
    <3> QED BY <1>4, <2>1, <2>2, <3>2, <3>3, <3>4, <3>5, <3>6, ReturnSound
  <2> QED BY <2>3, <2>4
<1>8. CASE ~Failed
  <2> DEFINE b == blk_buf.next
  <2>1. /\ hnd' = [hnd EXCEPT !.curr_blk = b, !.curr_pos = @ + DataLen]
        /\ blk_buf' = NextBlk /\ pc' = "extend" /\ UNCHANGED <<call, loc>>
    BY <1>8 DEF seek_link
  <2>2. /\ disk' = [disk EXCEPT ![hnd.curr_blk] = blk_buf] /\ NoFault /\ b # 0 /\ tfs_last_error' = "OK"
    BY <1>4, <1>5, <1>8 DEF Failed, NoFault
  <2>3. ~Emptying' /\ First' = First
    BY <1>2, <2>1 DEF First, Emptying, Hnds, Shapes
  <2>4. /\ Here < BlkCount /\ (\A n \in 0 .. Here : At'[n] = At[n]) /\ At'[Here + 1] = b /\ NoCycle(At')
        /\ \A n \in 0 .. BlkCount : At'[n] # 0 =>
             /\ At'[n] \in used' /\ n \in 0 .. Here + 1
             /\ IF n = Here + 1 THEN At'[n] = b /\ ~disk'[b].known
                ELSE /\ disk'[At'[n]].known
                     /\ disk'[At'[n]].prev = IF n = 0 THEN 0 ELSE At'[n - 1]
        /\ ChainBlks(First)' = (ChainBlks(First) \cup {b}) \ {0}
    BY <1>1, <1>2, <1>3, <1>5, <2>2, <2>3, StoreLast
  <2>5. hnd.curr_pos + DataLen \in Positions /\ (hnd.curr_pos + DataLen) \div DataLen + slip = Here + 1
    BY <1>2, <2>4, HereFacts
  <2>6. /\ hnd' \in Hnds /\ hnd'.first_blk = hnd.first_blk /\ hnd'.curr_blk = b
        /\ hnd'.curr_pos = hnd.curr_pos + DataLen /\ Here' = Here + 1
    BY <1>1, <1>3, <1>5, <2>1, <2>5 DEF Hnds, Here
  <2>7. /\ blk_buf' \in Blks /\ blk_buf'.known /\ blk_buf'.prev = hnd.curr_blk /\ blk_buf'.next = 0
    BY <1>3, <2>1, BlkFacts, Sizes DEF NextBlk
  <2>8. Shapes'
    BY <1>1, <1>2, <1>4, <2>1, <2>6, <2>7 DEF Shapes, Hnds, Labels
  <2>9. Calls'
    BY <1>1, <1>2, <2>1, <2>2, <2>6 DEF Calls
  <2>10. ~disk'[b].known
    <3>1. Here + 1 \in 0 .. BlkCount
      BY <1>2, <2>4, Sizes
    <3> QED BY <2>2, <2>4, <3>1
  <2>11. Walkable'
    <3> SUFFICES ASSUME NEW n \in 0 .. BlkCount, At'[n] # 0
                 PROVE  /\ At'[n] \in used'
                        /\ IF disk'[At'[n]].known THEN disk'[At'[n]].prev = IF n = 0 THEN 0 ELSE At'[n - 1]
                           ELSE Growing' /\ At'[n] = hnd'.curr_blk
      BY <2>4 DEF Walkable
    <3> QED BY <2>1, <2>4, <2>6 DEF Growing
  <2>12. Placed' /\ Cut'
    <3>1. Here' <= BlkCount
      BY <1>2, <2>4, <2>6, Sizes
    <3> QED BY <2>1, <2>2, <2>4, <2>6, <3>1 DEF Placed, Nth, Cut
  <2>13. Buffered'
    <3>1. At'[Here] = hnd.curr_blk /\ (Here + 1) - 1 = Here /\ Here + 1 # 0
      BY <1>2, <1>3, <2>4, Sizes
    <3> QED BY <2>1, <2>6, <2>7, <2>10, <3>1 DEF Buffered
  <2>14. Accounted'
    <3>1. 0 \notin used
      BY <1>2, Sizes DEF Shapes
    <3> QED BY <1>1, <1>4, <1>6, <2>1, <2>4, <3>1 DEF Accounted, Spare
  <2>15. ItemRight'
    BY <1>1, <1>2, <2>1, <2>6 DEF ItemRight, Emptied, Emptying
  <2> QED BY <1>4, <2>8, <2>9, <2>11, <2>12, <2>13, <2>14, <2>15 DEF IInv
<1> QED BY <1>7, <1>8

\* The buffer is filled.
LEMMA WriteFill ==
  ASSUME IInv, write_fill
  PROVE  IInv'
<1>1. /\ pc = "fill"
      /\ blk_buf' = [blk_buf EXCEPT !.data = [o \in Offs |-> IF o \in Chunk THEN call.v ELSE @[o]]]
      /\ loc' = [loc EXCEPT !.len = @ - ChunkLen, !.offset = @ + ChunkLen]
      /\ pc' = IF loc'.len > 0 /\ blk_buf.next = 0 THEN "prealloc" ELSE "store"
      /\ UNCHANGED <<disk, used, item, hnd, tfs_last_error, call, got, before, slip, faults>>
  BY DEF write_fill
<1>2. /\ Shapes /\ Calls /\ Buffered /\ Placed /\ Walkable /\ Accounted /\ call.op = "write"
      /\ ~Emptying /\ ~Emptying'
  BY <1>1 DEF IInv, Live, Emptying, Calls
<1>3. loc \in Locs /\ loc.os \in Offs /\ tfs_last_error = "OK" /\ loc.offset + loc.len <= MaxSize
  BY <1>1, <1>2 DEF Shapes, Locs, Calls
<1>4. ChunkLen \in 0 .. loc.len
  BY <1>3, Sizes DEF ChunkLen, Locs, Offs
<1>5. /\ loc' \in Locs /\ loc'.len = loc.len - ChunkLen /\ loc'.offset = loc.offset + ChunkLen
      /\ loc'.os = loc.os /\ loc'.append = loc.append /\ loc'.free_from = loc.free_from
  <2>1. loc.len - ChunkLen \in 0 .. MaxSize /\ loc.offset + ChunkLen \in 0 .. MaxSize
    BY <1>3, <1>4, Sizes DEF Locs
  <2> HIDE DEF ChunkLen
  <2> QED BY <1>1, <1>3, <2>1 DEF Locs
<1>6. /\ blk_buf' \in Blks /\ blk_buf'.known = blk_buf.known /\ blk_buf'.prev = blk_buf.prev
      /\ blk_buf'.next = blk_buf.next
  <2>1. [o \in Offs |-> IF o \in Chunk THEN call.v ELSE blk_buf.data[o]] \in [Offs -> Bytes \cup {0, Stale}]
    BY <1>2 DEF Shapes, Blks
  <2> QED BY <1>1, <1>2, <2>1 DEF Shapes, Blks
<1>7. Shapes'
  BY <1>1, <1>2, <1>5, <1>6 DEF Shapes, Locs, Labels
<1>8. /\ At' = At /\ First' = First /\ ChainBlks(First)' = ChainBlks(First) /\ Here' = Here
      /\ Unmarked' /\ ItemRight'
  BY <1>1, <1>2, Quiet DEF Here
<1>9. Calls'
  <2>1. loc'.offset + loc'.len <= MaxSize
    BY <1>3, <1>4, <1>5 DEF Locs
  <2> QED BY <1>1, <1>2, <1>3, <1>5, <2>1 DEF Calls
<1>10. (Growing' <=> Growing) /\ loc'.len \in Nat
  <2>1. pc = "fill" /\ pc' \in {"prealloc", "store"}
    BY <1>1
  <2>2. loc'.len \in Nat /\ loc'.append = loc.append
    BY <1>5 DEF Locs
  <2>3. (Growing' <=> loc'.append) /\ (Growing <=> loc.append)
    BY <2>1 DEF Growing
  <2> QED BY <2>2, <2>3
<1>11. Walkable' /\ Placed' /\ Cut'
  BY <1>1, <1>2, <1>8, <1>10 DEF Walkable, Placed, Nth, Cut
<1>12. Buffered'
  BY <1>1, <1>2, <1>3, <1>5, <1>6, <1>8, <1>10 DEF Buffered
<1>13. Accounted'
  <2>1. loc.append /\ pc' = "store" => blk_buf'.next = 0
    BY <1>1, <1>2, <1>6 DEF Buffered
  <2>2. ~loc.append => blk_buf'.next \in ChainBlks(First) \cup {0}
    <3> SUFFICES ASSUME ~loc.append PROVE blk_buf'.next \in ChainBlks(First) \cup {0}
      OBVIOUS
    <3>1. Nth(At, Here, hnd.curr_blk) /\ blk_buf'.next = disk[hnd.curr_blk].next
      BY <1>1, <1>2, <1>6 DEF Placed, Buffered
    <3>2. disk[hnd.curr_blk].known
      BY <1>1, <1>2, <3>1, PlaceRange DEF Walkable, Growing
    <3>3. Here + 1 \in 0 .. BlkCount /\ At[Here + 1] = blk_buf'.next
      BY <1>2, <3>1, <3>2, NextPlace, Sizes
    <3> QED BY <1>2, <3>3, AtFacts
  <2>3. Spare = {} /\ (pc' = "prealloc" => Spare' = {}) /\ (pc' = "store" => Spare' = {blk_buf'.next})
    BY <1>1 DEF Spare
  <2>4. 0 \notin used /\ (pc' = "prealloc" \/ pc' = "store")
    BY <1>1, <1>2, Sizes DEF Shapes
  <2>5. Spare' \subseteq ChainBlks(First) \cup {0}
    BY <2>1, <2>2, <2>3, <2>4
  <2>6. faults = 0 => before.lost = used \ ChainBlks(First)
    BY <1>2, <2>3 DEF Accounted
  <2> QED BY <1>1, <1>8, <2>4, <2>5, <2>6 DEF Accounted
<1> QED BY <1>7, <1>8, <1>9, <1>11, <1>12, <1>13 DEF IInv

\* tfs_write allocates the block behind the current one.
LEMMA WriteAlloc ==
  ASSUME IInv, write_alloc
  PROVE  IInv'
<1>1. /\ pc = "prealloc" /\ pc' = "store" /\ loc' = [loc EXCEPT !.append = TRUE]
      /\ UNCHANGED <<disk, item, hnd, call, got, ret, before, slip>>
  BY DEF write_alloc
<1>2. PICK b \in Blocks \cup {0} : alloc_block(b) /\ blk_buf' = [blk_buf EXCEPT !.next = b]
  BY DEF write_alloc
<1>3. /\ Shapes /\ Unmarked /\ Calls /\ Walkable /\ Placed /\ Buffered /\ Accounted /\ ItemRight
      /\ ~Emptying /\ ~Emptying'
  BY <1>1 DEF IInv, Live, Emptying
<1>4. b \in Ptrs /\ tfs_last_error = "OK" /\ loc \in Locs
  BY <1>1, <1>3, Sizes DEF Ptrs, Calls, Shapes, Locs
<1>5. blk_buf' \in Blks /\ blk_buf'.next = b /\ blk_buf'.known = blk_buf.known /\ blk_buf'.prev = blk_buf.prev
  BY <1>2, <1>3, <1>4 DEF Shapes, Blks
<1>6. Unmarked' /\ used \subseteq used' /\ (faults' = 0 => faults = 0)
  BY <1>1, <1>2, <1>3, AllocFacts DEF Unmarked
<1>7. /\ loc' \in Locs /\ loc'.append = TRUE /\ loc'.os = loc.os
      /\ loc'.len = loc.len /\ loc'.offset = loc.offset
  BY <1>1, <1>4 DEF Locs
<1>8. Shapes'
  BY <1>1, <1>2, <1>3, <1>5, <1>7, AllocFacts DEF Shapes, Locs, Labels
<1>9. First' = First /\ At' = At /\ ChainBlks(First)' = ChainBlks(First) /\ Here' = Here
  <2>1. First' = First /\ Here' = Here
    BY <1>1, <1>3 DEF First, Here
  <2> QED BY <1>1, <2>1, AtSame
<1>10. Calls'
  <2>1. tfs_last_error' # "UNEXP_EOF"
    BY <1>2, <1>3, <1>4, AllocFacts
  <2> QED BY <1>1, <1>3, <1>7, <2>1 DEF Calls
<1>11. Walkable'
  <2>1. Growing'
    BY <1>1, <1>7 DEF Growing
  <2> QED BY <1>1, <1>3, <1>6, <1>9, <2>1 DEF Walkable
<1>12. Placed' /\ Cut'
  BY <1>1, <1>3, <1>9 DEF Placed, Nth, Cut
<1>13. b # 0 => Fresh(b)'
  <2> SUFFICES ASSUME b # 0 PROVE Fresh(b)'
    OBVIOUS
  <2>1. b \notin used /\ b \in used' /\ ~disk[b].known
    BY <1>2, <1>3, AllocFacts
  <2>2. \A n \in 0 .. BlkCount : At[n] # b
    BY <1>3, <2>1 DEF Walkable
  <2> QED BY <1>1, <1>9, <2>1, <2>2 DEF Fresh
<1>14. Buffered'
  <2>1. b = 0 <=> tfs_last_error' # "OK"
    BY <1>2, <1>3, <1>4, AllocFacts
  <2>2. Fresh(blk_buf.next)' <=> Fresh(b)'
    BY <1>5 DEF Fresh
  <2>3. loc.len # 0
    BY <1>1, <1>3 DEF Calls
  <2> QED BY <1>1, <1>3, <1>5, <1>7, <1>9, <1>13, <2>1, <2>2, <2>3 DEF Buffered
<1>15. Accounted'
  <2> SUFFICES ASSUME faults' = 0 PROVE before.lost = used' \ (ChainBlks(First) \cup {b})
    BY <1>1, <1>5, <1>9 DEF Accounted, Spare
  <2>1. before.lost = used \ ChainBlks(First)
    BY <1>1, <1>3, <1>6 DEF Accounted, Spare
  <2>2. used' = IF b = 0 THEN used ELSE used \cup {b}
    BY <1>2, <1>3, AllocFacts
  <2>3. b \notin used
    BY <1>2, <1>3, AllocFacts, Sizes DEF Shapes
  <2> QED BY <2>1, <2>2, <2>3
<1>16. ItemRight'
  BY <1>1, <1>3 DEF ItemRight, Emptied
<1> QED BY <1>6, <1>8, <1>10, <1>11, <1>12, <1>14, <1>15, <1>16 DEF IInv

\* tfs_write reads the block that it changes a part of.
LEMMA WriteFetch ==
  ASSUME IInv, write_fetch
  PROVE  IInv'
<1>1. /\ pc = "fetch" /\ drive_read_block(hnd.curr_blk)
      /\ UNCHANGED <<disk, used, item, got, before>>
  BY DEF write_fetch
<1>2. /\ Shapes /\ Calls /\ Walkable /\ Placed /\ Accounted /\ ItemRight /\ Unmarked
      /\ ~Emptying /\ ~Growing
  BY <1>1 DEF IInv, Live, Emptying, Growing
<1>3. /\ hnd \in Hnds /\ hnd.curr_blk \in Blocks /\ hnd.curr_blk # 0 /\ tfs_last_error = "OK"
      /\ Here < BlkCount /\ hnd.curr_blk = At[Here + 1] /\ ~loc.append /\ Here \in 0 .. BlkCount
      /\ call.op = "write" /\ Nth(At, Here + 1, hnd.curr_blk)
  <2>1. Here < BlkCount /\ Here \in Nat /\ Nth(At, Here + 1, hnd.curr_blk)
    BY <1>1, <1>2, HereFacts DEF Placed
  <2>2. Here \in 0 .. BlkCount
    BY <2>1, Sizes
  <2> QED BY <1>1, <1>2, <2>1, <2>2 DEF Shapes, Hnds, Ptrs, Nth, Calls
<1>4. CASE Failed
  <2>1. Returned /\ UNCHANGED hnd /\ slip' = slip + 1
    BY <1>4 DEF write_fetch
  <2>2. tfs_last_error' = "IO" /\ faults' = faults + 1 /\ blk_buf' = blk_buf
    BY <1>1, <1>3, <1>4 DEF drive_read_block, Failed, Fault, NoFault
  <2>5. slip' \in 0 .. faults' /\ faults' > 0 /\ Here' = Here + 1
    <3>1. slip \in Nat /\ faults \in Nat /\ slip <= faults
      BY <1>2, Sizes DEF Shapes
    <3>2. hnd.curr_pos \div DataLen \in Nat
      BY <1>2, HereFacts
    <3>3. Here' = hnd.curr_pos \div DataLen + (slip + 1)
      BY <2>1 DEF Here
    <3> QED BY <2>1, <2>2, <3>1, <3>2, <3>3 DEF Here
  <2>3. Shapes'
    BY <1>1, <1>2, <1>3, <2>1, <2>2, <2>5, ReadFacts, Constants0 DEF Shapes, Returned, Labels, CallSet, Locs
  <2>4. Unmarked'
    BY <1>1, <1>2 DEF Unmarked
  <2>6. At' = At /\ First' = First
    BY <1>1, <1>2, <2>1, AtSame DEF First, Emptying, Returned
  <2>7. Nth(At', Here', hnd'.curr_blk)
    BY <1>3, <2>1, <2>5, <2>6
  <2>8. item'.blk \in {0, hnd'.first_blk}
    BY <1>1, <1>2, <2>1 DEF ItemRight, Emptied
  <2> QED BY <2>1, <2>3, <2>4, <2>5, <2>7, <2>8, ReturnFailed
<1>5. CASE ~Failed
  <2>1. /\ hnd' = [hnd EXCEPT !.curr_pos = @ + DataLen] /\ pc' = "fill" /\ UNCHANGED <<call, loc, slip>>
    BY <1>5 DEF write_fetch, Proceed
  <2>2. blk_buf' = disk[hnd.curr_blk] /\ NoFault
    BY <1>1, <1>2, <1>3, <1>5, ReadFacts DEF Failed
  <2>3. hnd.curr_pos + DataLen \in Positions /\ (hnd.curr_pos + DataLen) \div DataLen + slip = Here + 1
    BY <1>2, <1>3, HereFacts
  <2>4. /\ hnd' \in Hnds /\ hnd'.first_blk = hnd.first_blk /\ hnd'.curr_blk = hnd.curr_blk
        /\ Here' = Here + 1
    BY <1>3, <2>1, <2>3 DEF Hnds, Here
  <2>5. ~Emptying' /\ ~Growing'
    BY <1>3, <2>1 DEF Emptying, Growing
  <2>6. /\ At' = At /\ First' = First /\ ChainBlks(First)' = ChainBlks(First) /\ Unmarked' /\ ItemRight'
    BY <1>1, <1>2, <2>1, <2>4, <2>5, Quiet
  <2>7. Shapes'
    BY <1>1, <1>2, <1>3, <2>1, <2>2, <2>4 DEF Shapes, NoFault, Hnds, Labels
  <2>8. Calls'
    BY <1>1, <1>2, <1>3, <2>1, <2>2 DEF Calls, NoFault
  <2>9. Walkable' /\ Cut'
    BY <1>1, <1>2, <2>1, <2>6 DEF Walkable, Cut
  <2>10. Placed'
    BY <1>1, <1>3, <2>1, <2>4, <2>5, <2>6 DEF Placed, Growing
  <2>11. Buffered'
    <3>1. Here + 1 \in 0 .. BlkCount /\ (Here + 1) - 1 = Here /\ Here + 1 # 0
      BY <1>3, Sizes
    <3>2. disk[hnd.curr_blk].known /\ disk[hnd.curr_blk].prev = At[Here]
      BY <1>2, <1>3, <3>1 DEF Walkable
    <3> QED BY <1>1, <1>3, <2>1, <2>2, <2>4, <2>6, <3>1, <3>2 DEF Buffered
  <2>12. Accounted'
    BY <1>1, <1>2, <2>1, <2>2, <2>6 DEF Accounted, Spare, NoFault
  <2> QED BY <2>6, <2>7, <2>8, <2>9, <2>10, <2>11, <2>12 DEF IInv
<1> QED BY <1>4, <1>5

\* The directory item is told.
LEMMA UpdateDirItem ==
  ASSUME IInv, update_dir_item
  PROVE  IInv'
<1> DEFINE new == [blk |-> hnd.first_blk, size |-> hnd.size]
<1>1. /\ pc = "update" /\ Returned /\ UNCHANGED <<disk, used, hnd, blk_buf, got, ret, before, slip>>
      /\ \/ item' = new /\ NoFault
         \/ Fault /\ item' \in {item, new}
  BY DEF update_dir_item
<1>2. /\ Shapes /\ Unmarked /\ Calls /\ Walkable /\ Placed /\ Accounted /\ ItemRight /\ ~Emptying /\ ~Growing
  BY <1>1 DEF IInv, Live, Emptying, Growing
<1>3. Shapes'
  <2>1. new \in [blk : Ptrs, size : 0 .. MaxSize]
    BY <1>2 DEF Shapes
  <2> HIDE DEF new
  <2> QED BY <1>1, <1>2, <2>1, FaultFacts, Constants0 DEF Shapes, Returned, Labels, CallSet, Locs
<1>4. Unmarked'
  BY <1>1, <1>2 DEF Unmarked
<1>7. ~Emptying' /\ First' = First /\ Here' = Here
  BY <1>1, <1>2 DEF Emptying, Returned, First, Here
<1>8. At' = At /\ ChainBlks(First)' = ChainBlks(First)
  BY <1>1, <1>7, AtSame
<1>9. hnd'.curr_blk # 0 => Nth(At', Here', hnd'.curr_blk)
  BY <1>1, <1>2, <1>7, <1>8 DEF Placed
<1>5. CASE Fault
  <2>1. faults' > 0
    BY <1>2, <1>5, Sizes DEF Fault, Shapes
  \* tfs_trunc to nothing has freed the block that the item may still name.
  <2>2. Usable' => item'.blk \in {0, hnd'.first_blk}
    <3> SUFFICES ASSUME Usable', item' = item, Emptied, item.blk # 0 PROVE FALSE
      BY <1>1, <1>2 DEF ItemRight
    <3>1. SoundChain(item.blk)' /\ 0 \in 0 .. BlkCount - 1
      BY <2>1, Sizes DEF Usable
    <3>2. BlkAt(item.blk)'[0] = item.blk
      BY WalkSteps DEF BlkAt
    <3>3. item.blk \in used'
      BY <3>1, <3>2 DEF SoundChain
    <3> QED BY <1>1, <1>2, <3>3 DEF ItemRight
  <2> QED BY <1>1, <1>3, <1>4, <1>9, <2>1, <2>2, ReturnFailed
<1>6. CASE item' = new /\ NoFault
  <2>3. NoCycle(At') /\ \A n \in 0 .. BlkCount : At'[n] # 0 =>
           /\ At'[n] \in used' /\ disk'[At'[n]].known
           /\ disk'[At'[n]].prev = IF n = 0 THEN 0 ELSE At'[n - 1]
    BY <1>1, <1>2, <1>8 DEF Walkable
  <2>5. faults' = 0 => before'.lost = used' \ ChainBlks(First)'
    <3>1. Spare = {}
      BY <1>1 DEF Spare
    <3> QED BY <1>1, <1>2, <1>6, <1>8, <3>1 DEF Accounted, NoFault
  <2>6. item'.blk \in {0, hnd'.first_blk}
    BY <1>1, <1>6
  <2> QED BY <1>1, <1>3, <1>4, <1>9, <2>3, <2>5, <2>6, ReturnSound
<1> QED BY <1>1, <1>5, <1>6

\* The chain after the block that write_store wrote: it is whole, or goes on with a
\* fresh block.
LEMMA StoreWritten ==
  ASSUME IInv, pc = "store", disk' = [disk EXCEPT ![hnd.curr_blk] = blk_buf],
         First' = First, used' = used
  PROVE  /\ Here < BlkCount /\ At'[Here] = hnd.curr_blk /\ NoCycle(At')
         /\ faults = 0 => before.lost = used \ ChainBlks(First)'
         /\ ~loc.append \/ blk_buf.next = 0 =>
              \A n \in 0 .. BlkCount : At'[n] # 0 =>
                /\ At'[n] \in used' /\ disk'[At'[n]].known
                /\ disk'[At'[n]].prev = IF n = 0 THEN 0 ELSE At'[n - 1]
         /\ At'[Here + 1] = blk_buf.next
         /\ loc.append /\ blk_buf.next # 0 =>
              /\ ~disk'[blk_buf.next].known
              /\ \A n \in 0 .. BlkCount : At'[n] # 0 =>
                   /\ At'[n] \in used'
                   /\ At'[n] = blk_buf.next \/ (/\ disk'[At'[n]].known
                                                /\ disk'[At'[n]].prev = IF n = 0 THEN 0 ELSE At'[n - 1])
<1>1. /\ Shapes /\ Calls /\ Walkable /\ Placed /\ Buffered /\ Accounted /\ Here \in 0 .. BlkCount
      /\ 0 \notin used /\ Nth(At, Here, hnd.curr_blk)
  <2>1. Shapes /\ Calls /\ Walkable /\ Placed /\ Buffered /\ Accounted
    BY DEF IInv, Live
  <2>2. Nth(At, Here, hnd.curr_blk)
    BY <2>1 DEF Placed
  <2>3. 0 \notin used
    BY <2>1, Sizes DEF Shapes
  <2> QED BY <2>1, <2>2, <2>3, PlaceRange
<1>2. /\ hnd.curr_blk # 0 /\ hnd.curr_blk = At[Here]
      /\ blk_buf.known /\ blk_buf.prev = IF Here = 0 THEN 0 ELSE At[Here - 1]
  BY <1>1 DEF Placed, Nth, Buffered
<1>3. faults = 0 => before.lost = used \ (ChainBlks(First) \cup {blk_buf.next})
  BY <1>1 DEF Accounted, Spare
<1>4. CASE loc.append
  <2> DEFINE b == blk_buf.next
  <2>1. b = 0 \/ Fresh(b)
    BY <1>1, <1>4 DEF Buffered
  <2>2. ~disk[hnd.curr_blk].known \/ disk[hnd.curr_blk].next = 0
    BY <1>1, <1>4 DEF Buffered
  <2>3. /\ Here < BlkCount /\ (\A n \in 0 .. Here : At'[n] = At[n]) /\ At'[Here + 1] = b /\ NoCycle(At')
        /\ \A n \in 0 .. BlkCount : At'[n] # 0 =>
             /\ At'[n] \in used' /\ n \in 0 .. Here + 1
             /\ IF n = Here + 1 THEN At'[n] = b /\ ~disk'[b].known
                ELSE /\ disk'[At'[n]].known
                     /\ disk'[At'[n]].prev = IF n = 0 THEN 0 ELSE At'[n - 1]
        /\ ChainBlks(First)' = (ChainBlks(First) \cup {b}) \ {0}
    BY <1>1, <1>2, <2>1, <2>2, StoreLast
  <2>4. Here + 1 \in 0 .. BlkCount
    BY <1>1, <2>3, Sizes
  <2>5. faults = 0 => before.lost = used \ ChainBlks(First)'
    BY <1>1, <1>3, <2>3
  <2>6. b # 0 => ~disk'[b].known
    BY <2>3, <2>4
  <2> QED BY <1>1, <1>2, <1>4, <2>3, <2>5, <2>6
<1>5. CASE ~loc.append
  <2>1. ~Growing /\ blk_buf.next = disk[hnd.curr_blk].next
    BY <1>1, <1>5 DEF Growing, Buffered
  <2>2. /\ At' = At /\ ChainBlks(First)' = ChainBlks(First) /\ NoCycle(At')
        /\ \A n \in 0 .. BlkCount : At'[n] # 0 =>
             /\ At'[n] \in used' /\ disk'[At'[n]].known
             /\ disk'[At'[n]].prev = IF n = 0 THEN 0 ELSE At'[n - 1]
    BY <1>1, <1>2, <2>1, StoreAgain
  <2>3. Here < BlkCount /\ At[Here + 1] = blk_buf.next
    <3>1. disk[hnd.curr_blk].known
      BY <1>1, <1>2, <2>1 DEF Walkable
    <3> QED BY <1>1, <1>2, <2>1, <3>1, NextPlace
  <2>4. blk_buf.next \in ChainBlks(First) \cup {0}
    <3>1. Here + 1 \in 0 .. BlkCount
      BY <1>1, <2>3, Sizes
    <3> QED BY <1>1, <2>3, <3>1, AtFacts
  <2>5. faults = 0 => before.lost = used \ ChainBlks(First)'
    BY <1>1, <1>3, <2>2, <2>4
  <2> QED BY <1>2, <1>5, <2>2, <2>3, <2>5
<1> QED BY <1>4, <1>5

\* tfs_write writes the block and goes on to the next.
LEMMA WriteStore ==
  ASSUME IInv, write_store
  PROVE  IInv'
<1>1. /\ pc = "store" /\ drive_write_block(hnd.curr_blk, blk_buf)
      /\ UNCHANGED <<used, item, got, ret, before, slip>>
  BY DEF write_store
<1>2. /\ Shapes /\ Unmarked /\ Calls /\ Walkable /\ Placed /\ Buffered /\ ItemRight /\ ~Emptying
      /\ Here \in 0 .. BlkCount /\ Nth(At, Here, hnd.curr_blk)
  <2>1. Shapes /\ Unmarked /\ Calls /\ Walkable /\ Placed /\ Buffered /\ ItemRight /\ ~Emptying
    BY <1>1 DEF IInv, Live, Emptying
  <2>2. Nth(At, Here, hnd.curr_blk)
    BY <1>1, <2>1 DEF Placed
  <2> QED BY <2>1, <2>2, PlaceRange
<1>3. /\ hnd \in Hnds /\ loc \in Locs /\ hnd.curr_blk # 0 /\ hnd.curr_blk = At[Here]
      /\ hnd.curr_blk \in used /\ hnd.curr_blk \in Ptrs /\ blk_buf.next \in Ptrs
  BY <1>1, <1>2 DEF Shapes, Hnds, Locs, Placed, Nth, Walkable, Blks
<1>4. /\ disk' \in [Blocks -> Blks] /\ Unmarked'
      /\ faults' \in 0 .. MaxFaults /\ (faults' = 0 => faults = 0) /\ slip \in 0 .. faults'
      /\ tfs_last_error' = "IO" => faults' > 0
      /\ tfs_last_error' \in {"OK", "IO", "DISK_FULL", "UNEXP_EOF"}
      /\ \/ disk' = [disk EXCEPT ![hnd.curr_blk] = blk_buf] /\ NoFault
         \/ tfs_last_error' = "IO"
  <2>1. blk_buf \in Blks
    BY <1>2 DEF Shapes
  <2> QED BY <1>1, <1>2, <1>3, <2>1, PutFacts
<1>5. call.op = "write" /\ (IF loc.append THEN blk_buf.next = 0 <=> (tfs_last_error # "OK" \/ loc.len = 0)
                            ELSE tfs_last_error = "OK" /\ (loc.len # 0 => blk_buf.next # 0))
  BY <1>1, <1>2 DEF Calls, Buffered
<1>6. item.blk \in {0, hnd.first_blk}
  BY <1>1, <1>2 DEF ItemRight, Emptied
<1>7. CASE Failed
  <2>1. Returned /\ UNCHANGED <<hnd, blk_buf>>
    BY <1>7 DEF write_store
  <2>2. Shapes'
    BY <1>1, <1>2, <1>4, <2>1, Constants0 DEF Shapes, Returned, Labels, CallSet, Locs
  <2>3. CASE tfs_last_error' = "IO"
    <3>1. First' = First /\ Here' = Here
      BY <1>1, <1>2, <2>1 DEF First, Emptying, Returned, Here
    <3>2. Nth(At', Here', hnd'.curr_blk)
      BY <1>1, <1>2, <2>1, <3>1, StoreKeepsPlace DEF drive_write_block
    <3>3. item'.blk \in {0, hnd'.first_blk}
      BY <1>1, <1>6, <2>1
    <3> QED BY <1>4, <2>1, <2>2, <2>3, <3>2, <3>3, ReturnFailed
  <2>4. CASE tfs_last_error' # "IO"
    <3>1. /\ disk' = [disk EXCEPT ![hnd.curr_blk] = blk_buf] /\ loc.append /\ blk_buf.next = 0
          /\ First' = First /\ Here' = Here
      BY <1>1, <1>2, <1>4, <1>5, <1>7, <2>1, <2>4 DEF NoFault, Failed, First, Emptying, Returned, Here
    <3>2. /\ At'[Here] = hnd.curr_blk /\ NoCycle(At')
          /\ faults = 0 => before.lost = used \ ChainBlks(First)'
          /\ \A n \in 0 .. BlkCount : At'[n] # 0 =>
                /\ At'[n] \in used' /\ disk'[At'[n]].known
                /\ disk'[At'[n]].prev = IF n = 0 THEN 0 ELSE At'[n - 1]
      BY <1>1, <3>1, StoreWritten
    <3>3. Nth(At', Here', hnd'.curr_blk)
      BY <1>2, <2>1, <3>1, <3>2 DEF Nth
    <3>4. faults' = 0 => before'.lost = used' \ ChainBlks(First)'
      BY <1>1, <1>4, <3>2
    <3>5. item'.blk \in {0, hnd'.first_blk}
      BY <1>1, <1>6, <2>1
    <3> QED BY <1>4, <2>1, <2>2, <3>2, <3>3, <3>4, <3>5, ReturnSound
  <2> QED BY <2>3, <2>4
<1>8. CASE ~Failed
  <2> DEFINE update == loc.update_item \/ Grown
             sized  == [hnd EXCEPT !.size = IF Grown THEN loc.offset ELSE @]
             l      == [loc EXCEPT !.update_item = update, !.os = 0]
             b      == blk_buf.next
  <2>1. disk' = [disk EXCEPT ![hnd.curr_blk] = blk_buf] /\ NoFault /\ tfs_last_error = "OK" /\ tfs_last_error' = "OK"
    BY <1>4, <1>8 DEF Failed, NoFault
  <2>2. \/ /\ loc.len = 0 /\ Proceed(IF update THEN "update" ELSE "done", l)
           /\ hnd' = sized /\ UNCHANGED blk_buf
        \/ /\ loc.len # 0 /\ loc.append /\ Proceed("fill", l)
           /\ hnd' = [sized EXCEPT !.curr_blk = b, !.curr_pos = @ + DataLen]
           /\ blk_buf' = NextBlk
        \/ /\ loc.len # 0 /\ ~loc.append /\ Proceed("fetch", l)
           /\ hnd' = [sized EXCEPT !.curr_blk = b] /\ UNCHANGED blk_buf
    <3>1. loc.append \in BOOLEAN
      BY <1>3 DEF Locs
    <3> QED BY <1>8, <3>1 DEF write_store
  <2>3. /\ l \in Locs /\ l.len = loc.len /\ l.offset = loc.offset /\ l.append = loc.append
        /\ l.os = 0
    <3>1. update \in BOOLEAN
      OBVIOUS
    <3> DEFINE y == [loc EXCEPT !.update_item = update]
    <3>2. y \in Locs /\ y.len = loc.len /\ y.offset = loc.offset /\ y.append = loc.append
      <4> HIDE DEF update
      <4> QED BY <1>3, <3>1 DEF Locs
    <3>3. l = [y EXCEPT !.os = 0]
      <4> HIDE DEF update
      <4> QED BY <1>3 DEF Locs
    <3> HIDE DEF y, l
    <3> QED BY <3>2, <3>3 DEF Locs
  <2>4. /\ sized \in Hnds /\ sized.first_blk = hnd.first_blk /\ sized.curr_blk = hnd.curr_blk
        /\ sized.curr_pos = hnd.curr_pos
    BY <1>3 DEF Hnds, Locs
  <2> HIDE DEF update, sized, l
  <2>5. hnd'.first_blk = hnd.first_blk
    BY <2>2, <2>4 DEF Hnds
  <2>6. ~Emptying' /\ First' = First
    <3>1. call' \in {call, NoCall}
      BY <2>2 DEF Proceed, Returned
    <3>2. ~Emptying'
      BY <2>2 DEF Emptying, Proceed, Returned
    <3> QED BY <1>2, <2>5, <3>2 DEF First
  <2>7. /\ Here < BlkCount /\ At'[Here] = hnd.curr_blk /\ NoCycle(At')
        /\ faults = 0 => before.lost = used \ ChainBlks(First)'
        /\ ~loc.append \/ b = 0 =>
             \A n \in 0 .. BlkCount : At'[n] # 0 =>
                /\ At'[n] \in used' /\ disk'[At'[n]].known
                /\ disk'[At'[n]].prev = IF n = 0 THEN 0 ELSE At'[n - 1]
        /\ At'[Here + 1] = b
        /\ loc.append /\ b # 0 =>
             /\ ~disk'[b].known
             /\ \A n \in 0 .. BlkCount : At'[n] # 0 =>
                  /\ At'[n] \in used'
                  /\ At'[n] = b \/ (/\ disk'[At'[n]].known
                                    /\ disk'[At'[n]].prev = IF n = 0 THEN 0 ELSE At'[n - 1])
    BY <1>1, <2>1, <2>6, StoreWritten
  <2>8. faults' = 0 => before'.lost = used' \ ChainBlks(First)'
    BY <1>1, <2>1, <2>7 DEF NoFault
  <2>9. hnd.curr_pos + DataLen \in Positions /\ (hnd.curr_pos + DataLen) \div DataLen + slip = Here + 1
    BY <1>2, <2>7, HereFacts
  <2>10. CASE loc.len = 0 /\ Proceed(IF update THEN "update" ELSE "done", l) /\ hnd' = sized /\ UNCHANGED blk_buf
    <3>1. ~loc.append \/ b = 0
      BY <1>5, <2>10
    <3>2. hnd'.curr_blk = hnd.curr_blk /\ Here' = Here
      BY <1>1, <2>4, <2>10 DEF Here
    <3>3. CASE Returned
      <4>1. Shapes'
        BY <1>1, <1>2, <1>4, <2>4, <2>10, <3>3, Constants0 DEF Shapes, Returned, Labels, CallSet, Locs, Hnds
      <4>2. Nth(At', Here', hnd'.curr_blk)
        BY <1>2, <2>7, <3>2 DEF Nth
      <4>3. item'.blk \in {0, hnd'.first_blk}
        BY <1>1, <1>6, <2>5
      <4> QED BY <1>4, <2>7, <2>8, <3>1, <3>3, <4>1, <4>2, <4>3, ReturnSound
    <3>4. CASE ~Returned
      <4>1. pc' = "update" /\ loc' = l /\ UNCHANGED call
        BY <2>10, <3>4 DEF Proceed
      <4>2. Shapes'
        BY <1>1, <1>2, <1>4, <2>3, <2>4, <2>10, <4>1 DEF Shapes, Labels, Locs, Hnds
      <4>3. Calls'
        BY <1>1, <1>2, <1>5, <2>1, <2>3, <4>1 DEF Calls
      <4>4. Walkable'
        BY <2>7, <3>1 DEF Walkable
      <4>5. Placed' /\ Buffered' /\ Cut'
        <5>1. Nth(At', Here', hnd'.curr_blk)
          BY <1>2, <2>7, <3>2 DEF Nth
        <5> QED BY <4>1, <5>1 DEF Placed, Buffered, Cut
      <4>6. Accounted' /\ ItemRight'
        BY <1>1, <1>5, <1>6, <2>5, <2>8, <4>1 DEF Accounted, Spare, ItemRight, Emptied, Emptying
      <4> QED BY <1>4, <4>2, <4>3, <4>4, <4>5, <4>6 DEF IInv
    <3> QED BY <3>3, <3>4
  <2>11. CASE /\ loc.len # 0 /\ loc.append /\ Proceed("fill", l)
              /\ hnd' = [sized EXCEPT !.curr_blk = b, !.curr_pos = @ + DataLen]
              /\ blk_buf' = NextBlk
    <3>1. b # 0 /\ pc' = "fill" /\ loc' = l /\ UNCHANGED call
      BY <1>5, <2>1, <2>11 DEF Proceed
    <3>2. hnd' \in Hnds /\ hnd'.curr_blk = b /\ hnd'.curr_pos = hnd.curr_pos + DataLen /\ Here' = Here + 1
      BY <1>1, <1>3, <2>4, <2>9, <2>11 DEF Hnds, Here
    <3>3. blk_buf' \in Blks /\ blk_buf'.known /\ blk_buf'.prev = hnd.curr_blk /\ blk_buf'.next = 0
      BY <1>3, <2>11, BlkFacts, Sizes DEF NextBlk
    <3>4. Shapes'
      BY <1>1, <1>2, <1>4, <2>3, <3>1, <3>2, <3>3 DEF Shapes, Hnds, Locs, Labels
    <3>5. 0 \in Offs
      BY Sizes DEF Offs
    <3>6. Calls'
      BY <1>1, <1>2, <1>5, <2>1, <2>3, <3>1, <3>5 DEF Calls
    <3>7. Growing' /\ loc'.append
      BY <2>3, <2>11, <3>1 DEF Growing
    <3>8. Walkable'
      BY <2>7, <2>11, <3>1, <3>2, <3>7 DEF Walkable
    <3>9. Placed' /\ Cut'
      <4>1. Here' <= BlkCount
        BY <1>2, <2>7, <3>2, Sizes
      <4> QED BY <2>7, <3>1, <3>2, <4>1 DEF Placed, Nth, Cut
    <3>10. Buffered'
      <4>1. (Here + 1) - 1 = Here /\ Here + 1 # 0
        BY <1>2, Sizes
      <4> QED BY <2>7, <2>11, <3>1, <3>2, <3>3, <3>7, <4>1 DEF Buffered
    <3>11. Accounted' /\ ItemRight'
      BY <1>1, <1>6, <2>5, <2>8, <3>1 DEF Accounted, Spare, ItemRight, Emptied, Emptying
    <3> QED BY <1>4, <3>4, <3>6, <3>8, <3>9, <3>10, <3>11 DEF IInv
  <2>12. CASE /\ loc.len # 0 /\ ~loc.append /\ Proceed("fetch", l)
              /\ hnd' = [sized EXCEPT !.curr_blk = b] /\ UNCHANGED blk_buf
    <3>1. b # 0 /\ pc' = "fetch" /\ loc' = l /\ UNCHANGED call
      BY <1>5, <2>12 DEF Proceed
    <3>2. hnd' \in Hnds /\ hnd'.curr_blk = b /\ Here' = Here
      BY <1>1, <1>3, <2>4, <2>12 DEF Hnds, Here
    <3>3. Shapes'
      BY <1>1, <1>2, <1>4, <2>3, <2>12, <3>1, <3>2 DEF Shapes, Hnds, Locs, Labels
    <3>4. 0 \in Offs
      BY Sizes DEF Offs
    <3>5. Calls'
      BY <1>1, <1>2, <1>5, <2>1, <2>3, <2>12, <3>1, <3>4 DEF Calls
    <3>6. Walkable'
      BY <2>7, <2>12 DEF Walkable
    <3>7. Placed' /\ Buffered' /\ Cut'
      <4>1. Here' < BlkCount /\ Here' + 1 <= BlkCount
        BY <1>2, <2>7, <3>2, Sizes
      <4> QED BY <1>3, <2>7, <3>1, <3>2, <4>1 DEF Placed, Nth, Buffered, Cut
    <3>8. Accounted' /\ ItemRight'
      BY <1>1, <1>6, <2>5, <2>8, <3>1 DEF Accounted, Spare, ItemRight, Emptied, Emptying
    <3> QED BY <1>4, <3>3, <3>5, <3>6, <3>7, <3>8 DEF IInv
  <2> QED BY <2>2, <2>10, <2>11, <2>12
<1> QED BY <1>7, <1>8

-----------------------------------------------------------------------------
(* tfs_read and tfs_trunc.                                                 *)

\* tfs_read takes from the buffer.
LEMMA ReadCopy ==
  ASSUME IInv, read_copy
  PROVE  IInv'
<1>1. /\ pc = "copy"
      /\ IF loc.len = ChunkLen THEN Returned /\ UNCHANGED hnd
         ELSE /\ hnd' = [hnd EXCEPT !.curr_blk = blk_buf.next, !.curr_pos = @ + DataLen]
              /\ Proceed(IF blk_buf.next = 0 THEN "done" ELSE "next",
                         [loc EXCEPT !.len = @ - ChunkLen, !.os = 0])
      /\ UNCHANGED <<disk, used, item, blk_buf, tfs_last_error, ret, before, slip, faults>>
  BY DEF read_copy
<1>2. /\ Shapes /\ Calls /\ Walkable /\ Placed /\ Buffered /\ Accounted /\ ItemRight /\ ~Emptying /\ ~Growing
  BY <1>1 DEF IInv, Live, Emptying, Growing
<1>3. /\ hnd \in Hnds /\ loc \in Locs /\ hnd.curr_blk # 0 /\ hnd.curr_blk = At[Here]
      /\ blk_buf = disk[hnd.curr_blk] /\ call.op = "read" /\ tfs_last_error = "OK"
      /\ Here \in 0 .. BlkCount /\ loc.os \in Offs /\ Nth(At, Here, hnd.curr_blk)
  <2>1. Nth(At, Here, hnd.curr_blk)
    BY <1>1, <1>2 DEF Placed
  <2>2. Here \in 0 .. BlkCount /\ hnd.curr_blk = At[Here] /\ hnd.curr_blk # 0
    BY <1>2, <2>1, PlaceRange
  <2> QED BY <1>1, <1>2, <2>1, <2>2 DEF Shapes, Hnds, Locs, Buffered, Calls
<1>4. disk[hnd.curr_blk].known
  BY <1>2, <1>3 DEF Walkable
<1>5. /\ At[Here + 1] = blk_buf.next /\ hnd.curr_blk \in Blocks
      /\ hnd.curr_pos + DataLen \in Positions /\ (hnd.curr_pos + DataLen) \div DataLen + slip = Here + 1
  BY <1>2, <1>3, <1>4, NextPlace
<1>8. Here < BlkCount /\ Here + 1 <= BlkCount
  BY <1>2, <1>3, <1>4, NextPlace, Sizes
<1>6. CASE loc.len = ChunkLen
  <2>1. Returned /\ UNCHANGED hnd
    BY <1>1, <1>6
  <2>2. Shapes'
    BY <1>1, <1>2, <2>1, Constants0 DEF Shapes, Returned, Labels, CallSet, Locs
  <2>3. Nth(At, Here', hnd'.curr_blk)
    BY <1>1, <1>3, <2>1 DEF Here, Nth
  <2> QED BY <1>1, <1>2, <1>3, <2>1, <2>2, <2>3, ReturnQuiet
<1>7. CASE loc.len # ChunkLen
  <2> DEFINE l == [loc EXCEPT !.len = @ - ChunkLen, !.os = 0]
  <2>1. /\ hnd' = [hnd EXCEPT !.curr_blk = blk_buf.next, !.curr_pos = @ + DataLen]
        /\ Proceed(IF blk_buf.next = 0 THEN "done" ELSE "next", l)
    BY <1>1, <1>7
  <2>2. blk_buf.next \in Ptrs
    BY <1>2 DEF Shapes, Blks
  <2>3. /\ hnd' \in Hnds /\ hnd'.first_blk = hnd.first_blk /\ hnd'.curr_blk = blk_buf.next /\ Here' = Here + 1
    BY <1>1, <1>3, <1>5, <2>1, <2>2 DEF Hnds, Here
  <2>4. l \in Locs /\ l.os = 0 /\ l.append = loc.append
    <3>1. loc.len - ChunkLen \in 0 .. MaxSize
      BY <1>3, Sizes DEF ChunkLen, Locs, Offs
    <3> DEFINE y == [loc EXCEPT !.len = @ - ChunkLen]
    <3>2. y \in Locs /\ y.append = loc.append
      BY <1>3, <3>1 DEF Locs
    <3>3. l = [y EXCEPT !.os = 0]
      BY <1>3 DEF Locs
    <3> HIDE DEF y, l
    <3> QED BY <3>2, <3>3 DEF Locs
  <2> HIDE DEF l
  <2>5. CASE Returned
    <3>1. Shapes'
      BY <1>1, <1>2, <2>3, <2>5, Constants0 DEF Shapes, Returned, Labels, CallSet, Locs, Hnds
    <3>2. hnd'.curr_blk # 0 => Nth(At, Here', hnd'.curr_blk)
      BY <1>5, <1>8, <2>3 DEF Nth
    <3> QED BY <1>1, <1>2, <1>3, <2>3, <2>5, <3>1, <3>2, ReturnQuiet
  <2>6. CASE ~Returned
    <3>1. pc' = "next" /\ loc' = l /\ UNCHANGED call /\ blk_buf.next # 0
      BY <2>1, <2>6 DEF Proceed
    <3>2. ~Emptying'
      BY <3>1 DEF Emptying
    <3>3. At' = At /\ First' = First /\ ChainBlks(First)' = ChainBlks(First) /\ Unmarked' /\ ItemRight'
      BY <1>1, <1>2, <2>3, <3>1, <3>2, Quiet
    <3>4. Shapes'
      BY <1>1, <1>2, <2>3, <2>4, <3>1 DEF Shapes, Labels, Hnds, Locs
    <3>5. 0 \in Offs
      BY Sizes DEF Offs
    <3>6. Calls'
      BY <1>1, <1>2, <1>3, <2>4, <3>1, <3>5 DEF Calls
    <3>7. Walkable'
      BY <1>1, <1>2, <3>3 DEF Walkable
    <3>8. Placed' /\ Buffered' /\ Cut'
      BY <1>5, <1>8, <2>3, <3>1, <3>3 DEF Placed, Nth, Buffered, Cut
    <3>9. Accounted'
      BY <1>1, <1>2, <3>1, <3>3 DEF Accounted, Spare
    <3> QED BY <3>3, <3>4, <3>6, <3>7, <3>8, <3>9 DEF IInv
  <2> QED BY <2>5, <2>6
<1> QED BY <1>6, <1>7

\* tfs_read goes on to the next block.
LEMMA ReadNext ==
  ASSUME IInv, read_next
  PROVE  IInv'
<1>1. /\ pc = "next" /\ drive_read_block(hnd.curr_blk)
      /\ UNCHANGED <<disk, used, item, hnd, ret, before, slip>>
  BY DEF read_next
<1>2. /\ Shapes /\ Unmarked /\ Calls /\ Walkable /\ Placed /\ Accounted /\ ItemRight /\ ~Emptying /\ ~Growing
  BY <1>1 DEF IInv, Live, Emptying, Growing
<1>3. /\ hnd.curr_blk # 0 /\ Nth(At, Here, hnd.curr_blk) /\ hnd.curr_blk \in Blocks
      /\ call.op = "read" /\ tfs_last_error = "OK"
  <2>1. Nth(At, Here, hnd.curr_blk)
    BY <1>1, <1>2 DEF Placed
  <2> QED BY <1>1, <1>2, <2>1 DEF Shapes, Nth, Calls, Ptrs
<1>4. CASE Failed
  <2>1. Returned
    BY <1>4 DEF read_next
  <2>2. tfs_last_error' = "IO"
    BY <1>1, <1>2, <1>3, <1>4, ReadFacts DEF Failed, NoFault
  <2>3. Shapes'
    BY <1>1, <1>2, <1>3, <2>1, ReadFacts, Constants0 DEF Shapes, Returned, Labels, CallSet, Locs
  <2>4. faults' > 0 /\ Here' = Here
    BY <1>1, <1>2, <1>3, <2>2, ReadFacts, Sizes DEF Here
  <2>5. Nth(At, Here', hnd'.curr_blk)
    BY <1>1, <1>3, <2>4
  <2> QED BY <1>1, <1>2, <2>1, <2>3, <2>4, <2>5, ReturnQuiet
<1>5. CASE ~Failed
  <2>1. pc' = "copy" /\ UNCHANGED <<call, loc>>
    BY <1>5 DEF read_next, Proceed
  <2>2. blk_buf' = disk[hnd.curr_blk] /\ NoFault
    BY <1>1, <1>2, <1>3, <1>5, ReadFacts DEF Failed
  <2>3. ~Emptying' /\ Here' = Here
    BY <1>1, <2>1 DEF Emptying, Here
  <2>4. At' = At /\ First' = First /\ ChainBlks(First)' = ChainBlks(First) /\ Unmarked' /\ ItemRight'
    BY <1>1, <1>2, <2>1, <2>3, Quiet
  <2>5. Shapes'
    BY <1>1, <1>2, <1>3, <2>1, <2>2 DEF Shapes, NoFault, Labels
  <2>6. Calls'
    BY <1>1, <1>2, <1>3, <2>1, <2>2 DEF Calls, NoFault
  <2>7. Walkable'
    BY <1>1, <1>2, <2>4 DEF Walkable
  <2>8. Placed' /\ Buffered' /\ Cut'
    BY <1>1, <1>3, <2>1, <2>2, <2>3, <2>4 DEF Placed, Buffered, Cut
  <2>9. Accounted'
    BY <1>1, <1>2, <2>1, <2>2, <2>4 DEF Accounted, Spare, NoFault
  <2> QED BY <2>4, <2>5, <2>6, <2>7, <2>8, <2>9 DEF IInv
<1> QED BY <1>4, <1>5

\* The block that is to be the last one gets no next block in the buffer.
LEMMA TruncCut ==
  ASSUME IInv, trunc_cut
  PROVE  IInv'
<1> DEFINE l == [loc EXCEPT !.free_from = blk_buf.next]
<1>1. /\ pc = "cut" /\ blk_buf' = [blk_buf EXCEPT !.next = 0] /\ Proceed(AfterCut, l)
      /\ UNCHANGED <<disk, used, item, hnd, tfs_last_error, got, ret, before, slip, faults>>
  BY DEF trunc_cut
<1>2. /\ Shapes /\ Calls /\ Walkable /\ Placed /\ Buffered /\ Accounted /\ ~Emptying /\ ~Growing
  BY <1>1 DEF IInv, Live, Emptying, Growing
<1>3. /\ hnd.curr_blk # 0 /\ hnd.curr_blk = At[Here] /\ blk_buf = disk[hnd.curr_blk]
      /\ call.op = "trunc" /\ call.offset # 0 /\ tfs_last_error = "OK" /\ Here \in 0 .. BlkCount
      /\ blk_buf.next \in Ptrs
  BY <1>1, <1>2, HereFacts DEF Placed, Nth, Buffered, Calls, Shapes, Blks
<1>4. disk[hnd.curr_blk].known /\ disk[hnd.curr_blk].prev = IF Here = 0 THEN 0 ELSE At[Here - 1]
  BY <1>2, <1>3 DEF Walkable
<1>5. /\ pc' = IF blk_buf.next # 0 THEN "cutstore" ELSE "freeing"
      /\ loc' = l /\ UNCHANGED call
  BY <1>1 DEF Proceed, AfterCut
<1>6. loc' \in Locs /\ loc'.free_from = blk_buf.next /\ loc'.offset = loc.offset /\ loc'.len = loc.len
  BY <1>2, <1>3, <1>5 DEF Shapes, Locs
<1>7. /\ blk_buf' \in Blks /\ blk_buf'.known = blk_buf.known /\ blk_buf'.prev = blk_buf.prev
      /\ blk_buf'.next = 0
  BY <1>1, <1>2, Sizes DEF Shapes, Blks
<1> HIDE DEF l
<1>8. ~Emptying' /\ Here' = Here
  BY <1>1, <1>3, <1>5 DEF Emptying, Here
<1>9. At' = At /\ First' = First /\ ChainBlks(First)' = ChainBlks(First) /\ Unmarked' /\ ItemRight'
  BY <1>1, <1>2, <1>5, <1>8, Quiet
<1>10. Shapes'
  BY <1>1, <1>2, <1>5, <1>6, <1>7 DEF Shapes, Locs, Labels
<1>11. Calls'
  BY <1>1, <1>2, <1>3, <1>5, <1>6 DEF Calls
<1>12. Walkable'
  BY <1>1, <1>2, <1>9 DEF Walkable
<1>13. Placed'
  BY <1>1, <1>3, <1>5, <1>8, <1>9 DEF Placed, Nth
<1>14. Buffered'
  BY <1>1, <1>3, <1>4, <1>5, <1>6, <1>7, <1>8, <1>9 DEF Buffered
<1>15. pc' = "freeing" => \A n \in 0 .. BlkCount : BlkAt(loc.free_from)'[n] = 0
  BY <1>5, <1>6, WalkNone DEF BlkAt
<1>16. Cut'
  <2>1. BlkCount \in 0 .. BlkCount
    BY Sizes
  <2> QED BY <1>15, <2>1 DEF Cut, NoCycle
<1>17. Accounted'
  <2>1. Spare = {} /\ Spare' = {}
    BY <1>1, <1>5, <1>15 DEF Spare, ChainBlks
  <2> QED BY <1>1, <1>2, <1>9, <2>1 DEF Accounted
<1> QED BY <1>9, <1>10, <1>11, <1>12, <1>13, <1>14, <1>16, <1>17 DEF IInv

\* The last block is written, and the blocks behind it are on their way back.
LEMMA TruncStore ==
  ASSUME IInv, trunc_store
  PROVE  IInv'
<1>1. /\ pc = "cutstore" /\ drive_write_block(hnd.curr_blk, blk_buf)
      /\ IF Failed THEN Returned ELSE Proceed("freeing", loc)
      /\ UNCHANGED <<used, item, hnd, blk_buf, got, ret, before, slip>>
  BY DEF trunc_store
<1>2. /\ Shapes /\ Unmarked /\ Calls /\ Walkable /\ Placed /\ Buffered /\ Accounted /\ ItemRight /\ ~Emptying
      /\ Here \in 0 .. BlkCount /\ Nth(At, Here, hnd.curr_blk)
  <2>1. Shapes /\ Unmarked /\ Calls /\ Walkable /\ Placed /\ Buffered /\ Accounted /\ ItemRight /\ ~Emptying
    BY <1>1 DEF IInv, Live, Emptying
  <2>2. Nth(At, Here, hnd.curr_blk)
    BY <1>1, <2>1 DEF Placed
  <2> QED BY <2>1, <2>2, PlaceRange
<1>3. /\ hnd.curr_blk # 0 /\ hnd.curr_blk = At[Here] /\ hnd.curr_blk \in used /\ hnd.curr_blk \in Blocks
      /\ call.op = "trunc" /\ call.offset # 0 /\ tfs_last_error = "OK"
      /\ blk_buf.known /\ blk_buf.prev = IF Here = 0 THEN 0 ELSE At[Here - 1]
      /\ blk_buf.next = 0
      /\ loc.free_from = IF disk[hnd.curr_blk].known THEN disk[hnd.curr_blk].next ELSE 0
  BY <1>1, <1>2 DEF Shapes, Placed, Nth, Walkable, Calls, Buffered, Ptrs
<1>4. /\ disk' \in [Blocks -> Blks] /\ Unmarked'
      /\ faults' \in 0 .. MaxFaults /\ (faults' = 0 => faults = 0) /\ slip \in 0 .. faults'
      /\ tfs_last_error' = "IO" => faults' > 0
      /\ tfs_last_error' \in {"OK", "IO", "DISK_FULL", "UNEXP_EOF"}
      /\ \/ disk' = [disk EXCEPT ![hnd.curr_blk] = blk_buf] /\ NoFault
         \/ tfs_last_error' = "IO"
  <2>1. blk_buf \in Blks
    BY <1>2 DEF Shapes
  <2> QED BY <1>1, <1>2, <1>3, <2>1, PutFacts
<1>5. CASE Failed
  <2>1. Returned /\ tfs_last_error' = "IO"
    BY <1>1, <1>3, <1>4, <1>5 DEF Failed, NoFault
  <2>2. Shapes'
    BY <1>1, <1>2, <1>4, <2>1, Constants0 DEF Shapes, Returned, Labels, CallSet, Locs
  <2>3. tfs_last_error' = "IO" /\ faults' > 0
    BY <1>4, <1>5, <1>3 DEF Failed, NoFault
  <2>4. First' = First /\ Here' = Here
    BY <1>1, <1>2, <2>1 DEF First, Emptying, Returned, Here
  <2>5. Nth(At', Here', hnd'.curr_blk)
    BY <1>1, <1>2, <2>1, <2>4, StoreKeepsPlace DEF drive_write_block
  <2>6. item'.blk \in {0, hnd'.first_blk}
    BY <1>1, <1>2, <2>1 DEF ItemRight, Emptied
  <2> QED BY <1>4, <2>1, <2>2, <2>3, <2>5, <2>6, ReturnFailed
<1>6. CASE ~Failed
  <2>1. /\ pc' = "freeing" /\ UNCHANGED <<call, loc>> /\ NoFault
        /\ disk' = [disk EXCEPT ![hnd.curr_blk] = blk_buf] /\ tfs_last_error' = "OK"
    BY <1>1, <1>4, <1>6 DEF Failed, Proceed
  <2>2. ~Emptying' /\ First' = First /\ First = hnd.first_blk /\ Here' = Here
    BY <1>1, <1>2, <1>3, <2>1 DEF Emptying, First, Here
  <2>3. /\ Here < BlkCount /\ (\A n \in 0 .. Here : At'[n] = At[n]) /\ At'[Here + 1] = 0 /\ NoCycle(At')
        /\ \A n \in 0 .. BlkCount : At'[n] # 0 =>
             /\ At'[n] \in used' /\ n \in 0 .. Here + 1
             /\ IF n = Here + 1 THEN At'[n] = blk_buf.next /\ ~disk'[blk_buf.next].known
                ELSE /\ disk'[At'[n]].known
                     /\ disk'[At'[n]].prev = IF n = 0 THEN 0 ELSE At'[n - 1]
        /\ ~disk[hnd.curr_blk].known \/ disk[hnd.curr_blk].next = 0 =>
              ChainBlks(First)' = (ChainBlks(First) \cup {0}) \ {0}
    BY <1>1, <1>2, <1>3, <2>1, <2>2, StoreLast
  <2>4. Shapes'
    BY <1>1, <1>2, <1>4, <2>1 DEF Shapes, Labels
  <2>5. Calls'
    BY <1>1, <1>2, <1>3, <2>1 DEF Calls
  <2>6. Walkable'
    BY <1>3, <2>3 DEF Walkable
  <2>7. Placed' /\ Buffered'
    BY <1>1, <1>2, <1>3, <2>1, <2>2, <2>3 DEF Placed, Nth, Buffered
  <2>8. ItemRight'
    BY <1>1, <1>2, <1>3, <2>1, <2>2 DEF ItemRight, Emptied
  <2>9. faults = 0 => before.lost = used \ ChainBlks(First)
    BY <1>1, <1>2 DEF Accounted, Spare
  <2> DEFINE rest == Walk(disk', loc.free_from)
  <2>10. BlkAt(loc.free_from)' = rest
    BY <2>1 DEF BlkAt
  <2>11. /\ Cut' /\ ChainBlks(First) = ChainBlks(First)' \cup ChainBlks(loc.free_from)'
    <3>1. /\ ChainBlks(First)' = {At'[n] : n \in 0 .. BlkCount} \ {0}
          /\ ChainBlks(First) = {At[n] : n \in 0 .. BlkCount} \ {0}
          /\ ChainBlks(loc.free_from)' = {rest[n] : n \in 0 .. BlkCount} \ {0}
      BY <2>10 DEF ChainBlks, At
    <3>2. CASE loc.free_from = 0
      <4>1. \A n \in 0 .. BlkCount : rest[n] = 0
        BY <3>2, WalkNone
      <4>2. NoCycle(rest)
        BY <4>1, Sizes DEF NoCycle
      <4>3. ChainBlks(loc.free_from)' = {}
        BY <3>1, <4>1
      <4>4. ChainBlks(First)' = ChainBlks(First)
        BY <1>3, <2>3, <3>1, <3>2
      <4> QED BY <2>10, <4>1, <4>2, <4>3, <4>4 DEF Cut
    <3>3. CASE loc.free_from # 0
      <4> DEFINE m == Here
                 j == BlkCount - (m + 1)
      <4>1. disk[hnd.curr_blk].known /\ loc.free_from = At[m + 1]
        BY <1>2, <1>3, <3>3, NextPlace
      <4>2. /\ \A n \in 0 .. m : At'[n] = At[n]
            /\ \A n \in m + 1 .. BlkCount : At'[n] = 0
            /\ \A n \in 0 .. j : rest[n] = At[m + 1 + n]
            /\ \A n \in 0 .. BlkCount : n > j => rest[n] = 0
            /\ NoCycle(rest)
        <5> DEFINE d == disk
                   e == disk'
                   f == First
        <5>1. d \in [Blocks -> Blks] /\ e \in [Blocks -> Blks] /\ f \in Ptrs /\ m \in 0 .. BlkCount
          BY <1>2, <1>4, AtFacts DEF Shapes
        <5>2. /\ NoCycle(Walk(d, f)) /\ Walk(d, f)[m] # 0
              /\ \A a \in Blocks : a # Walk(d, f)[m] => e[a] = d[a]
              /\ Follow(e, Walk(d, f)[m]) = 0
          BY <1>2, <1>3, <2>1, AtFacts DEF Walkable, Follow, Shapes
        <5> HIDE DEF d, e, f, m
        <5>3. /\ \A n \in 0 .. m : Walk(e, f)[n] = Walk(d, f)[n]
              /\ \A n \in m + 1 .. BlkCount : Walk(e, f)[n] = 0
              /\ \A n \in 0 .. BlkCount - (m + 1) : Walk(e, Walk(d, f)[m + 1])[n] = Walk(d, f)[m + 1 + n]
              /\ \A n \in 0 .. BlkCount : n > BlkCount - (m + 1) => Walk(e, Walk(d, f)[m + 1])[n] = 0
              /\ NoCycle(Walk(e, Walk(d, f)[m + 1]))
          BY <5>1, <5>2, WalkCut
        <5>4. At = Walk(d, f) /\ At' = Walk(e, f) /\ rest = Walk(e, Walk(d, f)[m + 1])
          BY <2>2, <4>1, AtFacts DEF d, e, f, At, BlkAt, m
        <5> QED BY <5>3, <5>4
      <4>3. /\ NoCycle(At) /\ \A i, k \in 0 .. BlkCount : At[i] = At[k] /\ At[i] # 0 => i = k
        BY <1>2 DEF Walkable, NoCycle
      <4>4. ASSUME NEW n \in 0 .. BlkCount, rest[n] # 0
            PROVE  /\ m + 1 + n \in m + 1 .. BlkCount /\ rest[n] = At[m + 1 + n] /\ m + 1 + n \in 0 .. BlkCount
                   /\ rest[n] \in used /\ disk'[rest[n]].known
                   /\ \A k \in 0 .. BlkCount : At'[k] # rest[n]
        <5>1. n \in 0 .. j /\ m \in Nat /\ j \in Nat
          BY <1>2, <2>3, <4>2, <4>4, Sizes
        <5>2. m + 1 + n \in m + 1 .. BlkCount /\ m + 1 + n \in 0 .. BlkCount /\ m + 1 + n # m
          BY <5>1, Sizes
        <5>3. rest[n] = At[m + 1 + n]
          BY <4>2, <5>1
        <5> DEFINE i == m + 1 + n
        <5>4. i \in 0 .. BlkCount /\ i # m /\ i > m /\ m \in 0 .. BlkCount
          BY <5>2, <5>1, <1>2
        <5> HIDE DEF i, m, j, rest
        <5>5. At[i] # 0 /\ At[i] # hnd.curr_blk
          BY <4>3, <4>4, <5>3, <5>4, <1>3 DEF i, m
        <5>6. At[i] \in used /\ disk[At[i]].known
          BY <1>2, <5>4, <5>5 DEF Walkable
        <5>7. disk'[At[i]].known
          BY <1>2, <2>1, <5>5, <5>6 DEF Shapes
        <5>8. \A k \in 0 .. BlkCount : At'[k] # At[i]
          <6> TAKE k \in 0 .. BlkCount
          <6>1. k \in 0 .. m \/ k \in m + 1 .. BlkCount
            BY <5>4, Sizes
          <6>2. CASE k \in 0 .. m
            <7>1. k # i /\ At'[k] = At[k]
              BY <4>2, <5>4, <6>2
            <7> QED BY <4>3, <5>4, <5>5, <7>1
          <6> QED BY <4>2, <5>5, <6>1, <6>2
        <5> QED BY <5>2, <5>3, <5>6, <5>7, <5>8 DEF i
      <4>5. Cut'
        BY <1>1, <2>10, <4>2, <4>4 DEF Cut
      <4>6. ASSUME NEW n \in 0 .. BlkCount, At[n] # 0
            PROVE  \/ \E k \in 0 .. BlkCount : At'[k] = At[n]
                   \/ \E k \in 0 .. BlkCount : rest[k] = At[n]
        <5>1. CASE n \in 0 .. m
          BY <4>2, <5>1
        <5>2. CASE n \notin 0 .. m
          <6>1. n - (m + 1) \in 0 .. j /\ m + 1 + (n - (m + 1)) = n /\ n - (m + 1) \in 0 .. BlkCount
            BY <1>2, <2>3, <5>2, Sizes
          <6>2. rest[n - (m + 1)] = At[n]
            BY <4>2, <6>1
          <6> QED BY <6>1, <6>2
        <5> QED BY <5>1, <5>2
      <4>7. ASSUME NEW n \in 0 .. BlkCount, At'[n] # 0
            PROVE  \E k \in 0 .. BlkCount : At[k] = At'[n]
        <5>1. n \in 0 .. m
          BY <1>2, <4>2, <4>7, Sizes
        <5> QED BY <4>2, <5>1
      <4>8. \A n \in 0 .. BlkCount : rest[n] # 0 => \E k \in 0 .. BlkCount : At[k] = rest[n]
        BY <4>4
      <4> HIDE DEF rest, m, j
      <4> QED BY <3>1, <4>5, <4>6, <4>7, <4>8
    <3> QED BY <3>2, <3>3
  <2>12. Accounted'
    <3>1. Spare' = ChainBlks(loc.free_from)'
      BY <2>1 DEF Spare
    <3> QED BY <1>1, <2>1, <2>9, <2>11, <3>1 DEF Accounted, NoFault
  <2> QED BY <1>4, <2>4, <2>5, <2>6, <2>7, <2>8, <2>11, <2>12 DEF IInv
<1> QED BY <1>5, <1>6

\* A block goes back to the drive, and the rest follows it.
LEMMA FreeFileBlocks ==
  ASSUME IInv, free_file_blocks
  PROVE  IInv'
<1> DEFINE f == loc.free_from
<1>1. /\ pc = "freeing" /\ f # 0
      /\ \/ /\ Fault /\ used' \in {used, used \ {f}} /\ Returned /\ UNCHANGED blk_buf
         \/ /\ NoFault /\ used' = used \ {f} /\ blk_buf' = disk[f]
            /\ Proceed("freeing", [loc EXCEPT !.free_from = FreeRest(blk_buf')])
      /\ disk' = [b \in Blocks |-> IF b \in used \ used' THEN Forgotten(disk[b]) ELSE disk[b]]
      /\ UNCHANGED <<item, hnd, got, ret, before, slip>>
  BY DEF free_file_blocks
<1>2. /\ Shapes /\ Unmarked /\ Calls /\ Walkable /\ Placed /\ Cut /\ Accounted /\ ItemRight /\ ~Growing
  BY <1>1 DEF IInv, Live, Growing
<1>3. f \in Blocks /\ used' \subseteq used /\ used \subseteq Blocks /\ disk \in [Blocks -> Blks] /\ f \in Ptrs
  BY <1>1, <1>2 DEF Shapes, Ptrs
<1>4. disk' \in [Blocks -> Blks]
  <2>1. \A b \in Blocks : Forgotten(disk[b]) \in Blks
    BY <1>3, BlkFacts
  <2> QED BY <1>1, <1>3, <2>1
<1>5. Unmarked'
  <2>1. \A b \in Blocks : ~Forgotten(disk[b]).known
    BY <1>3, BlkFacts
  <2> QED BY <1>1, <1>2, <1>3, <2>1 DEF Unmarked
<1>8. disk[f].known /\ f \in used /\ \A m \in 0 .. BlkCount : At[m] # f
  <2>1. Walk(disk, f)[0] = f /\ 0 \in 0 .. BlkCount
    BY WalkSteps, Sizes
  <2> QED BY <1>1, <1>2, <2>1 DEF Cut, BlkAt
<1>9. \A a \in Blocks : a # f => disk'[a] = disk[a]
  BY <1>1, <1>3
<1>10. ASSUME First' = First
       PROVE  At' = At
  <2> DEFINE d == disk
             e == disk'
             c == First
  <2>1. \A n \in 0 .. BlkCount - 1 : Follow(e, Walk(d, c)[n]) = Follow(d, Walk(d, c)[n])
    <3> TAKE n \in 0 .. BlkCount - 1
    <3>1. n \in 0 .. BlkCount /\ At = Walk(d, c) /\ At \in [0 .. BlkCount -> Ptrs]
      BY <1>2, AtFacts, Sizes
    <3>2. At[n] = 0 \/ (At[n] \in Blocks /\ At[n] # f)
      BY <1>8, <3>1 DEF Ptrs
    <3>3. At[n] = 0 \/ e[At[n]] = d[At[n]]
      BY <1>9, <3>2
    <3> QED BY <3>1, <3>3 DEF Follow
  <2> HIDE DEF d, e, c
  <2>2. Walk(e, c) = Walk(d, c)
    BY <2>1, WalkSame
  <2> QED BY <1>10, <2>2 DEF d, e, c, At, BlkAt
<1>6. CASE Fault /\ Returned /\ UNCHANGED blk_buf
  <2>1. Shapes'
    BY <1>1, <1>2, <1>3, <1>4, <1>6, FaultFacts, Constants0 DEF Shapes, Returned, Labels, CallSet, Locs
  <2>2. faults' > 0 /\ Here' = Here /\ item'.blk \in {0, hnd'.first_blk}
    BY <1>1, <1>2, <1>6, Sizes DEF Fault, Here, Shapes, ItemRight, Emptied
  <2>3. First' = hnd.first_blk /\ First' \in Ptrs
    BY <1>1, <1>2, <1>6 DEF Returned, First, Emptying, Shapes
  <2>4. ASSUME Usable', hnd.curr_blk # 0
        PROVE  Nth(At', Here, hnd.curr_blk)
    <3>1. CASE ~Emptying
      <4>1. First' = First
        BY <2>3, <3>1 DEF First
      <4> QED BY <1>1, <1>2, <1>10, <2>4, <3>1, <4>1 DEF Placed
    <3>2. CASE Emptying
      <4>1. SoundChain(hnd.first_blk)'
        BY <1>1, <2>2, <2>4 DEF Usable
      <4>2. BlkAt(hnd.first_blk)'[0] = hnd.first_blk /\ 0 \in 0 .. BlkCount - 1
        <5>1. Walk(disk', hnd.first_blk)[0] = hnd.first_blk
          BY WalkSteps
        <5> QED BY <1>1, <5>1, Sizes DEF BlkAt
      <4>3. hnd.first_blk \in used' \cup {0}
        BY <1>1, <4>1, <4>2 DEF SoundChain
      <4>4. f = hnd.first_blk /\ Nth(BlkAt(hnd.first_blk), Here, hnd.curr_blk)
        BY <1>2, <1>3, <2>4, <3>2, <4>3 DEF ItemRight, Emptied, Emptying
      <4>5. used' = used
        BY <1>1, <1>6, <4>3, <4>4
      <4>6. disk' = disk
        BY <1>1, <1>3, <4>5
      <4> QED BY <2>3, <4>4, <4>6 DEF At, BlkAt
    <3> QED BY <3>1, <3>2
  <2> QED BY <1>1, <1>5, <1>6, <2>1, <2>2, <2>4, ReturnFailed
<1>7. CASE /\ NoFault /\ used' = used \ {f} /\ blk_buf' = disk[f]
           /\ Proceed("freeing", [loc EXCEPT !.free_from = FreeRest(blk_buf')])
  <2> DEFINE g == disk[f].next
             rest == Walk(disk, f)
             now  == Walk(disk', g)
  <2>1. /\ pc' = "freeing" /\ UNCHANGED call /\ loc' = [loc EXCEPT !.free_from = g]
    BY <1>7 DEF Proceed, FreeRest
  <2>2. g \in Ptrs /\ blk_buf' \in Blks
    BY <1>3, <1>7 DEF Blks
  <2>3. /\ loc' \in Locs /\ loc'.free_from = g /\ loc'.offset = loc.offset /\ loc'.len = loc.len
    BY <1>2, <2>1, <2>2 DEF Shapes, Locs
  <2>4. Shapes'
    BY <1>1, <1>2, <1>3, <1>4, <1>7, <2>1, <2>2, <2>3 DEF Shapes, NoFault, Labels, Locs
  <2>5. Calls'
    BY <1>1, <1>2, <1>7, <2>1, <2>3 DEF Calls, NoFault
  <2>6. (Emptying' <=> Emptying) /\ First' = First /\ Here' = Here
    BY <1>1, <2>1 DEF Emptying, First, Here
  <2>7. /\ NoCycle(rest) /\ rest[0] = f /\ 0 \in 0 .. BlkCount
        /\ \A n \in 0 .. BlkCount : rest[n] # 0 =>
             rest[n] \in used /\ disk[rest[n]].known /\ \A m \in 0 .. BlkCount : At[m] # rest[n]
    BY <1>1, <1>2, WalkSteps, Sizes DEF Cut, BlkAt
  <2>8. disk[f].known /\ f \in used /\ \A m \in 0 .. BlkCount : At[m] # f
    BY <1>8
  <2>9. \A a \in Blocks : a # f => disk'[a] = disk[a]
    BY <1>9
  <2>10. /\ \A n \in 0 .. BlkCount - 1 : now[n] = rest[n + 1]
         /\ now[BlkCount] = 0 /\ NoCycle(now)
    <3> DEFINE d == disk
               e == disk'
    <3>1. /\ d \in [Blocks -> Blks] /\ e \in [Blocks -> Blks] /\ d[f].known /\ NoCycle(Walk(d, f))
          /\ \A a \in Blocks : a # f => e[a] = d[a]
      BY <1>3, <1>4, <2>7, <2>8, <2>9
    <3> HIDE DEF d, e, f
    <3>2. /\ \A n \in 0 .. BlkCount - 1 : Walk(e, d[f].next)[n] = Walk(d, f)[n + 1]
          /\ Walk(e, d[f].next)[BlkCount] = 0
          /\ NoCycle(Walk(e, d[f].next))
      BY <1>3, <3>1, WalkTail
    <3> QED BY <3>2 DEF d, e
  <2>11. At' = At
    BY <1>10, <2>6
  <2>12. Walkable'
    <3> SUFFICES ASSUME NEW n \in 0 .. BlkCount, At[n] # 0
                 PROVE  At[n] \in used' /\ disk'[At[n]].known /\ disk'[At[n]].prev = IF n = 0 THEN 0 ELSE At[n - 1]
      BY <1>2, <2>11 DEF Walkable
    <3>1. /\ At[n] \in used /\ disk[At[n]].known /\ disk[At[n]].prev = IF n = 0 THEN 0 ELSE At[n - 1]
      BY <1>2 DEF Walkable
    <3> QED BY <1>3, <1>7, <2>8, <2>9, <3>1
  <2>13. Placed' /\ Buffered'
    BY <1>1, <1>2, <2>1, <2>6, <2>11 DEF Placed, Nth, Buffered
  <2>14. ASSUME NEW n \in 0 .. BlkCount, now[n] # 0
         PROVE  /\ n + 1 \in 0 .. BlkCount /\ now[n] = rest[n + 1] /\ now[n] # f
                /\ now[n] \in used' /\ disk'[now[n]].known /\ \A m \in 0 .. BlkCount : At'[m] # now[n]
    <3>1. n \in 0 .. BlkCount - 1 /\ n + 1 \in 0 .. BlkCount /\ n + 1 # 0
      BY <2>10, <2>14, Sizes
    <3>2. now[n] = rest[n + 1]
      BY <2>10, <3>1
    <3> HIDE DEF now, rest
    <3>3. rest[n + 1] # f
      BY <1>1, <2>7, <3>1 DEF NoCycle
    <3> QED BY <1>3, <1>7, <2>7, <2>9, <2>11, <2>14, <3>1, <3>2, <3>3
  <2>15. BlkAt(loc.free_from)' = now
    BY <2>3 DEF BlkAt
  <2>16. Cut'
    BY <2>10, <2>14, <2>15 DEF Cut
  <2>17. ChainBlks(f) = {f} \cup ChainBlks(loc.free_from)' /\ f \notin ChainBlks(loc.free_from)'
    <3>1. /\ ChainBlks(f) = {rest[n] : n \in 0 .. BlkCount} \ {0}
          /\ ChainBlks(loc.free_from)' = {now[n] : n \in 0 .. BlkCount} \ {0}
      BY <2>15 DEF ChainBlks, BlkAt
    <3>2. \A n \in 0 .. BlkCount : n # 0 => n - 1 \in 0 .. BlkCount /\ rest[n] = now[n - 1]
      <4> TAKE n \in 0 .. BlkCount
      <4> HAVE n # 0
      <4>1. n - 1 \in 0 .. BlkCount - 1 /\ (n - 1) + 1 = n /\ n - 1 \in 0 .. BlkCount
        BY Sizes
      <4>2. now[n - 1] = rest[(n - 1) + 1]
        BY <2>10, <4>1
      <4> QED BY <4>1, <4>2
    <3>3. \A n \in 0 .. BlkCount : now[n] # 0 =>
            now[n] # f /\ \E m \in 0 .. BlkCount : rest[m] = now[n]
      BY <2>14
    <3>4. \A n \in 0 .. BlkCount : rest[n] = f \/ \E m \in 0 .. BlkCount : now[m] = rest[n]
      BY <2>7, <3>2
    <3>5. f # 0 /\ \E m \in 0 .. BlkCount : rest[m] = f
      BY <1>1, <2>7
    <3> HIDE DEF now, rest, f
    <3> QED BY <3>1, <3>3, <3>4, <3>5
  <2>18. Accounted'
    <3>1. ChainBlks(First)' = ChainBlks(First)
      BY <2>11 DEF ChainBlks, At
    <3>2. Spare' = ChainBlks(loc.free_from)' /\ Spare = ChainBlks(f)
      BY <1>1, <2>1 DEF Spare
    <3> HIDE DEF f
    <3> QED BY <1>1, <1>2, <1>7, <2>17, <3>1, <3>2 DEF Accounted, NoFault
  <2>19. ItemRight'
    BY <1>1, <1>2, <1>3, <1>7, <2>1, <2>6 DEF ItemRight, Emptied, Emptying
  <2> QED BY <1>5, <2>4, <2>5, <2>12, <2>13, <2>16, <2>18, <2>19 DEF IInv
<1> QED BY <1>1, <1>6, <1>7

\* tfs_trunc has freed the blocks that were cut off.
LEMMA TruncFreed ==
  ASSUME IInv, trunc_freed
  PROVE  IInv'
<1>1. /\ pc = "freeing" /\ loc.free_from = 0 /\ pc' = "update"
      /\ hnd' = IF call.offset = 0 THEN init_pos([hnd EXCEPT !.first_blk = 0]) ELSE hnd
      /\ UNCHANGED <<disk, used, item, blk_buf, tfs_last_error, call, loc, got, ret, before, faults>>
      /\ slip' = IF call.offset = 0 THEN 0 ELSE slip
  BY DEF trunc_freed
<1>2. /\ Shapes /\ Unmarked /\ Calls /\ Walkable /\ Placed /\ Accounted /\ ItemRight /\ ~Growing
  BY <1>1 DEF IInv, Live, Growing
<1>3. hnd \in Hnds /\ 0 \in Ptrs /\ call.op = "trunc" /\ tfs_last_error = "OK"
  BY <1>1, <1>2, Sizes DEF Shapes, Hnds, Calls
<1>4. call.offset = 0 => hnd' \in Hnds /\ hnd'.first_blk = 0 /\ hnd'.curr_blk = 0
  <2> DEFINE g == [hnd EXCEPT !.first_blk = 0]
  <2>1. g \in Hnds /\ g.first_blk = 0
    BY <1>3 DEF Hnds
  <2> HIDE DEF g
  <2> QED BY <1>1, <2>1, StartPosFacts DEF g
<1>5. hnd' \in Hnds /\ (call.offset # 0 => hnd' = hnd)
  BY <1>1, <1>3, <1>4
<1>6. ~Emptying' /\ (Emptying <=> call.offset = 0) /\ First' = First
  BY <1>1, <1>4, <1>5 DEF Emptying, First
<1>7. At' = At /\ ChainBlks(First)' = ChainBlks(First)
  BY <1>1, <1>6, AtSame
<1>8. Shapes' /\ Unmarked'
  BY <1>1, <1>2, <1>5 DEF Shapes, Hnds, Labels, Unmarked
<1>9. Calls'
  BY <1>1, <1>2, <1>3 DEF Calls
<1>10. Walkable'
  BY <1>1, <1>2, <1>7 DEF Walkable
<1>11. Placed' /\ Buffered' /\ Cut'
  BY <1>1, <1>2, <1>4, <1>5, <1>6, <1>7 DEF Placed, Nth, Buffered, Cut, Here
<1>12. Accounted'
  <2>1. Spare = {} /\ Spare' = {}
    BY <1>1, WalkNone DEF Spare, ChainBlks, BlkAt
  <2> QED BY <1>1, <1>2, <1>7, <2>1 DEF Accounted
<1>13. ItemRight'
  <2>1. CASE call.offset # 0
    BY <1>1, <1>2, <1>5, <2>1 DEF ItemRight, Emptied, Emptying
  <2>2. CASE call.offset = 0
    <3>1. 0 \notin used /\ item.blk \in {0, hnd.first_blk} /\ (hnd.first_blk \in used => hnd.first_blk = 0)
      BY <1>1, <1>2, <2>2, Sizes DEF ItemRight, Emptied, Emptying, Shapes
    <3> QED BY <1>1, <1>3, <2>2, <3>1 DEF ItemRight, Emptied
  <2> QED BY <2>1, <2>2
<1> QED BY <1>8, <1>9, <1>10, <1>11, <1>12, <1>13 DEF IInv

-----------------------------------------------------------------------------
(* The invariant.                                                          *)

\* The invariant holds for a file that was opened.
LEMMA InitInv ==
  ASSUME Init
  PROVE  IInv /\ Saved
<1> DEFINE h == [size |-> item.size, first_blk |-> item.blk, curr_blk |-> 0, curr_pos |-> 0]
<1>1. /\ hnd = init_pos(h) /\ blk_buf = Junk /\ tfs_last_error = "OK" /\ pc = "idle" /\ call = NoCall
      /\ loc = NoLoc /\ before = Snapshot(hnd, {}, FALSE) /\ slip = 0 /\ faults = 0
  BY DEF Init
<1>2. /\ disk \in [Blocks -> Blks] /\ used \subseteq Blocks /\ Unmarked
      /\ item \in [blk : Ptrs, size : 0 .. MaxSize]
      /\ item.blk # 0 => /\ item.blk \in used /\ disk[item.blk].known
                         /\ disk[item.blk].prev = 0 /\ disk[item.blk].next = 0
      /\ used = {item.blk} \ {0}
  <2>1. CASE EmptyFile
    BY <2>1, BlkFacts, Sizes DEF EmptyFile, Unmarked
  <2>2. CASE WrittenFile
    <3>1. PICK v \in Bytes :
            /\ disk = [b \in Blocks |->
                         IF b = 1 THEN DataBlk(0, 0, [o \in Offs |-> IF o = 0 THEN v ELSE Stale]) ELSE Junk]
            /\ used = {1} /\ item = [blk |-> 1, size |-> 1]
      BY <2>2 DEF WrittenFile
    <3> DEFINE x == [o \in Offs |-> IF o = 0 THEN v ELSE Stale]
    <3>2. x \in [Offs -> Bytes \cup {0, Stale}]
      OBVIOUS
    <3> HIDE DEF x
    <3>3. 1 \in Blocks /\ 1 \in Ptrs /\ 0 \in Ptrs /\ 1 \in 0 .. MaxSize
      BY Sizes DEF Blocks, Ptrs
    <3>4. /\ DataBlk(0, 0, x) \in Blks /\ DataBlk(0, 0, x).known
          /\ DataBlk(0, 0, x).prev = 0 /\ DataBlk(0, 0, x).next = 0
      BY <3>2, <3>3, BlkFacts
    <3>5. disk = [b \in Blocks |-> IF b = 1 THEN DataBlk(0, 0, x) ELSE Junk]
      BY <3>1 DEF x
    <3> QED BY <3>1, <3>3, <3>4, <3>5, BlkFacts DEF Unmarked
  <2> QED BY <2>1, <2>2 DEF Init
<1>3. h \in Hnds /\ h.first_blk = item.blk
  BY <1>2, Sizes, Constants0 DEF Hnds
<1> HIDE DEF h
<1>4. hnd \in Hnds /\ hnd.first_blk = item.blk /\ hnd.curr_blk = item.blk /\ hnd.curr_pos = 0
  BY <1>1, <1>3, StartPosFacts
<1>5. Shapes
  BY <1>1, <1>2, <1>4, BlkFacts, Constants0, Sizes DEF Shapes, Hnds, Locs, CallSet, Labels
<1>6. First = item.blk /\ ~Emptying /\ At = Walk(disk, item.blk) /\ item.blk \in Ptrs /\ Here = 0
  BY <1>1, <1>2, <1>4, Sizes DEF First, Emptying, At, BlkAt, Here
<1>7. At[0] = item.blk /\ \A n \in 0 .. BlkCount : n # 0 => At[n] = 0
  <2>1. At[0] = item.blk /\ At[0 + 1] = Follow(disk, At[0])
    <3>1. 0 \in 0 .. BlkCount - 1
      BY Sizes
    <3> QED BY <1>5, <1>6, <3>1, AtFacts
  <2>2. At[1] = 0
    BY <1>2, <2>1 DEF Follow
  <2>3. \A n \in 0 .. BlkCount : n # 0 => 1 <= n /\ 1 \in 0 .. BlkCount
    BY Sizes
  <2> QED BY <1>5, <2>1, <2>2, <2>3, AtFacts
<1>8. Walkable
  <2>1. NoCycle(At)
    BY <1>7, Sizes DEF NoCycle
  <2> QED BY <1>2, <1>7, <2>1 DEF Walkable
<1>9. Placed /\ Buffered /\ Cut
  <2>1. item.blk # 0 => Nth(At, Here, hnd.curr_blk)
    BY <1>4, <1>6, <1>7, Sizes DEF Nth
  <2> QED BY <1>1, <1>4, <2>1 DEF Placed, Buffered, Cut
<1>10. Accounted /\ ItemRight /\ Calls
  <2>1. ChainBlks(First) = {item.blk} \ {0}
    BY <1>5, <1>7, AtFacts, Sizes
  <2>2. before.lost = {}
    BY <1>1 DEF Snapshot
  <2>3. Accounted
    BY <1>1, <1>2, <2>1, <2>2 DEF Accounted, Spare
  <2>4. ~Emptied
    BY <1>1 DEF Emptied
  <2> QED BY <1>1, <1>4, <1>6, <2>3, <2>4, Constants0 DEF ItemRight, Calls
<1>11. Saved
  BY <1>4 DEF Saved
<1> QED BY <1>2, <1>5, <1>8, <1>9, <1>10, <1>11 DEF IInv

\* The directory item is told of the first block, or the drive was full before.
LEMMA SavedNext ==
  ASSUME IInv, Saved, [Next]_vars
  PROVE  Saved'
<1>1. CASE Call
  <2>1. pc = "idle" /\ item' = item /\ faults' = faults
    BY <1>1 DEF Call, tfs_read, tfs_write, tfs_read_beyond, tfs_trunc, reopen, Enter
  <2>2. Shapes /\ (faults # 0 \/ item.blk = hnd.first_blk \/ Unsaved)
    BY <2>1 DEF IInv, Saved, Shapes
  <2>3. CASE Enter /\ \E p \in 0 .. MaxSize : hnd' = hnd \/ hnd' = StartPos(hnd, p)
    <3>1. hnd \in Hnds
      BY <2>2 DEF Shapes, Hnds
    <3>2. hnd'.first_blk = hnd.first_blk
      BY <2>3, <3>1, StartPosFacts
    <3>3. before'.unsaved = Unsaved
      BY <2>3 DEF Enter, Snapshot
    <3> QED BY <2>1, <2>2, <3>2, <3>3 DEF Saved, Unsaved
  <2>4. CASE reopen
    <3> DEFINE h == [size |-> item.size, first_blk |-> item.blk, curr_blk |-> 0, curr_pos |-> 0]
    <3>1. h \in Hnds
      BY <2>2, Sizes, Constants0 DEF Hnds, Shapes
    <3>2. hnd' = init_pos(h)
      BY <2>4 DEF reopen
    <3>3. hnd'.first_blk = item.blk
      BY <3>1, <3>2, StartPosFacts
    <3> QED BY <2>1, <3>3 DEF Saved
  <2>5. ASSUME NEW offset \in 0 .. MaxSize, NEW len \in 0 .. MaxSize, NEW v \in Bytes,
               tfs_read(len, offset) \/ tfs_write(len, offset, v)
        PROVE  Saved'
    BY <2>3, <2>5 DEF tfs_read, tfs_write
  <2>6. ASSUME NEW size \in 0 .. MaxSize, tfs_read_beyond(size) \/ tfs_trunc(size)
        PROVE  Saved'
    BY <2>3, <2>6 DEF tfs_read_beyond, tfs_trunc
  <2>7. CASE \E offset \in 0 .. MaxSize, len \in 0 .. MaxSize : tfs_read(len, offset)
    BY <2>3, <2>7 DEF tfs_read
  <2> QED BY <1>1, <2>4, <2>5, <2>6, <2>7 DEF Call
<1>2. CASE UNCHANGED vars
  BY <1>2 DEF vars, Saved, Unsaved
<1>3. CASE Step
  <2> SUFFICES ASSUME faults' = 0 PROVE Saved'
    BY DEF Saved
  <2>1. pc # "idle" /\ Shapes /\ Unmarked
    BY <1>3 DEF IInv, Step, seek_back, seek_forward, seek_ok, seek_eof, seek_append, seek_first, seek_extend,
       seek_link, seek_done, write_fill, write_alloc, write_store, write_fetch, update_dir_item, read_copy,
       read_next, trunc_cut, trunc_store, free_file_blocks, trunc_freed, Seeking
  <2>2. Calls /\ ItemRight
    BY <2>1 DEF IInv, Live
  <2>3. before' = before /\ faults = 0
    <3>1. before' = before
      BY <1>3 DEF Step, seek_back, seek_forward, seek_ok, seek_eof, seek_append, seek_first,
         seek_extend, seek_link, seek_done, write_fill, write_alloc, write_store, write_fetch, update_dir_item,
         read_copy, read_next, trunc_cut, trunc_store, free_file_blocks, trunc_freed
    <3>2. faults \in Nat
      BY <2>1, Sizes DEF Shapes
    <3>3. faults' = faults \/ faults' = faults + 1
      <4>1. CASE seek_forward \/ seek_ok \/ write_fetch \/ read_next
        BY <4>1 DEF seek_forward, seek_ok, write_fetch, read_next, drive_read_block, Fault, NoFault
      <4>2. CASE seek_link \/ write_store \/ trunc_store
        BY <4>2 DEF seek_link, write_store, trunc_store, drive_write_block, Fault, NoFault
      <4>3. CASE seek_first \/ seek_extend \/ write_alloc
        <5>1. \A b : alloc_block(b) => faults' = faults \/ faults' = faults + 1
          BY DEF alloc_block, Fault, NoFault
        <5> QED BY <4>3, <5>1 DEF seek_first, seek_extend, write_alloc
      <4>4. CASE seek_back \/ update_dir_item \/ free_file_blocks
        BY <4>4 DEF seek_back, update_dir_item, free_file_blocks, Fault, NoFault
      <4>5. CASE seek_eof \/ seek_append \/ seek_done \/ write_fill \/ read_copy \/ trunc_cut \/ trunc_freed
        BY <4>5 DEF seek_eof, seek_append, seek_done, write_fill, read_copy, trunc_cut, trunc_freed
      <4> QED BY <1>3, <4>1, <4>2, <4>3, <4>4, <4>5 DEF Step
    <3> QED BY <3>1, <3>2, <3>3
  <2>4. tfs_last_error # "IO" /\ hnd \in Hnds /\ loc \in Locs
    BY <2>1, <2>3, Sizes DEF Shapes, Hnds, Locs
  \* As it is for steps that leave the item alone.
  <2>5. ASSUME item' = item, hnd'.first_blk = hnd.first_blk,
               tfs_last_error' = tfs_last_error \/ tfs_last_error = "OK",
               \/ pc' \in {"extend", "link", "cutstore", "freeing", "update"}
               \/ /\ pc \in {"fill", "prealloc", "store", "fetch"} /\ loc'.update_item = loc.update_item
                  /\ pc' \in {"fill", "prealloc", "store", "fetch"}
               \/ pc \notin {"extend", "link", "cutstore", "freeing", "update", "fill", "prealloc", "store", "fetch"}
        PROVE  Saved'
    BY <2>3, <2>5 DEF Saved, Unsaved
  \* A call that runs into a full drive.
  <2>6. ASSUME item' = item, hnd'.first_blk = hnd.first_blk, item.blk \in {0, hnd.first_blk},
               tfs_last_error' = "DISK_FULL"
        PROVE  Saved'
    BY <2>6 DEF Saved, Unsaved
  <2>7. /\ pc \in {"seek", "extend", "link", "prealloc", "store"} => item.blk \in {0, hnd.first_blk}
        /\ pc \notin {"link", "store"} => tfs_last_error = "OK"
        /\ pc \in {"extend", "link"} => call.op \in {"trunc", "write"}
    BY <2>1, <2>2 DEF ItemRight, Emptied, Emptying, Calls
  <2>19. (pc \in {"link", "store"} => tfs_last_error \in {"OK", "DISK_FULL"}) /\ ~Fault
    BY <2>1, <2>2, <2>3, <2>4 DEF Calls, Shapes, Fault
  <2>8. CASE seek_back \/ seek_forward \/ seek_ok \/ seek_eof \/ read_copy \/ read_next \/ trunc_cut
    <3>1. item' = item /\ pc \in {"seek", "copy", "next", "cut"}
      BY <2>8 DEF seek_back, seek_forward, seek_ok, seek_eof, read_copy, read_next, trunc_cut, Seeking
    <3>2. hnd'.first_blk = hnd.first_blk
      BY <2>4, <2>8 DEF seek_back, seek_forward, seek_ok, seek_eof, read_copy, read_next, trunc_cut, Hnds
    <3> QED BY <2>5, <2>7, <3>1, <3>2
  <2>9. CASE seek_append \/ seek_extend
    BY <2>4, <2>5, <2>7, <2>9 DEF seek_append, seek_extend, LastPos, Hnds
  <2>10. CASE seek_first
    <3>1. PICK b \in Blocks \cup {0} :
            /\ alloc_block(b)
            /\ hnd' = IF b = 0 THEN [hnd EXCEPT !.first_blk = 0] ELSE init_pos([hnd EXCEPT !.first_blk = b])
      BY <2>10 DEF seek_first
    <3>2. pc = "seek" /\ item' = item /\ hnd.first_blk = 0 /\ (~Failed => pc' = "extend")
      BY <2>10 DEF seek_first
    <3>3. Failed => b = 0 /\ tfs_last_error' \in {"IO", "DISK_FULL"}
      BY <2>1, <2>7, <3>1, <3>2, AllocFacts DEF Failed
    <3>4. tfs_last_error' # "IO"
      <4>1. tfs_last_error' = "IO" => faults' > 0
        BY <2>1, <3>1, AllocFacts
      <4> QED BY <4>1
    <3>5. b = 0 => hnd'.first_blk = hnd.first_blk
      BY <2>4, <3>1, <3>2 DEF Hnds
    <3>6. CASE Failed
      BY <2>6, <2>7, <3>2, <3>3, <3>4, <3>5, <3>6
    <3> QED BY <3>2, <3>6 DEF Saved
  <2>11. CASE seek_link
    <3>1. NoFault /\ item' = item /\ pc = "link" /\ hnd'.first_blk = hnd.first_blk
      BY <2>4, <2>11, <2>19 DEF seek_link, drive_write_block, Hnds
    <3>2. Failed => tfs_last_error' = "DISK_FULL"
      BY <2>19, <3>1 DEF Failed, NoFault
    <3>3. ~Failed => pc' = "extend"
      BY <2>11 DEF seek_link
    <3> QED BY <2>6, <2>7, <3>1, <3>2, <3>3 DEF Saved
  <2>12. CASE seek_done
    <3>1. loc'.update_item = TRUE /\ pc' \in {"update", "fill", "cutstore"}
      BY <2>4, <2>7, <2>12 DEF seek_done, Appended, Locs
    <3> QED BY <3>1 DEF Saved
  <2>13. CASE write_fill \/ write_alloc
    BY <2>4, <2>5, <2>7, <2>13 DEF write_fill, write_alloc, Locs
  <2>14. CASE write_store
    <3>1. NoFault /\ item' = item /\ pc = "store"
      BY <2>19, <2>14 DEF write_store, drive_write_block
    <3>2. CASE Failed
      <4>1. hnd' = hnd /\ tfs_last_error' = "DISK_FULL"
        BY <2>14, <2>19, <3>1, <3>2 DEF write_store, Failed, NoFault
      <4> QED BY <2>6, <2>7, <3>1, <4>1
    <3>3. CASE ~Failed
      <4> DEFINE update == loc.update_item \/ Grown
                 sized  == [hnd EXCEPT !.size = IF Grown THEN loc.offset ELSE @]
                 l      == [loc EXCEPT !.update_item = update, !.os = 0]
      <4>1. sized.first_blk = hnd.first_blk /\ sized \in [size : Int, first_blk : Ptrs, curr_blk : Ptrs, curr_pos : Positions]
        BY <2>4, Sizes DEF Hnds, Locs
      <4>2. l.update_item = update
        <5> DEFINE y == [loc EXCEPT !.update_item = update]
        <5>1. y.update_item = update
          BY <2>4 DEF Locs
        <5>2. l = [y EXCEPT !.os = 0]
          BY <2>4 DEF Locs
        <5> HIDE DEF y, l, update
        <5> QED BY <5>1, <5>2
      <4>3. \/ /\ loc.len = 0 /\ hnd' = sized
               /\ Proceed(IF update THEN "update" ELSE "done", l)
            \/ /\ hnd'.first_blk = sized.first_blk
               /\ Proceed("fill", l) \/ Proceed("fetch", l)
        <5> HIDE DEF update, l
        <5>1. \/ loc.len = 0 /\ Proceed(IF update THEN "update" ELSE "done", l) /\ hnd' = sized
              \/ Proceed("fill", l) /\ hnd' = [sized EXCEPT !.curr_blk = blk_buf.next, !.curr_pos = @ + DataLen]
              \/ Proceed("fetch", l) /\ hnd' = [sized EXCEPT !.curr_blk = blk_buf.next]
          BY <2>14, <3>3, Zenon DEF write_store, update, l
        <5> HIDE DEF sized
        <5> QED BY <4>1, <5>1
      <4>4. hnd'.first_blk = hnd.first_blk
        BY <4>1, <4>3
      <4>5. tfs_last_error = "OK"
        BY <3>1, <3>3 DEF Failed, NoFault
      <4>6. (loc.update_item => update) /\ (item.blk = hnd.first_blk \/ before.unsaved \/ loc.update_item)
        BY <2>3, <3>1, <4>5 DEF Saved, Unsaved
      <4> HIDE DEF update, l, sized
      <4>7. CASE update
        BY <4>2, <4>3, <4>7 DEF Proceed, Saved
      <4>8. CASE ~update
        BY <2>3, <3>1, <4>4, <4>6, <4>8 DEF Saved, Unsaved
      <4> QED BY <4>7, <4>8
    <3> QED BY <3>2, <3>3
  <2>15. CASE write_fetch
    <3>1. NoFault /\ pc = "fetch" /\ item' = item
      BY <2>15, <2>19 DEF write_fetch, drive_read_block
    <3>2. ~Failed
      BY <2>7, <3>1 DEF Failed, NoFault
    <3>3. pc' = "fill" /\ loc' = loc /\ hnd'.first_blk = hnd.first_blk
      BY <2>4, <2>15, <3>2 DEF write_fetch, Proceed, Hnds
    <3> QED BY <2>5, <2>7, <3>1, <3>3
  <2>16. CASE update_dir_item
    BY <2>3, <2>16 DEF update_dir_item, Fault, Saved
  <2>17. CASE trunc_store \/ free_file_blocks
    BY <2>7, <2>17, <2>19 DEF trunc_store, free_file_blocks, drive_write_block, NoFault, Failed, Proceed, Saved
  <2>18. CASE trunc_freed
    BY <2>18 DEF trunc_freed, Saved
  <2> QED BY <1>3, <2>8, <2>9, <2>10, <2>11, <2>12, <2>13, <2>14, <2>15, <2>16, <2>17, <2>18 DEF Step
<1> QED BY <1>1, <1>2, <1>3 DEF Next

\* Every transfer and every call keeps it.
LEMMA NextInv ==
  ASSUME EmptyAppends = FALSE, IInv, Saved, [Next]_vars
  PROVE  IInv'
<1>1. ASSUME NEW offset \in 0 .. MaxSize, NEW len \in 0 .. MaxSize, NEW v \in Bytes,
             offset + len <= MaxSize, tfs_write(len, offset, v)
      PROVE  IInv'
  BY <1>1, WriteCalled
<1>2. ASSUME NEW offset \in 0 .. MaxSize, NEW len \in 0 .. MaxSize, tfs_read(len, offset)
      PROVE  IInv'
  BY <1>2, ReadCalled
<1>3. ASSUME NEW size \in 0 .. MaxSize, tfs_read_beyond(size) \/ tfs_trunc(size)
      PROVE  IInv'
  BY <1>3, ReadBeyond, TruncCalled
<1>4. CASE Call
  BY <1>1, <1>2, <1>3, <1>4, Reopened DEF Call
<1>5. CASE Step
  BY <1>5, SeekBack, SeekForward, SeekOk, SeekEof, SeekAppend, SeekFirst, SeekExtend, SeekLink,
     SeekDone, WriteFill, WriteAlloc, WriteStore, WriteFetch, UpdateDirItem, ReadCopy, ReadNext,
     TruncCut, TruncStore, FreeFileBlocks, TruncFreed DEF Step
<1>6. CASE UNCHANGED vars
  <2>1. /\ UNCHANGED <<disk, used, item, hnd, blk_buf, tfs_last_error, pc, call, loc, before, slip, faults>>
    BY <1>6 DEF vars
  <2>2. /\ First' = First /\ (Emptying' <=> Emptying) /\ (Emptied' <=> Emptied) /\ Here' = Here
        /\ (Growing' <=> Growing) /\ BlkAt(hnd.first_blk)' = BlkAt(hnd.first_blk)
    BY <2>1 DEF First, Emptying, Emptied, Here, Growing, BlkAt
  <2>12. Live' <=> Live
    BY <2>1 DEF Live, Usable, SoundChain, BlkAt
  <2>3. At' = At /\ ChainBlks(First)' = ChainBlks(First) /\ BlkAt(loc.free_from)' = BlkAt(loc.free_from)
        /\ ChainBlks(loc.free_from)' = ChainBlks(loc.free_from)
    BY <2>1, <2>2, AtSame DEF BlkAt, ChainBlks
  <2>4. (Shapes' <=> Shapes) /\ (Unmarked' <=> Unmarked) /\ (Calls' <=> Calls)
    BY <2>1 DEF Shapes, Unmarked, Calls
  <2>13. ItemRight' <=> ItemRight
    BY <2>1, <2>2 DEF ItemRight, Nth
  <2>5. Walkable' <=> Walkable
    BY <2>1, <2>2, <2>3 DEF Walkable
  <2>6. InChain(call.offset, slip)' <=> InChain(call.offset, slip)
    BY <2>1 DEF InChain, BlkAt
  <2>7. Placed' <=> Placed
    BY <2>1, <2>2, <2>3, <2>6 DEF Placed, Nth
  <2>8. Fresh(blk_buf.next)' <=> Fresh(blk_buf.next)
    BY <2>1, <2>3 DEF Fresh
  <2>9. Buffered' <=> Buffered
    BY <2>1, <2>2, <2>3, <2>8 DEF Buffered
  <2>10. Cut' <=> Cut
    BY <2>1, <2>3 DEF Cut
  <2>11. Accounted' <=> Accounted
    BY <2>1, <2>3 DEF Accounted, Spare
  <2> QED BY <2>4, <2>5, <2>7, <2>9, <2>10, <2>11, <2>12, <2>13 DEF IInv
<1> QED BY <1>4, <1>5, <1>6 DEF Next

\* While callers write no empty piece behind the blocks of the file, the invariant holds,
\* whatever transfers fail and whether or not the file is opened again after that.
THEOREM Invariance ==
  ASSUME EmptyAppends = FALSE
  PROVE  Spec => [](IInv /\ Saved)
<1>1. Init => IInv /\ Saved
  BY InitInv
<1>2. IInv /\ Saved /\ [Next]_vars => IInv' /\ Saved'
  BY NextInv, SavedNext
<1> QED BY <1>1, <1>2, PTL DEF Spec

-----------------------------------------------------------------------------
(* What it implies.                                                        *)

\* So the handle is where its position says.
LEMMA InPositionHolds ==
  ASSUME IInv
  PROVE  InPosition
<1> SUFFICES ASSUME pc = "idle", hnd.curr_blk # 0, Usable
             PROVE  hnd.curr_blk = BlkAt(hnd.first_blk)[hnd.curr_pos \div DataLen + slip]
  BY DEF InPosition
<1> QED BY IdleChain DEF Nth, Here

\* And the chain can be walked both ways.
LEMMA ChainSoundHolds ==
  ASSUME IInv
  PROVE  ChainSound
<1>1. Shapes
  BY DEF IInv
<1>2. TypeOK
  <2>1. pc \in {"fill", "copy"} => loc.os \in Offs
    BY DEF IInv, Live, Calls
  <2>2. \A b \in Blocks : disk[b].prev \in Ptrs /\ disk[b].next \in Ptrs
    BY <1>1 DEF Shapes, Blks
  <2>3. slip \in 0 .. MaxFaults
    BY <1>1, Sizes DEF Shapes
  <2> QED BY <1>1, <2>1, <2>2, <2>3 DEF TypeOK, Shapes, Ptrs, Positions
<1>3. ASSUME pc = "idle", faults = 0
      PROVE  SoundChain(hnd.first_blk)
  <2>1. Usable
    BY <1>3 DEF Usable
  <2>2. At = BlkAt(hnd.first_blk) /\ Walkable /\ ~Growing
    BY <1>3, <2>1, IdleChain
  <2>3. \A n \in 0 .. BlkCount - 1 : n \in 0 .. BlkCount
    BY Sizes
  <2> QED BY <2>2, <2>3 DEF SoundChain, Walkable, NoCycle
<1> QED BY <1>2, <1>3 DEF ChainSound

\* And what is marked is in the chain.
LEMMA NoLeakHolds ==
  ASSUME IInv
  PROVE  NoLeak
<1> SUFFICES ASSUME pc = "idle", faults = 0
             PROVE  used \ ChainBlks(hnd.first_blk) = before.lost
  BY DEF NoLeak
<1>1. Usable
  BY DEF Usable
<1> QED BY <1>1, IdleChain

\* Between calls, also with a handle that is kept after an I/O error, the current block is
\* the block of the chain that the position falls into, or one block further for each time
\* tfs_write could not read the next block since the handle was last at its start.
THEOREM HandleInPosition ==
  ASSUME EmptyAppends = FALSE
  PROVE  Spec => []InPosition
<1>1. IInv => InPosition
  BY InPositionHolds
<1> QED BY <1>1, Invariance, PTL

\* Every variable keeps its type, and as long as no transfer fails the chain of the file
\* can be walked in both directions, whatever calls ran into a full drive.
THEOREM ChainStaysSound ==
  ASSUME EmptyAppends = FALSE
  PROVE  Spec => []ChainSound
<1>1. IInv => ChainSound
  BY ChainSoundHolds
<1> QED BY <1>1, Invariance, PTL

\* As long as no transfer fails no call of tfs_write, tfs_read and tfs_trunc leaks a block,
\* and closing the file leaks none unless a call has found the drive full before the
\* directory item had a block.
THEOREM NoBlockLeaks ==
  ASSUME EmptyAppends = FALSE
  PROVE  Spec => []NoLeak
<1>1. IInv => NoLeak
  BY NoLeakHolds
<1> QED BY <1>1, Invariance, PTL

-----------------------------------------------------------------------------
(* A call that is cut short.                                               *)

\* What a call that comes back may have changed: nothing of the chain, the current block,
\* or a block that is not part of the chain any more.
LEMMA Returning ==
  ASSUME IInv, Step, Returns, ~(call.op = "trunc" /\ call.offset = 0)
  PROVE  /\ hnd'.first_blk = hnd.first_blk
         /\ item' = item \/ item'.blk = hnd.first_blk
         /\ \/ disk' = disk /\ used \subseteq used'
            \/ /\ pc \in {"link", "store", "cutstore"} /\ used' = used
               /\ disk' = [disk EXCEPT ![hnd.curr_blk] = blk_buf]
            \/ /\ pc = "freeing" /\ used' \in {used, used \ {loc.free_from}} /\ loc.free_from # 0
               /\ disk' = [b \in Blocks |-> IF b \in used \ used' THEN Forgotten(disk[b]) ELSE disk[b]]
<1>1. pc # "idle" /\ pc' = "idle"
  BY DEF Returns
<1>2. Shapes /\ Unmarked
  BY DEF IInv
<1>3. CASE seek_back
  BY <1>1, <1>3 DEF seek_back, Seeking
<1>4. CASE seek_forward
  BY <1>1, <1>4 DEF seek_forward, Seeking
<1>5. CASE seek_ok
  BY <1>5 DEF seek_ok
<1>6. CASE seek_eof
  BY <1>6 DEF seek_eof
<1>7. CASE seek_append \/ seek_done \/ trunc_freed \/ seek_extend \/ write_alloc
  <2>1. pc' \in {"extend", "fill", "cutstore", "update", "link", "store"}
    BY <1>7, <1>2, <1>1 DEF seek_append, seek_done, trunc_freed, seek_extend, write_alloc, Appended,
       IInv, Live, Calls
  <2> QED BY <1>1, <2>1
<1>8. CASE seek_first
  <2>1. PICK b \in Blocks \cup {0} :
          /\ alloc_block(b)
          /\ hnd' = IF b = 0 THEN [hnd EXCEPT !.first_blk = 0]
                    ELSE init_pos([hnd EXCEPT !.first_blk = b])
    BY <1>8 DEF seek_first
  <2>2. Failed /\ pc = "seek" /\ hnd.first_blk = 0 /\ UNCHANGED <<disk, item>>
    BY <1>1, <1>8 DEF seek_first
  <2>3. tfs_last_error = "OK"
    BY <1>1, <2>2 DEF IInv, Live, Calls
  <2>4. b = 0 /\ used \subseteq used'
    BY <1>2, <2>1, <2>2, <2>3, AllocFacts DEF Failed
  <2>5. hnd'.first_blk = hnd.first_blk
    BY <1>2, <2>1, <2>2, <2>4 DEF Shapes
  <2> QED BY <2>2, <2>4, <2>5
<1>9. CASE seek_link
  <2>1. hnd' = hnd
    BY <1>1, <1>9 DEF seek_link
  <2> QED BY <1>9, <2>1 DEF seek_link, drive_write_block
<1>10. CASE write_fill \/ trunc_cut
  <2>1. pc' \in {"prealloc", "store", "cutstore", "freeing"}
    BY <1>10 DEF write_fill, trunc_cut, AfterCut, Proceed
  <2> QED BY <1>1, <2>1
<1>11. CASE write_store
  <2>1. hnd'.first_blk = hnd.first_blk
    BY <1>2, <1>11 DEF write_store, Shapes
  <2> QED BY <1>11, <2>1 DEF write_store, drive_write_block
<1>12. CASE write_fetch
  BY <1>1, <1>12 DEF write_fetch, Proceed
<1>13. CASE update_dir_item
  BY <1>13 DEF update_dir_item
<1>14. CASE read_copy
  <2>1. hnd'.first_blk = hnd.first_blk
    BY <1>2, <1>14 DEF read_copy, Shapes
  <2> QED BY <1>14, <2>1 DEF read_copy
<1>15. CASE read_next
  BY <1>15 DEF read_next
<1>16. CASE trunc_store
  BY <1>16 DEF trunc_store, drive_write_block
<1>17. CASE free_file_blocks
  BY <1>17 DEF free_file_blocks
<1> QED BY <1>3, <1>4, <1>5, <1>6, <1>7, <1>8, <1>9, <1>10, <1>11, <1>12, <1>13, <1>14, <1>15, <1>16, <1>17
        DEF Step

\* A call that returns, tfs_trunc to nothing excepted, leaves no freed block in the chain.
LEMMA ReturnMarked ==
  ASSUME IInv, Step, Returns, ~(call.op = "trunc" /\ call.offset = 0)
  PROVE  ChainBlks(item.blk)' \subseteq used'
<1>1. pc # "idle"
  BY DEF Returns
<1>2. Shapes /\ Calls /\ Walkable /\ Placed /\ Buffered /\ Cut /\ ItemRight
  BY <1>1 DEF IInv, Live
<1>3. ~Emptying /\ First = hnd.first_blk /\ First \in Ptrs
  <2>1. ~Emptying
    BY <1>1, <1>2 DEF Emptying, Calls
  <2> QED BY <1>2, <2>1 DEF First, Shapes
<1>4. hnd'.first_blk = hnd.first_blk /\ item'.blk \in {0, hnd.first_blk}
  <2>1. call.op # "trunc" \/ call.offset # 0
    OBVIOUS
  <2>2. item.blk \in {0, hnd.first_blk}
    BY <1>2, <2>1 DEF ItemRight, Emptied
  <2> QED BY <2>2, Returning
<1> DEFINE now == Walk(disk', First)
<1>5. SUFFICES \A n \in 0 .. BlkCount : now[n] # 0 => now[n] \in used'
  <2>1. \A n \in 0 .. BlkCount : Walk(disk', 0)[n] = 0
    BY WalkNone
  <2>2. ChainBlks(item.blk)' = {Walk(disk', item'.blk)[n] : n \in 0 .. BlkCount} \ {0}
    BY DEF ChainBlks, BlkAt
  <2> QED BY <1>3, <1>4, <2>1, <2>2
<1>6. CASE disk' = disk /\ used \subseteq used'
  BY <1>2, <1>6, AtFacts DEF Walkable
<1>7. CASE /\ pc \in {"link", "store", "cutstore"} /\ used' = used
           /\ disk' = [disk EXCEPT ![hnd.curr_blk] = blk_buf]
  <2>1. /\ Nth(At, Here, hnd.curr_blk)
        /\ blk_buf.known /\ blk_buf.prev = IF Here = 0 THEN 0 ELSE At[Here - 1]
    BY <1>2, <1>7 DEF Placed, Buffered
  <2>2. First' = First /\ At' = now
    <3>1. ~Emptying'
      BY DEF Emptying, Returns
    <3>2. First' = First
      BY <1>3, <1>4, <3>1 DEF First
    <3> QED BY <3>2 DEF At, BlkAt
  <2>3. CASE ~Growing
    <3>1. blk_buf.next = disk[hnd.curr_blk].next
      BY <1>2, <1>7, <2>3 DEF Growing, Buffered
    <3>2. \A n \in 0 .. BlkCount : At'[n] # 0 => At'[n] \in used'
      BY <1>2, <1>7, <2>1, <2>2, <2>3, <3>1, StoreAgain
    <3> QED BY <2>2, <3>2
  <2>4. CASE Growing
    <3>1. blk_buf.next = 0 \/ Fresh(blk_buf.next)
      BY <1>2, <1>7, <2>4 DEF Growing, Buffered
    <3>2. \A n \in 0 .. BlkCount : At'[n] # 0 => At'[n] \in used'
      BY <1>2, <1>7, <2>1, <2>2, <3>1, StoreLast
    <3> QED BY <2>2, <3>2
  <2> QED BY <2>3, <2>4
<1>8. CASE /\ pc = "freeing" /\ used' \in {used, used \ {loc.free_from}} /\ loc.free_from # 0
           /\ disk' = [b \in Blocks |-> IF b \in used \ used' THEN Forgotten(disk[b]) ELSE disk[b]]
  <2> DEFINE f == loc.free_from
  <2>1. \A n \in 0 .. BlkCount : At[n] # f
    <3>1. BlkAt(f)[0] = f /\ 0 \in 0 .. BlkCount
      BY WalkSteps, Sizes DEF BlkAt
    <3> QED BY <1>2, <1>8, <3>1 DEF Cut
  <2>2. \A n \in 0 .. BlkCount : At[n] # 0 => At[n] \in used' /\ At[n] \in Blocks /\ disk'[At[n]] = disk[At[n]]
    BY <1>2, <1>8, <2>1 DEF Walkable, Shapes
  <2>3. now = At
    <3> DEFINE d == disk
               e == disk'
               c == First
    <3>1. \A n \in 0 .. BlkCount - 1 : Follow(e, Walk(d, c)[n]) = Follow(d, Walk(d, c)[n])
      <4> TAKE n \in 0 .. BlkCount - 1
      <4>1. n \in 0 .. BlkCount /\ At = Walk(d, c)
        BY <1>2, AtFacts, Sizes
      <4> QED BY <2>2, <4>1 DEF Follow
    <3> HIDE DEF d, e, c
    <3>2. Walk(e, c) = Walk(d, c)
      BY <3>1, WalkSame
    <3> QED BY <1>2, <3>2, AtFacts DEF d, e, c
  <2> HIDE DEF now
  <2> QED BY <2>2, <2>3
<1> QED BY <1>6, <1>7, <1>8, Returning

\* A call that fails half-way, at whatever transfer, leaves no free block in the chain of
\* the directory item, except tfs_trunc to nothing.
THEOREM NoDanglingChainHolds ==
  ASSUME EmptyAppends = FALSE
  PROVE  Spec => NoDanglingChain
<1> DEFINE A == Returns /\ faults' # 0 /\ ~(call.op = "trunc" /\ call.offset = 0) =>
                  ChainBlks(item.blk)' \subseteq used'
<1>1. IInv /\ [Next]_vars => [A]_vars
  <2> SUFFICES ASSUME IInv, Next PROVE A
    OBVIOUS
  <2>1. Returns => Step
    BY DEF Next, Call, Returns, tfs_read, tfs_write, tfs_read_beyond, tfs_trunc, reopen, Enter
  <2> QED BY <2>1, ReturnMarked
<1>2. NoDanglingChain <=> [][A]_vars
  BY DEF NoDanglingChain
<1> QED BY <1>1, <1>2, Invariance, PTL DEF Spec
=============================================================================
