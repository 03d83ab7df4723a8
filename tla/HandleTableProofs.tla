-------------------------- MODULE HandleTableProofs --------------------------
(***************************************************************************)
(* Proofs about the table of open files, for drives, directories, tables   *)
(* and usage counts of every size and any number of callers.               *)
(***************************************************************************)
EXTENDS HandleTable, FiniteSetTheorems, SequenceTheorems, WellFoundedInduction,
        TLAPS

-----------------------------------------------------------------------------
(* Numbers and sequences.                                                  *)

\* A set of numbers that is not empty has a least one.
LEMMA MinFacts ==
  ASSUME NEW S \in SUBSET Nat, S # {}
  PROVE  Min(S) \in S /\ \A y \in S : Min(S) <= y
<1>1. \E x \in S : \A y \in S : ~(<<y, x>> \in OpToRel(<, Nat))
  BY NatLessThanWellFounded, WFMin
<1>2. \A x, y \in S : ~(<<y, x>> \in OpToRel(<, Nat)) => x <= y
  <2> SUFFICES ASSUME NEW x \in S, NEW y \in S, ~(x <= y)
               PROVE  <<y, x>> \in OpToRel(<, Nat)
    OBVIOUS
  <2>1. y < x /\ x \in Nat /\ y \in Nat
    OBVIOUS
  <2> QED BY <2>1 DEF OpToRel
<1>3. \E x \in S : \A y \in S : x <= y
  BY <1>1, <1>2
<1> QED BY <1>3 DEF Min

\* The sizes of the tables.
LEMMA Sizes ==
  /\ BlkCount \in Nat \ {0} /\ DirBlkItems \in Nat \ {0} /\ MaxFds \in Nat \ {0}
  /\ UsageMod \in Nat /\ UsageMod >= 2 /\ MaxHeld \in Nat /\ GoOn \in BOOLEAN
  /\ 1 \in Blocks /\ 0 \in Slots /\ 0 \notin Blocks /\ -1 \notin Slots
  /\ Blocks \subseteq Nat /\ Slots \subseteq Nat /\ Fds \subseteq Nat
  BY SizeAssumption DEF Blocks, Slots, Fds

\* A place of the directory is a block and a slot of it, counted through.
LEMMA DivModPlace ==
  ASSUME NEW d \in Nat \ {0}, NEW n \in Nat
  PROVE  /\ \A i \in 1 .. n * d : /\ ((i - 1) \div d) + 1 \in 1 .. n
                                  /\ (i - 1) % d \in 0 .. d - 1
         /\ \A k \in 1 .. n, s \in 0 .. d - 1 :
              LET i == (k - 1) * d + s + 1
              IN i \in 1 .. n * d /\ ((i - 1) \div d) + 1 = k /\ (i - 1) % d = s
<1>1. ASSUME NEW i \in 1 .. n * d
      PROVE  ((i - 1) \div d) + 1 \in 1 .. n /\ (i - 1) % d \in 0 .. d - 1
  <2> DEFINE q == (i - 1) \div d
  <2>1. i - 1 \in Nat /\ i - 1 < n * d
    BY <1>1
  <2>2. i - 1 = d * q + ((i - 1) % d) /\ q \in Nat /\ (i - 1) % d \in 0 .. d - 1
    BY <2>1
  <2> HIDE DEF q
  <2>3. d * q < n * d
    BY <2>1, <2>2
  <2>4. q < n
    BY <2>2, <2>3
  <2> QED BY <2>2, <2>4 DEF q
<1>2. ASSUME NEW k \in 1 .. n, NEW s \in 0 .. d - 1
      PROVE  LET i == (k - 1) * d + s + 1
             IN i \in 1 .. n * d /\ ((i - 1) \div d) + 1 = k /\ (i - 1) % d = s
  <2> DEFINE m == k - 1
             x == m * d
  <2>1. m \in Nat /\ m + 1 <= n /\ x \in Nat
    BY <1>2
  <2>2. x + d <= n * d
    <3>1. x + d = (m + 1) * d
      BY <2>1
    <3>2. \A a, b \in Nat : a <= b => a * d <= b * d
      OBVIOUS
    <3> QED BY <2>1, <3>1, <3>2
  <2>3. (x + s) \div d = m /\ (x + s) % d = s
    BY <1>2, <2>1
  <2> HIDE DEF x, m
  <2>4. (x + s + 1) - 1 = x + s
    BY <1>2, <2>1
  <2>5. x + s + 1 \in 1 .. n * d
    BY <1>2, <2>1, <2>2
  <2> QED BY <1>2, <2>1, <2>3, <2>4, <2>5 DEF x, m
<1> QED BY <1>1, <1>2

\* A directory without its block number k.
LEMMA RemoveAtIs ==
  ASSUME NEW c \in Chains, NEW k \in 2 .. Len(c)
  PROVE  /\ RemoveAt(c, k) \in Chains
         /\ ToSet(RemoveAt(c, k)) = ToSet(c) \ {c[k]}
<1> DEFINE r == RemoveAt(c, k)
<1>1. /\ c \in Seq(Blocks) /\ Len(c) \in Nat /\ DOMAIN c = 1 .. Len(c)
      /\ c[1] = TFS_ROOT_DIR_BLK /\ \A i, j \in DOMAIN c : c[i] = c[j] => i = j
  BY DEF Chains
<1>2. /\ r \in Seq(Blocks) /\ Len(r) = Len(c) - 1
      /\ \A j \in 1 .. Len(r) : r[j] = IF j < k THEN c[j] ELSE c[j + 1]
  <2> DEFINE a == SubSeq(c, 1, k - 1)
             b == SubSeq(c, k + 1, Len(c))
  <2>1. \A j \in 1 .. Len(c) : c[j] \in Blocks
    BY <1>1
  <2>2. a \in Seq(Blocks) /\ Len(a) = k - 1 /\ \A j \in 1 .. k - 1 : a[j] = c[j]
    <3>1. \A j \in 1 .. k - 1 : c[j] \in Blocks
      BY <1>1, <2>1
    <3>2. /\ a \in Seq(Blocks) /\ Len(a) = (IF 1 <= k - 1 THEN k - 1 - 1 + 1 ELSE 0)
          /\ \A j \in 1 .. k - 1 - 1 + 1 : a[j] = c[1 + j - 1]
      BY <3>1, SubSeqProperties
    <3> HIDE DEF a
    <3> QED BY <3>2
  <2>3. /\ b \in Seq(Blocks) /\ Len(b) = Len(c) - k
        /\ \A j \in 1 .. Len(c) - k : b[j] = c[j + k]
    <3>1. \A j \in k + 1 .. Len(c) : c[j] \in Blocks
      BY <1>1, <2>1
    <3>2. /\ b \in Seq(Blocks)
          /\ Len(b) = (IF k + 1 <= Len(c) THEN Len(c) - (k + 1) + 1 ELSE 0)
          /\ \A j \in 1 .. Len(c) - (k + 1) + 1 : b[j] = c[(k + 1) + j - 1]
      BY <1>1, <3>1, SubSeqProperties
    <3> HIDE DEF b
    <3>3. Len(c) - (k + 1) + 1 = Len(c) - k /\ Len(b) = Len(c) - k
      <4> DEFINE n == Len(c)
      <4>1. n \in Nat /\ k \in Nat /\ k <= n
        BY <1>1
      <4>2. Len(b) = IF k + 1 <= n THEN n - (k + 1) + 1 ELSE 0
        BY <3>2
      <4> HIDE DEF n
      <4> QED BY <4>1, <4>2 DEF n
    <3>4. ASSUME NEW j \in 1 .. Len(c) - k PROVE b[j] = c[j + k]
      <4>1. (k + 1) + j - 1 = j + k
        OBVIOUS
      <4>2. b[j] = c[(k + 1) + j - 1]
        BY <1>1, <3>2, <3>3
      <4> QED BY <4>1, <4>2
    <3> QED BY <3>2, <3>3, <3>4
  <2>4. r = a \o b
    BY DEF RemoveAt
  <2> HIDE DEF a, b, r
  <2>5. /\ r \in Seq(Blocks) /\ Len(r) = Len(a) + Len(b)
        /\ \A j \in 1 .. Len(a) + Len(b) : r[j] = IF j <= Len(a) THEN a[j] ELSE b[j - Len(a)]
    BY <2>2, <2>3, <2>4, ConcatProperties
  <2>6. Len(r) = Len(c) - 1
    BY <1>1, <2>2, <2>3, <2>5
  <2>7. ASSUME NEW j \in 1 .. Len(r)
        PROVE  r[j] = IF j < k THEN c[j] ELSE c[j + 1]
    <3>1. CASE j < k
      <4>1. j <= Len(a) /\ j \in 1 .. k - 1 /\ j \in 1 .. Len(a) + Len(b)
        BY <1>1, <2>2, <2>3, <2>6, <3>1
      <4>2. r[j] = a[j]
        BY <2>5, <4>1
      <4> QED BY <2>2, <3>1, <4>1, <4>2
    <3>2. CASE ~(j < k)
      <4>1. r[j] = b[j - (k - 1)] /\ j - (k - 1) \in 1 .. Len(c) - k
        BY <1>1, <2>2, <2>3, <2>5, <2>6, <3>2
      <4>2. (j - (k - 1)) + k = j + 1
        BY <1>1, <2>6
      <4> QED BY <2>3, <3>2, <4>1, <4>2
    <3> QED BY <3>1, <3>2
  <2> QED BY <2>5, <2>6, <2>7
<1> HIDE DEF r
<1>3. r # <<>> /\ r[1] = TFS_ROOT_DIR_BLK /\ DOMAIN r = 1 .. Len(r)
  BY <1>1, <1>2
<1>4. ASSUME NEW i \in DOMAIN r, NEW j \in DOMAIN r, r[i] = r[j]
      PROVE  i = j
  <2> DEFINE At2(x) == IF x < k THEN x ELSE x + 1
  <2>1. \A x \in DOMAIN r : r[x] = c[At2(x)] /\ At2(x) \in DOMAIN c
    BY <1>1, <1>2, <1>3
  <2>2. At2(i) = At2(j)
    BY <1>1, <1>4, <2>1
  <2> QED BY <1>2, <1>3, <2>2
<1>5. ToSet(r) = ToSet(c) \ {c[k]}
  <2>1. ASSUME NEW j \in DOMAIN r PROVE r[j] \in ToSet(c) \ {c[k]}
    BY <1>1, <1>2, <1>3, <2>1 DEF ToSet
  <2>2. ASSUME NEW j \in DOMAIN c, j # k PROVE c[j] \in ToSet(r)
    <3>1. CASE j < k
      <4>1. j \in DOMAIN r /\ r[j] = c[j]
        BY <1>1, <1>2, <1>3, <3>1
      <4> QED BY <4>1 DEF ToSet
    <3>2. CASE j > k
      <4>1. j - 1 \in DOMAIN r /\ r[j - 1] = c[j]
        BY <1>1, <1>2, <1>3, <3>2
      <4> QED BY <4>1 DEF ToSet
    <3> QED BY <1>1, <2>2, <3>1, <3>2
  <2> QED BY <2>1, <2>2 DEF ToSet
<1> QED BY <1>2, <1>3, <1>4, <1>5 DEF Chains, r

\* A directory with one more block.
LEMMA AppendIs ==
  ASSUME NEW c \in Chains, NEW b \in Blocks \ ToSet(c)
  PROVE  Append(c, b) \in Chains /\ ToSet(Append(c, b)) = ToSet(c) \cup {b}
<1> DEFINE r == Append(c, b)
<1>1. /\ c \in Seq(Blocks) /\ Len(c) \in Nat /\ DOMAIN c = 1 .. Len(c) /\ Len(c) >= 1
      /\ c[1] = TFS_ROOT_DIR_BLK /\ \A i, j \in DOMAIN c : c[i] = c[j] => i = j
  BY DEF Chains
<1>2. /\ r \in Seq(Blocks) /\ Len(r) = Len(c) + 1 /\ DOMAIN r = 1 .. Len(r)
      /\ r[Len(c) + 1] = b /\ \A j \in 1 .. Len(c) : r[j] = c[j]
  BY <1>1
<1> HIDE DEF r
<1>3. \A j \in DOMAIN c : c[j] # b
  BY DEF ToSet
<1>4. r # <<>> /\ r[1] = TFS_ROOT_DIR_BLK /\ \A i, j \in DOMAIN r : r[i] = r[j] => i = j
  BY <1>1, <1>2, <1>3
<1>5. ToSet(r) = ToSet(c) \cup {b}
  BY <1>1, <1>2 DEF ToSet
<1> QED BY <1>2, <1>4, <1>5 DEF Chains, r

-----------------------------------------------------------------------------
(* The directory.                                                          *)

\* What find_file counts through are the places of the directory.
LEMMA PlaceIs ==
  ASSUME chain \in Chains
  PROVE  /\ Places \subseteq Nat
         /\ \A i \in Places : Place(i) \in [blk : ToSet(chain), slot : Slots]
         /\ \A p \in [blk : ToSet(chain), slot : Slots] : \E i \in Places : Place(i) = p
         /\ ToSet(chain) \subseteq Blocks
<1> DEFINE n == Len(chain)
           d == DirBlkItems
<1>1. /\ n \in Nat /\ DOMAIN chain = 1 .. n /\ d \in Nat \ {0} /\ chain \in Seq(Blocks)
      /\ Places = 1 .. n * d /\ Slots = 0 .. d - 1
  BY Sizes DEF Chains, Places, Slots
<1>2. \A i : Place(i) = [blk |-> chain[((i - 1) \div d) + 1], slot |-> (i - 1) % d]
  BY DEF Place
<1> HIDE DEF n, d
<1>3. Places \subseteq Nat /\ ToSet(chain) \subseteq Blocks
  <2>1. n * d \in Nat
    BY <1>1
  <2> QED BY <1>1, <2>1 DEF ToSet
<1>4. ASSUME NEW i \in Places
      PROVE  Place(i) \in [blk : ToSet(chain), slot : Slots]
  <2>1. ((i - 1) \div d) + 1 \in 1 .. n /\ (i - 1) % d \in 0 .. d - 1
    BY <1>1, DivModPlace
  <2>2. chain[((i - 1) \div d) + 1] \in ToSet(chain)
    BY <1>1, <2>1 DEF ToSet
  <2> QED BY <1>1, <1>2, <2>1, <2>2
<1>5. ASSUME NEW p \in [blk : ToSet(chain), slot : Slots]
      PROVE  \E i \in Places : Place(i) = p
  <2>1. p.blk \in ToSet(chain) /\ p.slot \in 0 .. d - 1 /\ p = [blk |-> p.blk, slot |-> p.slot]
    BY <1>1
  <2>2. PICK k \in 1 .. n : chain[k] = p.blk
    BY <1>1, <2>1 DEF ToSet
  <2> DEFINE i == (k - 1) * d + p.slot + 1
  <2>3. i \in Places /\ ((i - 1) \div d) + 1 = k /\ (i - 1) % d = p.slot
    <3>1. \A s \in 0 .. d - 1 :
            LET x == (k - 1) * d + s + 1
            IN x \in 1 .. n * d /\ ((x - 1) \div d) + 1 = k /\ (x - 1) % d = s
      <4>1. n \in Nat /\ d \in Nat \ {0}
        BY <1>1
      <4> QED BY <4>1, DivModPlace, SMTT(30)
    <3> QED BY <1>1, <2>1, <3>1
  <2> HIDE DEF i
  <2>4. Place(i) = p
    BY <1>2, <2>1, <2>2, <2>3
  <2> QED BY <2>3, <2>4
<1> QED BY <1>3, <1>4, <1>5

\* An item is stored at one place.
LEMMA PutIs ==
  ASSUME NEW d \in DirItems, NEW b \in Blocks, NEW s \in Slots, NEW x \in Items
  PROVE  LET e == [d EXCEPT ![b][s] = x] IN
         /\ e \in DirItems
         /\ e[b][s] = x
         /\ \A c \in Blocks, t \in Slots : ~(c = b /\ t = s) => e[c][t] = d[c][t]
  BY DEF DirItems

\* The free item.
LEMMA FreeItemIs == /\ FreeItem \in Items /\ FreeItem.file = NoFile
                    /\ NoItems \in [Slots -> Items] /\ \A s \in Slots : NoItems[s] = FreeItem
<1>1. FreeItem \in Items /\ FreeItem.file = NoFile
  BY DEF FreeItem, Items
<1> QED BY <1>1 DEF NoItems

\* find_file meets the name if it is there.
LEMMA FoundIs ==
  ASSUME chain \in Chains, NEW n
  PROVE  /\ \A p \in find_file(n) : p \in Used(chain, dir) /\ At(dir, p).name = n
         /\ find_file(n) = {} => \A p \in Used(chain, dir) : At(dir, p).name # n
<1> DEFINE hits == {i \in Places : ~IsFree(Place(i)) /\ ItemAt(Place(i)).name = n}
<1>1. find_file(n) = IF hits = {} THEN {} ELSE {Place(Min(hits))}
  BY DEF find_file
<1>2. ASSUME NEW p \in find_file(n)
      PROVE  p \in Used(chain, dir) /\ At(dir, p).name = n
  <2>1. hits # {} /\ hits \in SUBSET Nat
    BY <1>1, <1>2, PlaceIs
  <2>2. Min(hits) \in hits
    BY <2>1, MinFacts
  <2>3. p = Place(Min(hits)) /\ Min(hits) \in Places
    BY <1>1, <1>2, <2>1, <2>2
  <2>4. p \in [blk : ToSet(chain), slot : Slots]
    BY <2>3, PlaceIs
  <2> QED BY <2>2, <2>3, <2>4 DEF Used, At, IsFree, ItemAt
<1>3. ASSUME find_file(n) = {}, NEW p \in Used(chain, dir)
      PROVE  At(dir, p).name # n
  <2>1. hits = {}
    BY <1>1, <1>3
  <2>2. PICK i \in Places : Place(i) = p
    BY PlaceIs DEF Used
  <2> QED BY <2>1, <2>2 DEF Used, At, IsFree, ItemAt
<1> QED BY <1>2, <1>3

\* A free place, in the directory or in a block that is new to it.
LEMMA FreeIs ==
  ASSUME chain \in Chains, dir \in DirItems, data \subseteq Blocks, NEW f \in find_free
  PROVE  /\ f.chain \in Chains /\ f.items \in DirItems
         /\ f.place \in [blk : ToSet(f.chain), slot : Slots]
         /\ At(f.items, f.place).file = NoFile
         /\ ToSet(chain) \subseteq ToSet(f.chain) /\ ToSet(f.chain) \subseteq Blocks
         /\ \A b \in ToSet(f.chain) \ ToSet(chain) : b \notin data
         /\ \A b \in ToSet(chain) : f.items[b] = dir[b]
         /\ Used(f.chain, f.items) = Used(chain, dir)
<1>1. ToSet(chain) \subseteq Blocks
  BY PlaceIs
<1>2. CASE FreePlaces # {}
  <2>1. f = [chain |-> chain, place |-> Place(Min(FreePlaces)), items |-> dir]
    BY <1>2 DEF find_free
  <2>2. FreePlaces \in SUBSET Nat
    BY PlaceIs DEF FreePlaces
  <2>3. Min(FreePlaces) \in FreePlaces
    BY <1>2, <2>2, MinFacts
  <2>4. f.chain = chain /\ f.items = dir /\ f.place = Place(Min(FreePlaces))
    BY <2>1
  <2>5. Min(FreePlaces) \in Places /\ IsFree(Place(Min(FreePlaces)))
    BY <2>3 DEF FreePlaces
  <2>6. f.place \in [blk : ToSet(f.chain), slot : Slots]
    BY <2>4, <2>5, PlaceIs
  <2> QED BY <1>1, <2>4, <2>5, <2>6 DEF At, IsFree, ItemAt
<1>3. CASE FreePlaces = {} /\ Unused(chain, data) # {}
  <2> DEFINE b == Min(Unused(chain, data))
  <2>1. /\ f = GrownDir
        /\ Unused(chain, data) \in SUBSET Nat
    BY <1>3, Sizes DEF find_free, Unused
  <2>2. b \in Blocks /\ b \notin ToSet(chain) /\ b \notin data
    <3>1. b \in Unused(chain, data)
      BY <1>3, <2>1, MinFacts
    <3> QED BY <3>1 DEF Unused
  <2>3. /\ f.chain = Append(chain, b) /\ f.place = [blk |-> b, slot |-> 0]
        /\ f.items = [dir EXCEPT ![b] = NoItems]
    BY <2>1 DEF GrownDir
  <2> HIDE DEF b
  <2>4. f.chain \in Chains /\ ToSet(f.chain) = ToSet(chain) \cup {b}
    BY <2>2, <2>3, AppendIs
  <2>5. /\ f.items \in DirItems /\ f.items[b] = NoItems
        /\ \A c \in Blocks \ {b} : f.items[c] = dir[c]
    BY <2>2, <2>3, FreeItemIs DEF DirItems
  <2>6. f.place \in [blk : ToSet(f.chain), slot : Slots] /\ f.place.blk = b
    BY <2>3, <2>4, Sizes
  <2>7. \A s \in Slots : f.items[b][s].file = NoFile
    BY <2>5, FreeItemIs
  <2>8. At(f.items, f.place).file = NoFile
    BY <2>6, <2>7 DEF At
  <2>9. \A c \in ToSet(chain) : f.items[c] = dir[c]
    BY <1>1, <2>2, <2>5
  <2>10. Used(f.chain, f.items) = Used(chain, dir)
    BY <2>4, <2>7, <2>9 DEF Used
  <2> QED BY <1>1, <2>2, <2>4, <2>5, <2>6, <2>8, <2>9, <2>10
<1> QED BY <1>2, <1>3 DEF find_free

\* Item x stored at place p.
Put(d, p, x) == [d EXCEPT ![p.blk][p.slot] = x]

\* What storing an item does to the places that are not free.
LEMMA StoreIs ==
  ASSUME NEW c \in Chains, ToSet(c) \subseteq Blocks, NEW d \in DirItems, NEW x \in Items,
         x.file # NoFile, NEW p \in [blk : ToSet(c), slot : Slots],
         NEW e, e = Put(d, p, x)
  PROVE  /\ e \in DirItems /\ Used(c, e) = Used(c, d) \cup {p} /\ At(e, p) = x
         /\ \A q \in Used(c, e) \ {p} : At(e, q) = At(d, q)
<1>1. p.blk \in Blocks /\ p.slot \in Slots /\ p.blk \in ToSet(c)
  OBVIOUS
<1>2. /\ e \in DirItems /\ e[p.blk][p.slot] = x
      /\ \A b \in Blocks, t \in Slots : ~(b = p.blk /\ t = p.slot) => e[b][t] = d[b][t]
  <2> DEFINE g == [d EXCEPT ![p.blk][p.slot] = x]
  <2>1. /\ g \in DirItems /\ g[p.blk][p.slot] = x
        /\ \A b \in Blocks, t \in Slots : ~(b = p.blk /\ t = p.slot) => g[b][t] = d[b][t]
    BY <1>1, PutIs
  <2> QED BY <2>1 DEF Put
<1>3. \A q \in [blk : ToSet(c), slot : Slots] : q # p => ~(q.blk = p.blk /\ q.slot = p.slot)
  OBVIOUS
<1>4. ASSUME NEW q \in [blk : ToSet(c), slot : Slots], q # p
      PROVE  At(e, q) = At(d, q) /\ (q \in Used(c, e) <=> q \in Used(c, d))
  <2>1. q.blk \in Blocks /\ q.slot \in Slots
    OBVIOUS
  <2>2. e[q.blk][q.slot] = d[q.blk][q.slot]
    BY <1>2, <1>3, <1>4, <2>1
  <2> QED BY <2>2 DEF At, Used
<1>5. p \in Used(c, e)
  BY <1>2 DEF Used
<1>6. Used(c, e) = Used(c, d) \cup {p}
  BY <1>4, <1>5 DEF Used
<1>7. \A q \in Used(c, e) \ {p} : At(e, q) = At(d, q)
  BY <1>4 DEF Used
<1> QED BY <1>2, <1>6, <1>7 DEF At

\* What deleting the item at p does to the directory: the others are still there, each
\* once, and those of a block that has left it are where the first block was.
LEMMA CleanupIs ==
  ASSUME chain \in Chains, dir \in DirItems, NEW p \in Used(chain, dir)
  PROVE  LET a == write_dir_cleanup(p) IN
         /\ a.chain \in Chains /\ a.items \in DirItems /\ ToSet(a.chain) \subseteq ToSet(chain)
         /\ \E m \in [Used(a.chain, a.items) -> Used(chain, dir) \ {p}] :
              /\ \A q \in Used(a.chain, a.items) : At(a.items, q) = At(dir, m[q])
              /\ \A q, r \in Used(a.chain, a.items) : m[q] = m[r] => q = r
              /\ \A r \in Used(chain, dir) \ {p} : \E q \in Used(a.chain, a.items) : m[q] = r
         /\ \A q \in Used(chain, dir) \ {p} :
              q.blk \in ToSet(a.chain) /\ At(a.items, q).file = At(dir, q).file => At(a.items, q) = At(dir, q)
<1> DEFINE U == Used(chain, dir)
           places == [blk : ToSet(chain), slot : Slots]
           a == write_dir_cleanup(p)
<1>1. /\ ToSet(chain) \subseteq Blocks /\ p \in places /\ p.blk \in Blocks /\ p.slot \in Slots
      /\ Len(chain) \in Nat /\ Len(chain) >= 1 /\ DOMAIN chain = 1 .. Len(chain)
      /\ \A j, k \in DOMAIN chain : chain[j] = chain[k] => j = k
  BY PlaceIs DEF Used, Chains
<1>2. /\ Cleared(p) \in DirItems /\ Cleared(p)[p.blk][p.slot] = FreeItem
      /\ \A b \in Blocks, t \in Slots : ~(b = p.blk /\ t = p.slot) => Cleared(p)[b][t] = dir[b][t]
  BY <1>1, PutIs, FreeItemIs DEF Cleared
<1>3. \A q \in places : q # p => /\ ~(q.blk = p.blk /\ q.slot = p.slot)
                                 /\ q.blk \in Blocks /\ q.slot \in Slots
  BY <1>1
<1>4. \A q \in places \ {p} : At(Cleared(p), q) = At(dir, q)
  BY <1>2, <1>3 DEF At
<1>5. At(Cleared(p), p).file = NoFile
  BY <1>2, FreeItemIs DEF At
<1>6. ASSUME a.items = Cleared(p), a.chain \in Chains, ToSet(a.chain) \subseteq ToSet(chain),
             \A q \in U \ {p} : q.blk \in ToSet(a.chain)
      PROVE  /\ a.items \in DirItems
             /\ \E m \in [Used(a.chain, a.items) -> U \ {p}] :
                  /\ \A q \in Used(a.chain, a.items) : At(a.items, q) = At(dir, m[q])
                  /\ \A q, r \in Used(a.chain, a.items) : m[q] = m[r] => q = r
                  /\ \A r \in U \ {p} : \E q \in Used(a.chain, a.items) : m[q] = r
             /\ \A q \in U \ {p} : At(a.items, q) = At(dir, q)
  <2> HIDE DEF a
  <2> DEFINE V == Used(a.chain, a.items)
  <2>1. V \subseteq U \ {p}
    <3>1. ASSUME NEW q \in V PROVE q \in U \ {p}
      <4>1. q \in places /\ At(a.items, q).file # NoFile
        BY <1>6, <3>1 DEF Used, At
      <4>2. q # p
        BY <1>5, <1>6, <4>1
      <4>3. At(dir, q).file # NoFile
        BY <1>4, <1>6, <4>1, <4>2
      <4> QED BY <4>1, <4>2, <4>3 DEF Used, At
    <3> QED BY <3>1
  <2>2. U \ {p} \subseteq V
    <3>1. ASSUME NEW q \in U \ {p} PROVE q \in V
      <4>1. q \in places \ {p} /\ At(dir, q).file # NoFile
        BY DEF Used, At
      <4>2. At(a.items, q).file # NoFile /\ q \in [blk : ToSet(a.chain), slot : Slots]
        BY <1>4, <1>6, <4>1
      <4> QED BY <4>2 DEF Used, At
    <3> QED BY <3>1
  <2>3. \A q \in U \ {p} : At(a.items, q) = At(dir, q)
    BY <1>4, <1>6 DEF Used
  <2> HIDE DEF U, V
  <2> DEFINE m == [q \in V |-> q]
  <2>4. /\ m \in [V -> U \ {p}] /\ \A q, r \in V : m[q] = m[r] => q = r
        /\ \A r \in U \ {p} : m[r] = r /\ r \in V
    BY <2>1, <2>2
  <2>5. \A q \in V : At(a.items, q) = At(dir, m[q])
    BY <2>1, <2>3
  <2>6. a.items \in DirItems
    BY <1>2, <1>6
  <2> HIDE DEF m
  <2> QED BY <2>3, <2>4, <2>5, <2>6 DEF V
<1> DEFINE Done == /\ a.chain \in Chains /\ a.items \in DirItems /\ ToSet(a.chain) \subseteq ToSet(chain)
                   /\ \E m \in [Used(a.chain, a.items) -> U \ {p}] :
                        /\ \A q \in Used(a.chain, a.items) : At(a.items, q) = At(dir, m[q])
                        /\ \A q, r \in Used(a.chain, a.items) : m[q] = m[r] => q = r
                        /\ \A r \in U \ {p} : \E q \in Used(a.chain, a.items) : m[q] = r
                   /\ \A q \in U \ {p} :
                        q.blk \in ToSet(a.chain) /\ At(a.items, q).file = At(dir, q).file
                          => At(a.items, q) = At(dir, q)
<1> HIDE DEF a, U
<1>7. CASE Len(chain) = 1 \/ ~EmptyBut(p)
  <2>1. a.chain = chain /\ a.items = Cleared(p)
    BY <1>7 DEF write_dir_cleanup, a
  <2>2. \A q \in U \ {p} : q.blk \in ToSet(a.chain)
    BY <2>1 DEF Used, U
  <2>3. Done
    BY <1>6, <2>1, <2>2
  <2> QED BY <2>3 DEF a, U
<1>8. CASE Len(chain) > 1 /\ EmptyBut(p) /\ p.blk # chain[1]
  <2>1. a.chain = RemoveAt(chain, Index(p.blk)) /\ a.items = Cleared(p)
    BY <1>1, <1>8 DEF write_dir_cleanup, a
  <2>2. \E k \in DOMAIN chain : chain[k] = p.blk
    BY <1>1 DEF ToSet
  <2>3. Index(p.blk) \in DOMAIN chain /\ chain[Index(p.blk)] = p.blk
    BY <2>2 DEF Index
  <2>4. Index(p.blk) \in 2 .. Len(chain)
    BY <1>1, <1>8, <2>3
  <2>5. a.chain \in Chains /\ ToSet(a.chain) = ToSet(chain) \ {p.blk}
    BY <2>1, <2>3, <2>4, RemoveAtIs
  <2>6. \A q \in U \ {p} : q.blk \in ToSet(a.chain)
    <3>1. ASSUME NEW q \in U \ {p}, q.blk = p.blk PROVE FALSE
      <4>1. q \in places /\ q.slot # p.slot /\ dir[p.blk][q.slot].file # NoFile
        BY <1>1, <1>3, <3>1 DEF Used, U
      <4> QED BY <1>8, <4>1 DEF EmptyBut
    <3> QED BY <2>5, <3>1 DEF Used, U
  <2>7. Done
    BY <1>6, <2>1, <2>5, <2>6
  <2> QED BY <2>7 DEF a, U
<1>9. CASE Len(chain) > 1 /\ EmptyBut(p) /\ p.blk = chain[1]
  <2> DEFINE h == chain[1]
             t == chain[2]
             e1 == [dir EXCEPT ![h] = dir[t]]
             e == [e1 EXCEPT ![t] = NoItems]
             V == Used(a.chain, a.items)
  <2>1. a.chain = RemoveAt(chain, 2) /\ a.items = e
    BY <1>1, <1>9 DEF write_dir_cleanup, a
  <2>2. h \in ToSet(chain) /\ t \in ToSet(chain) /\ h # t
    BY <1>1, <1>9 DEF ToSet
  <2>3. a.chain \in Chains /\ ToSet(a.chain) = ToSet(chain) \ {t}
    BY <1>1, <1>9, <2>1, RemoveAtIs
  <2>4. h \in Blocks /\ t \in Blocks
    BY <1>1, <2>2
  <2> HIDE DEF h, t
  <2>5. e1 \in DirItems /\ e1[h] = dir[t] /\ \A b \in Blocks \ {h} : e1[b] = dir[b]
    BY <2>4 DEF DirItems
  <2> HIDE DEF e1
  <2>6. e \in DirItems /\ \A b \in Blocks \ {t} : e[b] = e1[b]
    BY <2>4, <2>5, FreeItemIs DEF DirItems
  <2> HIDE DEF e
  <2>7. a.items \in DirItems /\ a.items[h] = dir[t] /\ \A b \in Blocks \ {h, t} : a.items[b] = dir[b]
    BY <2>1, <2>2, <2>4, <2>5, <2>6
  <2>8. \A q \in U \ {p} : q.blk # h /\ q \in places
    <3>1. ASSUME NEW q \in U \ {p}, q.blk = h PROVE FALSE
      <4>1. q \in places /\ q.slot # p.slot /\ dir[p.blk][q.slot].file # NoFile
        BY <1>1, <1>3, <1>9, <3>1 DEF Used, U, h
      <4> QED BY <1>9, <4>1 DEF EmptyBut
    <3> QED BY <3>1 DEF Used, U
  <2> DEFINE home(q) == IF q.blk = h THEN [blk |-> t, slot |-> q.slot] ELSE q
             m == [q \in V |-> home(q)]
  <2>9. ASSUME NEW q \in V
        PROVE  /\ q \in [blk : ToSet(a.chain), slot : Slots] /\ q.blk # t
               /\ home(q) \in U \ {p} /\ At(a.items, q) = At(dir, home(q))
    <3>1. /\ q \in [blk : ToSet(a.chain), slot : Slots] /\ a.items[q.blk][q.slot].file # NoFile
          /\ q.blk \in ToSet(chain) /\ q.slot \in Slots /\ q.blk # t
      BY <2>3 DEF Used
    <3>2. CASE q.blk = h
      <4>1. home(q) \in places /\ home(q).blk = t /\ home(q).slot = q.slot
        BY <2>2, <3>1, <3>2
      <4>2. At(a.items, q) = At(dir, home(q))
        BY <2>7, <3>2, <4>1 DEF At
      <4>3. home(q) # p
        BY <1>9, <2>2, <4>1 DEF h
      <4> QED BY <3>1, <4>1, <4>2, <4>3 DEF Used, U, At
    <3>3. CASE q.blk # h
      <4>1. q.blk \in Blocks \ {h, t} /\ home(q) = q
        BY <1>1, <3>1, <3>3
      <4>2. At(a.items, q) = At(dir, home(q)) /\ home(q) # p
        BY <1>9, <2>7, <3>3, <4>1 DEF At, h
      <4>3. q \in places
        BY <3>1
      <4> QED BY <3>1, <4>1, <4>2, <4>3 DEF Used, U, At
    <3> QED BY <3>2, <3>3
  <2>10. ASSUME NEW q \in V, NEW r \in V, home(q) = home(r)
         PROVE  q = r
    <3>1. /\ q \in [blk : ToSet(a.chain), slot : Slots] /\ q.blk # t
          /\ r \in [blk : ToSet(a.chain), slot : Slots] /\ r.blk # t
      BY <2>9
    <3>2. q.blk = h <=> r.blk = h
      BY <2>10, <3>1
    <3>3. q.blk = h => q.slot = r.slot
      BY <2>10, <3>2
    <3> QED BY <2>10, <3>1, <3>2, <3>3
  <2>11. ASSUME NEW r \in U \ {p}
         PROVE  \E q \in V : home(q) = r
    <3>1. r \in places /\ r.blk # h /\ dir[r.blk][r.slot].file # NoFile
      BY <2>8 DEF Used, U
    <3>2. CASE r.blk = t
      <4> DEFINE q == [blk |-> h, slot |-> r.slot]
      <4>1. q \in [blk : ToSet(a.chain), slot : Slots] /\ home(q) = r
        BY <2>2, <2>3, <3>1, <3>2
      <4>2. a.items[q.blk][q.slot] = dir[r.blk][r.slot]
        BY <2>7, <3>2
      <4>3. q \in V
        BY <3>1, <4>1, <4>2 DEF Used
      <4> QED BY <4>1, <4>3
    <3>3. CASE r.blk # t
      <4>1. r \in [blk : ToSet(a.chain), slot : Slots] /\ home(r) = r
        BY <2>3, <3>1, <3>3
      <4>2. a.items[r.blk][r.slot] = dir[r.blk][r.slot]
        BY <1>1, <2>7, <3>1, <3>3
      <4>3. r \in V
        BY <3>1, <4>1, <4>2 DEF Used
      <4> QED BY <4>1, <4>3
    <3> QED BY <3>2, <3>3
  <2>12. \A q \in U \ {p} : q.blk \in ToSet(a.chain) => At(a.items, q) = At(dir, q)
    BY <1>1, <2>3, <2>7, <2>8 DEF At
  <2> HIDE DEF V, home
  <2>13. /\ m \in [V -> U \ {p}]
         /\ \A q \in V : At(a.items, q) = At(dir, m[q])
         /\ \A q, r \in V : m[q] = m[r] => q = r
         /\ \A r \in U \ {p} : \E q \in V : m[q] = r
    BY <2>9, <2>10, <2>11
  <2> HIDE DEF m
  <2>14. Done
    BY <2>3, <2>7, <2>12, <2>13 DEF V
  <2> QED BY <2>14 DEF a, U
<1> QED BY <1>1, <1>7, <1>8, <1>9

-----------------------------------------------------------------------------
(* What callers hold.                                                      *)

\* There are finitely many files, handles and uses, and a file to spare.
LEMMA FilesFinite ==
  /\ IsFiniteSet(Files) /\ Cardinality(Files) = Cardinality(Names) + MaxHeld
  /\ Cardinality(Names) \in Nat /\ IsFiniteSet(Names) /\ Files \subseteq Nat \ {0}
  /\ IsFiniteSet(Fds) /\ IsFiniteSet(Files \X (1 .. MaxHeld))
  /\ IsFiniteSet(Fds \X (Files \X (1 .. MaxHeld)))
<1>1. Cardinality(Names) \in Nat /\ MaxHeld \in Nat /\ MaxFds \in Nat \ {0} /\ IsFiniteSet(Names)
  BY SizeAssumption, FS_CardinalityType
<1>2. IsFiniteSet(Files) /\ Cardinality(Files) = Cardinality(Names) + MaxHeld
  <2> DEFINE n == Cardinality(Names) + MaxHeld
  <2>1. n \in Nat
    BY <1>1
  <2>2. Files = 1 .. n
    BY DEF Files
  <2> HIDE DEF n
  <2>3. IsFiniteSet(1 .. n) /\ Cardinality(1 .. n) = IF 1 > n THEN 0 ELSE n - 1 + 1
    BY <2>1, FS_Interval
  <2>4. Cardinality(1 .. n) = n
    BY <2>1, <2>3
  <2> QED BY <2>2, <2>3, <2>4 DEF n
<1>3. IsFiniteSet(Fds) /\ IsFiniteSet(1 .. MaxHeld)
  BY <1>1, FS_Interval DEF Fds
<1>4. IsFiniteSet(Files \X (1 .. MaxHeld))
  BY <1>2, <1>3, FS_Product
<1>5. IsFiniteSet(Fds \X (Files \X (1 .. MaxHeld)))
  BY <1>3, <1>4, FS_Product
<1>6. Files \subseteq Nat \ {0}
  BY <1>1 DEF Files
<1> QED BY <1>1, <1>2, <1>3, <1>4, <1>5, <1>6

\* What is held of one descriptor is finite, and none is held when all counts are 0.
LEMMA UsesFinite ==
  ASSUME NEW h \in [Files -> 0 .. MaxHeld]
  PROVE  /\ IsFiniteSet(Uses(h)) /\ Cardinality(Uses(h)) \in Nat
         /\ Cardinality(Uses(h)) = 0 <=> \A id \in Files : ~(h[id] > 0)
<1>1. Uses(h) \in SUBSET (Files \X (1 .. MaxHeld))
  BY DEF Uses
<1>2. IsFiniteSet(Uses(h)) /\ Cardinality(Uses(h)) \in Nat
  BY <1>1, FilesFinite, FS_Subset, FS_CardinalityType
<1>3. Cardinality(Uses(h)) = 0 <=> Uses(h) = {}
  BY <1>2, FS_EmptySet
<1>4. ASSUME NEW id \in Files, h[id] > 0 PROVE Uses(h) # {}
  <2>1. <<id, 1>> \in Files \X (1 .. MaxHeld) /\ 1 <= h[id]
    BY <1>4, Sizes
  <2> QED BY <2>1 DEF Uses
<1>5. ASSUME NEW u \in Uses(h) PROVE \E id \in Files : h[id] > 0
  <2>1. u[1] \in Files /\ u[2] \in 1 .. MaxHeld /\ u[2] <= h[u[1]] /\ h[u[1]] \in 0 .. MaxHeld
    BY DEF Uses
  <2>2. h[u[1]] > 0
    BY <2>1, Sizes
  <2> QED BY <2>1, <2>2
<1> QED BY <1>2, <1>3, <1>4, <1>5

\* One more.
LEMMA UsesUp ==
  ASSUME NEW h \in [Files -> 0 .. MaxHeld], NEW id \in Files, h[id] < MaxHeld
  PROVE  LET g == [h EXCEPT ![id] = @ + 1] IN
         /\ g \in [Files -> 0 .. MaxHeld]
         /\ Uses(g) = Uses(h) \cup {<<id, h[id] + 1>>} /\ <<id, h[id] + 1>> \notin Uses(h)
         /\ Cardinality(Uses(g)) = Cardinality(Uses(h)) + 1
<1> DEFINE g == [h EXCEPT ![id] = @ + 1]
           x == <<id, h[id] + 1>>
<1>1. /\ h[id] \in 0 .. MaxHeld /\ MaxHeld \in Nat
      /\ g \in [Files -> 0 .. MaxHeld] /\ g[id] = h[id] + 1 /\ \A j \in Files \ {id} : g[j] = h[j]
  BY Sizes
<1> HIDE DEF g
<1>2. x \in Files \X (1 .. MaxHeld) /\ x[1] = id /\ x[2] = h[id] + 1
  BY <1>1
<1> HIDE DEF x
<1>3. x \notin Uses(h) /\ x \in Uses(g)
  BY <1>1, <1>2 DEF Uses
<1>4. ASSUME NEW u \in Files \X (1 .. MaxHeld), u # x
      PROVE  u \in Uses(g) <=> u \in Uses(h)
  <2>1. u[1] \in Files /\ u[2] \in 1 .. MaxHeld /\ u = <<u[1], u[2]>>
    OBVIOUS
  <2>2. CASE u[1] = id
    <3>1. u[2] # h[id] + 1
      BY <1>4, <2>1, <2>2 DEF x
    <3>2. u[2] <= h[id] + 1 <=> u[2] <= h[id]
      BY <1>1, <2>1, <3>1
    <3> QED BY <1>1, <2>2, <3>2 DEF Uses
  <2>3. CASE u[1] # id
    BY <1>1, <2>1, <2>3 DEF Uses
  <2> QED BY <2>2, <2>3
<1>5. Uses(g) = Uses(h) \cup {x}
  BY <1>3, <1>4 DEF Uses
<1>6. Cardinality(Uses(g)) = Cardinality(Uses(h)) + 1
  BY <1>3, <1>5, UsesFinite, FS_AddElement
<1> QED BY <1>1, <1>3, <1>5, <1>6 DEF g, x

\* One less.
LEMMA UsesDown ==
  ASSUME NEW h \in [Files -> 0 .. MaxHeld], NEW id \in Files, h[id] > 0
  PROVE  LET g == [h EXCEPT ![id] = @ - 1] IN
         /\ g \in [Files -> 0 .. MaxHeld]
         /\ Uses(g) \subseteq Uses(h)
         /\ Cardinality(Uses(h)) > 0
         /\ Cardinality(Uses(g)) = Cardinality(Uses(h)) - 1
<1> DEFINE g == [h EXCEPT ![id] = @ - 1]
           k == [g EXCEPT ![id] = @ + 1]
<1>1. /\ h[id] \in 0 .. MaxHeld /\ MaxHeld \in Nat
      /\ g \in [Files -> 0 .. MaxHeld] /\ g[id] = h[id] - 1 /\ \A j \in Files \ {id} : g[j] = h[j]
  BY Sizes
<1> HIDE DEF g
<1>2. k = h
  <2>1. k \in [Files -> Int] /\ h \in [Files -> Int] /\ k[id] = h[id]
    BY <1>1
  <2>2. \A j \in Files : k[j] = h[j]
    BY <1>1, <2>1
  <2> HIDE DEF k
  <2> QED BY <2>1, <2>2
<1>3. g[id] < MaxHeld
  BY <1>1
<1>4. /\ Uses(k) = Uses(g) \cup {<<id, g[id] + 1>>}
      /\ Cardinality(Uses(k)) = Cardinality(Uses(g)) + 1
  BY <1>1, <1>3, UsesUp
<1>5. Cardinality(Uses(g)) \in Nat
  BY <1>1, UsesFinite
<1> QED BY <1>1, <1>3, <1>4, <1>5 DEF g

\* What is held of all descriptors is finite and no less than what is held of one.
LEMMA AllUsesFinite ==
  ASSUME NEW h \in [Fds -> [Files -> 0 .. MaxHeld]]
  PROVE  /\ IsFiniteSet(AllUses(h)) /\ Cardinality(AllUses(h)) \in Nat
         /\ \A fd \in Fds, id \in Files : h[fd][id] <= Cardinality(AllUses(h))
<1>1. AllUses(h) \in SUBSET (Fds \X (Files \X (1 .. MaxHeld)))
  BY DEF AllUses
<1>2. IsFiniteSet(AllUses(h)) /\ Cardinality(AllUses(h)) \in Nat
  BY <1>1, FilesFinite, FS_Subset, FS_CardinalityType
<1>3. ASSUME NEW fd \in Fds, NEW id \in Files
      PROVE  h[fd][id] <= Cardinality(AllUses(h))
  <2> DEFINE n == h[fd][id]
             f == [k \in 1 .. n |-> <<fd, <<id, k>>>>]
  <2>1. n \in 0 .. MaxHeld /\ n \in Nat /\ MaxHeld \in Nat /\ h[fd] \in [Files -> 0 .. MaxHeld]
    BY Sizes
  <2>2. ASSUME NEW k \in 1 .. n PROVE <<fd, <<id, k>>>> \in AllUses(h)
    <3>1. k \in 1 .. MaxHeld
      BY <2>1
    <3>2. <<id, k>> \in Uses(h[fd])
      BY <2>1, <3>1 DEF Uses
    <3> QED BY <3>1, <3>2 DEF AllUses
  <2>3. f \in [1 .. n -> AllUses(h)] /\ DOMAIN f = 1 .. n
    BY <2>2
  <2>4. \A j, k \in 1 .. n : f[j] = f[k] => j = k
    OBVIOUS
  <2> HIDE DEF n, f
  <2>5. f \in Injection(1 .. n, AllUses(h))
    BY <2>3, <2>4 DEF Injection, IsInjective
  <2>6. Cardinality(1 .. n) <= Cardinality(AllUses(h))
    BY <1>2, <2>5, FS_Injection
  <2>7. Cardinality(1 .. n) = IF 1 > n THEN 0 ELSE n - 1 + 1
    BY <2>1, FS_Interval
  <2>8. Cardinality(1 .. n) = n
    BY <2>1, <2>7
  <2> QED BY <2>6, <2>8 DEF n
<1> QED BY <1>2, <1>3

\* One more and one less of descriptor fd for file id.
More(h, fd, id) == [h EXCEPT ![fd][id] = @ + 1]
Less(h, fd, id) == [h EXCEPT ![fd][id] = @ - 1]

\* Opening and closing a descriptor.
LEMMA AllUsesUp ==
  ASSUME NEW h \in [Fds -> [Files -> 0 .. MaxHeld]], NEW fd \in Fds, NEW id \in Files,
         Cardinality(AllUses(h)) < MaxHeld, NEW g, g = More(h, fd, id)
  PROVE  /\ g \in [Fds -> [Files -> 0 .. MaxHeld]]
         /\ Cardinality(AllUses(g)) <= MaxHeld
         /\ Cardinality(Uses(g[fd])) = Cardinality(Uses(h[fd])) + 1
         /\ g[fd][id] = h[fd][id] + 1 /\ \A i \in Files \ {id} : g[fd][i] = h[fd][i]
         /\ \A f \in Fds \ {fd} : g[f] = h[f]
<1> DEFINE e == [h[fd] EXCEPT ![id] = @ + 1]
           x == <<id, h[fd][id] + 1>>
<1>1. /\ h[fd] \in [Files -> 0 .. MaxHeld] /\ h[fd][id] \in 0 .. MaxHeld /\ MaxHeld \in Nat
      /\ h[fd][id] <= Cardinality(AllUses(h)) /\ Cardinality(AllUses(h)) \in Nat
      /\ IsFiniteSet(AllUses(h))
  BY Sizes, AllUsesFinite
<1>2. h[fd][id] < MaxHeld
  BY <1>1
<1>3. /\ e \in [Files -> 0 .. MaxHeld] /\ Uses(e) = Uses(h[fd]) \cup {x}
      /\ Cardinality(Uses(e)) = Cardinality(Uses(h[fd])) + 1
  BY <1>1, <1>2, UsesUp
<1>4. /\ g[fd] = e /\ e[id] = h[fd][id] + 1 /\ \A i \in Files \ {id} : e[i] = h[fd][i]
      /\ \A f \in Fds \ {fd} : g[f] = h[f]
  BY <1>1 DEF More, Less
<1>5. g \in [Fds -> [Files -> 0 .. MaxHeld]]
  <2> HIDE DEF e
  <2>1. g = [h EXCEPT ![fd] = e]
    BY DEF e, More, Less
  <2> QED BY <1>3, <2>1
<1> HIDE DEF e, x
<1>6. AllUses(g) \subseteq AllUses(h) \cup {<<fd, x>>}
  <2>1. ASSUME NEW u \in AllUses(g) PROVE u \in AllUses(h) \cup {<<fd, x>>}
    <3>1. /\ u \in Fds \X (Files \X (1 .. MaxHeld)) /\ u[2] \in Uses(g[u[1]])
          /\ u[1] \in Fds /\ u = <<u[1], u[2]>>
      BY DEF AllUses
    <3>2. CASE u[1] = fd
      BY <1>3, <1>4, <3>1, <3>2 DEF AllUses
    <3>3. CASE u[1] # fd
      BY <1>4, <3>1, <3>3 DEF AllUses
    <3> QED BY <3>2, <3>3
  <2> QED BY <2>1
<1>7. Cardinality(AllUses(g)) <= MaxHeld
  <2>1. /\ IsFiniteSet(AllUses(h) \cup {<<fd, x>>})
        /\ \/ Cardinality(AllUses(h) \cup {<<fd, x>>}) = Cardinality(AllUses(h))
           \/ Cardinality(AllUses(h) \cup {<<fd, x>>}) = Cardinality(AllUses(h)) + 1
    BY <1>1, FS_AddElement
  <2>2. Cardinality(AllUses(g)) <= Cardinality(AllUses(h) \cup {<<fd, x>>})
    BY <1>6, <2>1, FS_Subset
  <2>3. Cardinality(AllUses(g)) \in Nat
    BY <1>5, AllUsesFinite
  <2> QED BY <1>1, <2>1, <2>2, <2>3
<1> QED BY <1>3, <1>4, <1>5, <1>7

\* A descriptor that is closed is one use less, of its handle and of all.
LEMMA AllUsesDown ==
  ASSUME NEW h \in [Fds -> [Files -> 0 .. MaxHeld]], NEW fd \in Fds, NEW id \in Files,
         h[fd][id] > 0, NEW g, g = Less(h, fd, id)
  PROVE  /\ g \in [Fds -> [Files -> 0 .. MaxHeld]]
         /\ Cardinality(AllUses(g)) <= Cardinality(AllUses(h))
         /\ Cardinality(Uses(h[fd])) > 0
         /\ Cardinality(Uses(g[fd])) = Cardinality(Uses(h[fd])) - 1
         /\ g[fd][id] = h[fd][id] - 1 /\ \A i \in Files \ {id} : g[fd][i] = h[fd][i]
         /\ \A f \in Fds \ {fd} : g[f] = h[f]
<1> DEFINE e == [h[fd] EXCEPT ![id] = @ - 1]
<1>1. /\ h[fd] \in [Files -> 0 .. MaxHeld] /\ h[fd][id] \in 0 .. MaxHeld /\ MaxHeld \in Nat
      /\ IsFiniteSet(AllUses(h))
  BY Sizes, AllUsesFinite
<1>2. /\ e \in [Files -> 0 .. MaxHeld] /\ Uses(e) \subseteq Uses(h[fd])
      /\ Cardinality(Uses(h[fd])) > 0
      /\ Cardinality(Uses(e)) = Cardinality(Uses(h[fd])) - 1
  BY <1>1, UsesDown
<1>3. /\ g[fd] = e /\ e[id] = h[fd][id] - 1 /\ \A i \in Files \ {id} : e[i] = h[fd][i]
      /\ \A f \in Fds \ {fd} : g[f] = h[f]
  BY <1>1 DEF More, Less
<1>4. g \in [Fds -> [Files -> 0 .. MaxHeld]]
  <2> HIDE DEF e
  <2>1. g = [h EXCEPT ![fd] = e]
    BY DEF e, More, Less
  <2> QED BY <1>2, <2>1
<1> HIDE DEF e
<1>5. AllUses(g) \subseteq AllUses(h)
  <2>1. ASSUME NEW u \in AllUses(g) PROVE u \in AllUses(h)
    <3>1. /\ u \in Fds \X (Files \X (1 .. MaxHeld)) /\ u[2] \in Uses(g[u[1]]) /\ u[1] \in Fds
      BY DEF AllUses
    <3>2. CASE u[1] = fd
      BY <1>2, <1>3, <3>1, <3>2 DEF AllUses
    <3>3. CASE u[1] # fd
      BY <1>3, <3>1, <3>3 DEF AllUses
    <3> QED BY <3>2, <3>3
  <2> QED BY <2>1
<1>6. Cardinality(AllUses(g)) <= Cardinality(AllUses(h))
  BY <1>1, <1>5, FS_Subset
<1> QED BY <1>2, <1>3, <1>4, <1>6

\* After tfs_init nothing is used.
LEMMA NothingHeldIs ==
  /\ NothingHeld \in [Fds -> [Files -> 0 .. MaxHeld]]
  /\ Cardinality(AllUses(NothingHeld)) = 0
  /\ \A fd \in Fds : Cardinality(Uses(NothingHeld[fd])) = 0
  /\ \A fd \in Fds, id \in Files : NothingHeld[fd][id] = 0
<1>1. NothingHeld \in [Fds -> [Files -> 0 .. MaxHeld]] /\ \A fd \in Fds, id \in Files : NothingHeld[fd][id] = 0
  BY Sizes DEF NothingHeld
<1>2. ASSUME NEW fd \in Fds PROVE Uses(NothingHeld[fd]) = {}
  BY <1>1, Sizes DEF Uses
<1>3. AllUses(NothingHeld) = {}
  BY <1>2 DEF AllUses
<1> QED BY <1>1, <1>2, <1>3, FS_EmptySet

-----------------------------------------------------------------------------
(* Files and their data.                                                   *)

\* The blocks in b are those of the files at places other than p.
OwnedBut(c, d, b, p) ==
  /\ b = {At(d, q).blk : q \in Used(c, d) \ {p}} \ {0}
  /\ b \cap ToSet(c) = {}
  /\ \A q, r \in Used(c, d) \ {p} : At(d, q).blk = At(d, r).blk /\ At(d, q).blk # 0 => q = r

\* Without the block of one file the others own what is left.
LEMMA Disowned ==
  ASSUME NEW c, NEW d, NEW b, NEW p \in Used(c, d), Owned(c, d, b)
  PROVE  /\ OwnedBut(c, d, b \ {At(d, p).blk}, p)
         /\ At(d, p).blk # 0 => At(d, p).blk \in b /\ At(d, p).blk \notin ToSet(c)
<1> DEFINE U == Used(c, d)
<1>1. /\ b = {At(d, q).blk : q \in U} \ {0} /\ b \cap ToSet(c) = {}
      /\ \A q, r \in U : At(d, q).blk = At(d, r).blk /\ At(d, q).blk # 0 => q = r
  BY DEF Owned
<1> HIDE DEF U
<1>2. b \ {At(d, p).blk} = {At(d, q).blk : q \in U \ {p}} \ {0}
  BY <1>1 DEF U
<1>3. At(d, p).blk # 0 => At(d, p).blk \in b
  BY <1>1 DEF U
<1> QED BY <1>1, <1>2, <1>3 DEF OwnedBut, U

\* The items of the places other than p are all there is after a directory has become
\* smaller.
LEMMA Relocate ==
  ASSUME NEW c, NEW d, NEW c2, NEW d2, NEW p \in Used(c, d), ToSet(c2) \subseteq ToSet(c),
         Distinct(c, d), NEW m \in [Used(c2, d2) -> Used(c, d) \ {p}],
         \A q \in Used(c2, d2) : At(d2, q) = At(d, m[q]),
         \A q, r \in Used(c2, d2) : m[q] = m[r] => q = r,
         \A r \in Used(c, d) \ {p} : \E q \in Used(c2, d2) : m[q] = r
  PROVE  /\ Distinct(c2, d2)
         /\ \A b : OwnedBut(c, d, b, p) => Owned(c2, d2, b)
<1> DEFINE U == Used(c, d)
           V == Used(c2, d2)
<1>1. /\ \A q \in U : At(d, q).name \in Names
      /\ \A q, r \in U : At(d, q).name = At(d, r).name \/ At(d, q).file = At(d, r).file => q = r
  BY DEF Distinct
<1>2. /\ \A q \in V : m[q] \in U \ {p} /\ At(d2, q) = At(d, m[q])
      /\ \A q, r \in V : m[q] = m[r] => q = r
      /\ \A r \in U \ {p} : \E q \in V : m[q] = r
  OBVIOUS
<1> HIDE DEF U, V
<1>3. Distinct(c2, d2)
  <2>1. \A q \in V : At(d2, q).name \in Names
    BY <1>1, <1>2
  <2>2. \A q, r \in V : At(d2, q).name = At(d2, r).name \/ At(d2, q).file = At(d2, r).file => q = r
    BY <1>1, <1>2
  <2> QED BY <2>1, <2>2 DEF Distinct, V
<1>4. ASSUME NEW b, OwnedBut(c, d, b, p) PROVE Owned(c2, d2, b)
  <2>1. /\ b = {At(d, q).blk : q \in U \ {p}} \ {0} /\ b \cap ToSet(c) = {}
        /\ \A q, r \in U \ {p} : At(d, q).blk = At(d, r).blk /\ At(d, q).blk # 0 => q = r
    BY <1>4 DEF OwnedBut, U
  <2>2. {At(d, q).blk : q \in U \ {p}} = {At(d2, q).blk : q \in V}
    BY <1>2
  <2>3. \A q, r \in V : At(d2, q).blk = At(d2, r).blk /\ At(d2, q).blk # 0 => q = r
    BY <1>2, <2>1
  <2> QED BY <2>1, <2>2, <2>3 DEF Owned, V
<1> QED BY <1>3, <1>4

\* An item is stored at place p, with a name and a file that are nowhere else, and with
\* a block that is not in use.
LEMMA StoredIs ==
  ASSUME NEW c \in Chains, ToSet(c) \subseteq Blocks, NEW d \in DirItems, NEW x \in Items,
         x.file # NoFile, x.name \in Names, NEW p \in [blk : ToSet(c), slot : Slots],
         Distinct(c, d), NEW e, e = Put(d, p, x),
         \A q \in Used(c, d) \ {p} : At(d, q).name # x.name /\ At(d, q).file # x.file
  PROVE  /\ e \in DirItems /\ Used(c, e) = Used(c, d) \cup {p} /\ At(e, p) = x
         /\ \A q \in Used(c, e) \ {p} : At(e, q) = At(d, q)
         /\ Distinct(c, e)
         /\ \A b : OwnedBut(c, d, b, p) /\ (x.blk = 0 \/ x.blk \in Unused(c, b))
              => Owned(c, e, b \cup ({x.blk} \ {0}))
<1> DEFINE U == Used(c, d)
           V == Used(c, e)
<1>1. /\ e \in DirItems /\ V = U \cup {p} /\ At(e, p) = x
      /\ \A q \in V \ {p} : At(e, q) = At(d, q)
  BY StoreIs
<1>2. /\ \A q \in U : At(d, q).name \in Names
      /\ \A q, r \in U : At(d, q).name = At(d, r).name \/ At(d, q).file = At(d, r).file => q = r
  BY DEF Distinct
<1>3. \A q \in U \ {p} : At(d, q).name # x.name /\ At(d, q).file # x.file
  OBVIOUS
<1> HIDE DEF U, V
<1>4. Distinct(c, e)
  <2>1. \A q \in V : At(e, q).name \in Names
    BY <1>1, <1>2
  <2>2. \A q, r \in V : At(e, q).name = At(e, r).name \/ At(e, q).file = At(e, r).file => q = r
    BY <1>1, <1>2, <1>3
  <2> QED BY <2>1, <2>2 DEF Distinct, V
<1>5. ASSUME NEW b, OwnedBut(c, d, b, p), x.blk = 0 \/ x.blk \in Unused(c, b)
      PROVE  Owned(c, e, b \cup ({x.blk} \ {0}))
  <2>1. /\ b = {At(d, q).blk : q \in U \ {p}} \ {0} /\ b \cap ToSet(c) = {}
        /\ \A q, r \in U \ {p} : At(d, q).blk = At(d, r).blk /\ At(d, q).blk # 0 => q = r
    BY <1>5 DEF OwnedBut, U
  <2>2. x.blk # 0 => x.blk \notin b /\ x.blk \notin ToSet(c)
    BY <1>5 DEF Unused
  <2>3. b \cup ({x.blk} \ {0}) = {At(e, q).blk : q \in V} \ {0}
    <3>1. \A q \in U \ {p} : q \in V \ {p} /\ At(e, q).blk = At(d, q).blk
      BY <1>1
    <3>2. \A q \in V : q = p \/ q \in U \ {p}
      BY <1>1
    <3>3. p \in V /\ At(e, p).blk = x.blk
      BY <1>1
    <3> QED BY <2>1, <3>1, <3>2, <3>3
  <2>4. \A q, r \in V : At(e, q).blk = At(e, r).blk /\ At(e, q).blk # 0 => q = r
    <3>1. \A q \in V \ {p} : q \in U \ {p} /\ At(e, q).blk = At(d, q).blk
      BY <1>1
    <3>2. \A q \in V \ {p} : At(e, q).blk # 0 => At(e, q).blk \in b
      BY <2>1, <3>1
    <3>3. At(e, p).blk = x.blk
      BY <1>1
    <3> QED BY <2>1, <2>2, <3>1, <3>2, <3>3
  <2> QED BY <2>1, <2>2, <2>3, <2>4 DEF Owned, V
<1> QED BY <1>1, <1>4, <1>5 DEF U, V

\* There is an identity for a new file, which no file of the directory has and no
\* descriptor is held for.
LEMMA NewFileIs ==
  ASSUME Typed, Distinct(chain, dir), NEW n \in Names,
         \A p \in Used(chain, dir) : At(dir, p).name # n
  PROVE  /\ NewFile \in Files /\ NewFile \notin OpenFiles
         /\ \A p \in Used(chain, dir) : At(dir, p).file # NewFile
<1> DEFINE U == Used(chain, dir)
           F == {At(dir, p).file : p \in U}
           G == {ItemAt(Place(i)).file : i \in Places}
           A == AllUses(held)
<1>1. /\ chain \in Chains /\ dir \in DirItems /\ held \in [Fds -> [Files -> 0 .. MaxHeld]]
      /\ Cardinality(A) <= MaxHeld /\ MaxHeld \in Nat
  BY Sizes DEF Typed, AllHeld
<1>2. /\ \A p \in U : At(dir, p).name \in Names \ {n}
      /\ \A p, q \in U : At(dir, p).name = At(dir, q).name => At(dir, p).file = At(dir, q).file
  BY DEF Distinct
<1>3. ASSUME NEW p \in U PROVE At(dir, p).file \in Files
  <2>1. p.blk \in Blocks /\ p.slot \in Slots /\ At(dir, p).file # NoFile
    BY <1>1, PlaceIs DEF Used, At
  <2>2. At(dir, p) \in Items
    BY <1>1, <2>1 DEF DirItems, At
  <2> QED BY <2>1, <2>2 DEF Items
<1> HIDE DEF U, A
<1>4. F \subseteq Files /\ IsFiniteSet(F) /\ Cardinality(F) \in Nat
  <2>1. F \subseteq Files
    BY <1>3
  <2> QED BY <2>1, FilesFinite, FS_Subset, FS_CardinalityType
<1>5. Cardinality(F) <= Cardinality(Names) - 1
  <2> DEFINE of(x) == CHOOSE p \in U : At(dir, p).file = x
             g == [x \in F |-> At(dir, of(x)).name]
  <2>1. \A x \in F : of(x) \in U /\ At(dir, of(x)).file = x
    OBVIOUS
  <2> HIDE DEF F, of
  <2>2. g \in [F -> Names \ {n}] /\ DOMAIN g = F
    BY <1>2, <2>1
  <2>3. \A x, y \in F : g[x] = g[y] => x = y
    BY <1>2, <2>1
  <2> HIDE DEF g
  <2>4. g \in Injection(F, Names \ {n})
    BY <2>2, <2>3 DEF Injection, IsInjective
  <2>5. IsFiniteSet(Names \ {n}) /\ Cardinality(Names \ {n}) = Cardinality(Names) - 1
    BY FilesFinite, FS_RemoveElement
  <2> QED BY <2>4, <2>5, FS_Injection
<1>6. OpenFiles \subseteq Files /\ IsFiniteSet(OpenFiles) /\ Cardinality(OpenFiles) \in Nat
  <2>1. OpenFiles \subseteq Files
    BY DEF OpenFiles, HeldFiles
  <2> QED BY <2>1, FilesFinite, FS_Subset, FS_CardinalityType
<1>7. Cardinality(OpenFiles) <= MaxHeld
  <2> DEFINE by(x) == CHOOSE fd \in Fds : held[fd][x] > 0
             g == [x \in OpenFiles |-> <<by(x), <<x, 1>>>>]
  <2>1. \A x \in OpenFiles : x \in Files /\ by(x) \in Fds /\ held[by(x)][x] > 0
    BY DEF OpenFiles, HeldFiles
  <2> HIDE DEF by
  <2>2. ASSUME NEW x \in OpenFiles PROVE <<by(x), <<x, 1>>>> \in A
    <3>1. held[by(x)] \in [Files -> 0 .. MaxHeld] /\ held[by(x)][x] \in 0 .. MaxHeld
      BY <1>1, <2>1
    <3>2. 1 \in 1 .. MaxHeld /\ 1 <= held[by(x)][x]
      BY <1>1, <2>1, <3>1
    <3>3. <<x, 1>> \in Uses(held[by(x)])
      BY <2>1, <3>2 DEF Uses
    <3> QED BY <2>1, <3>2, <3>3 DEF AllUses, A
  <2>3. g \in [OpenFiles -> A] /\ DOMAIN g = OpenFiles /\ \A x, y \in OpenFiles : g[x] = g[y] => x = y
    BY <2>2
  <2> HIDE DEF g
  <2>4. g \in Injection(OpenFiles, A)
    BY <2>3 DEF Injection, IsInjective
  <2>5. IsFiniteSet(A) /\ Cardinality(A) \in Nat
    BY <1>1, AllUsesFinite DEF A
  <2>6. Cardinality(OpenFiles) <= Cardinality(A)
    BY <2>4, <2>5, FS_Injection
  <2> QED BY <1>1, <1>6, <2>5, <2>6
<1> HIDE DEF F, G
<1>8. Files \ (F \cup OpenFiles) # {}
  <2>1. /\ IsFiniteSet(F \cup OpenFiles)
        /\ Cardinality(F \cup OpenFiles) =
             Cardinality(F) + Cardinality(OpenFiles) - Cardinality(F \cap OpenFiles)
    BY <1>4, <1>6, FS_Union
  <2>2. Cardinality(F \cap OpenFiles) \in Nat
    BY <1>4, FS_Intersection, FS_CardinalityType
  <2>3. Cardinality(F \cup OpenFiles) < Cardinality(Files)
    BY <1>1, <1>4, <1>5, <1>6, <1>7, <2>1, <2>2, FilesFinite
  <2>4. Cardinality(F \cup OpenFiles) \in Nat /\ Cardinality(Files) \in Nat
    BY <2>1, FilesFinite, FS_CardinalityType
  <2>5. F \cup OpenFiles # Files
    BY <2>3, <2>4
  <2> QED BY <1>4, <1>6, <2>5
<1>9. \A x \in G : x \in F \/ x = NoFile
  <2>1. ASSUME NEW i \in Places PROVE ItemAt(Place(i)).file \in F \cup {NoFile}
    <3>1. Place(i) \in [blk : ToSet(chain), slot : Slots]
      BY <1>1, PlaceIs
    <3>2. CASE ItemAt(Place(i)).file # NoFile
      <4>1. Place(i) \in U /\ At(dir, Place(i)) = ItemAt(Place(i))
        BY <3>1, <3>2 DEF U, Used, At, ItemAt
      <4> QED BY <4>1 DEF F
    <3> QED BY <3>2
  <2> QED BY <2>1 DEF G
<1>10. ASSUME NEW p \in U PROVE At(dir, p).file \in G
  <2>1. PICK i \in Places : Place(i) = p
    BY <1>1, PlaceIs DEF U, Used
  <2> QED BY <2>1 DEF G, At, ItemAt
<1>11. Files \ (G \cup OpenFiles) # {} /\ Files \ (G \cup OpenFiles) \in SUBSET Nat
  BY <1>8, <1>9, FilesFinite DEF NoFile
<1>12. NewFile \in Files \ (G \cup OpenFiles)
  BY <1>11, MinFacts DEF NewFile, G
<1> QED BY <1>10, <1>12 DEF U

-----------------------------------------------------------------------------
(* Handles and their files.                                                *)

\* item_usage_count and tfs_open find the handle in use for a place if there is one.
LEMMA CountIs ==
  ASSUME FirstUsed, NEW p
  PROVE  /\ item_usage_count(p) > 0 <=> \E fd \in Fds : Key(handles[fd]) = p /\ InUse(fd)
         /\ Shared(p) = {} <=> ~\E fd \in Fds : Key(handles[fd]) = p /\ InUse(fd)
         /\ \A fd \in Shared(p) : fd \in Fds /\ Key(handles[fd]) = p /\ InUse(fd)
<1> DEFINE same == {fd \in Fds : Key(handles[fd]) = p}
           used == {fd \in Fds : Key(handles[fd]) = p /\ InUse(fd)}
<1>1. /\ item_usage_count(p) = IF same = {} THEN 0 ELSE handles[Min(same)].usage_count
      /\ Shared(p) = IF used = {} THEN {} ELSE {Min(used)}
      /\ Fds \subseteq Nat /\ same \in SUBSET Nat /\ used \in SUBSET Nat
  BY Sizes DEF item_usage_count, Shared
<1>2. used # {} => Min(used) \in used
  BY <1>1, MinFacts
<1>3. same # {} => Min(same) \in same /\ \A g \in same : Min(same) <= g
  BY <1>1, MinFacts
<1>4. ASSUME NEW g \in Fds, Key(handles[g]) = p, InUse(g)
      PROVE  item_usage_count(p) > 0
  <2> DEFINE f == Min(same)
  <2>1. g \in same /\ f \in Fds /\ Key(handles[f]) = p /\ f <= g
    BY <1>3, <1>4
  <2> HIDE DEF f
  <2>2. ~(f < g)
    BY <1>4, <2>1 DEF FirstUsed
  <2>3. f = g
    BY <1>1, <2>1, <2>2
  <2>4. item_usage_count(p) = handles[g].usage_count
    BY <1>1, <2>1, <2>3 DEF f
  <2> QED BY <1>4, <2>4 DEF InUse
<1>5. ASSUME item_usage_count(p) > 0
      PROVE  \E fd \in Fds : Key(handles[fd]) = p /\ InUse(fd)
  <2>1. same # {}
    BY <1>1, <1>5
  <2> QED BY <1>1, <1>3, <1>5, <2>1 DEF InUse
<1> QED BY <1>1, <1>2, <1>4, <1>5

\* A handle in use has one file, which is the one at its place.
LEMMA HandleIs ==
  ASSUME IInv, Sane, NEW fd \in Fds, InUse(fd)
  PROVE  /\ Key(handles[fd]) \in Used(chain, dir)
         /\ At(dir, Key(handles[fd])).file \in HeldFiles(fd)
         /\ \A id \in HeldFiles(fd) : id = At(dir, Key(handles[fd])).file
         /\ handles[fd].first_blk = At(dir, Key(handles[fd])).blk
<1>1. /\ chain \in Chains /\ dir \in DirItems /\ handles \in [Fds -> Handles]
      /\ held \in [Fds -> [Files -> 0 .. MaxHeld]]
      /\ handles[fd].usage_count = Cardinality(Uses(held[fd]))
      /\ \A id \in HeldFiles(fd) : Refers(handles[fd], id)
      /\ handles[fd].first_blk = dir[handles[fd].dir_blk][handles[fd].dir_item].blk
  BY DEF IInv, Typed, UsageCounted, Sane, DescriptorsRight, Holders, Agreed
<1>2. \E id \in Files : held[fd][id] > 0
  BY <1>1, UsesFinite DEF InUse
<1>3. PICK id \in HeldFiles(fd) : TRUE
  BY <1>2 DEF HeldFiles
<1>4. /\ handles[fd].dir_blk # 0 => handles[fd].dir_item \in Slots
      /\ Key(handles[fd]).blk = handles[fd].dir_blk
      /\ Key(handles[fd]).slot = handles[fd].dir_item
      /\ Key(handles[fd]) = [blk |-> handles[fd].dir_blk, slot |-> handles[fd].dir_item]
  BY <1>1 DEF Handles, Key
<1>5. \A j \in HeldFiles(fd) : j # NoFile /\ j = At(dir, Key(handles[fd])).file
                               /\ handles[fd].dir_blk \in ToSet(chain)
  BY <1>1, <1>4, FilesFinite DEF HeldFiles, Refers, At, NoFile
<1>6. handles[fd].dir_blk \in ToSet(chain) /\ 0 \notin ToSet(chain)
  BY <1>1, <1>3, <1>5, PlaceIs, Sizes
<1>7. /\ Key(handles[fd]) \in [blk : ToSet(chain), slot : Slots]
      /\ At(dir, Key(handles[fd])).file # NoFile
  BY <1>3, <1>4, <1>5, <1>6
<1>8. Key(handles[fd]) \in Used(chain, dir)
  BY <1>7 DEF Used, At
<1>9. handles[fd].first_blk = At(dir, Key(handles[fd])).blk
  BY <1>1, <1>4 DEF At
<1> QED BY <1>3, <1>5, <1>8, <1>9

\* A place has a handle in use when its file is open.
LEMMA OpenIs ==
  ASSUME IInv, Sane, NEW p \in Used(chain, dir)
  PROVE  At(dir, p).file \in OpenFiles <=> \E fd \in Fds : Key(handles[fd]) = p /\ InUse(fd)
<1>1. ASSUME NEW fd \in Fds, Key(handles[fd]) = p, InUse(fd)
      PROVE  At(dir, p).file \in OpenFiles
  BY <1>1, HandleIs DEF OpenFiles
<1>2. ASSUME At(dir, p).file \in OpenFiles
      PROVE  \E fd \in Fds : Key(handles[fd]) = p /\ InUse(fd)
  <2>1. PICK fd \in Fds : At(dir, p).file \in HeldFiles(fd)
    BY <1>2 DEF OpenFiles
  <2>2. InUse(fd)
    BY <2>1 DEF IInv, DescriptorsRight
  <2>3. Key(handles[fd]) \in Used(chain, dir) /\ At(dir, p).file = At(dir, Key(handles[fd])).file
    BY <2>1, <2>2, HandleIs
  <2> QED BY <2>2, <2>3 DEF IInv, Distinct
<1> QED BY <1>1, <1>2

\* What a call must leave alone of the places of open files.
LEMMA HandlesKept ==
  ASSUME IInv, Sane' => Sane, "wrapped" \in spoiled => "wrapped" \in spoiled', held' = held,
         \A fd \in Fds : /\ Key(handles'[fd]) = Key(handles[fd])
                         /\ handles'[fd].usage_count = handles[fd].usage_count,
         \A fd \in Fds : Sane' /\ InUse(fd) =>
           /\ Key(handles[fd]).blk \in ToSet(chain')
           /\ At(dir', Key(handles[fd])).file = At(dir, Key(handles[fd])).file
           /\ handles'[fd].first_blk = At(dir', Key(handles[fd])).blk
  PROVE  UsageCounted' /\ FirstUsed' /\ DescriptorsRight' /\ (Sane' => Agreed')
<1>1. UsageCounted'
  BY DEF IInv, UsageCounted, Holders
<1>2. FirstUsed'
  BY DEF IInv, FirstUsed, InUse
<1>3. \A fd \in Fds : /\ handles'[fd].dir_blk = handles[fd].dir_blk
                      /\ handles'[fd].dir_item = handles[fd].dir_item
                      /\ Key(handles[fd]).blk = handles[fd].dir_blk
                      /\ Key(handles[fd]).slot = handles[fd].dir_item
                      /\ InUse(fd)' <=> InUse(fd)
  BY DEF Key, InUse
<1>4. ASSUME Sane', NEW fd \in Fds, NEW id \in HeldFiles(fd)'
      PROVE  /\ InUse(fd)' /\ Refers(handles[fd], id)'
             /\ \A g \in Fds \ {fd} : id \notin HeldFiles(g)'
  <2>1. id \in HeldFiles(fd) /\ Sane
    BY <1>4 DEF HeldFiles
  <2>2. /\ InUse(fd) /\ \A g \in Fds \ {fd} : id \notin HeldFiles(g)
    BY <2>1 DEF IInv, DescriptorsRight
  <2>3. id = At(dir, Key(handles[fd])).file
    BY <2>1, <2>2, HandleIs
  <2>4. handles'[fd].dir_blk \in ToSet(chain') /\ dir'[handles'[fd].dir_blk][handles'[fd].dir_item].file = id
    BY <1>3, <1>4, <2>2, <2>3 DEF At
  <2>5. \A g \in Fds \ {fd} : id \notin HeldFiles(g)'
    BY <2>2 DEF HeldFiles
  <2> QED BY <1>3, <2>2, <2>4, <2>5 DEF Refers
<1>5. DescriptorsRight'
  BY <1>4 DEF DescriptorsRight
<1>6. ASSUME Sane', NEW fd \in Fds, InUse(fd)'
      PROVE  handles'[fd].first_blk = dir'[handles'[fd].dir_blk][handles'[fd].dir_item].blk
  BY <1>3, <1>6 DEF At
<1> QED BY <1>1, <1>2, <1>5, <1>6 DEF Agreed

\* What a call on the directory must leave alone.
LEMMA DirStep ==
  ASSUME IInv, Sane \/ GoOn,
         UNCHANGED <<handles, held, spoiled>>,
         chain' \in Chains, dir' \in DirItems, data' \subseteq Blocks, Distinct(chain', dir'),
         Owned(chain, dir, data) => Owned(chain', dir', data'),
         ToSet(chain) \subseteq ToSet(chain'),
         Sane => \A fd \in Fds : InUse(fd) =>
                   /\ At(dir', Key(handles[fd])).file = At(dir, Key(handles[fd])).file
                   /\ At(dir', Key(handles[fd])).blk = At(dir, Key(handles[fd])).blk
  PROVE  IInv'
<1>1. Typed'
  BY DEF IInv, Typed, AllHeld
<1>2. Sane' <=> Sane
  BY DEF Sane
<1>3. Sane' \/ ~GoOn => Owned(chain', dir', data')
  BY <1>2 DEF IInv
<1>4. ASSUME NEW fd \in Fds, Sane', InUse(fd)
      PROVE  /\ Key(handles[fd]).blk \in ToSet(chain')
             /\ At(dir', Key(handles[fd])).file = At(dir, Key(handles[fd])).file
             /\ handles'[fd].first_blk = At(dir', Key(handles[fd])).blk
  <2>1. Key(handles[fd]) \in Used(chain, dir) /\ handles[fd].first_blk = At(dir, Key(handles[fd])).blk
    BY <1>2, <1>4, HandleIs
  <2>2. Key(handles[fd]).blk \in ToSet(chain)
    BY <2>1 DEF Used
  <2> QED BY <1>2, <1>4, <2>1, <2>2
<1>5. UsageCounted' /\ FirstUsed' /\ DescriptorsRight' /\ (Sane' => Agreed')
  <2>1. \A fd \in Fds : /\ Key(handles'[fd]) = Key(handles[fd])
                        /\ handles'[fd].usage_count = handles[fd].usage_count
    OBVIOUS
  <2> QED BY <1>2, <1>4, <2>1, HandlesKept
<1> QED BY <1>1, <1>3, <1>5 DEF IInv

\* Calls that change nothing.
LEMMA NothingChanged ==
  ASSUME IInv, UNCHANGED <<chain, dir, data, handles, held, spoiled>>
  PROVE  IInv'
<1>1. Typed' /\ Distinct(chain', dir') /\ (Sane' \/ ~GoOn => Owned(chain', dir', data'))
  BY DEF IInv, Typed, AllHeld, Sane
<1>2. UsageCounted' /\ FirstUsed'
  BY DEF IInv, UsageCounted, Holders, FirstUsed, InUse
<1>3. DescriptorsRight' /\ (Sane' => Agreed')
  BY DEF IInv, DescriptorsRight, Agreed, Sane, HeldFiles, InUse, Refers
<1> QED BY <1>1, <1>2, <1>3 DEF IInv

\* The item at place p is replaced by one of the same file.
LEMMA Rewritten ==
  ASSUME chain \in Chains, dir \in DirItems, Distinct(chain, dir),
         NEW p \in Used(chain, dir), NEW x \in Items, x.file = At(dir, p).file, x.name \in Names,
         \A q \in Used(chain, dir) \ {p} : At(dir, q).name # x.name,
         NEW e, e = Put(dir, p, x)
  PROVE  /\ e \in DirItems /\ Distinct(chain, e) /\ At(e, p) = x
         /\ \A q \in Used(chain, dir) \ {p} : At(e, q) = At(dir, q)
         /\ Owned(chain, dir, data) /\ (x.blk = 0 \/ x.blk \in Unused(chain, data \ {At(dir, p).blk}))
              => Owned(chain, e, (data \ {At(dir, p).blk}) \cup ({x.blk} \ {0}))
<1>1. /\ p \in [blk : ToSet(chain), slot : Slots] /\ x.file # NoFile
      /\ ToSet(chain) \subseteq Blocks
  BY PlaceIs DEF Used, At
<1>2. \A q \in Used(chain, dir) \ {p} : At(dir, q).name # x.name /\ At(dir, q).file # x.file
  BY DEF Distinct
<1>3. /\ e \in DirItems /\ Used(chain, e) = Used(chain, dir) \cup {p} /\ At(e, p) = x
      /\ \A q \in Used(chain, e) \ {p} : At(e, q) = At(dir, q)
      /\ Distinct(chain, e)
      /\ \A k : OwnedBut(chain, dir, k, p) /\ (x.blk = 0 \/ x.blk \in Unused(chain, k))
           => Owned(chain, e, k \cup ({x.blk} \ {0}))
  BY <1>1, <1>2, StoredIs, SMTT(30)
<1>4. ASSUME Owned(chain, dir, data), x.blk = 0 \/ x.blk \in Unused(chain, data \ {At(dir, p).blk})
      PROVE  Owned(chain, e, (data \ {At(dir, p).blk}) \cup ({x.blk} \ {0}))
  BY <1>3, <1>4, Disowned
<1> QED BY <1>3, <1>4

\* tfs_write_file on an existing file, and tfs_rename.
LEMMA ItemStep ==
  ASSUME IInv, Sane \/ GoOn, UNCHANGED <<chain, handles, held, spoiled>>,
         NEW p \in Used(chain, dir), NEW x \in Items, x.file = At(dir, p).file, x.name \in Names,
         \A q \in Used(chain, dir) \ {p} : At(dir, q).name # x.name,
         data' \subseteq Blocks,
         Owned(chain, dir, data) => /\ data' = (data \ {At(dir, p).blk}) \cup ({x.blk} \ {0})
                                    /\ x.blk = 0 \/ x.blk \in Unused(chain, data \ {At(dir, p).blk}),
         dir' = Put(dir, p, x),
         x.blk = At(dir, p).blk \/ \A fd \in Fds : InUse(fd) => Key(handles[fd]) # p
  PROVE  IInv'
<1>1. chain \in Chains /\ dir \in DirItems /\ Distinct(chain, dir)
  BY DEF IInv, Typed
<1>2. /\ dir' \in DirItems /\ Distinct(chain, dir') /\ At(dir', p) = x
      /\ \A q \in Used(chain, dir) \ {p} : At(dir', q) = At(dir, q)
      /\ Owned(chain, dir, data) => Owned(chain, dir', data')
  <2> DEFINE e == Put(dir, p, x)
             b == (data \ {At(dir, p).blk}) \cup ({x.blk} \ {0})
  <2>1. e = Put(dir, p, x)
    OBVIOUS
  <2> HIDE DEF e
  <2>2. /\ e \in DirItems /\ Distinct(chain, e) /\ At(e, p) = x
        /\ \A q \in Used(chain, dir) \ {p} : At(e, q) = At(dir, q)
        /\ Owned(chain, dir, data) /\ (x.blk = 0 \/ x.blk \in Unused(chain, data \ {At(dir, p).blk}))
             => Owned(chain, e, b)
    BY <1>1, <2>1, Rewritten, SMTT(30)
  <2> HIDE DEF b
  <2>3. Owned(chain, dir, data) =>
          data' = b /\ (x.blk = 0 \/ x.blk \in Unused(chain, data \ {At(dir, p).blk}))
    BY DEF b
  <2> QED BY <2>1, <2>2, <2>3
<1>3. ASSUME Sane, NEW fd \in Fds, InUse(fd)
      PROVE  /\ At(dir', Key(handles[fd])).file = At(dir, Key(handles[fd])).file
             /\ At(dir', Key(handles[fd])).blk = At(dir, Key(handles[fd])).blk
  <2>1. Key(handles[fd]) \in Used(chain, dir)
    BY <1>3, HandleIs
  <2> QED BY <1>2, <1>3, <2>1
<1> QED BY <1>1, <1>2, <1>3, DirStep

\* tfs_touch and tfs_write_file of a new file.
LEMMA NewItemStep ==
  ASSUME IInv, Sane \/ GoOn, UNCHANGED <<handles, held, spoiled>>,
         NEW n \in Names, find_file(n) = {}, NEW f \in find_free,
         NEW b, b = 0 \/ b \in Unused(f.chain, data), NEW x,
         NewFile \in Files => x \in Items, x.file = NewFile, x.name = n, x.blk = b,
         chain' = f.chain, data' = data \cup ({b} \ {0}),
         dir' = Put(f.items, f.place, x)
  PROVE  IInv'
<1> DEFINE p == f.place
           c == f.chain
           d == f.items
           U == Used(chain, dir)
<1>1. chain \in Chains /\ dir \in DirItems /\ data \subseteq Blocks /\ Distinct(chain, dir) /\ Typed
  BY DEF IInv, Typed
<1>2. /\ c \in Chains /\ d \in DirItems /\ p \in [blk : ToSet(c), slot : Slots]
      /\ At(d, p).file = NoFile /\ ToSet(chain) \subseteq ToSet(c) /\ ToSet(c) \subseteq Blocks
      /\ \A k \in ToSet(c) \ ToSet(chain) : k \notin data
      /\ \A k \in ToSet(chain) : d[k] = dir[k]
      /\ Used(c, d) = U
  BY <1>1, FreeIs
<1> HIDE DEF p, c, d
<1>3. \A q \in U : At(dir, q).name # n
  BY <1>1, FoundIs
<1>4. /\ NewFile \in Files /\ NewFile \notin OpenFiles /\ \A q \in U : At(dir, q).file # NewFile
  BY <1>1, <1>3, NewFileIs
<1>5. x \in Items /\ x.file = NewFile /\ x.name = n /\ x.blk = b /\ NewFile # NoFile
  BY <1>4, FilesFinite DEF NoFile
<1>6. \A q \in U : At(d, q) = At(dir, q)
  BY <1>2 DEF Used, At
<1>7. p \notin U
  BY <1>2 DEF Used, At
<1>8. Distinct(c, d)
  BY <1>1, <1>2, <1>6 DEF Distinct
<1>9. /\ dir' \in DirItems /\ Used(c, dir') = Used(c, d) \cup {p} /\ At(dir', p) = x
      /\ \A q \in Used(c, dir') \ {p} : At(dir', q) = At(d, q)
      /\ Distinct(c, dir')
      /\ \A k : OwnedBut(c, d, k, p) /\ (x.blk = 0 \/ x.blk \in Unused(c, k))
           => Owned(c, dir', k \cup ({x.blk} \ {0}))
  <2>1. \A q \in Used(c, d) \ {p} : At(d, q).name # x.name /\ At(d, q).file # x.file
    BY <1>2, <1>3, <1>4, <1>5, <1>6
  <2>2. dir' = Put(d, p, x) /\ x.file # NoFile /\ x.name \in Names
    BY <1>5 DEF d, p
  <2> DEFINE e == Put(d, p, x)
  <2>3. e = Put(d, p, x)
    OBVIOUS
  <2> HIDE DEF U, e
  <2>4. /\ e \in DirItems /\ Used(c, e) = Used(c, d) \cup {p} /\ At(e, p) = x
        /\ \A q \in Used(c, e) \ {p} : At(e, q) = At(d, q)
        /\ Distinct(c, e)
        /\ \A k : OwnedBut(c, d, k, p) /\ (x.blk = 0 \/ x.blk \in Unused(c, k))
             => Owned(c, e, k \cup ({x.blk} \ {0}))
    <3>1. /\ c \in Chains /\ ToSet(c) \subseteq Blocks /\ d \in DirItems /\ x \in Items
          /\ p \in [blk : ToSet(c), slot : Slots] /\ Distinct(c, d) /\ x.file # NoFile /\ x.name \in Names
      BY <1>2, <1>5, <1>8, <2>2
    <3>2. /\ e \in DirItems /\ Used(c, e) = Used(c, d) \cup {p} /\ At(e, p) = x
      BY <2>1, <2>3, <3>1, StoredIs
    <3>3. Distinct(c, e)
      BY <2>1, <2>3, <3>1, StoredIs
    <3>4. \A q \in Used(c, e) \ {p} : At(e, q) = At(d, q)
      BY <2>1, <2>3, <3>1, StoredIs
    <3>5. \A k : OwnedBut(c, d, k, p) /\ (x.blk = 0 \/ x.blk \in Unused(c, k))
             => Owned(c, e, k \cup ({x.blk} \ {0}))
      BY <2>1, <2>3, <3>1, StoredIs
    <3> QED BY <3>2, <3>3, <3>4, <3>5
  <2> QED BY <2>2, <2>4 DEF e
<1>10. ASSUME Owned(chain, dir, data) PROVE Owned(c, dir', data')
  <2>1. /\ data = {At(dir, q).blk : q \in U} \ {0} /\ data \cap ToSet(chain) = {}
        /\ \A q, r \in U : At(dir, q).blk = At(dir, r).blk /\ At(dir, q).blk # 0 => q = r
    BY <1>10 DEF Owned
  <2> HIDE DEF U
  <2>2. {At(dir, q).blk : q \in U} = {At(d, q).blk : q \in U \ {p}}
    BY <1>6, <1>7
  <2>3. /\ data \cap ToSet(c) = {}
        /\ \A q, r \in U \ {p} : At(d, q).blk = At(d, r).blk /\ At(d, q).blk # 0 => q = r
    BY <1>2, <1>6, <2>1
  <2>4. OwnedBut(c, d, data, p)
    BY <1>2, <2>1, <2>2, <2>3 DEF OwnedBut
  <2> QED BY <1>5, <1>9, <2>4 DEF c
<1>11. \A q \in U : At(dir', q) = At(dir, q)
  BY <1>2, <1>6, <1>7, <1>9
<1>12. data' \subseteq Blocks
  BY <1>1 DEF Unused
<1>13. ASSUME Sane, NEW fd \in Fds, InUse(fd)
       PROVE  At(dir', Key(handles[fd])) = At(dir, Key(handles[fd]))
  BY <1>11, <1>13, HandleIs
<1>14. /\ chain' = c /\ chain' \in Chains /\ ToSet(chain) \subseteq ToSet(chain') /\ Distinct(chain', dir')
       /\ Owned(chain, dir, data) => Owned(chain', dir', data')
  BY <1>2, <1>9, <1>10 DEF c
<1> HIDE DEF U
<1> QED BY <1>9, <1>12, <1>13, <1>14, DirStep

\* A new block of the directory stays when there is no room for the data of the file.
LEMMA GrownStep ==
  ASSUME IInv, Sane \/ GoOn, UNCHANGED <<data, handles, held, spoiled>>,
         NEW f \in find_free, chain' = f.chain, dir' = f.items
  PROVE  IInv'
<1> DEFINE U == Used(chain, dir)
<1>1. chain \in Chains /\ dir \in DirItems /\ data \subseteq Blocks /\ Distinct(chain, dir)
  BY DEF IInv, Typed
<1>2. /\ chain' \in Chains /\ dir' \in DirItems
      /\ ToSet(chain) \subseteq ToSet(chain')
      /\ \A k \in ToSet(chain') \ ToSet(chain) : k \notin data
      /\ \A k \in ToSet(chain) : dir'[k] = dir[k]
      /\ Used(chain', dir') = U
  BY <1>1, FreeIs
<1>3. \A q \in U : At(dir', q) = At(dir, q)
  BY <1>2 DEF Used, At
<1>4. Distinct(chain', dir')
  BY <1>1, <1>2, <1>3 DEF Distinct
<1>5. ASSUME Owned(chain, dir, data) PROVE Owned(chain', dir', data')
  <2>1. /\ data = {At(dir, q).blk : q \in U} \ {0} /\ data \cap ToSet(chain) = {}
        /\ \A q, r \in U : At(dir, q).blk = At(dir, r).blk /\ At(dir, q).blk # 0 => q = r
    BY <1>5 DEF Owned
  <2> HIDE DEF U
  <2>2. {At(dir, q).blk : q \in U} = {At(dir', q).blk : q \in U}
    BY <1>3
  <2>3. /\ data \cap ToSet(chain') = {}
        /\ \A q, r \in U : At(dir', q).blk = At(dir', r).blk /\ At(dir', q).blk # 0 => q = r
    BY <1>2, <1>3, <2>1
  <2> QED BY <1>2, <2>1, <2>2, <2>3 DEF Owned
<1>6. ASSUME Sane, NEW fd \in Fds, InUse(fd)
      PROVE  At(dir', Key(handles[fd])) = At(dir, Key(handles[fd]))
  BY <1>3, <1>6, HandleIs
<1> HIDE DEF U
<1> QED BY <1>1, <1>2, <1>4, <1>5, <1>6, DirStep

-----------------------------------------------------------------------------
(* Calls by name keep the invariant.                                       *)

\* The item at a place that is not free.
LEMMA ItemIs ==
  ASSUME chain \in Chains, dir \in DirItems, NEW p \in Used(chain, dir)
  PROVE  /\ At(dir, p) \in Items /\ At(dir, p).file \in Files /\ ItemAt(p) = At(dir, p)
         /\ p \in [blk : ToSet(chain), slot : Slots] /\ p.blk \in Blocks /\ p.slot \in Slots
<1>1. p \in [blk : ToSet(chain), slot : Slots] /\ p.blk \in Blocks /\ p.slot \in Slots
  BY PlaceIs DEF Used
<1>2. At(dir, p) \in Items /\ ItemAt(p) = At(dir, p) /\ At(dir, p).file # NoFile
  BY <1>1 DEF DirItems, At, ItemAt, Used
<1> QED BY <1>1, <1>2 DEF Items

\* The first blocks for the data of a file.
LEMMA FirstBlkIs ==
  ASSUME NEW len, NEW c, NEW d
  PROVE  /\ \A b \in FirstBlk(len, c, d) : b = 0 \/ b \in Unused(c, d)
         /\ FirstBlk(len, c, d) = {} => Unused(c, d) = {}
<1>1. Unused(c, d) \in SUBSET Nat
  BY Sizes DEF Unused
<1>2. Unused(c, d) # {} => Min(Unused(c, d)) \in Unused(c, d)
  BY <1>1, MinFacts
<1> QED BY <1>2 DEF FirstBlk

\* tfs_touch keeps the invariant: a file that is there, or a new item without blocks.
LEMMA TouchStep ==
  ASSUME IInv, Sane \/ GoOn, NEW n \in Names, tfs_touch(n)
  PROVE  IInv'
<1>1. CASE find_file(n) # {} /\ Refused("touch", NoFile, "OK")
  BY <1>1, NothingChanged DEF Refused
<1>2. CASE find_file(n) = {} /\ find_free = {} /\ Refused("touch", NoFile, "DISK_FULL")
  BY <1>2, NothingChanged DEF Refused
<1>3. CASE /\ find_file(n) = {}
           /\ \E f \in find_free :
                /\ chain' = f.chain
                /\ dir' = [f.items EXCEPT ![f.place.blk][f.place.slot] =
                             [file |-> NewFile, name |-> n, blk |-> 0]]
           /\ Answer("touch", NewFile, "OK")
           /\ UNCHANGED <<data, handles, held, spoiled>>
  <2> DEFINE x == [file |-> NewFile, name |-> n, blk |-> 0]
  <2>1. PICK f \in find_free : chain' = f.chain /\ dir' = Put(f.items, f.place, x)
    BY <1>3 DEF Put
  <2>2. /\ NewFile \in Files => x \in Items
        /\ x.file = NewFile /\ x.name = n /\ x.blk = 0
    BY DEF Items
  <2> HIDE DEF x
  <2>3. data' = data \cup ({0} \ {0}) /\ UNCHANGED <<handles, held, spoiled>> /\ find_file(n) = {}
    BY <1>3
  <2> QED BY <2>1, <2>2, <2>3, NewItemStep
<1> QED BY <1>1, <1>2, <1>3 DEF tfs_touch

\* tfs_write_file of a new name.
LEMMA WriteNewStep ==
  ASSUME IInv, Sane \/ GoOn, NEW n \in Names, NEW len, find_file(n) = {}, NEW f \in find_free,
         write_item(f.place, [file |-> NewFile, name |-> n, blk |-> 0], f.items, len, f.chain, data)
  PROVE  IInv'
<1> DEFINE i == [file |-> NewFile, name |-> n, blk |-> 0]
<1>1. chain' = f.chain /\ UNCHANGED <<handles, held, spoiled>>
  BY DEF write_item
<1>2. CASE dir' = f.items /\ data' = data
  BY <1>1, <1>2, GrownStep
<1>3. CASE \E b \in FirstBlk(len, f.chain, data) :
             /\ dir' = [f.items EXCEPT ![f.place.blk][f.place.slot] = [i EXCEPT !.blk = b]]
             /\ data' = data \cup ({b} \ {0})
  <2>1. PICK b \in FirstBlk(len, f.chain, data) :
             /\ dir' = [f.items EXCEPT ![f.place.blk][f.place.slot] = [i EXCEPT !.blk = b]]
             /\ data' = data \cup ({b} \ {0})
    BY <1>3
  <2>2. b = 0 \/ b \in Unused(f.chain, data)
    BY FirstBlkIs
  <2> DEFINE x == [i EXCEPT !.blk = b]
  <2>3. x = [file |-> NewFile, name |-> n, blk |-> b]
    OBVIOUS
  <2>4. dir' = Put(f.items, f.place, x)
    BY <2>1 DEF Put
  <2> HIDE DEF x
  <2>5. /\ NewFile \in Files => x \in Items
        /\ x.file = NewFile /\ x.name = n /\ x.blk = b
    BY <2>2, <2>3 DEF Items, Unused
  <2> QED BY <1>1, <2>1, <2>2, <2>4, <2>5, NewItemStep
<1> QED BY <1>2, <1>3 DEF write_item

\* tfs_write_file of a file that nobody uses.
LEMMA OverwriteStep ==
  ASSUME IInv, Sane \/ GoOn, NEW n \in Names, NEW len, NEW p \in find_file(n),
         ~(item_usage_count(p) > 0),
         write_item(p, ItemAt(p), dir, len, chain, data \ {ItemAt(p).blk})
  PROVE  IInv'
<1> DEFINE i == ItemAt(p)
           kept == data \ {i.blk}
<1>1. /\ chain \in Chains /\ dir \in DirItems /\ data \subseteq Blocks /\ Distinct(chain, dir)
      /\ p \in Used(chain, dir) /\ i = At(dir, p) /\ i \in Items /\ i.name \in Names
  <2>1. chain \in Chains /\ dir \in DirItems /\ data \subseteq Blocks /\ Distinct(chain, dir)
    BY DEF IInv, Typed
  <2>2. p \in Used(chain, dir)
    BY <2>1, FoundIs
  <2> QED BY <2>1, <2>2, ItemIs DEF Distinct
<1>2. chain' = chain /\ UNCHANGED <<handles, held, spoiled>>
  BY DEF write_item
<1>3. \A fd \in Fds : InUse(fd) => Key(handles[fd]) # p
  BY CountIs DEF IInv
<1> HIDE DEF i
<1>4. CASE FirstBlk(len, chain, kept) = {} /\ dir' = dir /\ data' = kept
  <2>1. Unused(chain, kept) = {}
    BY <1>4, FirstBlkIs
  <2>2. ASSUME Owned(chain, dir, data) PROVE Owned(chain, dir, kept)
    <3>1. i.blk # 0 => i.blk \in data /\ i.blk \notin ToSet(chain)
      BY <1>1, <2>2, Disowned
    <3>2. i.blk # 0 => i.blk \in Unused(chain, kept)
      BY <1>1, <3>1 DEF Unused
    <3>3. kept = data
      BY <1>1, <2>1, <3>2, Sizes
    <3> QED BY <2>2, <3>3
  <2>3. data' \subseteq Blocks
    BY <1>1, <1>4
  <2> QED BY <1>1, <1>2, <1>4, <2>2, <2>3, DirStep
<1>5. CASE \E b \in FirstBlk(len, chain, kept) :
             /\ dir' = [dir EXCEPT ![p.blk][p.slot] = [i EXCEPT !.blk = b]]
             /\ data' = kept \cup ({b} \ {0})
  <2>1. PICK b \in FirstBlk(len, chain, kept) :
             /\ dir' = [dir EXCEPT ![p.blk][p.slot] = [i EXCEPT !.blk = b]]
             /\ data' = kept \cup ({b} \ {0})
    BY <1>5
  <2>2. b = 0 \/ b \in Unused(chain, kept)
    BY FirstBlkIs
  <2> DEFINE x == [i EXCEPT !.blk = b]
  <2>3. /\ x \in Items /\ x.file = i.file /\ x.name = i.name /\ x.blk = b
    BY <1>1, <2>2 DEF Items, Unused
  <2>4. dir' = Put(dir, p, x)
    BY <2>1 DEF Put
  <2> HIDE DEF x
  <2>5. \A q \in Used(chain, dir) \ {p} : At(dir, q).name # x.name
    BY <1>1, <2>3 DEF Distinct
  <2>6. data' \subseteq Blocks
    BY <1>1, <2>1, <2>2 DEF Unused
  <2>7. /\ data' = (data \ {At(dir, p).blk}) \cup ({x.blk} \ {0})
        /\ x.blk = 0 \/ x.blk \in Unused(chain, data \ {At(dir, p).blk})
    BY <1>1, <2>1, <2>2, <2>3
  <2>8. x.file = At(dir, p).file /\ x.name \in Names
    BY <1>1, <2>3
  <2> QED BY <1>1, <1>2, <1>3, <2>3, <2>4, <2>5, <2>6, <2>7, <2>8, ItemStep
<1> QED BY <1>4, <1>5 DEF write_item, i

\* tfs_write_file keeps the invariant.
LEMMA WriteFileStep ==
  ASSUME IInv, Sane \/ GoOn, NEW n \in Names, NEW len, NEW overwrite \in BOOLEAN,
         tfs_write_file(n, len, overwrite)
  PROVE  IInv'
<1>1. CASE find_file(n) = {}
  <2>1. CASE Refused("write_file", NoFile, "DISK_FULL")
    BY <2>1, NothingChanged DEF Refused
  <2>2. CASE \E f \in find_free :
               write_item(f.place, [file |-> NewFile, name |-> n, blk |-> 0], f.items, len, f.chain, data)
    BY <1>1, <2>2, WriteNewStep
  <2> QED BY <1>1, <2>1, <2>2 DEF tfs_write_file
<1>2. CASE find_file(n) # {}
  <2>1. PICK p \in find_file(n) :
       CASE ~overwrite -> Refused("write_file", ItemAt(p).file, "FILE_EXIST")
         [] overwrite /\ item_usage_count(p) > 0 -> Refused("write_file", ItemAt(p).file, "BUSY")
         [] OTHER -> write_item(p, ItemAt(p), dir, len, chain, data \ {ItemAt(p).blk})
    BY <1>2 DEF tfs_write_file
  <2>2. CASE ~overwrite
    BY <2>1, <2>2, NothingChanged DEF Refused
  <2>3. CASE overwrite /\ item_usage_count(p) > 0
    BY <2>1, <2>3, NothingChanged DEF Refused
  <2>4. CASE overwrite /\ ~(item_usage_count(p) > 0)
    <3>1. write_item(p, ItemAt(p), dir, len, chain, data \ {ItemAt(p).blk})
      BY <2>1, <2>4
    <3> QED BY <2>4, <3>1, OverwriteStep
  <2> QED BY <2>2, <2>3, <2>4
<1> QED BY <1>1, <1>2

\* tfs_rename does: the item stays in its place.
LEMMA RenameStep ==
  ASSUME IInv, Sane \/ GoOn, NEW from \in Names, NEW to \in Names, tfs_rename(from, to)
  PROVE  IInv'
<1>1. CASE UNCHANGED <<chain, dir, data, handles, held, spoiled>>
  BY <1>1, NothingChanged
<1>2. CASE /\ find_file(to) = {}
           /\ \E p \in find_file(from) :
                /\ dir' = [dir EXCEPT ![p.blk][p.slot].name = to]
                /\ Answer("rename", ItemAt(p).file, "OK")
           /\ UNCHANGED <<chain, data, handles, held, spoiled>>
  <2>1. PICK p \in find_file(from) : dir' = [dir EXCEPT ![p.blk][p.slot].name = to]
    BY <1>2
  <2>2. chain \in Chains /\ dir \in DirItems /\ data \subseteq Blocks /\ Distinct(chain, dir)
    BY DEF IInv, Typed
  <2>3. p \in Used(chain, dir) /\ \A q \in Used(chain, dir) : At(dir, q).name # to
    BY <1>2, <2>2, FoundIs
  <2> DEFINE i == At(dir, p)
             x == [i EXCEPT !.name = to]
  <2>4. i \in Items /\ p.blk \in Blocks /\ p.slot \in Slots
    BY <2>2, <2>3, ItemIs
  <2>5. x \in Items /\ x.file = i.file /\ x.name = to /\ x.blk = i.blk
    <3> HIDE DEF i
    <3> QED BY <2>4 DEF Items
  <2>6. dir' = Put(dir, p, x)
    BY <2>1, <2>2, <2>4 DEF Put, At, DirItems
  <2> HIDE DEF x
  <2>7. \A q \in Used(chain, dir) \ {p} : At(dir, q).name # x.name
    BY <2>3, <2>5
  <2>8. ASSUME Owned(chain, dir, data)
        PROVE  /\ data' = (data \ {At(dir, p).blk}) \cup ({x.blk} \ {0})
               /\ x.blk = 0 \/ x.blk \in Unused(chain, data \ {At(dir, p).blk})
    <3>1. i.blk # 0 => i.blk \in data /\ i.blk \notin ToSet(chain)
      BY <2>3, <2>8, Disowned
    <3> HIDE DEF i
    <3>2. data' = (data \ {i.blk}) \cup ({x.blk} \ {0})
      BY <1>2, <2>2, <2>5, <3>1, Sizes
    <3>3. x.blk = 0 \/ x.blk \in Unused(chain, data \ {i.blk})
      BY <2>2, <2>5, <3>1 DEF Unused
    <3> QED BY <3>2, <3>3 DEF i
  <2>9. data' \subseteq Blocks /\ UNCHANGED <<chain, handles, held, spoiled>>
    BY <1>2, <2>2
  <2> HIDE DEF i
  <2>10. x.file = At(dir, p).file /\ x.blk = At(dir, p).blk /\ x.name \in Names
    BY <2>5 DEF i
  <2> QED BY <2>3, <2>5, <2>6, <2>7, <2>8, <2>9, <2>10, ItemStep
<1> QED BY <1>1, <1>2 DEF tfs_rename, Refused

\* tfs_delete does, also when write_dir_cleanup moves a block of items.
LEMMA DeleteStep ==
  ASSUME IInv, Sane \/ GoOn, NEW n \in Names, tfs_delete(n)
  PROVE  IInv'
<1>1. CASE UNCHANGED <<chain, dir, data, handles, held, spoiled>>
  BY <1>1, NothingChanged
<1>2. ASSUME NEW p \in find_file(n), ~(item_usage_count(p) > 0),
             \E after \in {write_dir_cleanup(p)} :
               /\ chain' = after.chain
               /\ dir' = after.items
               /\ data' = data \ {ItemAt(p).blk}
               /\ Spoil("moved", Moved(ItemAt(p).file, after.chain, after.items))
               /\ Answer("delete", ItemAt(p).file, "OK")
               /\ UNCHANGED <<handles, held>>
      PROVE  IInv'
  <2> DEFINE a == write_dir_cleanup(p)
             U == Used(chain, dir)
             V == Used(a.chain, a.items)
  <2>1. /\ chain' = a.chain /\ dir' = a.items /\ data' = data \ {ItemAt(p).blk}
        /\ spoiled' = IF Moved(ItemAt(p).file, a.chain, a.items) THEN spoiled \cup {"moved"} ELSE spoiled
        /\ handles' = handles /\ held' = held
    BY <1>2 DEF Spoil
  <2>2. chain \in Chains /\ dir \in DirItems /\ data \subseteq Blocks /\ Distinct(chain, dir)
    BY DEF IInv, Typed
  <2>3. p \in U
    BY <2>2, FoundIs
  <2>4. ItemAt(p) = At(dir, p)
    BY <2>2, <2>3, ItemIs
  <2>5. /\ a.chain \in Chains /\ a.items \in DirItems /\ ToSet(a.chain) \subseteq ToSet(chain)
        /\ \E m \in [V -> U \ {p}] :
             /\ \A q \in V : At(a.items, q) = At(dir, m[q])
             /\ \A q, r \in V : m[q] = m[r] => q = r
             /\ \A r \in U \ {p} : \E q \in V : m[q] = r
        /\ \A q \in U \ {p} :
             q.blk \in ToSet(a.chain) /\ At(a.items, q).file = At(dir, q).file => At(a.items, q) = At(dir, q)
    BY <2>2, <2>3, CleanupIs
  <2> HIDE DEF a
  <2>6. /\ Distinct(a.chain, a.items)
        /\ \A b : OwnedBut(chain, dir, b, p) => Owned(a.chain, a.items, b)
    <3>1. PICK m \in [V -> U \ {p}] :
             /\ \A q \in V : At(a.items, q) = At(dir, m[q])
             /\ \A q, r \in V : m[q] = m[r] => q = r
             /\ \A r \in U \ {p} : \E q \in V : m[q] = r
      BY <2>5
    <3> QED BY <2>2, <2>3, <2>5, <3>1, Relocate
  <2>7. (Sane' => Sane) /\ (Sane' => ~Moved(ItemAt(p).file, a.chain, a.items))
    BY <2>1 DEF Sane
  <2>8. Sane' \/ ~GoOn => Owned(chain', dir', data')
    <3> SUFFICES ASSUME Sane' \/ ~GoOn PROVE Owned(chain', dir', data')
      OBVIOUS
    <3>1. Owned(chain, dir, data)
      BY <2>7 DEF IInv
    <3>2. OwnedBut(chain, dir, data \ {At(dir, p).blk}, p)
      BY <2>3, <3>1, Disowned
    <3> QED BY <2>1, <2>4, <2>6, <3>2
  <2>9. Typed'
    <3>1. chain' \in Chains /\ dir' \in DirItems /\ data' \subseteq Blocks
      BY <2>1, <2>2, <2>5
    <3>2. spoiled' \subseteq Hazards
      BY <2>1 DEF IInv, Typed, Hazards
    <3> QED BY <2>1, <3>1, <3>2 DEF IInv, Typed, AllHeld
  <2>10. ASSUME NEW fd \in Fds, Sane', InUse(fd)
         PROVE  /\ Key(handles[fd]).blk \in ToSet(chain')
                /\ At(dir', Key(handles[fd])).file = At(dir, Key(handles[fd])).file
                /\ handles'[fd].first_blk = At(dir', Key(handles[fd])).blk
    <3> DEFINE k == Key(handles[fd])
               id == At(dir, k).file
    <3>1. Sane /\ ~Moved(ItemAt(p).file, a.chain, a.items)
      BY <2>7, <2>10
    <3>2. k \in U /\ id \in HeldFiles(fd) /\ handles[fd].first_blk = At(dir, k).blk
      BY <2>10, <3>1, HandleIs
    <3>3. k # p
      BY <1>2, <2>10, CountIs DEF IInv
    <3>4. id # At(dir, p).file
      BY <2>2, <2>3, <3>2, <3>3 DEF Distinct
    <3>5. Refers(handles[fd], id)
      BY <3>1, <3>2 DEF IInv, DescriptorsRight
    <3>6. /\ handles[fd].dir_blk \in ToSet(a.chain)
          /\ a.items[handles[fd].dir_blk][handles[fd].dir_item].file = id
      BY <2>4, <3>1, <3>2, <3>4, <3>5 DEF Moved
    <3>7. k.blk = handles[fd].dir_blk /\ k.slot = handles[fd].dir_item
      BY DEF Key
    <3>8. k.blk \in ToSet(a.chain) /\ At(a.items, k).file = At(dir, k).file
      BY <3>6, <3>7 DEF At
    <3> HIDE DEF k
    <3>9. At(a.items, k) = At(dir, k)
      BY <2>5, <3>2, <3>3, <3>8
    <3> QED BY <2>1, <3>2, <3>8, <3>9 DEF k
  <2>11. UsageCounted' /\ FirstUsed' /\ DescriptorsRight' /\ (Sane' => Agreed')
    <3>1. \A fd \in Fds : /\ Key(handles'[fd]) = Key(handles[fd])
                          /\ handles'[fd].usage_count = handles[fd].usage_count
      BY <2>1
    <3>2. "wrapped" \in spoiled => "wrapped" \in spoiled'
      BY <2>1
    <3> QED BY <2>1, <2>7, <2>10, <3>1, <3>2, HandlesKept
  <2> QED BY <2>1, <2>6, <2>8, <2>9, <2>11 DEF IInv
<1> QED BY <1>1, <1>2 DEF tfs_delete, Refused

-----------------------------------------------------------------------------
(* Opening and closing keep the invariant.                                 *)

\* tfs_open of a file that has a handle: one user more.
LEMMA OpenSharedStep ==
  ASSUME IInv, AllHeld < MaxHeld, NEW p \in Used(chain, dir), NEW fd \in Fds,
         Key(handles[fd]) = p, InUse(fd), open_shared(fd, At(dir, p).file),
         UNCHANGED <<chain, dir, data>>
  PROVE  IInv'
<1> DEFINE id == At(dir, p).file
           u == handles[fd].usage_count
<1>1. /\ chain \in Chains /\ dir \in DirItems /\ handles \in [Fds -> Handles]
      /\ held \in [Fds -> [Files -> 0 .. MaxHeld]] /\ Cardinality(AllUses(held)) < MaxHeld
      /\ spoiled \subseteq Hazards
  BY DEF IInv, Typed, AllHeld
<1>2. id \in Files
  BY <1>1, ItemIs
<1> HIDE DEF id
<1>3. /\ handles' = [handles EXCEPT ![fd].usage_count = (u + 1) % UsageMod]
      /\ held' = [held EXCEPT ![fd][id] = @ + 1]
      /\ spoiled' = IF handles'[fd].usage_count = 0 THEN spoiled \cup {"wrapped"} ELSE spoiled
  BY DEF open_shared, Spoil, id
<1>4. u \in 0 .. UsageMod - 1 /\ UsageMod \in Nat /\ UsageMod >= 2
  BY <1>1, Sizes DEF Handles
<1>5. /\ (u + 1) % UsageMod \in 0 .. UsageMod - 1
      /\ (u + 1) % UsageMod # 0 => (u + 1) % UsageMod = u + 1
  BY <1>4
<1>6. /\ handles' \in [Fds -> Handles]
      /\ handles'[fd].usage_count = (u + 1) % UsageMod /\ handles'[fd].first_blk = handles[fd].first_blk
      /\ handles'[fd].dir_blk = handles[fd].dir_blk /\ handles'[fd].dir_item = handles[fd].dir_item
      /\ \A g \in Fds \ {fd} : handles'[g] = handles[g]
  <2> DEFINE h == [handles[fd] EXCEPT !.usage_count = (u + 1) % UsageMod]
  <2>1. /\ h \in Handles /\ h.usage_count = (u + 1) % UsageMod /\ h.first_blk = handles[fd].first_blk
        /\ h.dir_blk = handles[fd].dir_blk /\ h.dir_item = handles[fd].dir_item
    BY <1>1, <1>5 DEF Handles
  <2>2. handles' = [handles EXCEPT ![fd] = h]
    BY <1>3
  <2> HIDE DEF h, u
  <2> QED BY <1>1, <2>1, <2>2
<1> HIDE DEF u
<1>7. /\ held' \in [Fds -> [Files -> 0 .. MaxHeld]] /\ Cardinality(AllUses(held')) <= MaxHeld
      /\ Cardinality(Uses(held'[fd])) = Cardinality(Uses(held[fd])) + 1
      /\ held'[fd][id] = held[fd][id] + 1 /\ \A i \in Files \ {id} : held'[fd][i] = held[fd][i]
      /\ \A g \in Fds \ {fd} : held'[g] = held[g]
  <2> DEFINE g == More(held, fd, id)
  <2>1. /\ g \in [Fds -> [Files -> 0 .. MaxHeld]] /\ Cardinality(AllUses(g)) <= MaxHeld
        /\ Cardinality(Uses(g[fd])) = Cardinality(Uses(held[fd])) + 1
        /\ g[fd][id] = held[fd][id] + 1 /\ \A i \in Files \ {id} : g[fd][i] = held[fd][i]
        /\ \A f \in Fds \ {fd} : g[f] = held[f]
    BY <1>1, <1>2, AllUsesUp
  <2>2. held' = g
    BY <1>3 DEF More
  <2> HIDE DEF g
  <2> QED BY <2>1, <2>2
<1>8. Typed'
  <2>1. spoiled' \subseteq Hazards
    BY <1>1, <1>3 DEF Hazards
  <2> QED BY <1>6, <1>7, <2>1 DEF IInv, Typed, AllHeld
<1>9. /\ Sane' => Sane /\ handles'[fd].usage_count # 0
      /\ "wrapped" \notin spoiled' => "wrapped" \notin spoiled /\ handles'[fd].usage_count # 0
  BY <1>3 DEF Sane
<1>10. UsageCounted'
  <2>1. ASSUME "wrapped" \notin spoiled', NEW g \in Fds
        PROVE  handles'[g].usage_count = Cardinality(Uses(held'[g]))
    <3>1. handles[g].usage_count = Cardinality(Uses(held[g])) /\ u = Cardinality(Uses(held[fd]))
      BY <1>9, <2>1 DEF IInv, UsageCounted, Holders, u
    <3> QED BY <1>5, <1>6, <1>7, <1>9, <2>1, <3>1
  <2> QED BY <2>1 DEF UsageCounted, Holders
<1>11. \A g \in Fds : Key(handles'[g]) = Key(handles[g]) /\ (InUse(g)' => InUse(g))
  BY <1>6 DEF Key, InUse
<1>12. FirstUsed'
  BY <1>11 DEF IInv, FirstUsed
<1>13. ASSUME Sane' PROVE DescriptorsRight' /\ Agreed'
  <2>1. Sane /\ InUse(fd)'
    BY <1>4, <1>5, <1>6, <1>9, <1>13 DEF InUse
  <2>2. id \in HeldFiles(fd)
    BY <2>1, HandleIs DEF id
  <2>3. ASSUME NEW g \in Fds, NEW j \in HeldFiles(g)' PROVE j \in HeldFiles(g)
    <3>1. j \in Files /\ held'[g][j] > 0
      BY <2>3 DEF HeldFiles
    <3>2. CASE g = fd /\ j = id
      BY <2>2, <3>2
    <3>3. CASE ~(g = fd /\ j = id)
      <4>1. held'[g][j] = held[g][j]
        BY <1>7, <3>1, <3>3
      <4> QED BY <3>1, <4>1 DEF HeldFiles
    <3> QED BY <3>2, <3>3
  <2>4. \A g \in Fds : /\ InUse(g)' <=> InUse(g)
                       /\ \A j : Refers(handles[g], j)' <=> Refers(handles[g], j)
                       /\ handles'[g].dir_blk = handles[g].dir_blk
                       /\ handles'[g].dir_item = handles[g].dir_item
                       /\ handles'[g].first_blk = handles[g].first_blk
    BY <1>6, <2>1 DEF InUse, Refers
  <2>5. ASSUME NEW g \in Fds, NEW j \in HeldFiles(g)'
        PROVE  /\ InUse(g)' /\ Refers(handles[g], j)'
               /\ \A f \in Fds \ {g} : j \notin HeldFiles(f)'
    <3>1. j \in HeldFiles(g)
      BY <2>3
    <3>2. InUse(g) /\ Refers(handles[g], j) /\ \A f \in Fds \ {g} : j \notin HeldFiles(f)
      BY <2>1, <3>1 DEF IInv, DescriptorsRight
    <3> QED BY <2>3, <2>4, <3>2
  <2>6. Agreed'
    BY <2>1, <2>4 DEF IInv, Agreed
  <2> QED BY <2>5, <2>6 DEF DescriptorsRight
<1>14. DescriptorsRight' /\ (Sane' => Agreed')
  BY <1>13 DEF DescriptorsRight
<1>15. Distinct(chain', dir') /\ (Sane' \/ ~GoOn => Owned(chain', dir', data'))
  BY <1>9 DEF IInv
<1> QED BY <1>8, <1>10, <1>12, <1>14, <1>15 DEF IInv

\* tfs_open of a file that has none takes a free one.
LEMMA OpenNewStep ==
  ASSUME IInv, Sane \/ GoOn, AllHeld < MaxHeld, NEW p \in Used(chain, dir),
         Shared(p) = {}, Idle # {}, open_new(FreeFd, p), UNCHANGED <<chain, dir, data>>
  PROVE  IInv'
<1> DEFINE id == At(dir, p).file
           h == [usage_count |-> 1, dir_blk |-> p.blk, dir_item |-> p.slot, first_blk |-> At(dir, p).blk]
<1>1. /\ chain \in Chains /\ dir \in DirItems /\ handles \in [Fds -> Handles]
      /\ held \in [Fds -> [Files -> 0 .. MaxHeld]] /\ Cardinality(AllUses(held)) < MaxHeld
      /\ spoiled \subseteq Hazards
  BY DEF IInv, Typed, AllHeld
<1>2. /\ id \in Files /\ At(dir, p) \in Items /\ ItemAt(p) = At(dir, p)
      /\ p \in [blk : ToSet(chain), slot : Slots] /\ p.blk \in Blocks /\ p.slot \in Slots
  BY <1>1, ItemIs
<1>3. PICK fd \in Fds : fd = FreeFd /\ ~InUse(fd) /\ \A g \in Fds : g < fd => InUse(g)
  <2>1. Idle \in SUBSET Nat
    BY Sizes DEF Idle
  <2>2. FreeFd \in Idle /\ \A g \in Idle : FreeFd <= g
    BY <2>1, MinFacts DEF FreeFd
  <2>3. \A g \in Fds : g < FreeFd => g \notin Idle
    BY <2>2, Sizes DEF Idle
  <2> QED BY <2>2, <2>3 DEF Idle
<1>4. /\ handles' = [handles EXCEPT ![fd] = h] /\ held' = [held EXCEPT ![fd][id] = @ + 1]
      /\ spoiled' = spoiled
  BY <1>2, <1>3 DEF open_new
<1>5. /\ h \in Handles /\ h.usage_count = 1 /\ h.dir_blk = p.blk /\ h.dir_item = p.slot
      /\ h.first_blk = At(dir, p).blk
  <2> HIDE DEF id, h
  <2>1. At(dir, p).blk \in Blocks \cup {0}
    BY <1>2 DEF Items
  <2>2. 1 \in 0 .. UsageMod - 1
    BY Sizes
  <2> USE DEF h
  <2>3. h \in [usage_count : 0 .. UsageMod - 1, dir_blk : Blocks \cup {0},
               dir_item : Slots \cup {-1}, first_blk : Blocks \cup {0}]
    BY <1>2, <2>1, <2>2
  <2> QED BY <1>2, <2>3 DEF Handles
<1> HIDE DEF id, h
<1>6. handles' \in [Fds -> Handles] /\ handles'[fd] = h /\ \A g \in Fds \ {fd} : handles'[g] = handles[g]
  BY <1>1, <1>3, <1>4, <1>5
<1>7. /\ held' \in [Fds -> [Files -> 0 .. MaxHeld]] /\ Cardinality(AllUses(held')) <= MaxHeld
      /\ Cardinality(Uses(held'[fd])) = Cardinality(Uses(held[fd])) + 1
      /\ held'[fd][id] = held[fd][id] + 1 /\ \A i \in Files \ {id} : held'[fd][i] = held[fd][i]
      /\ \A g \in Fds \ {fd} : held'[g] = held[g]
  <2> DEFINE g == More(held, fd, id)
  <2>1. /\ g \in [Fds -> [Files -> 0 .. MaxHeld]] /\ Cardinality(AllUses(g)) <= MaxHeld
        /\ Cardinality(Uses(g[fd])) = Cardinality(Uses(held[fd])) + 1
        /\ g[fd][id] = held[fd][id] + 1 /\ \A i \in Files \ {id} : g[fd][i] = held[fd][i]
        /\ \A f \in Fds \ {fd} : g[f] = held[f]
    BY <1>1, <1>2, <1>3, AllUsesUp DEF id
  <2>2. held' = g
    BY <1>4 DEF More
  <2> HIDE DEF g
  <2> QED BY <2>1, <2>2
<1>8. Typed'
  BY <1>1, <1>4, <1>6, <1>7 DEF IInv, Typed, AllHeld
<1>9. handles[fd].usage_count = 0
  <2>1. handles[fd].usage_count \in 0 .. UsageMod - 1
    BY <1>1, <1>3 DEF Handles
  <2> QED BY <1>3, <2>1, Sizes DEF InUse
<1>10. UsageCounted'
  <2>1. ASSUME "wrapped" \notin spoiled', NEW g \in Fds
        PROVE  handles'[g].usage_count = Cardinality(Uses(held'[g]))
    <3>1. /\ handles[g].usage_count = Cardinality(Uses(held[g]))
          /\ handles[fd].usage_count = Cardinality(Uses(held[fd]))
      BY <1>3, <1>4, <2>1 DEF IInv, UsageCounted, Holders
    <3> QED BY <1>5, <1>6, <1>7, <1>9, <3>1
  <2> QED BY <2>1 DEF UsageCounted, Holders
<1>11. /\ Key(handles'[fd]) = p /\ InUse(fd)'
       /\ \A g \in Fds \ {fd} : Key(handles'[g]) = Key(handles[g]) /\ (InUse(g)' <=> InUse(g))
  <2>1. Key(h) = p
    BY <1>2, <1>5 DEF Key
  <2> QED BY <1>5, <1>6, <2>1 DEF InUse
<1>12. \A g \in Fds : ~(Key(handles[g]) = p /\ InUse(g))
  BY CountIs DEF IInv
<1>13. FirstUsed'
  <2>1. ASSUME NEW f \in Fds, NEW g \in Fds, f < g, Key(handles'[f]) = Key(handles'[g]), InUse(g)'
        PROVE  FALSE
    <3>1. CASE f # fd /\ g # fd
      BY <1>11, <2>1, <3>1 DEF IInv, FirstUsed
    <3>2. CASE f = fd
      <4>1. g # fd
        BY <2>1, <3>2, Sizes
      <4> QED BY <1>11, <1>12, <2>1, <3>2, <4>1
    <3>3. CASE g = fd
      <4>1. f # fd /\ InUse(f)
        BY <1>3, <2>1, <3>3, Sizes
      <4> QED BY <1>11, <1>12, <2>1, <3>3, <4>1
    <3> QED BY <3>1, <3>2, <3>3
  <2> QED BY <2>1 DEF FirstUsed
<1>14. ASSUME Sane' PROVE DescriptorsRight' /\ Agreed'
  <2>1. Sane
    BY <1>4, <1>14 DEF Sane
  <2>2. \A g \in Fds : id \notin HeldFiles(g)
    BY <1>12, <2>1, OpenIs DEF id, OpenFiles
  <2>3. ASSUME NEW g \in Fds, NEW j \in HeldFiles(g)'
        PROVE  (g = fd /\ j = id) \/ (g # fd /\ j # id /\ j \in HeldFiles(g))
    <3>1. j \in Files /\ held'[g][j] > 0
      BY <2>3 DEF HeldFiles
    <3>2. CASE g = fd
      <4>1. handles[fd].usage_count = Cardinality(Uses(held[fd])) /\ held[fd] \in [Files -> 0 .. MaxHeld]
        BY <1>1, <1>3, <2>1 DEF IInv, UsageCounted, Holders, Sane
      <4>2. ~(held[fd][j] > 0)
        BY <1>9, <3>1, <4>1, UsesFinite
      <4> QED BY <1>7, <3>1, <3>2, <4>2
    <3>3. CASE g # fd
      <4>1. held'[g][j] = held[g][j]
        BY <1>7, <3>3
      <4> QED BY <2>2, <3>1, <3>3, <4>1 DEF HeldFiles
    <3> QED BY <3>2, <3>3
  <2>4. ASSUME NEW g \in Fds, NEW j \in HeldFiles(g)'
        PROVE  /\ InUse(g)' /\ Refers(handles[g], j)'
               /\ \A f \in Fds \ {g} : j \notin HeldFiles(f)'
    <3>1. CASE g = fd /\ j = id
      <4>1. \A f \in Fds \ {g} : j \notin HeldFiles(f)'
        BY <2>3, <3>1
      <4>2. Refers(handles[g], j)'
        BY <1>2, <1>5, <1>6, <3>1 DEF Refers, At, id
      <4> QED BY <1>11, <3>1, <4>1, <4>2
    <3>2. CASE g # fd /\ j # id /\ j \in HeldFiles(g)
      <4>1. InUse(g) /\ Refers(handles[g], j) /\ \A f \in Fds \ {g} : j \notin HeldFiles(f)
        BY <2>1, <3>2 DEF IInv, DescriptorsRight
      <4>2. \A f \in Fds \ {g} : j \notin HeldFiles(f)'
        BY <2>3, <3>2, <4>1
      <4>3. Refers(handles[g], j)'
        BY <1>6, <3>2, <4>1 DEF Refers
      <4> QED BY <1>11, <3>2, <4>1, <4>2, <4>3
    <3> QED BY <2>3, <3>1, <3>2
  <2>5. ASSUME NEW g \in Fds, InUse(g)'
        PROVE  handles'[g].first_blk = dir'[handles'[g].dir_blk][handles'[g].dir_item].blk
    <3>1. CASE g = fd
      BY <1>5, <1>6, <3>1 DEF At
    <3>2. CASE g # fd
      BY <1>6, <1>11, <2>1, <2>5, <3>2 DEF IInv, Agreed
    <3> QED BY <3>1, <3>2
  <2> QED BY <2>4, <2>5 DEF DescriptorsRight, Agreed
<1>15. DescriptorsRight' /\ (Sane' => Agreed')
  BY <1>14 DEF DescriptorsRight
<1>16. Distinct(chain', dir') /\ (Sane' \/ ~GoOn => Owned(chain', dir', data'))
  BY <1>4 DEF IInv, Sane
<1> QED BY <1>8, <1>10, <1>13, <1>15, <1>16 DEF IInv

\* The memory behind the table is not part of it.
LEMMA OpenFullStep ==
  ASSUME IInv, NEW id, open_full(id), UNCHANGED <<chain, dir, data>>
  PROVE  IInv'
<1>1. /\ handles' = handles /\ held' = held
      /\ spoiled' = spoiled \/ spoiled' = spoiled \cup {"overrun"}
  BY DEF open_full, Spoil
<1>2. /\ Sane' <=> Sane
      /\ "wrapped" \in spoiled' <=> "wrapped" \in spoiled
  BY <1>1 DEF Sane
<1>3. Typed'
  BY <1>1 DEF IInv, Typed, AllHeld, Hazards
<1>4. UsageCounted' /\ FirstUsed'
  BY <1>1, <1>2 DEF IInv, UsageCounted, Holders, FirstUsed, InUse
<1>5. DescriptorsRight' /\ (Sane' => Agreed')
  BY <1>1, <1>2 DEF IInv, DescriptorsRight, Agreed, HeldFiles, InUse, Refers
<1>6. Distinct(chain', dir') /\ (Sane' \/ ~GoOn => Owned(chain', dir', data'))
  BY <1>2 DEF IInv
<1> QED BY <1>3, <1>4, <1>5, <1>6 DEF IInv

\* tfs_open keeps the invariant.
LEMMA OpenStep ==
  ASSUME IInv, Sane \/ GoOn, NEW n \in Names, tfs_open(n)
  PROVE  IInv'
<1>1. CASE find_file(n) = {} /\ Refused("open", NoFile, "NOT_EXIST")
  BY <1>1, NothingChanged DEF Refused
<1>2. CASE /\ AllHeld < MaxHeld
           /\ \E p \in find_file(n) :
                CASE Shared(p) # {} -> \E fd \in Shared(p) : open_shared(fd, ItemAt(p).file)
                  [] Shared(p) = {} /\ Idle # {} -> open_new(FreeFd, p)
                  [] OTHER -> open_full(ItemAt(p).file)
           /\ UNCHANGED <<chain, dir, data>>
  <2>1. PICK p \in find_file(n) :
                CASE Shared(p) # {} -> \E fd \in Shared(p) : open_shared(fd, ItemAt(p).file)
                  [] Shared(p) = {} /\ Idle # {} -> open_new(FreeFd, p)
                  [] OTHER -> open_full(ItemAt(p).file)
    BY <1>2
  <2>2. chain \in Chains /\ dir \in DirItems /\ FirstUsed
    BY DEF IInv, Typed
  <2>3. p \in Used(chain, dir)
    BY <2>2, FoundIs
  <2>4. ItemAt(p) = At(dir, p)
    BY <2>2, <2>3, ItemIs
  <2>5. CASE Shared(p) # {}
    <3>1. PICK fd \in Shared(p) : open_shared(fd, At(dir, p).file)
      BY <2>1, <2>4, <2>5
    <3>2. fd \in Fds /\ Key(handles[fd]) = p /\ InUse(fd)
      BY <2>2, <3>1, CountIs
    <3> QED BY <1>2, <2>3, <3>1, <3>2, OpenSharedStep
  <2>6. CASE Shared(p) = {} /\ Idle # {}
    <3>1. open_new(FreeFd, p)
      BY <2>1, <2>6
    <3> QED BY <1>2, <2>3, <2>6, <3>1, OpenNewStep
  <2>7. CASE Shared(p) = {} /\ Idle = {}
    <3>1. open_full(ItemAt(p).file)
      BY <2>1, <2>7
    <3> QED BY <1>2, <3>1, OpenFullStep
  <2> QED BY <2>5, <2>6, <2>7
<1> QED BY <1>1, <1>2 DEF tfs_open

\* tfs_close does, for the last user of a handle and for the others.
LEMMA CloseStep ==
  ASSUME IInv, NEW fd \in Fds, NEW id \in Files, tfs_close(fd, id)
  PROVE  IInv'
<1>1. /\ chain \in Chains /\ dir \in DirItems /\ handles \in [Fds -> Handles]
      /\ held \in [Fds -> [Files -> 0 .. MaxHeld]] /\ Cardinality(AllUses(held)) <= MaxHeld
  BY DEF IInv, Typed, AllHeld
<1>2. /\ held[fd][id] > 0 /\ held' = [held EXCEPT ![fd][id] = @ - 1]
      /\ UNCHANGED <<chain, dir, data, spoiled>>
  BY DEF tfs_close
<1>3. /\ held' \in [Fds -> [Files -> 0 .. MaxHeld]] /\ Cardinality(AllUses(held')) <= MaxHeld
      /\ Cardinality(Uses(held[fd])) > 0
      /\ Cardinality(Uses(held'[fd])) = Cardinality(Uses(held[fd])) - 1
      /\ held'[fd][id] = held[fd][id] - 1 /\ \A i \in Files \ {id} : held'[fd][i] = held[fd][i]
      /\ \A g \in Fds \ {fd} : held'[g] = held[g]
  <2> DEFINE g == Less(held, fd, id)
  <2>1. /\ g \in [Fds -> [Files -> 0 .. MaxHeld]] /\ Cardinality(AllUses(g)) <= Cardinality(AllUses(held))
        /\ Cardinality(Uses(held[fd])) > 0
        /\ Cardinality(Uses(g[fd])) = Cardinality(Uses(held[fd])) - 1
        /\ g[fd][id] = held[fd][id] - 1 /\ \A i \in Files \ {id} : g[fd][i] = held[fd][i]
        /\ \A f \in Fds \ {fd} : g[f] = held[f]
    BY <1>1, <1>2, AllUsesDown
  <2>2. held' = g
    BY <1>2 DEF Less
  <2>3. Cardinality(AllUses(g)) \in Nat /\ Cardinality(AllUses(held)) \in Nat /\ MaxHeld \in Nat
    BY <1>1, <2>1, AllUsesFinite, Sizes
  <2> HIDE DEF g
  <2>4. Cardinality(AllUses(g)) <= MaxHeld
    BY <1>1, <2>1, <2>3
  <2> QED BY <2>1, <2>2, <2>4
<1>4. ASSUME NEW g \in Fds, NEW j \in HeldFiles(g)' PROVE j \in HeldFiles(g)
  <2>1. j \in Files /\ held'[g][j] > 0 /\ held[g][j] \in Int /\ held[fd][id] \in Int
    BY <1>1, <1>4, Sizes DEF HeldFiles
  <2>2. CASE g = fd /\ j = id
    <3>1. held[g][j] > 0
      BY <1>3, <2>1, <2>2
    <3> QED BY <2>1, <3>1 DEF HeldFiles
  <2>3. CASE ~(g = fd /\ j = id)
    <3>1. held'[g][j] = held[g][j]
      BY <1>3, <2>1, <2>3
    <3> QED BY <2>1, <3>1 DEF HeldFiles
  <2> QED BY <2>2, <2>3
<1>5. Distinct(chain', dir') /\ (Sane' \/ ~GoOn => Owned(chain', dir', data')) /\ (Sane' <=> Sane)
  BY <1>2 DEF IInv, Sane
<1>6. CASE InUse(fd)
  <2> DEFINE h == [handles[fd] EXCEPT !.usage_count = @ - 1]
  <2>1. handles' = [handles EXCEPT ![fd] = h]
    BY <1>6 DEF tfs_close, Closed
  <2>2. /\ handles[fd] \in Handles /\ handles[fd].usage_count \in 0 .. UsageMod - 1
        /\ handles[fd].usage_count > 0 /\ UsageMod \in Nat
    BY <1>1, <1>6, Sizes DEF Handles, InUse
  <2>3. handles[fd].usage_count - 1 \in 0 .. UsageMod - 1
    BY <2>2
  <2>4. /\ h \in Handles /\ h.usage_count = handles[fd].usage_count - 1
        /\ h.first_blk = handles[fd].first_blk
        /\ h.dir_blk = handles[fd].dir_blk /\ h.dir_item = handles[fd].dir_item
    BY <2>2, <2>3 DEF Handles
  <2> HIDE DEF h
  <2>5. handles' \in [Fds -> Handles] /\ handles'[fd] = h /\ \A g \in Fds \ {fd} : handles'[g] = handles[g]
    BY <1>1, <2>1, <2>4
  <2>6. Typed'
    BY <1>2, <1>3, <2>5 DEF IInv, Typed, AllHeld
  <2>7. ASSUME "wrapped" \notin spoiled', NEW g \in Fds
        PROVE  handles'[g].usage_count = Cardinality(Uses(held'[g]))
    <3>1. /\ handles[g].usage_count = Cardinality(Uses(held[g]))
          /\ handles[fd].usage_count = Cardinality(Uses(held[fd]))
      BY <1>2, <2>7 DEF IInv, UsageCounted, Holders
    <3> QED BY <1>3, <2>4, <2>5, <3>1
  <2>8. UsageCounted'
    BY <2>7 DEF UsageCounted, Holders
  <2>9. \A g \in Fds : Key(handles'[g]) = Key(handles[g]) /\ (InUse(g)' => InUse(g))
    BY <1>6, <2>4, <2>5 DEF Key, InUse
  <2>10. FirstUsed'
    BY <2>9 DEF IInv, FirstUsed
  <2>11. ASSUME Sane', NEW g \in Fds, NEW j \in HeldFiles(g)'
         PROVE  /\ InUse(g)' /\ Refers(handles[g], j)'
                /\ \A f \in Fds \ {g} : j \notin HeldFiles(f)'
    <3>1. /\ InUse(g) /\ Refers(handles[g], j) /\ \A f \in Fds \ {g} : j \notin HeldFiles(f)
      BY <1>4, <1>5, <2>11 DEF IInv, DescriptorsRight
    <3>2. InUse(g)'
      <4>1. handles'[g].usage_count = Cardinality(Uses(held'[g])) /\ held'[g] \in [Files -> 0 .. MaxHeld]
        BY <1>3, <2>7, <2>11 DEF Sane
      <4>2. j \in Files /\ held'[g][j] > 0
        BY <2>11 DEF HeldFiles
      <4>3. Cardinality(Uses(held'[g])) \in Nat /\ Cardinality(Uses(held'[g])) # 0
        BY <4>1, <4>2, UsesFinite
      <4> QED BY <4>1, <4>3 DEF InUse
    <3>3. Refers(handles[g], j)'
      BY <1>2, <2>4, <2>5, <3>1 DEF Refers
    <3> QED BY <1>4, <3>1, <3>2, <3>3
  <2>12. ASSUME Sane', NEW g \in Fds, InUse(g)'
         PROVE  handles'[g].first_blk = dir'[handles'[g].dir_blk][handles'[g].dir_item].blk
    <3>1. handles[g].first_blk = dir[handles[g].dir_blk][handles[g].dir_item].blk
      BY <1>5, <2>9, <2>12 DEF IInv, Agreed
    <3> QED BY <1>2, <2>4, <2>5, <3>1
  <2>13. DescriptorsRight' /\ (Sane' => Agreed')
    BY <2>11, <2>12 DEF DescriptorsRight, Agreed
  <2> QED BY <1>5, <2>6, <2>8, <2>10, <2>13 DEF IInv
<1>7. CASE ~InUse(fd)
  <2>1. handles' = handles
    BY <1>7 DEF tfs_close
  <2>2. "wrapped" \in spoiled
    <3>1. CASE "wrapped" \notin spoiled
      <4>1. handles[fd].usage_count = Cardinality(Uses(held[fd]))
        BY <3>1 DEF IInv, UsageCounted, Holders
      <4> QED BY <1>3, <1>7, <4>1 DEF InUse
    <3> QED BY <3>1
  <2>3. Typed'
    BY <1>2, <1>3, <2>1 DEF IInv, Typed, AllHeld
  <2>4. ~Sane' /\ UsageCounted'
    BY <1>2, <2>2 DEF Sane, UsageCounted
  <2>5. FirstUsed'
    BY <2>1 DEF IInv, FirstUsed, InUse
  <2> QED BY <1>5, <2>3, <2>4, <2>5 DEF IInv, DescriptorsRight
<1> QED BY <1>6, <1>7

-----------------------------------------------------------------------------
(* Calls by descriptor and on the drive keep the invariant.                *)

\* The item at place k gets block b.
LEMMA Updated ==
  ASSUME chain \in Chains, dir \in DirItems, Distinct(chain, dir), NEW k \in Used(chain, dir),
         NEW b \in Blocks \cup {0}
  PROVE  LET e == [dir EXCEPT ![k.blk][k.slot].blk = b] IN
         /\ e \in DirItems /\ Distinct(chain, e)
         /\ At(e, k).file = At(dir, k).file /\ At(e, k).blk = b
         /\ \A q \in Used(chain, dir) \ {k} : At(e, q) = At(dir, q)
         /\ Owned(chain, dir, data) /\ (b = 0 \/ b \in Unused(chain, data \ {At(dir, k).blk}))
              => Owned(chain, e, (data \ {At(dir, k).blk}) \cup ({b} \ {0}))
<1> DEFINE i == At(dir, k)
           x == [i EXCEPT !.blk = b]
           e == [dir EXCEPT ![k.blk][k.slot].blk = b]
<1>1. i \in Items /\ k.blk \in Blocks /\ k.slot \in Slots /\ i.name \in Names
  BY ItemIs DEF Distinct
<1>2. x \in Items /\ x.file = i.file /\ x.name = i.name /\ x.blk = b
  <2> HIDE DEF i
  <2> QED BY <1>1 DEF Items
<1>3. e = Put(dir, k, x)
  BY <1>1 DEF Put, At, DirItems
<1> HIDE DEF x, e
<1>4. \A q \in Used(chain, dir) \ {k} : At(dir, q).name # x.name
  BY <1>2 DEF Distinct
<1>5. x.file = At(dir, k).file /\ x.name \in Names
  BY <1>1, <1>2
<1>6. /\ e \in DirItems /\ Distinct(chain, e) /\ At(e, k) = x
      /\ \A q \in Used(chain, dir) \ {k} : At(e, q) = At(dir, q)
      /\ Owned(chain, dir, data) /\ (x.blk = 0 \/ x.blk \in Unused(chain, data \ {At(dir, k).blk}))
           => Owned(chain, e, (data \ {At(dir, k).blk}) \cup ({x.blk} \ {0}))
  BY <1>2, <1>3, <1>4, <1>5, Rewritten, SMTT(30)
<1> QED BY <1>2, <1>5, <1>6 DEF e

\* tfs_write and tfs_trunc: handle fd gets block b, and its item with it.
LEMMA UpdateStep ==
  ASSUME IInv, Sane \/ GoOn, NEW fd \in Fds, InUse(fd), NEW b \in Blocks \cup {0},
         handles' = [handles EXCEPT ![fd].first_blk = b],
         dir' = update_dir_item(handles'[fd]),
         data' = (data \ {handles[fd].first_blk}) \cup ({b} \ {0}),
         b = 0 \/ b \in Unused(chain, data \ {handles[fd].first_blk}),
         UNCHANGED <<chain, held, spoiled>>
  PROVE  IInv'
<1> DEFINE U == Used(chain, dir)
           k == Key(handles[fd])
           i == At(dir, k)
<1>1. /\ chain \in Chains /\ dir \in DirItems /\ data \subseteq Blocks /\ Distinct(chain, dir)
      /\ handles \in [Fds -> Handles] /\ ToSet(chain) \subseteq Blocks
  BY PlaceIs DEF IInv, Typed
<1>2. /\ handles' \in [Fds -> Handles]
      /\ handles'[fd].usage_count = handles[fd].usage_count /\ handles'[fd].first_blk = b
      /\ handles'[fd].dir_blk = handles[fd].dir_blk /\ handles'[fd].dir_item = handles[fd].dir_item
      /\ \A g \in Fds \ {fd} : handles'[g] = handles[g]
  <2> DEFINE h == [handles[fd] EXCEPT !.first_blk = b]
  <2>1. /\ h \in Handles /\ h.usage_count = handles[fd].usage_count /\ h.first_blk = b
        /\ h.dir_blk = handles[fd].dir_blk /\ h.dir_item = handles[fd].dir_item
    BY <1>1 DEF Handles
  <2>2. handles' = [handles EXCEPT ![fd] = h]
    OBVIOUS
  <2> HIDE DEF h
  <2> QED BY <1>1, <2>1, <2>2
<1>3. \A g \in Fds : /\ Key(handles'[g]) = Key(handles[g])
                     /\ handles'[g].usage_count = handles[g].usage_count
  BY <1>2 DEF Key
<1>4. /\ k.blk = handles[fd].dir_blk /\ k.slot = handles[fd].dir_item
      /\ k \in U <=> handles[fd].dir_blk \in ToSet(chain) /\ i.file # NoFile
  <2>1. /\ k = [blk |-> handles[fd].dir_blk, slot |-> handles[fd].dir_item]
        /\ handles[fd].dir_blk # 0 => handles[fd].dir_item \in Slots
    BY <1>1 DEF Key, Handles
  <2>2. 0 \notin ToSet(chain)
    BY <1>1, Sizes
  <2> QED BY <2>1, <2>2 DEF Used, At
<1>5. /\ k \in U => dir' = [dir EXCEPT ![k.blk][k.slot].blk = b]
      /\ k \notin U => dir' = dir
  <2>1. dir' = IF handles[fd].dir_blk \in ToSet(chain)
                  /\ dir[handles[fd].dir_blk][handles[fd].dir_item].file # NoFile
               THEN [dir EXCEPT ![handles[fd].dir_blk][handles[fd].dir_item].blk = b] ELSE dir
    BY <1>2 DEF update_dir_item
  <2>2. i = dir[handles[fd].dir_blk][handles[fd].dir_item]
    BY <1>4 DEF At
  <2> HIDE DEF i
  <2> QED BY <1>4, <2>1, <2>2
<1>6. Sane => k \in U /\ handles[fd].first_blk = i.blk
  BY HandleIs
<1> HIDE DEF k
<1>7. CASE k \in U
  <2> DEFINE e == [dir EXCEPT ![k.blk][k.slot].blk = b]
  <2>1. /\ e \in DirItems /\ Distinct(chain, e)
        /\ At(e, k).file = At(dir, k).file /\ At(e, k).blk = b
        /\ \A q \in Used(chain, dir) \ {k} : At(e, q) = At(dir, q)
        /\ Owned(chain, dir, data) /\ (b = 0 \/ b \in Unused(chain, data \ {At(dir, k).blk}))
             => Owned(chain, e, (data \ {At(dir, k).blk}) \cup ({b} \ {0}))
    BY <1>1, <1>7, Updated
  <2>2. dir' = e
    BY <1>5, <1>7
  <2> HIDE DEF e, i
  <2>3. ASSUME Sane' \/ ~GoOn PROVE Owned(chain', dir', data')
    <3>1. Sane /\ Owned(chain, dir, data)
      BY <2>3 DEF IInv, Sane
    <3>2. handles[fd].first_blk = At(dir, k).blk
      BY <1>6, <3>1 DEF i
    <3> QED BY <2>1, <2>2, <3>1, <3>2
  <2>4. ASSUME NEW g \in Fds, Sane', InUse(g)
         PROVE  /\ Key(handles[g]).blk \in ToSet(chain')
                /\ At(dir', Key(handles[g])).file = At(dir, Key(handles[g])).file
                /\ handles'[g].first_blk = At(dir', Key(handles[g])).blk
    <3>1. Sane
      BY <2>4 DEF Sane
    <3>2. Key(handles[g]) \in U /\ handles[g].first_blk = At(dir, Key(handles[g])).blk
      BY <2>4, <3>1, HandleIs
    <3>3. Key(handles[g]).blk \in ToSet(chain')
      BY <3>2 DEF Used
    <3>4. CASE g = fd
      BY <1>2, <2>1, <2>2, <3>3, <3>4 DEF k
    <3>5. CASE g # fd
      <4>1. Key(handles[g]) # k
        <5>1. g < fd \/ fd < g
          BY <3>5, Sizes
        <5> QED BY <2>4, <5>1 DEF IInv, FirstUsed, k
      <4> QED BY <1>2, <2>1, <2>2, <3>2, <3>3, <3>5, <4>1
    <3> QED BY <3>4, <3>5
  <2>5. UsageCounted' /\ FirstUsed' /\ DescriptorsRight' /\ (Sane' => Agreed')
    <3>1. (Sane' => Sane) /\ ("wrapped" \in spoiled => "wrapped" \in spoiled')
      BY DEF Sane
    <3> QED BY <1>3, <2>4, <3>1, HandlesKept
  <2>6. Typed'
    <3>1. data' \subseteq Blocks /\ dir' \in DirItems
      BY <1>1, <2>1, <2>2, Sizes DEF Unused
    <3> QED BY <1>2, <3>1 DEF IInv, Typed, AllHeld
  <2> QED BY <2>1, <2>2, <2>3, <2>5, <2>6 DEF IInv
<1>8. CASE k \notin U
  <2>1. ~Sane /\ ~Sane' /\ GoOn /\ dir' = dir
    BY <1>5, <1>6, <1>8 DEF Sane
  <2>2. UsageCounted' /\ FirstUsed' /\ DescriptorsRight' /\ (Sane' => Agreed')
    <3>1. "wrapped" \in spoiled => "wrapped" \in spoiled'
      OBVIOUS
    <3> QED BY <1>3, <2>1, <3>1, HandlesKept
  <2>3. Typed'
    <3>1. data' \subseteq Blocks
      BY <1>1, Sizes DEF Unused
    <3> QED BY <1>2, <2>1, <3>1 DEF IInv, Typed, AllHeld
  <2> QED BY <2>1, <2>2, <2>3 DEF IInv
<1> QED BY <1>7, <1>8

\* tfs_write does: a file without blocks gets its first, in the item of the handle.
LEMMA WriteStep ==
  ASSUME IInv, Sane \/ GoOn, NEW fd \in Fds, NEW id \in Files, tfs_write(fd, id)
  PROVE  IInv'
<1> DEFINE room == Unused(chain, data)
           b == Min(room)
<1>1. InUse(fd) /\ data \subseteq Blocks
  BY DEF tfs_write, IInv, Typed
<1>2. CASE handles[fd].first_blk = 0 /\ room # {}
  <2>1. /\ data' = data \cup {b} /\ handles' = [handles EXCEPT ![fd].first_blk = b]
        /\ dir' = update_dir_item(handles'[fd]) /\ UNCHANGED <<chain, held, spoiled>>
    BY <1>2 DEF tfs_write
  <2>2. b \in room
    <3>1. room \in SUBSET Nat
      BY Sizes DEF Unused
    <3> QED BY <1>2, <3>1, MinFacts
  <2> HIDE DEF b
  <2>3. b \in Blocks \cup {0} /\ b # 0
    BY <2>2, Sizes DEF Unused
  <2>4. data \ {handles[fd].first_blk} = data
    BY <1>1, <1>2, Sizes
  <2>5. data' = (data \ {handles[fd].first_blk}) \cup ({b} \ {0})
    BY <2>1, <2>3, <2>4
  <2>6. b \in Unused(chain, data \ {handles[fd].first_blk})
    BY <2>2, <2>4
  <2> QED BY <1>1, <2>1, <2>3, <2>5, <2>6, UpdateStep
<1>3. CASE ~(handles[fd].first_blk = 0 /\ room # {})
  <2>1. UNCHANGED <<chain, dir, data, handles, held, spoiled>>
    BY <1>3 DEF tfs_write, Refused
  <2> QED BY <2>1, NothingChanged
<1> QED BY <1>2, <1>3

\* tfs_trunc does, down to a file without blocks.
LEMMA TruncStep ==
  ASSUME IInv, Sane \/ GoOn, NEW fd \in Fds, NEW id \in Files, tfs_trunc(fd, id)
  PROVE  IInv'
<1>1. /\ InUse(fd) /\ handles' = [handles EXCEPT ![fd].first_blk = 0]
      /\ dir' = update_dir_item(handles'[fd]) /\ UNCHANGED <<chain, held, spoiled>>
      /\ data' = (data \ {handles[fd].first_blk}) \cup ({0} \ {0})
  BY DEF tfs_trunc
<1> QED BY <1>1, UpdateStep

\* tfs_init clears the table.
LEMMA InitStep ==
  ASSUME IInv, tfs_init
  PROVE  IInv'
<1>1. /\ handles' = [fd \in Fds |-> NoHandle] /\ held' = NothingHeld
      /\ spoiled' = (IF GoOn THEN spoiled ELSE {}) /\ UNCHANGED <<chain, dir, data>>
  BY DEF tfs_init
<1>2. /\ NoHandle \in Handles /\ NoHandle.usage_count = 0
  BY Sizes DEF NoHandle, Handles
<1>3. handles' \in [Fds -> Handles] /\ \A fd \in Fds : handles'[fd].usage_count = 0
  BY <1>1, <1>2
<1>4. /\ held' \in [Fds -> [Files -> 0 .. MaxHeld]] /\ Cardinality(AllUses(held')) <= MaxHeld
      /\ \A fd \in Fds : Cardinality(Uses(held'[fd])) = 0
      /\ \A fd \in Fds, id \in Files : held'[fd][id] = 0
  BY <1>1, NothingHeldIs, Sizes
<1>5. Typed'
  BY <1>1, <1>3, <1>4 DEF IInv, Typed, AllHeld, Hazards
<1>6. UsageCounted' /\ FirstUsed'
  BY <1>3, <1>4 DEF UsageCounted, Holders, FirstUsed, InUse
<1>7. DescriptorsRight' /\ Agreed'
  BY <1>3, <1>4 DEF DescriptorsRight, HeldFiles, Agreed, InUse
<1>8. Distinct(chain', dir') /\ (Sane' \/ ~GoOn => Owned(chain', dir', data'))
  BY <1>1, Sizes DEF IInv, Sane
<1> QED BY <1>5, <1>6, <1>7, <1>8 DEF IInv

\* An empty drive.
LEMMA EmptyIs ==
  ASSUME NEW c, c = <<TFS_ROOT_DIR_BLK>>, NEW d, d = [b \in Blocks |-> NoItems]
  PROVE  c \in Chains /\ d \in DirItems /\ Distinct(c, d) /\ Owned(c, d, {})
<1>1. c \in Chains
  BY Sizes DEF Chains, TFS_ROOT_DIR_BLK
<1>2. d \in DirItems /\ \A b \in Blocks, s \in Slots : d[b][s].file = NoFile
  BY FreeItemIs DEF DirItems
<1>3. ToSet(c) \subseteq Blocks
  BY Sizes DEF ToSet, TFS_ROOT_DIR_BLK
<1>4. Used(c, d) = {}
  BY <1>2, <1>3 DEF Used
<1> QED BY <1>1, <1>2, <1>4 DEF Distinct, Owned

\* tfs_format empties the directory; the table stays as it is.
LEMMA FormatStep ==
  ASSUME IInv, tfs_format
  PROVE  IInv'
<1>1. /\ chain' = <<TFS_ROOT_DIR_BLK>> /\ dir' = [b \in Blocks |-> NoItems] /\ data' = {}
      /\ spoiled' = (IF OpenFiles # {} THEN spoiled \cup {"formatted"} ELSE spoiled)
      /\ handles' = handles /\ held' = held
  BY DEF tfs_format, Spoil
<1>2. chain' \in Chains /\ dir' \in DirItems /\ Distinct(chain', dir') /\ Owned(chain', dir', data')
  BY <1>1, EmptyIs
<1>3. Typed'
  BY <1>1, <1>2 DEF IInv, Typed, AllHeld, Hazards
<1>4. (Sane' => Sane /\ OpenFiles = {}) /\ ("wrapped" \in spoiled => "wrapped" \in spoiled')
  BY <1>1 DEF Sane
<1>5. ASSUME NEW fd \in Fds, Sane' PROVE ~InUse(fd)
  BY <1>4, <1>5, HandleIs DEF OpenFiles
<1>6. UsageCounted' /\ FirstUsed' /\ DescriptorsRight' /\ (Sane' => Agreed')
  <2>1. \A fd \in Fds : /\ Key(handles'[fd]) = Key(handles[fd])
                        /\ handles'[fd].usage_count = handles[fd].usage_count
    BY <1>1
  <2> QED BY <1>1, <1>4, <1>5, <2>1, HandlesKept
<1> QED BY <1>2, <1>3, <1>6 DEF IInv

-----------------------------------------------------------------------------
(* The theorems.                                                           *)

\* The invariant holds at the start.
LEMMA Start == Init => IInv
<1> SUFFICES ASSUME Init PROVE IInv
  OBVIOUS
<1>1. /\ chain = <<TFS_ROOT_DIR_BLK>> /\ dir = [b \in Blocks |-> NoItems] /\ data = {}
      /\ handles = [fd \in Fds |-> NoHandle] /\ held = NothingHeld /\ spoiled = {}
  BY DEF Init
<1>2. chain \in Chains /\ dir \in DirItems /\ Distinct(chain, dir) /\ Owned(chain, dir, data)
  BY <1>1, EmptyIs
<1>3. /\ NoHandle \in Handles /\ NoHandle.usage_count = 0
  BY Sizes DEF NoHandle, Handles
<1>4. handles \in [Fds -> Handles] /\ \A fd \in Fds : handles[fd].usage_count = 0
  BY <1>1, <1>3
<1>5. /\ held \in [Fds -> [Files -> 0 .. MaxHeld]] /\ Cardinality(AllUses(held)) <= MaxHeld
      /\ \A fd \in Fds : Cardinality(Uses(held[fd])) = 0
      /\ \A fd \in Fds, id \in Files : held[fd][id] = 0
  BY <1>1, NothingHeldIs, Sizes
<1>6. Typed
  BY <1>1, <1>2, <1>4, <1>5 DEF Typed, AllHeld, Hazards
<1>7. UsageCounted /\ FirstUsed /\ DescriptorsRight /\ Agreed
  BY <1>4, <1>5 DEF UsageCounted, Holders, FirstUsed, InUse, DescriptorsRight, HeldFiles, Agreed
<1> QED BY <1>2, <1>6, <1>7 DEF IInv

\* Every call keeps it.
LEMMA Step == IInv /\ [Next]_vars => IInv'
<1> SUFFICES ASSUME IInv, [Next]_vars PROVE IInv'
  OBVIOUS
<1>1. CASE UNCHANGED vars
  BY <1>1, NothingChanged DEF vars
<1>2. CASE (Sane \/ GoOn) /\ Call
  <2>1. ASSUME NEW n \in Names, tfs_stat(n) PROVE IInv'
    BY <2>1, NothingChanged DEF tfs_stat, Refused
  <2>2. ASSUME NEW n \in Names, tfs_touch(n) PROVE IInv'
    BY <1>2, <2>2, TouchStep
  <2>3. ASSUME NEW n \in Names, tfs_delete(n) PROVE IInv'
    BY <1>2, <2>3, DeleteStep
  <2>4. ASSUME NEW n \in Names, tfs_open(n) PROVE IInv'
    BY <1>2, <2>4, OpenStep
  <2>5. ASSUME NEW n \in Names, NEW len \in 0 .. 1, NEW overwrite \in BOOLEAN,
               tfs_write_file(n, len, overwrite)
        PROVE  IInv'
    BY <1>2, <2>5, WriteFileStep
  <2>6. ASSUME NEW n \in Names, NEW to \in Names, tfs_rename(n, to) PROVE IInv'
    BY <1>2, <2>6, RenameStep
  <2>7. ASSUME NEW fd \in Fds, NEW id \in Files, tfs_write(fd, id) PROVE IInv'
    BY <1>2, <2>7, WriteStep
  <2>8. ASSUME NEW fd \in Fds, NEW id \in Files, tfs_trunc(fd, id) PROVE IInv'
    BY <1>2, <2>8, TruncStep
  <2>9. ASSUME NEW fd \in Fds, NEW id \in Files, tfs_read(fd, id) PROVE IInv'
    BY <2>9, NothingChanged DEF tfs_read, Refused
  <2>10. ASSUME NEW fd \in Fds, invalid_fd(fd) PROVE IInv'
    BY <2>10, NothingChanged DEF invalid_fd, Refused
  <2>11. ASSUME tfs_format PROVE IInv'
    BY <2>11, FormatStep
  <2> QED BY <1>2, <2>1, <2>2, <2>3, <2>4, <2>5, <2>6, <2>7, <2>8, <2>9, <2>10, <2>11 DEF Call
<1>3. ASSUME NEW fd \in Fds, NEW id \in Files, tfs_close(fd, id) PROVE IInv'
  BY <1>3, CloseStep
<1>4. CASE tfs_init
  BY <1>4, InitStep
<1> QED BY <1>1, <1>2, <1>3, <1>4 DEF Next

\* The table and the directory fit together in every state that calls reach.
THEOREM TableSound == Spec => []IInv
  BY Start, Step, PTL DEF Spec

\* usage_count is the number of descriptors callers hold, for any number of handles and
\* callers, until it overflows.
THEOREM UsageCorrect == Spec => []UsageCounted
<1>1. IInv => UsageCounted
  BY DEF IInv
<1> QED BY <1>1, TableSound, PTL

\* item_usage_count, which stops at the first handle with the place, meets the one in
\* use if there is one, also in a table full of closed handles of the same place; and
\* every variable keeps its type.
THEOREM FirstHandleRight == Spec => []UsedHandleFirst
<1>1. IInv => UsedHandleFirst
  <2> SUFFICES ASSUME IInv PROVE UsedHandleFirst
    OBVIOUS
  <2>1. /\ chain \in Chains /\ dir \in DirItems /\ data \subseteq Blocks
        /\ handles \in [Fds -> Handles] /\ held \in [Fds -> [Files -> 0 .. MaxHeld]]
        /\ spoiled \subseteq Hazards
    BY DEF IInv, Typed
  <2>2. ToSet(chain) \subseteq Blocks /\ chain[1] = TFS_ROOT_DIR_BLK
    BY <2>1, PlaceIs DEF Chains
  <2>3. \A b \in Blocks, s \in Slots :
          dir[b][s].file \in Files \cup {NoFile} /\ dir[b][s].blk \in Blocks \cup {0}
    <3>1. \A b \in Blocks, s \in Slots : dir[b][s] \in Items
      BY <2>1 DEF DirItems
    <3> QED BY <3>1 DEF Items
  <2>4. \A fd \in Fds : /\ handles[fd].usage_count \in 0 .. UsageMod - 1
                        /\ handles[fd].dir_blk \in Blocks \cup {0}
                        /\ handles[fd].first_blk \in Blocks \cup {0}
    BY <2>1 DEF Handles
  <2> QED BY <2>1, <2>2, <2>3, <2>4 DEF UsedHandleFirst, TypeOK, IInv, FirstUsed
<1> QED BY <1>1, TableSound, PTL

\* Until a handle and its file have come apart, a descriptor refers to the file that was
\* opened, and all openings of a file share one handle.
THEOREM DescriptorsCorrect == Spec => []DescriptorsRight
<1>1. IInv => DescriptorsRight
  BY DEF IInv
<1> QED BY <1>1, TableSound, PTL

\* Until then no data block is lost, in two files, or in a file and the directory.
THEOREM DataCorrect == Spec => []DataOwned
<1>1. IInv => DataOwned
  <2> SUFFICES ASSUME IInv, Sane PROVE DataOwned
    BY DEF DataOwned
  <2> DEFINE U == Used(chain, dir)
             items == {ItemAt(Place(i)) : i \in {j \in Places : ~IsFree(Place(j))}}
  <2>1. chain \in Chains /\ Owned(chain, dir, data) /\ Agreed
    BY DEF IInv, Typed
  <2>2. ASSUME NEW i \in Places, ~IsFree(Place(i))
        PROVE  Place(i) \in U /\ ItemAt(Place(i)) = At(dir, Place(i))
    BY <2>1, <2>2, PlaceIs DEF Used, At, ItemAt, IsFree
  <2>3. ASSUME NEW p \in U
        PROVE  \E i \in Places : ~IsFree(Place(i)) /\ ItemAt(Place(i)) = At(dir, p)
    <3>1. PICK i \in Places : Place(i) = p
      BY <2>1, PlaceIs DEF Used
    <3> QED BY <3>1 DEF Used, At, ItemAt, IsFree
  <2> HIDE DEF U
  <2>4. items = {At(dir, p) : p \in U}
    BY <2>2, <2>3
  <2> HIDE DEF items
  <2>5. /\ data = {At(dir, p).blk : p \in U} \ {0} /\ data \cap ToSet(chain) = {}
        /\ \A p, q \in U : At(dir, p).blk = At(dir, q).blk /\ At(dir, p).blk # 0 => p = q
    BY <2>1 DEF Owned, U
  <2>6. {At(dir, p).blk : p \in U} = {i.blk : i \in items}
    BY <2>4
  <2>7. \A i, j \in items : i.blk = j.blk /\ i.blk # 0 => i = j
    BY <2>4, <2>5
  <2> QED BY <2>1, <2>5, <2>6, <2>7 DEF DataOwned, Agreed, items
<1> QED BY <1>1, TableSound, PTL

\* What a call says of the file it is about, and whether that was open.
BusyRight == /\ Sane
             /\ last'.op \in {"delete", "write_file"} /\ last'.file # NoFile
             /\ last'.status # "FILE_EXIST"
             => (last'.status = "BUSY" <=> last'.file \in OpenFiles)

\* A file is open exactly when its item has a handle that is used.
LEMMA BusyAt ==
  ASSUME IInv, Sane, NEW n, NEW p \in find_file(n)
  PROVE  ItemAt(p).file \in OpenFiles <=> item_usage_count(p) > 0
<1>1. chain \in Chains /\ dir \in DirItems /\ FirstUsed
  BY DEF IInv, Typed
<1>2. p \in Used(chain, dir)
  BY <1>1, FoundIs
<1> QED BY <1>1, <1>2, ItemIs, CountIs, OpenIs

\* A file that is made anew is nobody's yet.
LEMMA NewIsNotOpen ==
  ASSUME IInv, NEW n \in Names, find_file(n) = {}
  PROVE  NewFile \notin OpenFiles
<1>1. chain \in Chains /\ Typed /\ Distinct(chain, dir)
  BY DEF IInv, Typed
<1> QED BY <1>1, FoundIs, NewFileIs

\* A file that is written is not busy.
LEMMA WrittenAnswer ==
  ASSUME NEW p, NEW i, NEW items, NEW len, NEW c, NEW kept, write_item(p, i, items, len, c, kept)
  PROVE  last'.file = i.file /\ last'.status # "BUSY"
<1>1. Answer("write_file", i.file, "DISK_FULL") \/ Answer("write_file", i.file, "OK")
  BY DEF write_item
<1> QED BY <1>1 DEF Answer

\* tfs_delete and tfs_write_file answer TFS_FILE_BUSY for the files that callers have
\* open and for no others, until a handle and its file have come apart.
THEOREM BusyCorrect == Spec => BusyExact
<1>1. IInv /\ [Next]_vars => [BusyRight]_vars
  <2> SUFFICES ASSUME IInv, Next, Sane, last'.op \in {"delete", "write_file"},
                      last'.file # NoFile, last'.status # "FILE_EXIST"
               PROVE  last'.status = "BUSY" <=> last'.file \in OpenFiles
    BY DEF BusyRight
  <2>1. CASE \E n \in Names : tfs_delete(n)
    <3>1. PICK n \in Names : tfs_delete(n)
      BY <2>1
    <3>2. PICK p \in find_file(n) :
            \/ item_usage_count(p) > 0 /\ Answer("delete", ItemAt(p).file, "BUSY")
            \/ ~(item_usage_count(p) > 0) /\ Answer("delete", ItemAt(p).file, "OK")
      BY <3>1 DEF tfs_delete, Refused, Answer
    <3> QED BY <3>2, BusyAt DEF Answer
  <2>2. CASE \E n \in Names, len \in 0 .. 1, overwrite \in BOOLEAN : tfs_write_file(n, len, overwrite)
    <3>1. PICK n \in Names, len \in 0 .. 1, overwrite \in BOOLEAN : tfs_write_file(n, len, overwrite)
      BY <2>2
    <3>2. CASE find_file(n) = {}
      <4>1. last'.file = NewFile /\ last'.status # "BUSY"
        <5>1. ~Refused("write_file", NoFile, "DISK_FULL")
          BY DEF Refused, Answer
        <5>2. PICK f \in find_free :
                write_item(f.place, [file |-> NewFile, name |-> n, blk |-> 0], f.items, len, f.chain, data)
          BY <3>1, <3>2, <5>1 DEF tfs_write_file
        <5> DEFINE i == [file |-> NewFile, name |-> n, blk |-> 0]
        <5>3. i.file = NewFile
          OBVIOUS
        <5> HIDE DEF i
        <5>4. write_item(f.place, i, f.items, len, f.chain, data)
          BY <5>2 DEF i
        <5> QED BY <5>3, <5>4, WrittenAnswer
      <4> QED BY <3>2, <4>1, NewIsNotOpen
    <3>3. CASE find_file(n) # {}
      <4>1. PICK p \in find_file(n) :
               CASE ~overwrite -> Refused("write_file", ItemAt(p).file, "FILE_EXIST")
                 [] overwrite /\ item_usage_count(p) > 0 -> Refused("write_file", ItemAt(p).file, "BUSY")
                 [] OTHER -> write_item(p, ItemAt(p), dir, len, chain, data \ {ItemAt(p).blk})
        BY <3>1, <3>3 DEF tfs_write_file
      <4>2. overwrite
        BY <4>1 DEF Refused, Answer
      <4>3. CASE item_usage_count(p) > 0
        <5>1. last' = [op |-> "write_file", file |-> ItemAt(p).file, status |-> "BUSY"]
          BY <4>1, <4>2, <4>3 DEF Refused, Answer
        <5> QED BY <4>3, <5>1, BusyAt
      <4>4. CASE ~(item_usage_count(p) > 0)
        <5>1. last'.file = ItemAt(p).file /\ last'.status # "BUSY"
          <6>1. write_item(p, ItemAt(p), dir, len, chain, data \ {ItemAt(p).blk})
            BY <4>1, <4>2, <4>4
          <6> QED BY <6>1, WrittenAnswer
        <5> QED BY <4>4, <5>1, BusyAt
      <4> QED BY <4>3, <4>4
    <3> QED BY <3>2, <3>3
  <2>3. ASSUME NEW n \in Names, tfs_stat(n) \/ tfs_touch(n) PROVE FALSE
    <3>1. \E id, status : Answer("stat", id, status) \/ Answer("touch", id, status)
      BY <2>3 DEF tfs_stat, tfs_touch, Refused
    <3> QED BY <3>1 DEF Answer
  <2>4. ASSUME NEW n \in Names, tfs_open(n) PROVE FALSE
    <3>1. CASE Refused("open", NoFile, "NOT_EXIST")
      BY <3>1 DEF Refused, Answer
    <3>2. CASE \E p \in find_file(n) :
                 CASE Shared(p) # {} -> \E fd \in Shared(p) : open_shared(fd, ItemAt(p).file)
                   [] Shared(p) = {} /\ Idle # {} -> open_new(FreeFd, p)
                   [] OTHER -> open_full(ItemAt(p).file)
      <4>1. PICK p \in find_file(n) : \/ \E fd : open_shared(fd, ItemAt(p).file)
                                      \/ open_new(FreeFd, p)
                                      \/ open_full(ItemAt(p).file)
        BY <3>2
      <4>2. \E id, status : Answer("open", id, status)
        BY <4>1 DEF open_shared, open_new, open_full
      <4> QED BY <4>2 DEF Answer
    <3> QED BY <2>4, <3>1, <3>2 DEF tfs_open
  <2>5. ASSUME NEW n \in Names, NEW to \in Names, tfs_rename(n, to) PROVE FALSE
    <3>1. \E j, status : Answer("rename", j, status)
      BY <2>5 DEF tfs_rename, Refused
    <3> QED BY <3>1 DEF Answer
  <2>6. ASSUME NEW fd \in Fds, NEW id \in Files, tfs_write(fd, id) PROVE FALSE
    <3>1. \E j, status : Answer("write", j, status)
      BY <2>6 DEF tfs_write, Refused
    <3> QED BY <3>1 DEF Answer
  <2>7. ASSUME NEW fd \in Fds, NEW id \in Files,
               tfs_trunc(fd, id) \/ tfs_read(fd, id) \/ tfs_close(fd, id)
        PROVE  FALSE
    BY <2>7 DEF tfs_trunc, tfs_read, tfs_close, Refused, Answer
  <2>8. ASSUME NEW fd \in Fds, invalid_fd(fd) PROVE FALSE
    BY <2>8 DEF invalid_fd, Refused, Answer
  <2>9. ASSUME tfs_format \/ tfs_init PROVE FALSE
    BY <2>9 DEF tfs_format, tfs_init, Answer
  <2> QED BY <2>1, <2>2, <2>3, <2>4, <2>5, <2>6, <2>7, <2>8, <2>9 DEF Next, Call
<1> QED BY <1>1, TableSound, PTL DEF Spec, BusyExact, BusyRight
=============================================================================
