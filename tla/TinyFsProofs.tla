---------------------------- MODULE TinyFsProofs ----------------------------
(***************************************************************************)
(* Proofs about directories and whole files, for drives, directory blocks  *)
(* and files of every size: types, whatever calls are cut short; the       *)
(* structure of the drive, as long as none is.                             *)
(***************************************************************************)
EXTENDS TinyFs, FiniteSetTheorems, SequenceTheorems, WellFoundedInduction, TLAPS

\* A set of numbers that is not empty has a least one.
LEMMA LeastNumber ==
  ASSUME NEW S \in SUBSET Nat, S # {}
  PROVE  \E x \in S : \A y \in S : x <= y
<1>1. \E x \in S : \A y \in S : ~(<<y, x>> \in OpToRel(<, Nat))
  BY NatLessThanWellFounded, WFMin
<1>2. \A x, y \in S : ~(<<y, x>> \in OpToRel(<, Nat)) => x <= y
  <2> SUFFICES ASSUME NEW x \in S, NEW y \in S, ~(x <= y)
               PROVE  <<y, x>> \in OpToRel(<, Nat)
    OBVIOUS
  <2>1. y < x /\ x \in Nat /\ y \in Nat
    OBVIOUS
  <2> QED BY <2>1 DEF OpToRel
<1> QED BY <1>1, <1>2

\* Induction up to k: what holds of 0 and, with one number, of the next, holds of all.
LEMMA UpTo ==
  ASSUME NEW k \in Nat, NEW S, 0 \in S,
         \A n \in 0 .. k - 1 : n \in S => n + 1 \in S
  PROVE  \A n \in 0 .. k : n \in S
<1> DEFINE Bad == {n \in 0 .. k : n \notin S}
<1> SUFFICES ASSUME Bad # {} PROVE FALSE
  OBVIOUS
<1>1. PICK x \in Bad : \A y \in Bad : x <= y
  <2>1. Bad \in SUBSET Nat
    OBVIOUS
  <2> HIDE DEF Bad
  <2> QED BY <2>1, LeastNumber
<1>2. x # 0 /\ x - 1 \in 0 .. k - 1
  OBVIOUS
<1>3. x - 1 \notin Bad
  BY <1>1, <1>2
<1>4. x - 1 \in S
  BY <1>2, <1>3
<1>5. (x - 1) + 1 \in S
  BY <1>2, <1>4
<1> QED BY <1>5

Ptrs == 0 .. BlkCount - 1

\* The sizes, and what block numbers and pointers are.
LEMMA Sizes ==
  /\ BlkCount \in Nat /\ BlkCount >= 2 /\ DirItems \in Nat /\ DirItems >= 1
  /\ DataLen \in Nat /\ DataLen >= 1 /\ Lens \subseteq Nat /\ MaxFaults \in Nat
  /\ 0 \notin Blocks /\ Blocks \subseteq Nat /\ Blocks \subseteq Ptrs /\ Ptrs \subseteq Nat
  /\ 0 \in Ptrs /\ TFS_ROOT_DIR_BLK \in Blocks /\ TFS_ROOT_DIR_BLK = 1
  /\ \A p \in Ptrs : p # 0 => p \in Blocks
  /\ 1 \in 1 .. DirItems
  BY SizeAssumption DEF Blocks, Ptrs, TFS_ROOT_DIR_BLK

\* The types of an item are different.
LEMMA Words ==
  /\ FREE # DIR /\ FREE # FILE /\ DIR # FILE
  BY DEF FREE, DIR, FILE

-----------------------------------------------------------------------------
(* Lists of writes.                                                        *)

\* f goes through the writes ws, from s on.
Passes(f, s, ws) ==
  /\ f[0] = s
  /\ \A n \in 0 .. Len(ws) - 1 : f[n + 1] = Apply(f[n], ws[n + 1])

\* The states after each of the writes.
LEMMA RunExists ==
  ASSUME NEW s, NEW ws, Len(ws) \in Nat
  PROVE  \E f : Passes(f, s, ws) /\ Run(s, ws) = f[Len(ws)]
<1> DEFINE N == Len(ws)
           G(g) == [n \in 0 .. N |-> IF n = 0 THEN s ELSE Apply(g[n - 1], ws[n])]
           Part(k, g) == g[0] = s /\ \A n \in 0 .. k - 1 : g[n + 1] = Apply(g[n], ws[n + 1])
           S == {k \in 0 .. N : \E g : Part(k, g)}
<1>1. 0 \in S
  <2>1. Part(0, [n \in {0} |-> s])
    OBVIOUS
  <2> HIDE DEF Part
  <2> QED BY <2>1
<1>2. ASSUME NEW k \in 0 .. N - 1, k \in S
      PROVE  k + 1 \in S
  <2>1. PICK g : Part(k, g)
    BY <1>2
  <2> DEFINE h == [n \in 0 .. k + 1 |-> IF n = k + 1 THEN Apply(g[k], ws[k + 1]) ELSE g[n]]
  <2>2. h[0] = s
    BY <2>1, <1>2
  <2>3. \A n \in 0 .. (k + 1) - 1 : h[n + 1] = Apply(h[n], ws[n + 1])
    <3> TAKE n \in 0 .. (k + 1) - 1
    <3>1. h[n] = g[n]
      BY <1>2
    <3>2. CASE n = k
      BY <3>1, <3>2, <1>2
    <3>3. CASE n # k
      <4>1. n \in 0 .. k - 1 /\ n + 1 \in 0 .. k + 1 /\ n + 1 # k + 1
        BY <3>3, <1>2
      <4>2. h[n + 1] = g[n + 1]
        BY <4>1
      <4> QED BY <4>1, <4>2, <3>1, <2>1
    <3> QED BY <3>2, <3>3
  <2>4. Part(k + 1, h)
    BY <2>2, <2>3
  <2> HIDE DEF h, Part
  <2> QED BY <2>4, <1>2
<1>3. PICK g : Part(N, g)
  <2> HIDE DEF S
  <2>1. \A n \in 0 .. N : n \in S
    BY <1>1, <1>2, UpTo
  <2>2. N \in S
    BY <2>1
  <2> QED BY <2>2 DEF S
<1> DEFINE r == [n \in 0 .. N |-> g[n]]
<1>4. r = G(r)
  <2> SUFFICES ASSUME NEW n \in 0 .. N PROVE r[n] = G(r)[n]
    OBVIOUS
  <2>1. CASE n = 0
    BY <2>1, <1>3
  <2>2. CASE n # 0
    <3>1. n - 1 \in 0 .. N - 1 /\ n - 1 \in 0 .. N /\ (n - 1) + 1 = n
      BY <2>2
    <3>2. g[n] = Apply(g[n - 1], ws[n])
      BY <3>1, <1>3
    <3>3. r[n - 1] = g[n - 1] /\ r[n] = g[n]
      BY <3>1
    <3> QED BY <3>2, <3>3, <2>2
  <2> QED BY <2>1, <2>2
<1> DEFINE w == CHOOSE f : f = G(f)
<1>5. w = G(w)
  <2> HIDE DEF G, r
  <2> QED BY <1>4
<1>6. Run(s, ws) = w[N]
  BY DEF Run
<1>7. w[0] = s
  <2>1. w[0] = G(w)[0]
    <3> HIDE DEF w, G
    <3> QED BY <1>5
  <2> HIDE DEF w
  <2> QED BY <2>1
<1>8. ASSUME NEW n \in 0 .. N - 1
      PROVE  w[n + 1] = Apply(w[n], ws[n + 1])
  <2>1. n + 1 \in 0 .. N /\ n + 1 # 0 /\ (n + 1) - 1 = n
    OBVIOUS
  <2> HIDE DEF w
  <2> QED BY <2>1, <1>5
<1> HIDE DEF w
<1> QED BY <1>6, <1>7, <1>8 DEF Passes

\* There is one way through the writes.
LEMMA RunIs ==
  ASSUME NEW s, NEW ws, Len(ws) \in Nat, NEW f, Passes(f, s, ws)
  PROVE  /\ Run(s, ws) = f[Len(ws)]
<1>1. PICK g : Passes(g, s, ws) /\ Run(s, ws) = g[Len(ws)]
  BY RunExists
<1> DEFINE S == {n \in 0 .. Len(ws) : f[n] = g[n]}
<1>2. 0 \in S
  BY <1>1 DEF Passes
<1>3. ASSUME NEW n \in 0 .. Len(ws) - 1, n \in S
      PROVE  n + 1 \in S
  <2>1. f[n + 1] = Apply(f[n], ws[n + 1]) /\ g[n + 1] = Apply(g[n], ws[n + 1])
    BY <1>1 DEF Passes
  <2> QED BY <2>1, <1>3
<1>4. \A n \in 0 .. Len(ws) : n \in S
  <2> HIDE DEF S
  <2> QED BY <1>2, <1>3, UpTo
<1> QED BY <1>1, <1>4

\* No writes change nothing.
LEMMA RunNone ==
  ASSUME NEW s
  PROVE  Run(s, <<>>) = s
<1>1. PICK f : Passes(f, s, <<>>) /\ Run(s, <<>>) = f[Len(<<>>)]
  <2>1. Len(<<>>) \in Nat
    OBVIOUS
  <2> QED BY <2>1, RunExists
<1>2. Len(<<>>) = 0
  OBVIOUS
<1>3. f[0] = s
  BY <1>1 DEF Passes
<1> QED BY <1>1, <1>2, <1>3

\* One write.
LEMMA RunOne ==
  ASSUME NEW s, NEW w
  PROVE  Run(s, <<w>>) = Apply(s, w)
<1>1. PICK f : Passes(f, s, <<w>>) /\ Run(s, <<w>>) = f[Len(<<w>>)]
  BY RunExists
<1>2. Len(<<w>>) = 1 /\ <<w>>[1] = w
  OBVIOUS
<1>3. f[0 + 1] = Apply(f[0], <<w>>[0 + 1]) /\ f[0] = s
  BY <1>1, <1>2 DEF Passes
<1> QED BY <1>1, <1>2, <1>3

\* Two lists of writes, one after the other.
LEMMA RunBoth ==
  ASSUME NEW W, NEW a \in Seq(W), NEW b \in Seq(W), NEW s
  PROVE  Run(s, a \o b) = Run(Run(s, a), b)
<1>1. /\ Len(a) \in Nat /\ Len(b) \in Nat /\ Len(a \o b) = Len(a) + Len(b)
      /\ \A i \in 1 .. Len(a) : (a \o b)[i] = a[i]
      /\ \A i \in 1 .. Len(b) : (a \o b)[Len(a) + i] = b[i]
      /\ Len(a \o b) \in Nat
  OBVIOUS
<1>2. PICK f : Passes(f, s, a \o b) /\ Run(s, a \o b) = f[Len(a \o b)]
  BY <1>1, RunExists
<1> DEFINE t == Run(s, a)
           g == [n \in 0 .. Len(b) |-> f[Len(a) + n]]
<1>3. Passes(f, s, a)
  BY <1>1, <1>2 DEF Passes
<1>4. f[Len(a)] = t
  BY <1>1, <1>3, RunIs
<1>5. Passes(g, t, b)
  <2>1. g[0] = t
    BY <1>1, <1>4
  <2>2. ASSUME NEW n \in 0 .. Len(b) - 1
        PROVE  g[n + 1] = Apply(g[n], b[n + 1])
    <3>1. /\ Len(a) + n \in 0 .. Len(a \o b) - 1
          /\ (Len(a) + n) + 1 = Len(a) + (n + 1) /\ n + 1 \in 1 .. Len(b)
      BY <1>1
    <3>2. f[Len(a) + (n + 1)] = Apply(f[Len(a) + n], (a \o b)[Len(a) + (n + 1)])
      BY <1>2, <3>1 DEF Passes
    <3>3. (a \o b)[Len(a) + (n + 1)] = b[n + 1]
      BY <1>1, <3>1
    <3>4. g[n + 1] = f[Len(a) + (n + 1)] /\ g[n] = f[Len(a) + n]
      BY <1>1, <3>1
    <3> QED BY <3>2, <3>3, <3>4
  <2> HIDE DEF g, t
  <2> QED BY <2>1, <2>2 DEF Passes
<1>6. g[Len(b)] = Run(t, b)
  <2> HIDE DEF g, t
  <2> QED BY <1>1, <1>5, RunIs
<1> QED BY <1>1, <1>2, <1>6

-----------------------------------------------------------------------------
(* What a drive holds.                                                     *)

Item == {it \in [type: {FREE, DIR, FILE}, name: GivenNames, blk: Ptrs, size: Nat] :
           it.type = DIR => it.blk # 0}
DirBlks == [kind: {"dir"}, prev: Ptrs, next: Ptrs, parent: Ptrs, items: [1 .. DirItems -> Item]]
DataBlks == [kind: {"data"}, prev: Ptrs, next: Ptrs, data: Payloads \X Nat]
Contents == DirBlks \cup DataBlks \cup {Junk}
Disks == [Blocks -> Contents]

\* A block is of one kind, which its field kind tells.
LEMMA Kinds ==
  ASSUME NEW c \in Contents
  PROVE  /\ c.kind \in {"dir", "data", "junk"}
         /\ c.kind = "dir" => /\ c \in DirBlks /\ c # Junk /\ c.prev \in Ptrs /\ c.next \in Ptrs
                              /\ c.parent \in Ptrs /\ c.items \in [1 .. DirItems -> Item]
         /\ c.kind = "data" => c \in DataBlks /\ c # Junk /\ c.prev \in Ptrs /\ c.next \in Ptrs
         /\ c.kind = "junk" => c = Junk
         /\ c = Junk => c.kind = "junk"
  BY DEF Contents, DirBlks, DataBlks, Junk

\* Following a pointer gives a pointer.
LEMMA FollowType ==
  ASSUME NEW d \in Disks, NEW b \in Blocks
  PROVE  Follow(d, b) \in Ptrs
<1>1. d[b] \in Contents
  BY DEF Disks
<1>2. CASE d[b] = Junk
  BY <1>2, Sizes DEF Follow
<1>3. CASE d[b] # Junk
  BY <1>1, <1>3, Kinds DEF Follow
<1> QED BY <1>2, <1>3

-----------------------------------------------------------------------------
(* Chains.                                                                 *)

\* The chains from every block, by their greatest length.
LEMMA ChainExists ==
  ASSUME NEW d, \A b \in Blocks : Follow(d, b) \in Ptrs
  PROVE  \E F : /\ \A c \in Ptrs : F[0][c] = <<>> /\ Chain(d, c) = F[BlkCount - 1][c]
                /\ \A n \in 0 .. BlkCount - 2, c \in Ptrs :
                     F[n + 1][c] = IF c = 0 THEN <<>> ELSE <<c>> \o F[n][Follow(d, c)]
<1> DEFINE N == BlkCount - 1
           Row(g, n) == [c \in Ptrs |-> IF n = 0 \/ c = 0 THEN <<>>
                                       ELSE <<c>> \o g[n - 1][Follow(d, c)]]
           G(g) == [n \in 0 .. N |-> Row(g, n)]
           None == [c \in Ptrs |-> <<>>]
           Next1(x) == [c \in Ptrs |-> IF c = 0 THEN <<>> ELSE <<c>> \o x[Follow(d, c)]]
           Part(k, g) == g[0] = None /\ \A n \in 0 .. k - 1 : g[n + 1] = Next1(g[n])
           S == {k \in 0 .. N : \E g : Part(k, g)}
<1>0. N \in Nat /\ N - 1 = BlkCount - 2 /\ 0 .. N = Ptrs
  BY Sizes DEF Ptrs
<1>1. 0 \in S
  <2>1. Part(0, [n \in {0} |-> None])
    OBVIOUS
  <2> HIDE DEF Part
  <2> QED BY <2>1, <1>0
<1>2. ASSUME NEW k \in 0 .. N - 1, k \in S
      PROVE  k + 1 \in S
  <2>1. PICK g : Part(k, g)
    BY <1>2
  <2> DEFINE h == [n \in 0 .. k + 1 |-> IF n = k + 1 THEN Next1(g[k]) ELSE g[n]]
  <2> HIDE DEF Next1, None, N
  <2>2. h[0] = None
    BY <2>1, <1>2
  <2>3. \A n \in 0 .. (k + 1) - 1 : h[n + 1] = Next1(h[n])
    <3> TAKE n \in 0 .. (k + 1) - 1
    <3>1. h[n] = g[n]
      BY <1>2
    <3>2. CASE n = k
      BY <3>1, <3>2, <1>2
    <3>3. CASE n # k
      <4>1. n \in 0 .. k - 1 /\ n + 1 \in 0 .. k + 1 /\ n + 1 # k + 1
        BY <3>3, <1>2
      <4>2. h[n + 1] = g[n + 1]
        BY <4>1
      <4> QED BY <4>1, <4>2, <3>1, <2>1
    <3> QED BY <3>2, <3>3
  <2>4. Part(k + 1, h)
    BY <2>2, <2>3
  <2> HIDE DEF h, Part
  <2> QED BY <2>4, <1>2, <1>0
<1>3. PICK g : Part(N, g)
  <2> HIDE DEF S, N
  <2>1. \A n \in 0 .. N : n \in S
    BY <1>0, <1>1, <1>2, UpTo
  <2>2. N \in S
    BY <2>1, <1>0
  <2> QED BY <2>2 DEF S
<1> DEFINE r == [n \in 0 .. N |-> g[n]]
<1>4. r = G(r)
  <2> SUFFICES ASSUME NEW n \in 0 .. N PROVE r[n] = Row(r, n)
    OBVIOUS
  <2>1. CASE n = 0
    BY <2>1, <1>3
  <2>2. CASE n # 0
    <3>1. n - 1 \in 0 .. N - 1 /\ n - 1 \in 0 .. N /\ (n - 1) + 1 = n
      BY <2>2, <1>0
    <3>2. g[n] = Next1(g[n - 1])
      BY <3>1, <1>3
    <3>3. r[n - 1] = g[n - 1] /\ r[n] = g[n]
      BY <3>1
    <3> HIDE DEF r
    <3> QED BY <3>2, <3>3, <2>2
  <2> QED BY <2>1, <2>2
<1> DEFINE w == CHOOSE f : f = G(f)
<1>5. w = G(w)
  <2> HIDE DEF G, r
  <2> QED BY <1>4
<1>6. \A c \in Ptrs : Chain(d, c) = w[BlkCount - 1][c]
  BY DEF Chain, Ptrs
<1> HIDE DEF w
<1>7. \A n \in 0 .. N : w[n] = Row(w, n)
  BY <1>5
<1>8. \A c \in Ptrs : w[0][c] = <<>>
  <2>1. 0 \in 0 .. N
    BY <1>0
  <2>2. w[0] = Row(w, 0)
    BY <2>1, <1>7
  <2> QED BY <2>2
<1>9. ASSUME NEW n \in 0 .. BlkCount - 2, NEW c \in Ptrs
      PROVE  w[n + 1][c] = IF c = 0 THEN <<>> ELSE <<c>> \o w[n][Follow(d, c)]
  <2>1. n + 1 \in 0 .. N /\ n + 1 # 0 /\ (n + 1) - 1 = n
    BY <1>0
  <2>2. w[n + 1] = Row(w, n + 1)
    BY <2>1, <1>7
  <2> QED BY <2>1, <2>2
<1> QED BY <1>6, <1>8, <1>9

\* s follows the pointers from c, for at most n blocks.
Walks(d, s, c, n) ==
  /\ s \in Seq(Blocks) /\ Len(s) <= n
  /\ c = 0 => s = <<>>
  /\ c # 0 /\ n # 0 => Len(s) >= 1 /\ s[1] = c
  /\ \A i \in 1 .. Len(s) - 1 : s[i + 1] = Follow(d, s[i])
  /\ Len(s) >= 1 /\ Len(s) < n => Follow(d, s[Len(s)]) = 0

\* A chain begins at its first block and follows the pointers.
LEMMA ChainWalks ==
  ASSUME NEW d, \A b \in Blocks : Follow(d, b) \in Ptrs, NEW b \in Ptrs
  PROVE  Walks(d, Chain(d, b), b, BlkCount - 1)
<1>1. PICK F : /\ \A c \in Ptrs : F[0][c] = <<>> /\ Chain(d, c) = F[BlkCount - 1][c]
               /\ \A n \in 0 .. BlkCount - 2, c \in Ptrs :
                    F[n + 1][c] = IF c = 0 THEN <<>> ELSE <<c>> \o F[n][Follow(d, c)]
  BY ChainExists
<1> DEFINE N == BlkCount - 1
           S == {n \in 0 .. N : \A c \in Ptrs : Walks(d, F[n][c], c, n)}
<1>0. N \in Nat /\ N - 1 = BlkCount - 2
  BY Sizes
<1>2. 0 \in S
  <2> SUFFICES ASSUME NEW c \in Ptrs PROVE Walks(d, F[0][c], c, 0)
    BY <1>0
  <2>1. F[0][c] = <<>>
    BY <1>1
  <2> QED BY <2>1 DEF Walks
<1>3. ASSUME NEW n \in 0 .. N - 1, n \in S
      PROVE  n + 1 \in S
  <2> SUFFICES ASSUME NEW c \in Ptrs PROVE Walks(d, F[n + 1][c], c, n + 1)
    BY <1>0
  <2>1. CASE c = 0
    <3>1. F[n + 1][c] = <<>>
      BY <1>0, <1>1, <2>1
    <3> QED BY <3>1, <2>1 DEF Walks
  <2>2. CASE c # 0
    <3> DEFINE e == Follow(d, c)
               t == F[n][e]
               s == <<c>> \o t
    <3>1. F[n + 1][c] = s
      BY <1>0, <1>1, <2>2
    <3>2. c \in Blocks /\ e \in Ptrs
      BY <2>2, Sizes
    <3>3. Walks(d, t, e, n)
      BY <1>3, <3>2
    <3> HIDE DEF t, e
    <3>4. t \in Seq(Blocks) /\ Len(t) \in Nat /\ Len(t) <= n
      BY <3>3 DEF Walks
    <3>5. /\ s \in Seq(Blocks) /\ Len(s) = Len(t) + 1 /\ s[1] = c
          /\ \A i \in 1 .. Len(t) : s[i + 1] = t[i]
      BY <3>2, <3>4
    <3>6. ASSUME NEW i \in 1 .. Len(s) - 1
          PROVE  s[i + 1] = Follow(d, s[i])
      <4>1. i \in 1 .. Len(t) /\ s[i + 1] = t[i]
        BY <3>4, <3>5
      <4>2. CASE i = 1
        <5>1. n # 0 /\ Len(t) # 0
          BY <4>1, <4>2, <3>4
        <5>2. e # 0
          BY <3>3, <5>1 DEF Walks
        <5>3. t[1] = e
          BY <3>3, <5>1, <5>2 DEF Walks
        <5> QED BY <4>1, <4>2, <5>3, <3>5 DEF e
      <4>3. CASE i # 1
        <5>1. i - 1 \in 1 .. Len(t) - 1 /\ i - 1 \in 1 .. Len(t) /\ (i - 1) + 1 = i
          BY <4>1, <4>3, <3>4
        <5>2. t[i] = Follow(d, t[i - 1]) /\ s[i] = t[i - 1]
          BY <3>3, <3>5, <5>1 DEF Walks
        <5> QED BY <4>1, <5>2
      <4> QED BY <4>2, <4>3
    <3>7. ASSUME Len(s) < n + 1
          PROVE  Follow(d, s[Len(s)]) = 0
      <4>0. Len(t) < n
        BY <3>4, <3>5, <3>7
      <4>1. CASE Len(t) = 0
        <5>1. e = 0
          BY <4>0, <4>1, <3>3, <3>4 DEF Walks
        <5> QED BY <4>1, <5>1, <3>5 DEF e
      <4>2. CASE Len(t) # 0
        <5>1. Follow(d, t[Len(t)]) = 0
          BY <4>0, <4>2, <3>3, <3>4 DEF Walks
        <5>2. Len(t) \in 1 .. Len(t) /\ s[Len(t) + 1] = t[Len(t)]
          BY <3>4, <3>5, <4>2
        <5> QED BY <5>1, <5>2, <3>5
      <4> QED BY <4>1, <4>2
    <3> HIDE DEF s
    <3> QED BY <3>1, <3>4, <3>5, <3>6, <3>7, <2>2 DEF Walks
  <2> QED BY <2>1, <2>2
<1>4. \A n \in 0 .. N : n \in S
  <2> HIDE DEF S, N
  <2> QED BY <1>0, <1>2, <1>3, UpTo
<1>5. N \in S
  BY <1>0, <1>4
<1> QED BY <1>1, <1>5

-----------------------------------------------------------------------------
(* The allocator.                                                          *)

Clear(ram, bs) == (0 .. BlkCount - 1) \ (ram \cup Range(bs))
OneMore(ram, bs) == IF Clear(ram, bs) = {} THEN bs ELSE Append(bs, Min(Clear(ram, bs)))

\* The blocks the allocator gives, by their number.
LEMMA FreeBlocksExist ==
  ASSUME NEW ram, NEW N \in Nat
  PROVE  \E f : /\ f[0] = <<>> /\ FreeBlocks(ram, N) = f[N]
                /\ \A n \in 0 .. N - 1 : f[n + 1] = OneMore(ram, f[n])
<1> DEFINE G(g) == [n \in 0 .. N |-> IF n = 0 THEN <<>> ELSE OneMore(ram, g[n - 1])]
           Part(k, g) == g[0] = <<>> /\ \A n \in 0 .. k - 1 : g[n + 1] = OneMore(ram, g[n])
           S == {k \in 0 .. N : \E g : Part(k, g)}
<1>1. 0 \in S
  <2>1. Part(0, [n \in {0} |-> <<>>])
    OBVIOUS
  <2> HIDE DEF Part
  <2> QED BY <2>1
<1>2. ASSUME NEW k \in 0 .. N - 1, k \in S
      PROVE  k + 1 \in S
  <2>1. PICK g : Part(k, g)
    BY <1>2
  <2> DEFINE h == [n \in 0 .. k + 1 |-> IF n = k + 1 THEN OneMore(ram, g[k]) ELSE g[n]]
  <2>2. h[0] = <<>>
    BY <2>1, <1>2
  <2>3. \A n \in 0 .. (k + 1) - 1 : h[n + 1] = OneMore(ram, h[n])
    <3> TAKE n \in 0 .. (k + 1) - 1
    <3>1. h[n] = g[n]
      BY <1>2
    <3>2. CASE n = k
      BY <3>1, <3>2, <1>2
    <3>3. CASE n # k
      <4>1. n \in 0 .. k - 1 /\ n + 1 \in 0 .. k + 1 /\ n + 1 # k + 1
        BY <3>3, <1>2
      <4>2. h[n + 1] = g[n + 1]
        BY <4>1
      <4> QED BY <4>1, <4>2, <3>1, <2>1
    <3> QED BY <3>2, <3>3
  <2>4. Part(k + 1, h)
    BY <2>2, <2>3
  <2> HIDE DEF h, Part
  <2> QED BY <2>4, <1>2
<1>3. PICK g : Part(N, g)
  <2> HIDE DEF S
  <2>1. \A n \in 0 .. N : n \in S
    BY <1>1, <1>2, UpTo
  <2>2. N \in S
    BY <2>1
  <2> QED BY <2>2 DEF S
<1> DEFINE r == [n \in 0 .. N |-> g[n]]
<1>4. r = G(r)
  <2> SUFFICES ASSUME NEW n \in 0 .. N PROVE r[n] = G(r)[n]
    OBVIOUS
  <2>1. CASE n = 0
    BY <2>1, <1>3
  <2>2. CASE n # 0
    <3>1. n - 1 \in 0 .. N - 1 /\ n - 1 \in 0 .. N /\ (n - 1) + 1 = n
      BY <2>2
    <3>2. g[n] = OneMore(ram, g[n - 1])
      BY <3>1, <1>3
    <3>3. r[n - 1] = g[n - 1] /\ r[n] = g[n]
      BY <3>1
    <3> QED BY <3>2, <3>3, <2>2
  <2> QED BY <2>1, <2>2
<1> DEFINE w == CHOOSE f : f = G(f)
<1>5. w = G(w)
  <2> HIDE DEF G, r
  <2> QED BY <1>4
<1>6. FreeBlocks(ram, N) = w[N]
  BY DEF FreeBlocks, OneMore, Clear
<1> HIDE DEF w
<1>7. w[0] = <<>>
  <2>1. w[0] = G(w)[0]
    <3> HIDE DEF G
    <3> QED BY <1>5
  <2> QED BY <2>1
<1>8. ASSUME NEW n \in 0 .. N - 1
      PROVE  w[n + 1] = OneMore(ram, w[n])
  <2>1. n + 1 \in 0 .. N /\ n + 1 # 0 /\ (n + 1) - 1 = n
    OBVIOUS
  <2> QED BY <2>1, <1>5
<1> QED BY <1>6, <1>7, <1>8

\* The blocks given are clear ones, each of them once; one at least where a block
\* is clear and asked for.
LEMMA FreeBlocksFacts ==
  ASSUME NEW ram, 0 \in ram, NEW N \in Nat
  PROVE  LET bs == FreeBlocks(ram, N) IN
         /\ bs \in Seq(Blocks) /\ Len(bs) \in Nat /\ Len(bs) <= N
         /\ \A i \in 1 .. Len(bs) : bs[i] \in Blocks /\ bs[i] \notin ram
         /\ \A i, j \in 1 .. Len(bs) : bs[i] = bs[j] => i = j
         /\ N >= 1 /\ (\E b \in Blocks : b \notin ram) => Len(bs) >= 1
<1>1. PICK f : /\ f[0] = <<>> /\ FreeBlocks(ram, N) = f[N]
               /\ \A n \in 0 .. N - 1 : f[n + 1] = OneMore(ram, f[n])
  BY FreeBlocksExist
<1> DEFINE Ok(bs, n) == /\ bs \in Seq(Blocks) /\ Len(bs) \in Nat /\ Len(bs) <= n
                        /\ \A i \in 1 .. Len(bs) : bs[i] \in Blocks /\ bs[i] \notin ram
                        /\ \A i, j \in 1 .. Len(bs) : bs[i] = bs[j] => i = j
                        /\ n >= 1 /\ (\E b \in Blocks : b \notin ram) => Len(bs) >= 1
           S == {n \in 0 .. N : Ok(f[n], n)}
<1>2. 0 \in S
  <2>1. Ok(<<>>, 0)
    OBVIOUS
  <2> HIDE DEF Ok
  <2> QED BY <2>1, <1>1
<1>3. ASSUME NEW n \in 0 .. N - 1, n \in S
      PROVE  n + 1 \in S
  <2> DEFINE bs == f[n]
             C == Clear(ram, bs)
  <2>1. Ok(bs, n) /\ f[n + 1] = OneMore(ram, bs)
    BY <1>1, <1>3
  <2> HIDE DEF bs
  <2>2. \A x : x \in Range(bs) <=> \E i \in 1 .. Len(bs) : x = bs[i]
    BY <2>1 DEF Range
  <2>3. C \subseteq Blocks /\ \A x \in C : x \notin ram /\ x \notin Range(bs)
    BY Sizes DEF Clear, Ptrs
  <2>4. CASE C = {}
    <3>1. f[n + 1] = bs
      BY <2>1, <2>4 DEF OneMore
    <3>2. ASSUME NEW b \in Blocks, b \notin ram PROVE Len(bs) >= 1
      <4>1. b \in Range(bs)
        BY <2>4, <3>2, Sizes DEF Clear, Ptrs
      <4> QED BY <4>1, <2>1, <2>2
    <3>3. Ok(bs, n + 1)
      BY <2>1, <3>2
    <3> HIDE DEF Ok
    <3> QED BY <3>1, <3>3
  <2>5. CASE C # {}
    <3> DEFINE m == Min(C)
               t == Append(bs, m)
    <3>1. m \in C
      <4>1. C \in SUBSET Nat
        BY <2>3, Sizes
      <4> HIDE DEF C
      <4>2. \E x \in C : \A y \in C : x =< y
        BY <4>1, <2>5, LeastNumber
      <4> QED BY <4>2 DEF Min
    <3>2. f[n + 1] = t
      BY <2>1, <2>5 DEF OneMore
    <3>3. m \in Blocks /\ m \notin ram /\ \A i \in 1 .. Len(bs) : bs[i] # m
      BY <3>1, <2>3, <2>2
    <3> HIDE DEF m
    <3>4. /\ t \in Seq(Blocks) /\ Len(t) = Len(bs) + 1 /\ t[Len(bs) + 1] = m
          /\ \A i \in 1 .. Len(bs) : t[i] = bs[i]
      BY <3>3, <2>1
    <3> HIDE DEF t
    <3>5. Ok(t, n + 1)
      <4>1. \A i \in 1 .. Len(t) : t[i] \in Blocks /\ t[i] \notin ram
        BY <3>3, <3>4, <2>1
      <4>2. ASSUME NEW i \in 1 .. Len(t), NEW j \in 1 .. Len(t), t[i] = t[j] PROVE i = j
        BY <3>3, <3>4, <2>1, <4>2
      <4> QED BY <4>1, <4>2, <3>4, <2>1
    <3> HIDE DEF Ok
    <3> QED BY <3>2, <3>5
  <2> HIDE DEF C
  <2> QED BY <2>4, <2>5
<1>4. \A n \in 0 .. N : n \in S
  <2> HIDE DEF S
  <2> QED BY <1>2, <1>3, UpTo
<1>5. Ok(f[N], N)
  BY <1>4
<1> QED BY <1>5, <1>1

-----------------------------------------------------------------------------
(* What the writes of a call amount to.                                    *)

\* The drive, with RAM and the drive in agreement.
St(d, u) == [disk |-> d, ram |-> u, map |-> u]

\* A write of a block.
LEMMA ApplyPut ==
  ASSUME NEW d, NEW u, NEW b, NEW c
  PROVE  Apply(St(d, u), Put(b, c)) = St([d EXCEPT ![b] = c], u)
  BY DEF Apply, St, Put, InRam

\* A block is marked.
LEMMA ApplyAlloc ==
  ASSUME NEW d, NEW u, NEW w, w.op = "alloc"
  PROVE  Apply(St(d, u), w) = St(d, u \cup {w.blk})
  BY DEF Apply, St, InRam

\* A block is freed.
LEMMA ApplyFree ==
  ASSUME NEW d, NEW u, NEW b
  PROVE  Apply(St(d, u), Free(b)) = St([d EXCEPT ![b] = Junk], u \ {b})
  BY DEF Apply, St, Free, InRam

\* The drive is wiped.
LEMMA ApplyWipe ==
  ASSUME NEW d, NEW u
  PROVE  Apply(St(d, u), Wipe) = St([b \in Blocks |-> Junk], {0})
  BY DEF Apply, St, Wipe, InRam

Frees(ch) == [i \in 1 .. Len(ch) |-> Free(ch[i])]

\* Freed blocks are unmarked, and nothing is known of what they hold.
LEMMA RunFrees ==
  ASSUME NEW d, DOMAIN d = Blocks, d = [b \in Blocks |-> d[b]], NEW u, NEW ch \in Seq(Blocks)
  PROVE  Run(St(d, u), Frees(ch)) =
           St([b \in Blocks |-> IF b \in Range(ch) THEN Junk ELSE d[b]], u \ Range(ch))
<1> DEFINE N == Len(ch)
           Gone(n) == {ch[i] : i \in 1 .. n}
           D(n) == [b \in Blocks |-> IF b \in Gone(n) THEN Junk ELSE d[b]]
           f == [n \in 0 .. N |-> St(D(n), u \ Gone(n))]
           ws == Frees(ch)
<1>1. Len(ws) = N /\ N \in Nat /\ \A i \in 1 .. N : ws[i] = Free(ch[i]) /\ ch[i] \in Blocks
  BY DEF Frees
<1>2. f[0] = St(d, u)
  <2>1. Gone(0) = {}
    OBVIOUS
  <2>2. D(0) = d /\ u \ Gone(0) = u
    BY <2>1
  <2>3. f[0] = St(D(0), u \ Gone(0))
    BY <1>1
  <2> HIDE DEF D, Gone, f
  <2> QED BY <2>2, <2>3
<1>3. ASSUME NEW n \in 0 .. N - 1
      PROVE  f[n + 1] = Apply(f[n], ws[n + 1])
  <2> DEFINE x == ch[n + 1]
  <2>0. n \in 0 .. N /\ n + 1 \in 1 .. N /\ n + 1 \in 0 .. N /\ x \in Blocks /\ n \in Nat
    BY <1>1
  <2>1. Gone(n + 1) = Gone(n) \cup {x}
    <3>1. \A i \in 1 .. n + 1 : i \in 1 .. n \/ i = n + 1
      BY <2>0
    <3>2. 1 .. n \subseteq 1 .. n + 1 /\ n + 1 \in 1 .. n + 1
      BY <2>0
    <3> QED BY <3>1, <3>2
  <2> HIDE DEF Gone
  <2>2. Apply(f[n], ws[n + 1]) = St([D(n) EXCEPT ![x] = Junk], (u \ Gone(n)) \ {x})
    <3>1. f[n] = St(D(n), u \ Gone(n)) /\ ws[n + 1] = Free(x)
      BY <2>0, <1>1
    <3> HIDE DEF f, ws, D
    <3> QED BY <3>1, ApplyFree
  <2>3. [D(n) EXCEPT ![x] = Junk] = D(n + 1)
    BY <2>0, <2>1
  <2>4. (u \ Gone(n)) \ {x} = u \ Gone(n + 1)
    BY <2>1
  <2>5. f[n + 1] = St(D(n + 1), u \ Gone(n + 1))
    BY <2>0
  <2> HIDE DEF f, D, ws, x
  <2> QED BY <2>2, <2>3, <2>4, <2>5
<1>4. Passes(f, St(d, u), ws)
  <2> HIDE DEF f, ws
  <2> QED BY <1>1, <1>2, <1>3 DEF Passes
<1>5. Run(St(d, u), ws) = f[N]
  <2> HIDE DEF f, ws
  <2> QED BY <1>1, <1>4, RunIs
<1>6. Gone(N) = Range(ch)
  <2>1. DOMAIN ch = 1 .. N
    OBVIOUS
  <2> QED BY <2>1 DEF Range
<1>7. f[N] = St(D(N), u \ Gone(N))
  BY <1>1
<1> HIDE DEF Gone, f
<1> QED BY <1>5, <1>6, <1>7

\* Block i of a file that is written to the blocks bs.
FileBlk(bs, v, i) == DataBlk(IF i = 1 THEN 0 ELSE bs[i - 1], IF i = Len(bs) THEN 0 ELSE bs[i + 1],
                             <<v, i>>)

\* Writes of a new file come in pairs: a mark, then a block.
LEMMA Parity ==
  ASSUME NEW k \in Nat
  PROVE  (k + 1) = 2 * ((k + 1) \div 2) \/ (k + 1) = 2 * ((k + 2) \div 2) - 1
<1>1. k = 2 * (k \div 2) + (k % 2) /\ k % 2 \in 0 .. 1 /\ k \div 2 \in Nat
  OBVIOUS
<1> DEFINE m == k \div 2
<1>2. CASE k % 2 = 0
  <2>1. (k + 2) \div 2 = m + 1
    BY <1>1, <1>2
  <2> QED BY <2>1, <1>1, <1>2
<1>3. CASE k % 2 = 1
  <2>1. (k + 1) \div 2 = m + 1
    BY <1>1, <1>3
  <2> QED BY <2>1, <1>1, <1>3
<1> QED BY <1>1, <1>2, <1>3

\* The writes of the data blocks.
FileWrites(ws, bs, v, n) ==
  /\ Len(ws) = 2 * n - 1 /\ ws \in Seq(Range(ws))
  /\ \A i \in 1 .. n - 1 : /\ ws[2 * i - 1].op = "alloc" /\ ws[2 * i - 1].blk = bs[i + 1]
                           /\ ws[2 * i] = Put(bs[i], FileBlk(bs, v, i))
  /\ ws[2 * n - 1] = Put(bs[n], FileBlk(bs, v, n))

\* The writes of a new file, one by one.
LEMMA DataWritesAre ==
  ASSUME NEW bs \in Seq(Blocks), NEW v, NEW n, n = Len(bs), n >= 1
  PROVE  FileWrites(DataWrites(bs, v), bs, v, n)
<1> DEFINE ws == DataWrites(bs, v)
           next(i) == IF i = n THEN 0 ELSE bs[i + 1]
           prev(i) == IF i = 1 THEN 0 ELSE bs[i - 1]
           Chunk(i, to) == Put(bs[i], DataBlk(prev(i), to, <<v, i>>))
           W(k) == LET i == (k + 1) \div 2 IN
                   IF k % 2 = 1 /\ i # n THEN [Alloc(next(i)) EXCEPT !.alt = <<Chunk(i, 0)>>]
                   ELSE Chunk(i, next(i))
<1>0. n \in Nat
  OBVIOUS
<1>1. ws = [k \in 1 .. 2 * n - 1 |-> W(k)]
  BY DEF DataWrites
<1>2. \A i \in 1 .. n : Chunk(i, next(i)) = Put(bs[i], FileBlk(bs, v, i))
  BY DEF FileBlk
<1> HIDE DEF ws, Chunk
<1>3. Len(ws) = 2 * n - 1 /\ ws \in Seq(Range(ws))
  <2>1. 2 * n - 1 \in Nat
    BY <1>0
  <2>2. DOMAIN ws = 1 .. 2 * n - 1
    BY <1>1
  <2>3. \A k \in 1 .. 2 * n - 1 : ws[k] \in Range(ws)
    BY <2>2 DEF Range
  <2>4. ws = [k \in 1 .. 2 * n - 1 |-> ws[k]]
    BY <1>1
  <2> HIDE DEF W
  <2> QED BY <2>1, <2>3, <2>4
<1>4. ASSUME NEW i \in 1 .. n - 1
      PROVE  /\ ws[2 * i - 1].op = "alloc" /\ ws[2 * i - 1].blk = bs[i + 1]
             /\ ws[2 * i] = Put(bs[i], FileBlk(bs, v, i))
  <2>1. /\ 2 * i - 1 \in 1 .. 2 * n - 1 /\ 2 * i \in 1 .. 2 * n - 1
        /\ ((2 * i - 1) + 1) \div 2 = i /\ (2 * i + 1) \div 2 = i
        /\ (2 * i - 1) % 2 = 1 /\ (2 * i) % 2 # 1 /\ i # n
    BY <1>0
  <2>2. ws[2 * i - 1] = W(2 * i - 1)
    BY <2>1, <1>1
  <2>3. W(2 * i - 1) = [Alloc(next(i)) EXCEPT !.alt = <<Chunk(i, 0)>>]
    BY <2>1
  <2>4. next(i) = bs[i + 1]
    BY <2>1
  <2>5. ws[2 * i - 1].op = "alloc" /\ ws[2 * i - 1].blk = bs[i + 1]
    BY <2>2, <2>3, <2>4 DEF Alloc
  <2>6. ws[2 * i] = W(2 * i)
    BY <2>1, <1>1
  <2>7. W(2 * i) = Chunk(i, next(i))
    BY <2>1
  <2>8. ws[2 * i] = Put(bs[i], FileBlk(bs, v, i))
    BY <2>6, <2>7, <1>2
  <2> QED BY <2>5, <2>8
<1>5. ws[2 * n - 1] = Put(bs[n], FileBlk(bs, v, n))
  <2>1. /\ 2 * n - 1 \in 1 .. 2 * n - 1 /\ ((2 * n - 1) + 1) \div 2 = n
    BY <1>0
  <2>2. ws[2 * n - 1] = W(2 * n - 1)
    BY <2>1, <1>1
  <2>3. W(2 * n - 1) = Chunk(n, next(n))
    BY <2>1
  <2> QED BY <2>2, <2>3, <1>2, <1>0
<1> QED BY <1>3, <1>4, <1>5 DEF ws, FileWrites

\* All of the blocks are written, and all but the first one marked here.
DataOk(d, bs, n) ==
  /\ d = [b \in Blocks |-> d[b]] /\ bs \in Seq(Blocks) /\ n = Len(bs) /\ n >= 1
  /\ \A i, j \in 1 .. n : bs[i] = bs[j] => i = j
DataRun(d, u, bs, v, n, e) ==
  /\ Run(St(d, u), DataWrites(bs, v)) = St(e, u \cup {bs[i] : i \in 2 .. n})
  /\ e = [b \in Blocks |-> e[b]]
  /\ \A i \in 1 .. n : e[bs[i]] = FileBlk(bs, v, i)
  /\ \A b \in Blocks : b \notin Range(bs) => e[b] = d[b]

\* What the writes of a new file leave on the drive and in the bitmap.
LEMMA RunData ==
  ASSUME NEW d, NEW u, NEW v, NEW bs, NEW n, DataOk(d, bs, n)
  PROVE  \E e : DataRun(d, u, bs, v, n, e)
<1> SUFFICES ASSUME d = [b \in Blocks |-> d[b]], bs \in Seq(Blocks), n = Len(bs), n >= 1,
                    \A i, j \in 1 .. n : bs[i] = bs[j] => i = j
             PROVE  \E e : DataRun(d, u, bs, v, n, e)
  BY DEF DataOk
<1> DEFINE ws == DataWrites(bs, v)
<1>0. n \in Nat /\ n >= 1 /\ \A i \in 1 .. n : bs[i] \in Blocks
  OBVIOUS
<1>1. /\ Len(ws) = 2 * n - 1
      /\ \A i \in 1 .. n - 1 : /\ ws[2 * i - 1].op = "alloc" /\ ws[2 * i - 1].blk = bs[i + 1]
                               /\ ws[2 * i] = Put(bs[i], FileBlk(bs, v, i))
      /\ ws[2 * n - 1] = Put(bs[n], FileBlk(bs, v, n))
  <2>1. FileWrites(ws, bs, v, n)
    BY DataWritesAre
  <2> HIDE DEF ws
  <2> QED BY <2>1 DEF FileWrites
<1> HIDE DEF ws
<1> DEFINE At(i) == IF i = n THEN 2 * n - 1 ELSE 2 * i
           Done(b, k, i) == i \in 1 .. n /\ b = bs[i] /\ At(i) <= k
           D(k) == [b \in Blocks |-> IF \E i \in 1 .. n : Done(b, k, i)
                                     THEN FileBlk(bs, v, CHOOSE i \in 1 .. n : Done(b, k, i))
                                     ELSE d[b]]
           U(k) == u \cup {bs[i] : i \in {i \in 2 .. n : 2 * i - 3 <= k}}
           f == [k \in 0 .. 2 * n - 1 |-> St(D(k), U(k))]
<1>2. \A k \in Int, i \in 1 .. n : At(i) <= k => D(k)[bs[i]] = FileBlk(bs, v, i)
  <2> TAKE k \in Int, i \in 1 .. n
  <2> HAVE At(i) <= k
  <2>1. Done(bs[i], k, i)
    OBVIOUS
  <2>2. \A j \in 1 .. n : Done(bs[i], k, j) => j = i
    OBVIOUS
  <2>3. (CHOOSE j \in 1 .. n : Done(bs[i], k, j)) = i
    <3> HIDE DEF Done
    <3> QED BY <2>1, <2>2
  <2> HIDE DEF Done
  <2>4. D(k)[bs[i]] = FileBlk(bs, v, CHOOSE j \in 1 .. n : Done(bs[i], k, j))
    BY <2>1, <1>0
  <2> QED BY <2>3, <2>4
<1>3. \A k \in Int, b \in Blocks : (\A i \in 1 .. n : b = bs[i] => ~(At(i) <= k)) => D(k)[b] = d[b]
  OBVIOUS
<1> DEFINE Dom(x) == x = [b \in Blocks |-> x[b]]
<1>4. \A k \in Int : Dom(D(k))
  OBVIOUS
<1>5. f[0] = St(d, u)
  <2>1. \A i \in 1 .. n : ~(At(i) <= 0)
    BY <1>0
  <2>2. D(0) = d
    <3>1. \A b \in Blocks : D(0)[b] = d[b]
      BY <2>1, <1>3
    <3> HIDE DEF D
    <3> QED BY <3>1, <1>4
  <2>3. U(0) = u
    BY <1>0
  <2>4. f[0] = St(D(0), U(0))
    BY <1>0
  <2> HIDE DEF D, U, f
  <2> QED BY <2>2, <2>3, <2>4
<1> HIDE DEF D
<1>6. ASSUME NEW k \in 0 .. (2 * n - 1) - 1
      PROVE  f[k + 1] = Apply(f[k], ws[k + 1])
  <2>0. /\ k \in Int /\ k + 1 \in Int
        /\ f[k] = St(D(k), U(k)) /\ f[k + 1] = St(D(k + 1), U(k + 1))
    BY <1>0
  <2>1. CASE \E i \in 1 .. n : At(i) = k + 1
    <3>1. PICK i \in 1 .. n : At(i) = k + 1
      BY <2>1
    <3>2. ws[k + 1] = Put(bs[i], FileBlk(bs, v, i))
      <4>1. CASE i = n
        BY <4>1, <3>1, <1>1
      <4>2. CASE i # n
        <5>1. i \in 1 .. n - 1 /\ k + 1 = 2 * i
          BY <4>2, <3>1, <1>0
        <5> QED BY <5>1, <1>1
      <4> QED BY <4>1, <4>2
    <3>3. D(k + 1) = [D(k) EXCEPT ![bs[i]] = FileBlk(bs, v, i)]
      <4>1. ASSUME NEW b \in Blocks
            PROVE  D(k + 1)[b] = IF b = bs[i] THEN FileBlk(bs, v, i) ELSE D(k)[b]
        <5>1. CASE b = bs[i]
          BY <5>1, <3>1, <2>0, <1>2
        <5>2. CASE b # bs[i] /\ \E j \in 1 .. n : b = bs[j] /\ At(j) <= k
          <6>1. PICK j \in 1 .. n : b = bs[j] /\ At(j) <= k
            BY <5>2
          <6>2. At(j) <= k + 1
            BY <6>1, <2>0, <1>0
          <6> QED BY <6>1, <6>2, <5>2, <2>0, <1>2
        <5>3. CASE b # bs[i] /\ \A j \in 1 .. n : b = bs[j] => ~(At(j) <= k)
          <6>1. ASSUME NEW j \in 1 .. n, b = bs[j]
                PROVE  ~(At(j) <= k + 1)
            <7>1. At(j) # k + 1
              BY <6>1, <5>3, <3>1, <1>0
            <7>2. At(j) \in Int /\ ~(At(j) <= k)
              BY <6>1, <5>3, <1>0
            <7> HIDE DEF At
            <7> QED BY <7>1, <7>2, <2>0
          <6>2. D(k + 1)[b] = d[b]
            BY <6>1, <2>0, <1>3
          <6>3. D(k)[b] = d[b]
            BY <5>3, <2>0, <1>3
          <6> QED BY <6>2, <6>3, <5>3
        <5> QED BY <5>1, <5>2, <5>3
      <4>2. Dom(D(k)) /\ Dom(D(k + 1))
        BY <2>0, <1>4
      <4> QED BY <4>1, <4>2
    <3>4. U(k + 1) = U(k)
      <4>1. \A j \in 2 .. n : 2 * j - 3 <= k + 1 <=> 2 * j - 3 <= k
        <5> TAKE j \in 2 .. n
        <5>1. 2 * j - 3 # k + 1
          BY <3>1, <1>0
        <5> QED BY <5>1
      <4> QED BY <4>1
    <3> HIDE DEF f, U, At
    <3> QED BY <3>2, <3>3, <3>4, <2>0, ApplyPut
  <2>2. CASE \A i \in 1 .. n : At(i) # k + 1
    <3>1. \E j \in 1 .. n - 1 : k + 1 = 2 * j - 1
      <4>1. k + 1 # 2 * n - 1
        BY <2>2, <1>0
      <4>2. \A j \in 1 .. n - 1 : k + 1 # 2 * j
        <5> TAKE j \in 1 .. n - 1
        <5>1. At(j) = 2 * j /\ j \in 1 .. n
          BY <1>0
        <5> HIDE DEF At
        <5> QED BY <5>1, <2>2
      <4>3. k + 1 = 2 * ((k + 1) \div 2) \/ k + 1 = 2 * ((k + 2) \div 2) - 1
        <5>1. k \in Nat
          BY <1>0
        <5> QED BY <5>1, Parity
      <4>4. CASE k + 1 = 2 * ((k + 1) \div 2)
        <5>1. (k + 1) \div 2 \in 1 .. n - 1
          BY <4>4, <1>0
        <5> QED BY <5>1, <4>2, <4>4
      <4>5. CASE k + 1 = 2 * ((k + 2) \div 2) - 1
        <5>1. (k + 2) \div 2 \in 1 .. n - 1
          <6> DEFINE q == (k + 2) \div 2
          <6>1. q \in Int /\ k + 1 = 2 * q - 1 /\ k + 1 # 2 * n - 1 /\ n \in Nat /\ k \in 0 .. (2 * n - 1) - 1
            BY <4>5, <4>1, <1>0, <2>0
          <6> HIDE DEF q
          <6>2. q \in 1 .. n - 1
            BY <6>1
          <6> QED BY <6>2 DEF q
        <5> QED BY <5>1, <4>5
      <4> QED BY <4>3, <4>4, <4>5
    <3>2. PICK j \in 1 .. n - 1 : k + 1 = 2 * j - 1
      BY <3>1
    <3>3. ws[k + 1].op = "alloc" /\ ws[k + 1].blk = bs[j + 1]
      BY <3>2, <1>1
    <3>4. D(k + 1) = D(k)
      <4>1. \A i \in 1 .. n : At(i) <= k + 1 <=> At(i) <= k
        <5> TAKE i \in 1 .. n
        <5>1. At(i) # k + 1
          BY <2>2
        <5>2. At(i) \in Int
          BY <1>0
        <5> HIDE DEF At
        <5> QED BY <5>1, <5>2, <2>0
      <4>2. ASSUME NEW b \in Blocks PROVE D(k + 1)[b] = D(k)[b]
        <5>1. CASE \E i \in 1 .. n : b = bs[i] /\ At(i) <= k
          BY <5>1, <4>1, <2>0, <1>2
        <5>2. CASE \A i \in 1 .. n : b = bs[i] => ~(At(i) <= k)
          <6>1. \A i \in 1 .. n : b = bs[i] => ~(At(i) <= k + 1)
            BY <5>2, <4>1
          <6>2. D(k + 1)[b] = d[b]
            BY <6>1, <2>0, <1>3
          <6>3. D(k)[b] = d[b]
            BY <5>2, <2>0, <1>3
          <6> QED BY <6>2, <6>3
        <5> QED BY <5>1, <5>2
      <4>3. Dom(D(k)) /\ Dom(D(k + 1))
        BY <2>0, <1>4
      <4> QED BY <4>2, <4>3
    <3>5. U(k + 1) = U(k) \cup {bs[j + 1]}
      <4>1. j + 1 \in 2 .. n /\ 2 * (j + 1) - 3 = k + 1
        BY <3>2, <1>0
      <4>2. \A i \in 2 .. n : 2 * i - 3 <= k + 1 <=> 2 * i - 3 <= k \/ i = j + 1
        BY <3>2, <1>0
      <4> QED BY <4>1, <4>2
    <3> HIDE DEF f, U, At
    <3> QED BY <3>3, <3>4, <3>5, <2>0, ApplyAlloc
  <2> QED BY <2>1, <2>2
<1>7. Passes(f, St(d, u), ws)
  <2> HIDE DEF f
  <2> QED BY <1>1, <1>5, <1>6 DEF Passes
<1>8. Run(St(d, u), ws) = f[2 * n - 1]
  <2>1. Len(ws) \in Nat
    BY <1>0, <1>1
  <2> HIDE DEF f
  <2> QED BY <1>1, <1>7, <2>1, RunIs
<1> DEFINE e == D(2 * n - 1)
<1>9. f[2 * n - 1] = St(e, U(2 * n - 1))
  BY <1>0
<1>10. U(2 * n - 1) = u \cup {bs[i] : i \in 2 .. n}
  <2>1. \A i \in 2 .. n : 2 * i - 3 <= 2 * n - 1
    BY <1>0
  <2> QED BY <2>1
<1>11. \A i \in 1 .. n : e[bs[i]] = FileBlk(bs, v, i)
  <2> TAKE i \in 1 .. n
  <2>1. At(i) <= 2 * n - 1 /\ 2 * n - 1 \in Int
    BY <1>0
  <2> HIDE DEF At
  <2> QED BY <2>1, <1>2 DEF At
<1>12. ASSUME NEW b \in Blocks, b \notin Range(bs) PROVE e[b] = d[b]
  <2>1. \A i \in 1 .. n : b # bs[i]
    BY <1>12 DEF Range
  <2> HIDE DEF At
  <2> QED BY <2>1, <1>0, <1>3 DEF At
<1>13. Dom(e)
  BY <1>0, <1>4
<1> HIDE DEF e, f, U
<1>14. Run(St(d, u), ws) = St(e, u \cup {bs[i] : i \in 2 .. n})
  BY <1>8, <1>9, <1>10
<1>15. DataRun(d, u, bs, v, n, e)
  BY <1>11, <1>12, <1>13, <1>14 DEF ws, DataRun
<1> QED BY <1>15

-----------------------------------------------------------------------------
(* The structure on the drive, block by block.                             *)

KindOf(it) == IF it.type = DIR THEN "dir" ELSE "data"
Used(d, b, i) == d[b].kind = "dir" /\ d[b].items[i].type # FREE
Empty(d, b) == \A i \in 1 .. DirItems : d[b].items[i].type = FREE

LinkOk(d, B, h, r, b) ==
  /\ d[b].kind \in {"dir", "data"}
  /\ h[b] \in B /\ d[h[b]].prev = 0 /\ d[h[b]].kind = d[b].kind /\ r[h[b]] <= r[b]
  /\ d[b].kind = "dir" => d[b].parent = d[h[b]].parent
  /\ d[b].prev = 0 => h[b] = b
  /\ d[b].prev # 0 => /\ d[b].prev \in B /\ d[d[b].prev].next = b
                      /\ h[d[b].prev] = h[b] /\ r[d[b].prev] < r[b]
  /\ d[b].next # 0 => d[b].next \in B /\ d[d[b].next].prev = b

ItemOk(d, B, h, r, o, k, b, i) ==
  LET it == d[b].items[i]
      x  == it.blk
  IN x # 0 => /\ x \in B /\ x # TFS_ROOT_DIR_BLK /\ d[x].prev = 0 /\ d[x].kind = KindOf(it)
              /\ r[b] < r[x] /\ o[x] = b /\ k[x] = i
              /\ it.type = DIR => d[x].parent = h[b]

HeadOk(d, B, o, k, x) ==
  o[x] \in B /\ k[x] \in 1 .. DirItems /\ Used(d, o[x], k[x]) /\ d[o[x]].items[k[x]].blk = x

Struct(d, B, h, r, o, k) ==
  /\ d \in Disks /\ B \subseteq Blocks
  /\ h \in [Blocks -> Blocks] /\ r \in [Blocks -> Nat]
  /\ TFS_ROOT_DIR_BLK \in B /\ d[TFS_ROOT_DIR_BLK].kind = "dir"
  /\ d[TFS_ROOT_DIR_BLK].prev = 0 /\ d[TFS_ROOT_DIR_BLK].parent = 0
  /\ \A b \in B : LinkOk(d, B, h, r, b)
  /\ \A b \in B, i \in 1 .. DirItems : Used(d, b, i) => ItemOk(d, B, h, r, o, k, b, i)
  /\ \A x \in B : x # TFS_ROOT_DIR_BLK /\ d[x].prev = 0 => HeadOk(d, B, o, k, x)

\* No directory has two blocks without an entry.
OneEmpty(d, B, h) ==
  \A b, c \in B : d[b].kind = "dir" /\ h[b] = h[c] /\ Empty(d, b) /\ Empty(d, c) => b = c

-----------------------------------------------------------------------------
(* Reading a chain that is part of it.                                     *)

\* A row whose numbers increase from one to the next increases.
LEMMA Increasing ==
  ASSUME NEW n \in Nat, NEW f, \A i \in 1 .. n : f[i] \in Nat,
         \A i \in 1 .. n - 1 : f[i] < f[i + 1]
  PROVE  \A i, j \in 1 .. n : i < j => f[i] < f[j]
<1> SUFFICES ASSUME NEW i \in 1 .. n PROVE \A j \in 1 .. n : i < j => f[i] < f[j]
  OBVIOUS
<1> DEFINE S == {m \in 0 .. n - i : f[i] <= f[i + m] /\ (m # 0 => f[i] < f[i + m])}
<1>1. 0 \in S
  OBVIOUS
<1>2. ASSUME NEW m \in 0 .. (n - i) - 1, m \in S PROVE m + 1 \in S
  <2>1. i + m \in 1 .. n - 1 /\ i + (m + 1) = (i + m) + 1 /\ i + m \in 1 .. n /\ (i + m) + 1 \in 1 .. n
    OBVIOUS
  <2>2. f[i + m] < f[(i + m) + 1] /\ f[i + m] \in Nat /\ f[(i + m) + 1] \in Nat /\ f[i] \in Nat
    BY <2>1
  <2> QED BY <1>2, <2>1, <2>2
<1>3. n - i \in Nat
  OBVIOUS
<1>4. \A m \in 0 .. n - i : m \in S
  <2> HIDE DEF S
  <2> QED BY <1>1, <1>2, <1>3, UpTo
<1> SUFFICES ASSUME NEW j \in 1 .. n, i < j PROVE f[i] < f[j]
  OBVIOUS
<1>5. j - i \in 0 .. n - i /\ j - i # 0 /\ i + (j - i) = j
  OBVIOUS
<1> QED BY <1>4, <1>5

\* A row of different blocks is no longer than the drive.
LEMMA AtMostAll ==
  ASSUME NEW n \in Nat, NEW f, \A i \in 1 .. n : f[i] \in Blocks,
         \A i, j \in 1 .. n : f[i] = f[j] => i = j
  PROVE  n <= BlkCount - 1
<1> SUFFICES ASSUME n > BlkCount - 1 PROVE FALSE
  BY Sizes
<1> DEFINE g == [i \in 1 .. n |-> f[i]]
<1>1. IsFiniteSet(1 .. n) /\ Cardinality(1 .. n) = n
  BY FS_Interval
<1>2. IsFiniteSet(Blocks) /\ Cardinality(Blocks) = BlkCount - 1
  BY FS_Interval, Sizes DEF Blocks
<1>3. g \in [1 .. n -> Blocks]
  OBVIOUS
<1>4. Cardinality(Blocks) < Cardinality(1 .. n)
  BY <1>1, <1>2, Sizes
<1> HIDE DEF g
<1>5. \E x, y \in 1 .. n : x # y /\ g[x] = g[y]
  BY <1>1, <1>2, <1>3, <1>4, FS_PigeonHole
<1> QED BY <1>5 DEF g

\* ch is the chain of the head p, from its first block to its last.
ChainIs(d, B, h, p, ch) ==
  /\ ch \in Seq(Blocks) /\ Len(ch) \in Nat /\ Len(ch) >= 1 /\ ch[1] = p
  /\ \A i \in 1 .. Len(ch) :
       /\ ch[i] \in B /\ h[ch[i]] = p
       /\ d[ch[i]].prev = IF i = 1 THEN 0 ELSE ch[i - 1]
       /\ d[ch[i]].next = IF i = Len(ch) THEN 0 ELSE ch[i + 1]
  /\ \A i, j \in 1 .. Len(ch) : ch[i] = ch[j] => i = j
  /\ \A c \in B : h[c] = p => \E i \in 1 .. Len(ch) : ch[i] = c
  /\ \A c : c \in Range(ch) <=> c \in B /\ h[c] = p

\* What is known of a block of the structure.
LEMMA StructTypes ==
  ASSUME NEW d, NEW B, NEW h, NEW r, NEW o, NEW k, Struct(d, B, h, r, o, k), NEW b \in B
  PROVE  /\ b \in Blocks /\ b # 0 /\ d[b] \in Contents /\ d[b] # Junk
         /\ d[b].prev \in Ptrs /\ d[b].next \in Ptrs
         /\ d[b].kind = "dir" \/ d[b].kind = "data"
         /\ Follow(d, b) = d[b].next
         /\ d[b].kind = "dir" => /\ d[b] \in DirBlks /\ d[b].items \in [1 .. DirItems -> Item]
                                 /\ d[b].parent \in Ptrs
         /\ d[b].kind = "data" => d[b] \in DataBlks
         /\ h[b] \in B /\ r[b] \in Nat
<1>1. b \in Blocks /\ d[b] \in Contents /\ LinkOk(d, B, h, r, b) /\ r[b] \in Nat
  BY DEF Struct, Disks
<1>2. d[b].kind \in {"dir", "data"} /\ h[b] \in B
  BY <1>1 DEF LinkOk
<1>3. d[b] # Junk
  BY <1>2 DEF Junk
<1>4. Follow(d, b) = d[b].next
  BY <1>3 DEF Follow
<1> QED BY <1>1, <1>2, <1>3, <1>4, Kinds, Sizes

\* The chain of a head has exactly the blocks that belong to it.
LEMMA ChainOf ==
  ASSUME NEW d, NEW B, NEW h, NEW r, NEW o, NEW k, Struct(d, B, h, r, o, k),
         NEW p \in B, d[p].prev = 0
  PROVE  ChainIs(d, B, h, p, Chain(d, p))
<1> DEFINE ch == Chain(d, p)
           N  == BlkCount - 1
           n  == Len(ch)
<1>1. p \in Ptrs /\ p # 0 /\ p \in Blocks /\ h[p] = p /\ N \in Nat /\ N >= 1
  BY Sizes, StructTypes DEF Struct, LinkOk
<1>2. Walks(d, ch, p, N)
  <2>1. \A b \in Blocks : Follow(d, b) \in Ptrs
    BY FollowType DEF Struct
  <2> QED BY <1>1, <2>1, ChainWalks
<1> HIDE DEF ch, N
<1>3. /\ ch \in Seq(Blocks) /\ n \in Nat /\ n >= 1 /\ n <= N /\ ch[1] = p
      /\ \A i \in 1 .. n - 1 : ch[i + 1] = Follow(d, ch[i])
      /\ \A i \in 1 .. n : ch[i] \in Blocks
      /\ n < N => Follow(d, ch[n]) = 0
  BY <1>1, <1>2 DEF Walks
<1> HIDE DEF n
<1> DEFINE In(i) == /\ ch[i] \in B /\ h[ch[i]] = p
                    /\ d[ch[i]].prev = IF i = 1 THEN 0 ELSE ch[i - 1]
                    /\ i # 1 => r[ch[i - 1]] < r[ch[i]]
           S == {m \in 0 .. n - 1 : In(m + 1)}
<1>4. \A i \in 1 .. n : In(i)
  <2>1. 0 \in S
    BY <1>1, <1>3
  <2>2. ASSUME NEW m \in 0 .. (n - 1) - 1, m \in S PROVE m + 1 \in S
    <3> DEFINE a == ch[m + 1]
               c == ch[(m + 1) + 1]
    <3>0. m + 1 \in 1 .. n - 1 /\ (m + 1) + 1 \in 1 .. n /\ (m + 1) + 1 # 1 /\ ((m + 1) + 1) - 1 = m + 1
      BY <1>3
    <3>1. a \in B /\ h[a] = p
      BY <2>2
    <3>2. c = d[a].next /\ c # 0
      BY <3>0, <3>1, <1>3, StructTypes, Sizes
    <3>3. c \in B /\ d[c].prev = a
      BY <3>1, <3>2 DEF Struct, LinkOk
    <3>4. a # 0
      BY <3>1, StructTypes
    <3>5. h[c] = h[a] /\ r[a] < r[c]
      BY <3>3, <3>4 DEF Struct, LinkOk
    <3>6. In((m + 1) + 1)
      BY <3>0, <3>1, <3>3, <3>5
    <3> HIDE DEF In
    <3> QED BY <3>6, <3>0, <1>3
  <2>3. n - 1 \in Nat
    BY <1>3
  <2>4. \A m \in 0 .. n - 1 : m \in S
    <3> HIDE DEF S
    <3> QED BY <2>1, <2>2, <2>3, UpTo
  <2> TAKE i \in 1 .. n
  <2>5. i - 1 \in 0 .. n - 1 /\ (i - 1) + 1 = i
    BY <1>3
  <2>6. In((i - 1) + 1)
    <3> HIDE DEF In
    <3> QED BY <2>4, <2>5
  <2> QED BY <2>5, <2>6
<1>5. \A i, j \in 1 .. n : i < j => r[ch[i]] < r[ch[j]]
  <2> DEFINE f == [i \in 1 .. n |-> r[ch[i]]]
  <2>1. \A i \in 1 .. n : f[i] \in Nat
    BY <1>3 DEF Struct
  <2>2. ASSUME NEW i \in 1 .. n - 1 PROVE f[i] < f[i + 1]
    <3>1. i + 1 \in 1 .. n /\ i + 1 # 1 /\ i \in 1 .. n /\ (i + 1) - 1 = i
      BY <1>3
    <3> QED BY <3>1, <1>4
  <2>3. \A i, j \in 1 .. n : i < j => f[i] < f[j]
    <3> HIDE DEF f
    <3> QED BY <2>1, <2>2, <1>3, Increasing
  <2> QED BY <2>3
<1>6. \A i, j \in 1 .. n : ch[i] = ch[j] => i = j
  <2> SUFFICES ASSUME NEW i \in 1 .. n, NEW j \in 1 .. n, ch[i] = ch[j], i < j PROVE FALSE
    BY <1>3
  <2>1. r[ch[i]] < r[ch[j]] /\ r[ch[i]] \in Nat
    BY <1>5, <1>3 DEF Struct
  <2> QED BY <2>1
<1>7. d[ch[n]].next = 0
  <2>0. n \in 1 .. n /\ ch[n] \in B /\ h[ch[n]] = p
    BY <1>3, <1>4
  <2> SUFFICES ASSUME d[ch[n]].next # 0 PROVE FALSE
    OBVIOUS
  <2> DEFINE y == d[ch[n]].next
             f == [i \in 1 .. n + 1 |-> IF i = n + 1 THEN y ELSE ch[i]]
  <2>1. y \in B /\ d[y].prev = ch[n]
    BY <2>0 DEF Struct, LinkOk
  <2> HIDE DEF f
  <2>2. r[ch[n]] < r[y] /\ y \in Blocks
    <3>1. ch[n] # 0 /\ y \in Blocks
      BY <2>0, <2>1, StructTypes
    <3>2. LinkOk(d, B, h, r, y)
      BY <2>1 DEF Struct
    <3> HIDE DEF y
    <3> QED BY <3>1, <3>2, <2>1 DEF LinkOk
  <2>3. n = N
    <3>1. Follow(d, ch[n]) # 0
      BY <2>0, StructTypes
    <3> QED BY <3>1, <1>3, <1>1
  <2> HIDE DEF y
  <2>4. \A i \in 1 .. n : ch[i] # y
    <3> SUFFICES ASSUME NEW i \in 1 .. n, ch[i] = y PROVE FALSE
      OBVIOUS
    <3>1. r[ch[i]] \in Nat /\ r[ch[n]] \in Nat
      BY <1>3, <2>0 DEF Struct
    <3>2. CASE i = n
      BY <3>1, <3>2, <2>2
    <3>3. CASE i # n
      <4>1. r[ch[i]] < r[ch[n]]
        BY <3>3, <2>0, <1>5, <1>3
      <4> QED BY <4>1, <3>1, <2>2
    <3> QED BY <3>2, <3>3
  <2>5. \A i \in 1 .. n + 1 : f[i] \in Blocks
    BY <2>2, <1>3 DEF f
  <2>6. \A i, j \in 1 .. n + 1 : f[i] = f[j] => i = j
    BY <2>4, <1>3, <1>6 DEF f
  <2>7. n + 1 \in Nat
    BY <1>3
  <2> HIDE DEF f
  <2>8. n + 1 <= BlkCount - 1
    BY <2>5, <2>6, <2>7, AtMostAll
  <2> QED BY <2>3, <2>8, <1>3 DEF N
<1>8. \A i \in 1 .. n : d[ch[i]].next = IF i = n THEN 0 ELSE ch[i + 1]
  <2> TAKE i \in 1 .. n
  <2>1. CASE i = n
    BY <2>1, <1>7
  <2>2. CASE i # n
    <3>1. i \in 1 .. n - 1
      BY <2>2, <1>3
    <3>2. ch[i + 1] = Follow(d, ch[i]) /\ ch[i] \in B
      BY <3>1, <1>3, <1>4
    <3> QED BY <3>2, <2>2, StructTypes
  <2> QED BY <2>1, <2>2
<1>9. \A c \in B : h[c] = p => \E i \in 1 .. n : ch[i] = c
  <2> DEFINE Bad == {c \in B : h[c] = p /\ \A i \in 1 .. n : ch[i] # c}
             R == {r[c] : c \in Bad}
  <2> SUFFICES ASSUME Bad # {} PROVE FALSE
    OBVIOUS
  <2>0. \A c : c \in Bad <=> c \in B /\ h[c] = p /\ \A i \in 1 .. n : ch[i] # c
    OBVIOUS
  <2> HIDE DEF Bad
  <2>1. \E c \in Bad : \A b \in Bad : r[c] <= r[b]
    <3>1. R \in SUBSET Nat /\ R # {}
      BY <2>0, StructTypes
    <3>2. \E x \in R : \A y \in R : x <= y
      <4> HIDE DEF R
      <4> QED BY <3>1, LeastNumber
    <3> QED BY <3>2
  <2>2. PICK c \in Bad : \A b \in Bad : r[c] <= r[b]
    BY <2>1
  <2>3. c \in B /\ h[c] = p /\ \A i \in 1 .. n : ch[i] # c
    BY <2>0, <2>2
  <2>4. d[c].prev # 0
    <3> SUFFICES ASSUME d[c].prev = 0 PROVE FALSE
      OBVIOUS
    <3>1. h[c] = c
      BY <2>3 DEF Struct, LinkOk
    <3> QED BY <3>1, <2>3, <1>3
  <2> DEFINE q == d[c].prev
  <2>5. q \in B /\ d[q].next = c /\ h[q] = p /\ r[q] < r[c] /\ r[q] \in Nat /\ r[c] \in Nat
    BY <2>3, <2>4, StructTypes DEF Struct, LinkOk
  <2> HIDE DEF q
  <2>6. q \notin Bad
    BY <2>2, <2>5
  <2>7. PICK i \in 1 .. n : ch[i] = q
    BY <2>0, <2>5, <2>6
  <2>8. c # 0
    BY <2>3, StructTypes
  <2>9. i # n /\ ch[i + 1] = c
    BY <1>8, <2>5, <2>7, <2>8
  <2>10. i + 1 \in 1 .. n
    BY <2>9, <1>3
  <2> QED BY <2>3, <2>9, <2>10
<1>10. \A c : c \in Range(ch) <=> c \in B /\ h[c] = p
  <2>1. DOMAIN ch = 1 .. n
    BY <1>3 DEF n
  <2>2. \A c : c \in Range(ch) <=> \E i \in 1 .. n : ch[i] = c
    BY <2>1 DEF Range
  <2> QED BY <2>2, <1>4, <1>9
<1> QED BY <1>3, <1>4, <1>6, <1>8, <1>9, <1>10 DEF ChainIs, ch, n

-----------------------------------------------------------------------------
(* What is kept when blocks change.                                        *)

SameLinks(x, y) ==
  x.kind = y.kind /\ x.prev = y.prev /\ x.next = y.next /\ (x.kind = "dir" => x.parent = y.parent)

\* x is y with item it at index i.
ItemPut(y, x, i, it) ==
  /\ y.kind = "dir" /\ SameLinks(x, y)
  /\ \A j \in 1 .. DirItems : x.items[j] = IF j = i THEN it ELSE y.items[j]

\* A directory block in which one item is replaced.
LEMMA PutItemIs ==
  ASSUME NEW c \in DirBlks, NEW i \in 1 .. DirItems, NEW it \in Item
  PROVE  LET x == [c EXCEPT !.items[i] = it] IN x \in DirBlks /\ ItemPut(c, x, i, it)
  BY DEF DirBlks, ItemPut, SameLinks

\* The parts of Struct.
LEMMA StructOf ==
  ASSUME NEW d, NEW B, NEW h, NEW r, NEW o, NEW k, Struct(d, B, h, r, o, k)
  PROVE  /\ d \in Disks /\ B \subseteq Blocks /\ 0 \notin B
         /\ h \in [Blocks -> Blocks] /\ r \in [Blocks -> Nat]
         /\ TFS_ROOT_DIR_BLK \in B /\ d[TFS_ROOT_DIR_BLK].kind = "dir"
         /\ d[TFS_ROOT_DIR_BLK].prev = 0 /\ d[TFS_ROOT_DIR_BLK].parent = 0
         /\ \A b \in B : LinkOk(d, B, h, r, b)
         /\ \A b \in B, i \in 1 .. DirItems : Used(d, b, i) => ItemOk(d, B, h, r, o, k, b, i)
         /\ \A x \in B : x # TFS_ROOT_DIR_BLK /\ d[x].prev = 0 => HeadOk(d, B, o, k, x)
  BY Sizes DEF Struct

Keeps(d, e, S, h, h2, r, r2) ==
  \A x \in S : SameLinks(e[x], d[x]) /\ h2[x] = h[x] /\ r2[x] = r[x]
KeepsOwners(S, o, o2, k, k2) == \A x \in S : o2[x] = o[x] /\ k2[x] = k[x]

\* Links of a block are kept when it and the blocks it refers to are.
LEMMA KeepLink ==
  ASSUME NEW d, NEW B, NEW h, NEW r, NEW c, LinkOk(d, B, h, r, c),
         NEW e, NEW C, NEW h2, NEW r2,
         c \in C, h[c] \in C, d[c].prev # 0 => d[c].prev \in C, d[c].next # 0 => d[c].next \in C,
         Keeps(d, e, C \cap B, h, h2, r, r2), c \in B
  PROVE  LinkOk(e, C, h2, r2, c)
  BY DEF LinkOk, SameLinks, Keeps

\* An item is kept when its block and the block it refers to are.
LEMMA KeepItem ==
  ASSUME NEW d, NEW B, NEW h, NEW r, NEW o, NEW k, NEW b \in B, NEW i,
         ItemOk(d, B, h, r, o, k, b, i),
         NEW e, NEW C, NEW h2, NEW r2, NEW o2, NEW k2,
         e[b].items[i] = d[b].items[i], b \in C,
         d[b].items[i].blk # 0 => d[b].items[i].blk \in C,
         Keeps(d, e, C \cap B, h, h2, r, r2), KeepsOwners(C \cap B, o, o2, k, k2)
  PROVE  ItemOk(e, C, h2, r2, o2, k2, b, i)
<1> DEFINE it == d[b].items[i]
           x == it.blk
<1> SUFFICES ASSUME x # 0
             PROVE  /\ x \in C /\ x # TFS_ROOT_DIR_BLK /\ e[x].prev = 0 /\ e[x].kind = KindOf(it)
                    /\ r2[b] < r2[x] /\ o2[x] = b /\ k2[x] = i
                    /\ it.type = DIR => e[x].parent = h2[b]
  BY DEF ItemOk
<1>1. /\ x \in B /\ x # TFS_ROOT_DIR_BLK /\ d[x].prev = 0 /\ d[x].kind = KindOf(it)
      /\ r[b] < r[x] /\ o[x] = b /\ k[x] = i
      /\ it.type = DIR => d[x].parent = h[b]
  BY DEF ItemOk
<1> HIDE DEF it, x
<1> SUFFICES x \in C
  BY <1>1 DEF SameLinks, KindOf, Keeps, KeepsOwners
<1> QED BY DEF it, x

-----------------------------------------------------------------------------
(* A new chain for an entry.                                               *)

AttachedTo(d, e, B, b, i, it, bs, up) ==
  /\ ItemPut(d[b], e[b], i, it)
  /\ \A c \in B : c # b => e[c] = d[c]
  /\ \A j \in 1 .. Len(bs) :
       /\ e[bs[j]].kind = KindOf(it)
       /\ e[bs[j]].prev = IF j = 1 THEN 0 ELSE bs[j - 1]
       /\ e[bs[j]].next = IF j = Len(bs) THEN 0 ELSE bs[j + 1]
       /\ it.type = DIR => Len(bs) = 1 /\ e[bs[j]].parent = up /\ Empty(e, bs[j])

KeepsHeads(d, e, S, h, h2) ==
  \A c \in S : h2[c] = h[c] /\ e[c].kind = d[c].kind /\ e[c].prev = d[c].prev

Attaches(d, e, B, h, b, i, it, bs) ==
  /\ b \in B /\ i \in 1 .. DirItems /\ it \in Item /\ it.type # FREE
  /\ d[b].items[i].type = FREE \/ d[b].items[i].blk = 0
  /\ bs \in Seq(Blocks) /\ (\A j \in 1 .. Len(bs) : bs[j] \notin B)
  /\ \A j, m \in 1 .. Len(bs) : bs[j] = bs[m] => j = m
  /\ it.blk = IF Len(bs) = 0 THEN 0 ELSE bs[1]
  /\ e \in Disks /\ AttachedTo(d, e, B, b, i, it, bs, h[b])

\* Heads, ranks and owners with which it is in order again.
AttachedAs(d, e, B, h, bs, h2, r2, o2, k2) ==
  /\ Struct(e, B \cup Range(bs), h2, r2, o2, k2) /\ KeepsHeads(d, e, B, h, h2)
  /\ OneEmpty(d, B, h) => OneEmpty(e, B \cup Range(bs), h2)

\* An item with the chain it refers to is added to the structure.
LEMMA Attach ==
  ASSUME NEW d, NEW B, NEW h, NEW r, NEW o, NEW k, Struct(d, B, h, r, o, k),
         NEW b, NEW i, NEW it, NEW bs, NEW e, Attaches(d, e, B, h, b, i, it, bs)
  PROVE  \E h2, r2, o2, k2 : AttachedAs(d, e, B, h, bs, h2, r2, o2, k2)
<1> SUFFICES ASSUME b \in B, i \in 1 .. DirItems, it \in Item, it.type # FREE,
                    d[b].items[i].type = FREE \/ d[b].items[i].blk = 0,
                    bs \in Seq(Blocks), \A j \in 1 .. Len(bs) : bs[j] \notin B,
                    \A j, m \in 1 .. Len(bs) : bs[j] = bs[m] => j = m,
                    it.blk = IF Len(bs) = 0 THEN 0 ELSE bs[1],
                    e \in Disks, AttachedTo(d, e, B, b, i, it, bs, h[b])
             PROVE  \E h2, r2, o2, k2 : AttachedAs(d, e, B, h, bs, h2, r2, o2, k2)
  BY DEF Attaches
<1> DEFINE n == Len(bs)
           N == Range(bs)
           C == B \cup N
           At(c) == CHOOSE j \in 1 .. n : bs[j] = c
           h2 == [c \in Blocks |-> IF c \in N THEN bs[1] ELSE h[c]]
           r2 == [c \in Blocks |-> IF c \in N THEN r[b] + At(c) ELSE r[c]]
           o2 == [c \in Blocks |-> IF c \in N THEN b ELSE o[c]]
           k2 == [c \in Blocks |-> IF c \in N THEN i ELSE k[c]]
<1>1. /\ n \in Nat /\ \A j \in 1 .. n : bs[j] \in Blocks /\ bs[j] \in N
      /\ \A c \in N : \E j \in 1 .. n : c = bs[j]
  <2>1. DOMAIN bs = 1 .. n
    OBVIOUS
  <2> QED BY <2>1 DEF Range
<1>2. \A j \in 1 .. n : At(bs[j]) = j
  <2> TAKE j \in 1 .. n
  <2>1. \A m \in 1 .. n : bs[m] = bs[j] => m = j
    OBVIOUS
  <2> QED BY <2>1
<1> HIDE DEF n, N, At
<1>3. /\ d \in Disks /\ B \subseteq Blocks /\ 0 \notin B
      /\ h \in [Blocks -> Blocks] /\ r \in [Blocks -> Nat]
      /\ TFS_ROOT_DIR_BLK \in B /\ d[TFS_ROOT_DIR_BLK].kind = "dir"
      /\ d[TFS_ROOT_DIR_BLK].prev = 0 /\ d[TFS_ROOT_DIR_BLK].parent = 0
      /\ \A c \in B : LinkOk(d, B, h, r, c)
      /\ \A c \in B, j \in 1 .. DirItems : Used(d, c, j) => ItemOk(d, B, h, r, o, k, c, j)
      /\ \A x \in B : x # TFS_ROOT_DIR_BLK /\ d[x].prev = 0 => HeadOk(d, B, o, k, x)
  BY StructOf
<1>4. \A c \in N : c \notin B /\ c \in Blocks
  BY <1>1 DEF n
<1>5. \A c \in B : SameLinks(e[c], d[c]) /\ h2[c] = h[c] /\ r2[c] = r[c] /\ o2[c] = o[c] /\ k2[c] = k[c]
  <2> TAKE c \in B
  <2>1. c \notin N /\ c \in Blocks
    BY <1>3, <1>4
  <2>2. SameLinks(e[c], d[c])
    BY DEF AttachedTo, ItemPut, SameLinks
  <2> QED BY <2>1, <2>2
<1>6. \A j \in 1 .. n :
         /\ e[bs[j]].kind = KindOf(it)
         /\ e[bs[j]].prev = IF j = 1 THEN 0 ELSE bs[j - 1]
         /\ e[bs[j]].next = IF j = n THEN 0 ELSE bs[j + 1]
         /\ it.type = DIR => n = 1 /\ e[bs[j]].parent = h[b] /\ Empty(e, bs[j])
         /\ h2[bs[j]] = bs[1] /\ r2[bs[j]] = r[b] + j /\ o2[bs[j]] = b /\ k2[bs[j]] = i
  BY <1>1, <1>2 DEF AttachedTo, n
<1>7. ItemPut(d[b], e[b], i, it) /\ \A c \in B : c # b => e[c] = d[c]
  BY DEF AttachedTo
<1>8. h2 \in [Blocks -> Blocks] /\ r2 \in [Blocks -> Nat]
  <2>1. \A c \in N : bs[1] \in Blocks
    <3> TAKE c \in N
    <3>1. 1 \in 1 .. n
      BY <1>1
    <3> QED BY <3>1, <1>1
  <2>2. \A c \in N : r[b] + At(c) \in Nat
    BY <1>1, <1>2, <1>3
  <2> QED BY <2>1, <2>2, <1>3
<1>C. \A c : c \in C <=> c \in B \/ c \in N
  OBVIOUS
<1> HIDE DEF h2, r2, o2, k2, C
<1>9. \A c \in C : LinkOk(e, C, h2, r2, c)
  <2> TAKE c \in C
  <2>1. CASE c \in B
    <3>1. LinkOk(d, B, h, r, c)
      BY <2>1, <1>3
    <3>2. h[c] \in C /\ (d[c].prev # 0 => d[c].prev \in C) /\ (d[c].next # 0 => d[c].next \in C)
      BY <3>1, <1>C DEF LinkOk
    <3>3. Keeps(d, e, C \cap B, h, h2, r, r2)
      BY <1>5 DEF Keeps
    <3> QED BY <2>1, <3>1, <3>2, <3>3, KeepLink
  <2>2. CASE c \in N
    <3>1. PICK j \in 1 .. n : c = bs[j]
      BY <2>2, <1>1
    <3>2. 1 \in 1 .. n /\ bs[1] \in C /\ e[bs[1]].prev = 0 /\ e[bs[1]].kind = e[c].kind
      BY <3>1, <1>1, <1>6, <1>C
    <3>3. e[c].kind \in {"dir", "data"}
      BY <3>1, <1>6 DEF KindOf
    <3>4. r2[bs[1]] <= r2[c]
      BY <3>1, <3>2, <1>1, <1>3, <1>6
    <3>5. e[c].kind = "dir" => e[c].parent = e[bs[1]].parent
      BY <3>1, <3>2, <1>6 DEF KindOf
    <3>6. e[c].prev = 0 => bs[1] = c
      <4>1. j # 1 => j - 1 \in 1 .. n
        BY <3>1, <1>1
      <4>2. j # 1 => bs[j - 1] # 0
        BY <4>1, <1>1, Sizes
      <4> QED BY <4>2, <3>1, <1>6
    <3>7. ASSUME e[c].prev # 0
          PROVE  /\ e[c].prev \in C /\ e[e[c].prev].next = c
                 /\ h2[e[c].prev] = bs[1] /\ r2[e[c].prev] < r2[c]
      <4>1. j # 1
        BY <3>1, <3>7, <1>6
      <4>2. j - 1 \in 1 .. n /\ j - 1 # n /\ (j - 1) + 1 = j
        BY <3>1, <4>1, <1>1
      <4>3. e[c].prev = bs[j - 1] /\ e[bs[j - 1]].next = c
        BY <3>1, <4>1, <4>2, <1>6
      <4>4. r2[bs[j - 1]] = r[b] + (j - 1) /\ r2[c] = r[b] + j /\ h2[bs[j - 1]] = bs[1]
        BY <3>1, <4>2, <1>6
      <4>5. r[b] + (j - 1) < r[b] + j
        BY <3>1, <1>1, <1>3
      <4>6. bs[j - 1] \in C
        BY <4>2, <1>1, <1>C
      <4> QED BY <4>3, <4>4, <4>5, <4>6
    <3>8. ASSUME e[c].next # 0
          PROVE  e[c].next \in C /\ e[e[c].next].prev = c
      <4>1. j # n
        BY <3>1, <3>8, <1>6
      <4>2. j + 1 \in 1 .. n /\ j + 1 # 1 /\ (j + 1) - 1 = j
        <5>1. n \in Nat /\ j \in 1 .. n
          BY <3>1, <1>1
        <5> QED BY <5>1, <4>1
      <4>3. e[c].next = bs[j + 1] /\ e[bs[j + 1]].prev = c
        BY <3>1, <4>1, <4>2, <1>6
      <4>4. bs[j + 1] \in C
        BY <4>2, <1>1, <1>C
      <4> QED BY <4>3, <4>4
    <3>9. h2[c] = bs[1]
      BY <3>1, <1>6
    <3> QED BY <3>2, <3>3, <3>4, <3>5, <3>6, <3>7, <3>8, <3>9 DEF LinkOk
  <2> QED BY <2>1, <2>2, <1>C
<1>10. \A c \in N : ~(\E j \in 1 .. DirItems : Used(e, c, j))
  <2> TAKE c \in N
  <2>1. PICK j \in 1 .. n : c = bs[j]
    BY <1>1
  <2>2. e[c].kind = "dir" => Empty(e, c)
    BY <2>1, <1>6 DEF KindOf
  <2> QED BY <2>2 DEF Empty, Used
<1>11. ASSUME NEW c \in C, NEW j \in 1 .. DirItems, Used(e, c, j)
       PROVE  ItemOk(e, C, h2, r2, o2, k2, c, j)
  <2>1. c \in B
    BY <1>10, <1>11, <1>C
  <2>2. CASE c = b /\ j = i
    <3>1. e[b].items[i] = it
      BY <1>7 DEF ItemPut
    <3>2. CASE n = 0
      <4>1. it.blk = 0
        BY <3>2 DEF n
      <4> QED BY <2>2, <3>1, <4>1 DEF ItemOk
    <3>3. CASE n # 0
      <4>1. it.blk = bs[1] /\ 1 \in 1 .. n
        BY <3>3, <1>1 DEF n
      <4>2. /\ e[bs[1]].prev = 0
            /\ e[bs[1]].kind = KindOf(it) /\ o2[bs[1]] = b /\ k2[bs[1]] = i
            /\ it.type = DIR => e[bs[1]].parent = h2[b]
        BY <4>1, <1>5, <1>6
      <4>4. bs[1] \in N /\ bs[1] \in C /\ bs[1] # TFS_ROOT_DIR_BLK
        BY <4>1, <1>1, <1>3, <1>4, <1>C
      <4>3. r2[b] < r2[bs[1]]
        <5>1. r2[b] = r[b] /\ r2[bs[1]] = r[b] + 1
          BY <4>1, <1>5, <1>6
        <5>2. r[b] \in Nat
          BY <1>3
        <5> QED BY <5>1, <5>2
      <4> QED BY <2>2, <3>1, <4>1, <4>2, <4>3, <4>4 DEF ItemOk
    <3> QED BY <3>2, <3>3
  <2>3. CASE ~(c = b /\ j = i)
    <3>1. e[c].items[j] = d[c].items[j] /\ e[c].kind = d[c].kind
      BY <2>1, <2>3, <1>5, <1>7 DEF ItemPut, SameLinks
    <3>2. Used(d, c, j)
      BY <3>1, <1>11 DEF Used
    <3>3. ItemOk(d, B, h, r, o, k, c, j)
      BY <2>1, <3>2, <1>3
    <3>4. d[c].items[j].blk # 0 => d[c].items[j].blk \in C
      BY <3>3, <1>C DEF ItemOk
    <3>5. Keeps(d, e, C \cap B, h, h2, r, r2) /\ KeepsOwners(C \cap B, o, o2, k, k2)
      BY <1>5 DEF Keeps, KeepsOwners
    <3>6. c \in C
      BY <2>1, <1>C
    <3> QED BY <2>1, <3>1, <3>3, <3>4, <3>5, <3>6, KeepItem
  <2> QED BY <2>2, <2>3
<1>12. ASSUME NEW x \in C, x # TFS_ROOT_DIR_BLK, e[x].prev = 0
       PROVE  HeadOk(e, C, o2, k2, x)
  <2>1. CASE x \in N
    <3>1. PICK j \in 1 .. n : x = bs[j]
      BY <2>1, <1>1
    <3>2. j = 1
      <4>1. j # 1 => bs[j - 1] \in Blocks
        BY <1>1
      <4> QED BY <4>1, <3>1, <1>1, <1>6, <1>12, Sizes
    <3>3. it.blk = x
      BY <3>1, <3>2, <1>1 DEF n
    <3>4. e[b].items[i] = it /\ e[b].kind = "dir"
      BY <1>7 DEF ItemPut, SameLinks
    <3>5. o2[x] = b /\ k2[x] = i
      BY <3>1, <1>6
    <3> QED BY <3>3, <3>4, <3>5, <1>C DEF HeadOk, Used
  <2>2. CASE x \in B
    <3>1. HeadOk(d, B, o, k, x)
      BY <2>2, <1>3, <1>5, <1>12 DEF SameLinks
    <3> DEFINE y == o[x]
               j == k[x]
    <3>2. y \in B /\ j \in 1 .. DirItems /\ Used(d, y, j) /\ d[y].items[j].blk = x /\ x # 0
      BY <2>2, <3>1, <1>3 DEF HeadOk
    <3>3. o2[x] = y /\ k2[x] = j
      BY <2>2, <1>5
    <3> HIDE DEF y, j
    <3>4. ~(y = b /\ j = i)
      BY <3>2 DEF Used
    <3>5. e[y].items[j] = d[y].items[j] /\ e[y].kind = d[y].kind
      BY <3>2, <3>4, <1>5, <1>7 DEF ItemPut, SameLinks
    <3> QED BY <3>2, <3>3, <3>5, <1>C DEF HeadOk, Used
  <2> QED BY <2>1, <2>2, <1>C
<1>13. Struct(e, C, h2, r2, o2, k2)
  <2>1. C \subseteq Blocks /\ TFS_ROOT_DIR_BLK \in C
    BY <1>3, <1>4, <1>C
  <2>2. /\ e[TFS_ROOT_DIR_BLK].kind = "dir"
        /\ e[TFS_ROOT_DIR_BLK].prev = 0 /\ e[TFS_ROOT_DIR_BLK].parent = 0
    BY <1>3, <1>5 DEF SameLinks
  <2> QED BY <2>1, <2>2, <1>3, <1>8, <1>9, <1>11, <1>12 DEF Struct
<1>14. \A c \in B : h2[c] = h[c] /\ e[c].kind = d[c].kind /\ e[c].prev = d[c].prev
  BY <1>5 DEF SameLinks
<1>15. ASSUME OneEmpty(d, B, h)
       PROVE  OneEmpty(e, C, h2)
  <2> SUFFICES ASSUME NEW x \in C, NEW y \in C, e[x].kind = "dir", h2[x] = h2[y],
                      Empty(e, x), Empty(e, y)
               PROVE  x = y
    BY DEF OneEmpty
  <2>1. ~Empty(e, b)
    BY <1>7 DEF Empty, ItemPut
  <2>2. \A z \in C : z \in N \/ (z \in B /\ (z = b \/ e[z] = d[z]))
    BY <1>7, <1>C
  <2>3. \A z \in B : h2[z] \in B
    BY <1>3, <1>5 DEF LinkOk
  <2>4. \A z \in N : h2[z] \in N
    <3> TAKE z \in N
    <3>1. PICK j \in 1 .. n : z = bs[j]
      BY <1>1
    <3>2. 1 \in 1 .. n
      BY <1>1
    <3>3. bs[1] \in N
      BY <3>2, <1>1
    <3> QED BY <3>1, <3>3, <1>6
  <2>5. CASE x \in B /\ y \in B
    <3>1. e[x] = d[x] /\ e[y] = d[y] /\ h[x] = h[y]
      BY <2>1, <2>2, <2>5, <1>4, <1>5
    <3>2. Empty(d, x) /\ Empty(d, y) /\ d[x].kind = "dir"
      BY <3>1 DEF Empty
    <3> QED BY <2>5, <3>1, <3>2, <1>15 DEF OneEmpty
  <2>6. CASE x \in N /\ y \in N
    <3>1. PICK j \in 1 .. n : x = bs[j]
      BY <2>6, <1>1
    <3>2. it.type = DIR
      BY <3>1, <1>6 DEF KindOf
    <3>3. n = 1
      BY <3>1, <3>2, <1>6
    <3> QED BY <2>6, <3>3, <1>1
  <2> QED BY <2>2, <2>3, <2>4, <2>5, <2>6, <1>4
<1>16. KeepsHeads(d, e, B, h, h2)
  BY <1>14 DEF KeepsHeads
<1>17. AttachedAs(d, e, B, h, bs, h2, r2, o2, k2)
  BY <1>13, <1>15, <1>16 DEF AttachedAs, C, N
<1> QED BY <1>17

-----------------------------------------------------------------------------
(* An entry that loses its chain.                                          *)

\* Blocks but b and those of one other have an entry, in every directory.
OneEmptyBut(d, B, h, b) ==
  \A p, q \in B : d[p].kind = "dir" /\ h[p] = h[q] /\ Empty(d, p) /\ Empty(d, q)
                  => p = q \/ p = b \/ q = b

ChainSet(B, h, x) == {c \in B : h[c] = x}

Detaches(d, e, B, h, b, i, it, x) ==
  /\ b \in B /\ i \in 1 .. DirItems /\ Used(d, b, i) /\ it \in Item /\ it.blk = 0
  /\ x = d[b].items[i].blk /\ (\A c \in B : h[c] = x /\ d[c].kind = "dir" => Empty(d, c))
  /\ e \in Disks /\ ItemPut(d[b], e[b], i, it)
  /\ \A c \in B \ ChainSet(B, h, x) : c # b => e[c] = d[c]

\* An item is cleared and the chain it refers to leaves the structure.
LEMMA Detach ==
  ASSUME NEW d, NEW B, NEW h, NEW r, NEW o, NEW k, Struct(d, B, h, r, o, k),
         NEW b, NEW i, NEW it, NEW x, NEW e, Detaches(d, e, B, h, b, i, it, x)
  PROVE  LET C == B \ ChainSet(B, h, x) IN
         /\ Struct(e, C, h, r, o, k)
         /\ b \in C /\ KeepsHeads(d, e, C, h, h)
         /\ \A c \in B : r[h[c]] <= r[b] => c \in C
         /\ OneEmpty(d, B, h) => OneEmptyBut(e, C, h, b)
<1> SUFFICES ASSUME b \in B, i \in 1 .. DirItems, Used(d, b, i), it \in Item, it.blk = 0,
                    x = d[b].items[i].blk, \A c \in B : h[c] = x /\ d[c].kind = "dir" => Empty(d, c),
                    e \in Disks, ItemPut(d[b], e[b], i, it),
                    \A c \in B \ ChainSet(B, h, x) : c # b => e[c] = d[c]
             PROVE  LET C == B \ ChainSet(B, h, x) IN
         /\ Struct(e, C, h, r, o, k)
         /\ b \in C /\ KeepsHeads(d, e, C, h, h)
         /\ \A c \in B : r[h[c]] <= r[b] => c \in C
         /\ OneEmpty(d, B, h) => OneEmptyBut(e, C, h, b)
  BY DEF Detaches
<1> DEFINE C == B \ ChainSet(B, h, x)
<1>1. /\ d \in Disks /\ B \subseteq Blocks /\ 0 \notin B
      /\ h \in [Blocks -> Blocks] /\ r \in [Blocks -> Nat]
      /\ TFS_ROOT_DIR_BLK \in B /\ d[TFS_ROOT_DIR_BLK].kind = "dir"
      /\ d[TFS_ROOT_DIR_BLK].prev = 0 /\ d[TFS_ROOT_DIR_BLK].parent = 0
      /\ \A c \in B : LinkOk(d, B, h, r, c)
      /\ \A c \in B, j \in 1 .. DirItems : Used(d, c, j) => ItemOk(d, B, h, r, o, k, c, j)
      /\ \A y \in B : y # TFS_ROOT_DIR_BLK /\ d[y].prev = 0 => HeadOk(d, B, o, k, y)
  BY StructOf
<1>2. \A c : c \in C <=> c \in B /\ h[c] # x
  BY DEF ChainSet
<1>3. ItemOk(d, B, h, r, o, k, b, i)
  BY <1>1
<1>4. x # 0 => x \in B /\ x # TFS_ROOT_DIR_BLK /\ d[x].prev = 0 /\ r[b] < r[x] /\ o[x] = b /\ k[x] = i
  BY <1>3 DEF ItemOk
<1>5. \A c \in B : h[c] = x => x \in B /\ x # 0
  BY <1>1 DEF LinkOk
<1>6. \A c \in B : r[h[c]] <= r[b] => c \in C
  <2> TAKE c \in B
  <2> HAVE r[h[c]] <= r[b]
  <2> SUFFICES ASSUME h[c] = x PROVE FALSE
    BY <1>2
  <2>1. x # 0 /\ x \in B
    BY <1>5
  <2>2. r[x] \in Nat /\ r[b] \in Nat
    BY <2>1, <1>1
  <2> QED BY <2>1, <2>2, <1>4
<1>7. b \in C
  <2>1. r[h[b]] <= r[b]
    BY <1>1 DEF LinkOk
  <2> QED BY <2>1, <1>6
<1>8. \A c \in C : SameLinks(e[c], d[c])
  <2> TAKE c \in C
  <2>1. CASE c = b
    BY <2>1 DEF ItemPut
  <2>2. CASE c # b
    BY <2>2 DEF SameLinks
  <2> QED BY <2>1, <2>2
<1>9. Keeps(d, e, C \cap B, h, h, r, r) /\ KeepsOwners(C \cap B, o, o, k, k)
  BY <1>8 DEF Keeps, KeepsOwners
<1> HIDE DEF C
<1>10. ASSUME NEW c \in C PROVE LinkOk(e, C, h, r, c)
  <2>1. LinkOk(d, B, h, r, c) /\ c \in B /\ h[c] # x
    BY <1>1, <1>2
  <2>2. h[c] \in C
    <3>1. h[h[c]] = h[c] /\ h[c] \in B
      BY <2>1, <1>1 DEF LinkOk
    <3> QED BY <3>1, <2>1, <1>2
  <2>3. d[c].prev # 0 => d[c].prev \in C
    BY <2>1, <1>2 DEF LinkOk
  <2>4. d[c].next # 0 => d[c].next \in C
    <3> SUFFICES ASSUME d[c].next # 0 PROVE d[c].next \in C
      OBVIOUS
    <3> DEFINE y == d[c].next
    <3>1. y \in B /\ d[y].prev = c /\ c # 0
      BY <2>1, <1>1 DEF LinkOk
    <3> HIDE DEF y
    <3>2. h[y] = h[c]
      BY <3>1, <1>1 DEF LinkOk
    <3>3. y \in C
      BY <3>1, <3>2, <2>1, <1>2
    <3> QED BY <3>3 DEF y
  <2> QED BY <2>1, <2>2, <2>3, <2>4, <1>9, KeepLink
<1>11. ASSUME NEW c \in C, NEW j \in 1 .. DirItems, Used(e, c, j)
       PROVE  ItemOk(e, C, h, r, o, k, c, j)
  <2>1. c \in B
    BY <1>2
  <2>2. CASE c = b /\ j = i
    <3>1. e[c].items[j] = it
      BY <2>2 DEF ItemPut
    <3> QED BY <3>1 DEF ItemOk
  <2>3. CASE ~(c = b /\ j = i)
    <3>1. e[c].items[j] = d[c].items[j] /\ e[c].kind = d[c].kind
      <4>1. CASE c = b
        BY <4>1, <2>3 DEF ItemPut, SameLinks
      <4>2. CASE c # b
        BY <4>2 DEF C
      <4> QED BY <4>1, <4>2
    <3>2. ItemOk(d, B, h, r, o, k, c, j)
      BY <2>1, <3>1, <1>1, <1>11 DEF Used
    <3>3. d[c].items[j].blk # 0 => d[c].items[j].blk \in C
      <4> DEFINE y == d[c].items[j].blk
      <4> SUFFICES ASSUME y # 0 PROVE y \in C
        OBVIOUS
      <4>1. y \in B /\ d[y].prev = 0 /\ o[y] = c /\ k[y] = j
        BY <3>2 DEF ItemOk
      <4> HIDE DEF y
      <4>2. h[y] = y
        BY <4>1, <1>1 DEF LinkOk
      <4>3. y # x
        BY <4>1, <1>4, <2>3, <1>1
      <4> QED BY <4>1, <4>2, <4>3, <1>2
    <3> QED BY <2>1, <3>1, <3>2, <3>3, <1>9, KeepItem
  <2> QED BY <2>2, <2>3
<1>12. ASSUME NEW y \in C, y # TFS_ROOT_DIR_BLK, e[y].prev = 0
       PROVE  HeadOk(e, C, o, k, y)
  <2>1. y \in B /\ h[y] # x /\ d[y].prev = 0
    BY <1>2, <1>8, <1>12 DEF SameLinks
  <2>2. h[y] = y /\ HeadOk(d, B, o, k, y)
    BY <2>1, <1>1, <1>12 DEF LinkOk
  <2> DEFINE c == o[y]
             j == k[y]
  <2>3. c \in B /\ j \in 1 .. DirItems /\ Used(d, c, j) /\ d[c].items[j].blk = y
    BY <2>2 DEF HeadOk
  <2>4. c \in C
    <3>1. ~Empty(d, c) /\ d[c].kind = "dir"
      BY <2>3 DEF Empty, Used
    <3> HIDE DEF c
    <3> QED BY <3>1, <2>3, <1>2
  <2>5. ~(c = b /\ j = i)
    BY <2>1, <2>2, <2>3
  <2>6. e[c].items[j] = d[c].items[j] /\ e[c].kind = d[c].kind
    <3>1. CASE c = b
      BY <3>1, <2>3, <2>5 DEF ItemPut, SameLinks
    <3>2. CASE c # b
      BY <3>2, <2>4 DEF C
    <3> QED BY <3>1, <3>2
  <2> QED BY <2>3, <2>4, <2>6 DEF HeadOk, Used
<1>13. Struct(e, C, h, r, o, k)
  <2>1. C \subseteq Blocks
    BY <1>1, <1>2
  <2>2. TFS_ROOT_DIR_BLK \in C
    <3>1. h[TFS_ROOT_DIR_BLK] = TFS_ROOT_DIR_BLK
      BY <1>1 DEF LinkOk
    <3> QED BY <3>1, <1>1, <1>2, <1>4, <1>5
  <2>3. /\ e[TFS_ROOT_DIR_BLK].kind = "dir"
        /\ e[TFS_ROOT_DIR_BLK].prev = 0 /\ e[TFS_ROOT_DIR_BLK].parent = 0
    BY <2>2, <1>1, <1>8 DEF SameLinks
  <2> QED BY <2>1, <2>2, <2>3, <1>1, <1>10, <1>11, <1>12 DEF Struct
<1>14. \A c \in C : e[c].kind = d[c].kind /\ e[c].prev = d[c].prev
  BY <1>8 DEF SameLinks
<1>15. ASSUME OneEmpty(d, B, h) PROVE OneEmptyBut(e, C, h, b)
  <2> SUFFICES ASSUME NEW p \in C, NEW q \in C, e[p].kind = "dir", h[p] = h[q],
                      Empty(e, p), Empty(e, q), p # b, q # b
               PROVE  p = q
    BY DEF OneEmptyBut
  <2>1. e[p] = d[p] /\ e[q] = d[q] /\ p \in B /\ q \in B
    BY DEF C
  <2>2. Empty(d, p) /\ Empty(d, q) /\ d[p].kind = "dir"
    BY <2>1 DEF Empty
  <2> QED BY <2>1, <2>2, <1>15 DEF OneEmpty
<1> QED BY <1>6, <1>7, <1>13, <1>14, <1>15 DEF C, KeepsHeads

-----------------------------------------------------------------------------
(* An entry that gets another name.                                        *)

Relabels(d, e, B, b, i, it) ==
  /\ b \in B /\ i \in 1 .. DirItems /\ Used(d, b, i)
  /\ it \in Item /\ it.blk = d[b].items[i].blk /\ it.type = d[b].items[i].type
  /\ e \in Disks /\ ItemPut(d[b], e[b], i, it) /\ \A c \in B : c # b => e[c] = d[c]

\* An item gets another name or size and refers to the same block.
LEMMA Relabel ==
  ASSUME NEW d, NEW B, NEW h, NEW r, NEW o, NEW k, Struct(d, B, h, r, o, k),
         NEW b, NEW i, NEW it, NEW e, Relabels(d, e, B, b, i, it)
  PROVE  /\ Struct(e, B, h, r, o, k) /\ KeepsHeads(d, e, B, h, h)
         /\ OneEmpty(d, B, h) => OneEmpty(e, B, h)
<1>0. /\ b \in B
      /\ i \in 1 .. DirItems
      /\ Used(d, b, i)
      /\ it \in Item
      /\ it.blk = d[b].items[i].blk
      /\ it.type = d[b].items[i].type
      /\ e \in Disks
      /\ ItemPut(d[b], e[b], i, it)
      /\ \A c \in B : c # b => e[c] = d[c]
  BY DEF Relabels
<1> USE <1>0
<1>1. /\ d \in Disks /\ B \subseteq Blocks /\ 0 \notin B
      /\ h \in [Blocks -> Blocks] /\ r \in [Blocks -> Nat]
      /\ TFS_ROOT_DIR_BLK \in B /\ d[TFS_ROOT_DIR_BLK].kind = "dir"
      /\ d[TFS_ROOT_DIR_BLK].prev = 0 /\ d[TFS_ROOT_DIR_BLK].parent = 0
      /\ \A c \in B : LinkOk(d, B, h, r, c)
      /\ \A c \in B, j \in 1 .. DirItems : Used(d, c, j) => ItemOk(d, B, h, r, o, k, c, j)
      /\ \A y \in B : y # TFS_ROOT_DIR_BLK /\ d[y].prev = 0 => HeadOk(d, B, o, k, y)
  BY StructOf
<1>2. \A c \in B : SameLinks(e[c], d[c])
  <2> TAKE c \in B
  <2>1. CASE c = b
    BY <2>1 DEF ItemPut
  <2>2. CASE c # b
    BY <2>2 DEF SameLinks
  <2> QED BY <2>1, <2>2
<1>3. Keeps(d, e, B \cap B, h, h, r, r)
  BY <1>2 DEF Keeps
<1>4. ASSUME NEW c \in B, NEW j \in 1 .. DirItems, e[c].kind = "dir"
      PROVE  /\ e[c].items[j].blk = d[c].items[j].blk /\ e[c].items[j].type = d[c].items[j].type
             /\ d[c].kind = "dir"
  <2>1. CASE c = b /\ j = i
    BY <2>1, <1>4 DEF ItemPut, SameLinks
  <2>2. CASE c = b /\ j # i
    BY <2>2, <1>4 DEF ItemPut, SameLinks
  <2>3. CASE c # b
    BY <2>3, <1>4
  <2> QED BY <2>1, <2>2, <2>3
<1>5. ASSUME NEW c \in B PROVE LinkOk(e, B, h, r, c)
  <2>1. LinkOk(d, B, h, r, c)
    BY <1>1
  <2>2. h[c] \in B /\ (d[c].prev # 0 => d[c].prev \in B) /\ (d[c].next # 0 => d[c].next \in B)
    BY <2>1 DEF LinkOk
  <2> QED BY <2>1, <2>2, <1>3, KeepLink
<1>6. ASSUME NEW c \in B, NEW j \in 1 .. DirItems, Used(e, c, j)
      PROVE  ItemOk(e, B, h, r, o, k, c, j)
  <2>1. /\ e[c].items[j].blk = d[c].items[j].blk /\ e[c].items[j].type = d[c].items[j].type
        /\ Used(d, c, j)
    BY <1>4, <1>6 DEF Used
  <2>2. ItemOk(d, B, h, r, o, k, c, j)
    BY <2>1, <1>1
  <2> QED BY <2>1, <2>2, <1>2 DEF ItemOk, SameLinks, KindOf
<1>7. ASSUME NEW y \in B, y # TFS_ROOT_DIR_BLK, e[y].prev = 0
      PROVE  HeadOk(e, B, o, k, y)
  <2>1. HeadOk(d, B, o, k, y)
    BY <1>1, <1>2, <1>7 DEF SameLinks
  <2>2. e[o[y]].kind = "dir"
    BY <2>1, <1>2 DEF HeadOk, Used, SameLinks
  <2> QED BY <2>1, <2>2, <1>4 DEF HeadOk, Used
<1>8. Struct(e, B, h, r, o, k)
  <2>3. /\ e[TFS_ROOT_DIR_BLK].kind = "dir"
        /\ e[TFS_ROOT_DIR_BLK].prev = 0 /\ e[TFS_ROOT_DIR_BLK].parent = 0
    BY <1>1, <1>2 DEF SameLinks
  <2> QED BY <2>3, <1>1, <1>5, <1>6, <1>7 DEF Struct
<1>9. \A c \in B : e[c].kind = d[c].kind /\ e[c].prev = d[c].prev
  BY <1>2 DEF SameLinks
<1>10. ASSUME OneEmpty(d, B, h) PROVE OneEmpty(e, B, h)
  <2>1. \A c \in B : e[c].kind = "dir" /\ Empty(e, c) => d[c].kind = "dir" /\ Empty(d, c)
    BY <1>4, Sizes DEF Empty
  <2>2. ASSUME NEW p \in B, NEW q \in B, e[p].kind = "dir", h[p] = h[q], Empty(e, p), Empty(e, q)
        PROVE  p = q
    <3>1. d[q].kind = d[p].kind
      BY <2>2, <1>1 DEF LinkOk
    <3>2. e[q].kind = "dir"
      BY <3>1, <2>2, <1>9
    <3> QED BY <3>2, <2>1, <2>2, <1>10 DEF OneEmpty
  <2> QED BY <2>2 DEF OneEmpty
<1> QED BY <1>8, <1>9, <1>10 DEF KeepsHeads

-----------------------------------------------------------------------------
(* A directory that gets a block, or loses one.                            *)

\* x is y with other pointers.
Linked(y, x, prev, next) ==
  /\ x.kind = y.kind /\ x.prev = prev /\ x.next = next
  /\ x.kind = "dir" => x.parent = y.parent /\ x.items = y.items

\* The directory whose last block is t gets the block z.
Extended(d, e, B, t, z) ==
  /\ t \in B /\ d[t].kind = "dir" /\ d[t].next = 0 /\ z \in Blocks /\ z \notin B
  /\ e \in Disks /\ (\A c \in B : c # t => e[c] = d[c])
  /\ Linked(d[t], e[t], d[t].prev, z) /\ e[z] = DirBlk(t, 0, d[t].parent, NoItems)

NoneEmpty(d, B, h, t) == \A c \in B : h[c] = h[t] => ~Empty(d, c)

\* Heads h2 and ranks r2 with which it is in order again.
StillTidy(d, e, B, h, t, z, o, k, h2, r2) ==
  /\ Struct(e, B \cup {z}, h2, r2, o, k) /\ KeepsHeads(d, e, B, h, h2) /\ h2[z] = h[t]
  /\ OneEmpty(d, B, h) /\ NoneEmpty(d, B, h, t) => OneEmpty(e, B \cup {z}, h2)

\* A directory grows by a block without items.
LEMMA Extend ==
  ASSUME NEW d, NEW B, NEW h, NEW r, NEW o, NEW k, Struct(d, B, h, r, o, k),
         NEW t, NEW z, NEW e, Extended(d, e, B, t, z)
  PROVE  \E h2, r2 : StillTidy(d, e, B, h, t, z, o, k, h2, r2)
<1>0. /\ t \in B
      /\ d[t].kind = "dir"
      /\ d[t].next = 0
      /\ z \in Blocks
      /\ z \notin B
      /\ e \in Disks
      /\ \A c \in B : c # t => e[c] = d[c]
      /\ Linked(d[t], e[t], d[t].prev, z)
      /\ e[z] = DirBlk(t, 0, d[t].parent, NoItems)
  BY DEF Extended
<1> USE <1>0
<1> DEFINE C == B \cup {z}
           h2 == [c \in Blocks |-> IF c = z THEN h[t] ELSE h[c]]
           r2 == [c \in Blocks |-> IF c = z THEN r[t] + 1 ELSE r[c]]
<1>1. /\ d \in Disks /\ B \subseteq Blocks /\ 0 \notin B
      /\ h \in [Blocks -> Blocks] /\ r \in [Blocks -> Nat]
      /\ TFS_ROOT_DIR_BLK \in B /\ d[TFS_ROOT_DIR_BLK].kind = "dir"
      /\ d[TFS_ROOT_DIR_BLK].prev = 0 /\ d[TFS_ROOT_DIR_BLK].parent = 0
      /\ \A c \in B : LinkOk(d, B, h, r, c)
      /\ \A c \in B, j \in 1 .. DirItems : Used(d, c, j) => ItemOk(d, B, h, r, o, k, c, j)
      /\ \A y \in B : y # TFS_ROOT_DIR_BLK /\ d[y].prev = 0 => HeadOk(d, B, o, k, y)
  BY StructOf
<1>2. h2 \in [Blocks -> Blocks] /\ r2 \in [Blocks -> Nat]
  BY <1>1
<1>3. /\ \A c \in B : h2[c] = h[c] /\ r2[c] = r[c] /\ c # z
      /\ h2[z] = h[t] /\ r2[z] = r[t] + 1 /\ r[t] \in Nat
  BY <1>1
<1>4. \A c : c \in C <=> c \in B \/ c = z
  OBVIOUS
<1>5. /\ e[z].kind = "dir" /\ e[z].prev = t /\ e[z].next = 0 /\ e[z].parent = d[t].parent
      /\ e[z].items = NoItems /\ Empty(e, z)
  BY DEF DirBlk, Empty, NoItems, FreeItem
<1> HIDE DEF C, h2, r2
<1>6. /\ e[t].kind = "dir" /\ e[t].prev = d[t].prev /\ e[t].next = z /\ e[t].parent = d[t].parent
      /\ e[t].items = d[t].items
  BY DEF Linked
<1>7. \A c \in B : /\ e[c].kind = d[c].kind /\ e[c].prev = d[c].prev
                   /\ e[c].next = IF c = t THEN z ELSE d[c].next
                   /\ e[c].kind = "dir" => e[c].parent = d[c].parent /\ e[c].items = d[c].items
  <2> TAKE c \in B
  <2> QED BY <1>6
<1>8. z # 0 /\ t # 0
  BY <1>1, Sizes
<1>9. ASSUME NEW c \in C PROVE LinkOk(e, C, h2, r2, c)
  <2>1. CASE c = z
    <3>1. LinkOk(d, B, h, r, t)
      BY <1>1
    <3>2. h[t] \in B /\ d[h[t]].prev = 0 /\ d[h[t]].kind = "dir" /\ r[h[t]] <= r[t]
          /\ d[t].parent = d[h[t]].parent /\ r[h[t]] \in Nat
      BY <3>1, <1>1 DEF LinkOk
    <3>3. r2[h[t]] <= r2[z]
      BY <3>2, <1>3
    <3> QED BY <2>1, <3>2, <3>3, <1>3, <1>4, <1>5, <1>6, <1>7, <1>8 DEF LinkOk
  <2>2. CASE c = t
    <3>1. LinkOk(d, B, h, r, t)
      BY <1>1
    <3>2. e[c].next = z /\ z \in C /\ e[z].prev = c
      BY <2>2, <1>4, <1>5, <1>6
    <3>3. h[t] \in B /\ d[h[t]].prev = 0 /\ d[h[t]].kind = d[t].kind /\ r[h[t]] <= r[t]
          /\ (d[t].kind = "dir" => d[t].parent = d[h[t]].parent)
      BY <3>1 DEF LinkOk
    <3>4. /\ h2[c] \in C /\ e[h2[c]].prev = 0 /\ e[h2[c]].kind = e[c].kind /\ r2[h2[c]] <= r2[c]
          /\ e[c].kind = "dir" => e[c].parent = e[h2[c]].parent
      BY <2>2, <3>3, <1>3, <1>4, <1>7
    <3>5. e[c].prev # 0 => /\ e[c].prev \in B /\ d[e[c].prev].next = c /\ c # z
                           /\ h[e[c].prev] = h[c] /\ r[e[c].prev] < r[c]
      BY <2>2, <3>1, <1>6 DEF LinkOk
    <3>6. e[c].prev # 0 => /\ e[c].prev \in C /\ e[e[c].prev].next = c
                           /\ h2[e[c].prev] = h2[c] /\ r2[e[c].prev] < r2[c]
      <4> SUFFICES ASSUME e[c].prev # 0 PROVE e[c].prev \in C /\ e[e[c].prev].next = c
                           /\ h2[e[c].prev] = h2[c] /\ r2[e[c].prev] < r2[c]
        OBVIOUS
      <4>1. e[c].prev # t
        BY <2>2, <3>5, <1>8
      <4> QED BY <4>1, <2>2, <3>5, <1>3, <1>4, <1>7
    <3>7. e[c].prev = 0 => h2[c] = c
      BY <2>2, <3>1, <1>3, <1>6 DEF LinkOk
    <3> QED BY <2>2, <3>2, <3>4, <3>6, <3>7, <1>6 DEF LinkOk
  <2>3. CASE c \in B /\ c # t
    <3>1. LinkOk(d, B, h, r, c)
      BY <2>3, <1>1
    <3>2. e[c] = d[c]
      BY <2>3
    <3>3. h[c] \in B /\ d[h[c]].prev = 0 /\ d[h[c]].kind = d[c].kind /\ r[h[c]] <= r[c]
          /\ (d[c].kind = "dir" => d[c].parent = d[h[c]].parent)
      BY <3>1 DEF LinkOk
    <3>4. /\ h2[c] \in C /\ e[h2[c]].prev = 0 /\ e[h2[c]].kind = e[c].kind /\ r2[h2[c]] <= r2[c]
          /\ e[c].kind = "dir" => e[c].parent = e[h2[c]].parent
      BY <2>3, <3>2, <3>3, <1>3, <1>4, <1>7
    <3>5. e[c].prev # 0 => /\ e[c].prev \in C /\ e[e[c].prev].next = c
                           /\ h2[e[c].prev] = h2[c] /\ r2[e[c].prev] < r2[c]
      <4> SUFFICES ASSUME d[c].prev # 0 PROVE d[c].prev \in C /\ e[d[c].prev].next = c
                           /\ h2[d[c].prev] = h2[c] /\ r2[d[c].prev] < r2[c]
        BY <3>2
      <4> DEFINE y == d[c].prev
      <4>1. y \in B /\ d[y].next = c /\ h[y] = h[c] /\ r[y] < r[c] /\ c # 0
        BY <2>3, <3>1, <1>1 DEF LinkOk
      <4>2. y # t
        BY <4>1
      <4> HIDE DEF y
      <4>3. y \in C /\ e[y].next = c /\ h2[y] = h2[c] /\ r2[y] < r2[c]
        BY <4>1, <4>2, <2>3, <1>3, <1>4, <1>7
      <4> QED BY <4>3 DEF y
    <3>6. e[c].next # 0 => e[c].next \in C /\ e[e[c].next].prev = c
      BY <3>1, <3>2, <1>4, <1>7 DEF LinkOk
    <3>7. e[c].prev = 0 => h2[c] = c
      BY <2>3, <3>1, <3>2, <1>3 DEF LinkOk
    <3>8. e[c].kind \in {"dir", "data"}
      BY <3>1, <3>2 DEF LinkOk
    <3> QED BY <3>4, <3>5, <3>6, <3>7, <3>8 DEF LinkOk
  <2> QED BY <2>1, <2>2, <2>3, <1>4
<1>10. ASSUME NEW c \in C, NEW j \in 1 .. DirItems, Used(e, c, j)
       PROVE  ItemOk(e, C, h2, r2, o, k, c, j)
  <2>1. c \in B
    BY <1>4, <1>5, <1>10 DEF Empty, Used
  <2>2. e[c].items[j] = d[c].items[j] /\ Used(d, c, j)
    BY <2>1, <1>7, <1>10 DEF Used
  <2>3. ItemOk(d, B, h, r, o, k, c, j)
    BY <2>1, <2>2, <1>1
  <2> QED BY <2>1, <2>2, <2>3, <1>3, <1>4, <1>7 DEF ItemOk, KindOf
<1>11. ASSUME NEW y \in C, y # TFS_ROOT_DIR_BLK, e[y].prev = 0
       PROVE  HeadOk(e, C, o, k, y)
  <2>1. y \in B
    BY <1>4, <1>5, <1>8, <1>11
  <2>2. HeadOk(d, B, o, k, y)
    BY <2>1, <1>1, <1>7, <1>11
  <2> QED BY <2>2, <1>4, <1>7 DEF HeadOk, Used
<1>12. Struct(e, C, h2, r2, o, k)
  <2>1. C \subseteq Blocks
    BY <1>1, <1>4
  <2>2. /\ TFS_ROOT_DIR_BLK \in C /\ e[TFS_ROOT_DIR_BLK].kind = "dir"
        /\ e[TFS_ROOT_DIR_BLK].prev = 0 /\ e[TFS_ROOT_DIR_BLK].parent = 0
    BY <1>1, <1>4, <1>7
  <2> QED BY <2>1, <2>2, <1>2, <1>9, <1>10, <1>11 DEF Struct
<1>13. ASSUME OneEmpty(d, B, h), NoneEmpty(d, B, h, t)
       PROVE  OneEmpty(e, C, h2)
  <2> SUFFICES ASSUME NEW p \in C, NEW q \in C, e[p].kind = "dir", h2[p] = h2[q],
                      Empty(e, p), Empty(e, q)
               PROVE  p = q
    BY DEF OneEmpty
  <2>1. e[q].kind = "dir"
    <3>1. LinkOk(e, C, h2, r2, p) /\ LinkOk(e, C, h2, r2, q)
      BY <1>9
    <3> QED BY <3>1 DEF LinkOk
  <2>2. \A c \in B : e[c].kind = "dir" /\ Empty(e, c) => d[c].kind = "dir" /\ Empty(d, c) /\ h[c] # h[t]
    BY <1>7, <1>13 DEF Empty, NoneEmpty
  <2>3. CASE p \in B /\ q \in B
    BY <2>1, <2>2, <2>3, <1>3, <1>13 DEF OneEmpty
  <2> QED BY <2>1, <2>2, <2>3, <1>3, <1>4
<1>14. KeepsHeads(d, e, B, h, h2)
  BY <1>3, <1>7 DEF KeepsHeads
<1> QED BY <1>3, <1>12, <1>13, <1>14 DEF C, StillTidy

SameHeads(d, e, S) == \A c \in S : e[c].kind = d[c].kind /\ (e[c].prev = 0 <=> d[c].prev = 0)
Elsewhere(d, e, B, x, y, z) == \A c \in B : c # x /\ c # y /\ c # z => e[c] = d[c]

\* The empty block b leaves its chain.
MiddleRemoved(d, e, B, b, p, q) ==
  /\ b \in B /\ d[b].kind = "dir" /\ Empty(d, b) /\ p = d[b].prev /\ p # 0 /\ q = d[b].next
  /\ e \in Disks /\ Elsewhere(d, e, B, b, p, q)
  /\ Linked(d[p], e[p], d[p].prev, q) /\ (q # 0 => Linked(d[q], e[q], p, d[q].next))

\* A block without items that is not the first leaves its chain.
LEMMA RemoveMiddle ==
  ASSUME NEW d, NEW B, NEW h, NEW r, NEW o, NEW k, Struct(d, B, h, r, o, k),
         NEW b, NEW p, NEW q, NEW e, MiddleRemoved(d, e, B, b, p, q)
  PROVE  /\ Struct(e, B \ {b}, h, r, o, k)
         /\ SameHeads(d, e, B \ {b})
         /\ OneEmptyBut(d, B, h, b) => OneEmpty(e, B \ {b}, h)
<1> SUFFICES ASSUME b \in B, d[b].kind = "dir", Empty(d, b), p = d[b].prev, p # 0, q = d[b].next,
                    e \in Disks, Elsewhere(d, e, B, b, p, q),
                    Linked(d[p], e[p], d[p].prev, q), q # 0 => Linked(d[q], e[q], p, d[q].next)
             PROVE  /\ Struct(e, B \ {b}, h, r, o, k)
                    /\ SameHeads(d, e, B \ {b})
                    /\ OneEmptyBut(d, B, h, b) => OneEmpty(e, B \ {b}, h)
  BY DEF MiddleRemoved
<1> DEFINE C == B \ {b}
<1>1. /\ d \in Disks /\ B \subseteq Blocks /\ 0 \notin B
      /\ h \in [Blocks -> Blocks] /\ r \in [Blocks -> Nat]
      /\ TFS_ROOT_DIR_BLK \in B /\ d[TFS_ROOT_DIR_BLK].kind = "dir"
      /\ d[TFS_ROOT_DIR_BLK].prev = 0 /\ d[TFS_ROOT_DIR_BLK].parent = 0
      /\ \A c \in B : LinkOk(d, B, h, r, c)
      /\ \A c \in B, j \in 1 .. DirItems : Used(d, c, j) => ItemOk(d, B, h, r, o, k, c, j)
      /\ \A y \in B : y # TFS_ROOT_DIR_BLK /\ d[y].prev = 0 => HeadOk(d, B, o, k, y)
  BY StructOf
<1>2. p \in B /\ d[p].next = b /\ h[p] = h[b] /\ r[p] < r[b]
  BY <1>1 DEF LinkOk
<1>3. q # 0 => q \in B /\ d[q].prev = b
  BY <1>1 DEF LinkOk
<1>4. q # 0 => h[q] = h[b] /\ r[b] < r[q]
  BY <1>1, <1>3 DEF LinkOk
<1>5. b # 0 /\ p # b /\ p # q /\ q # b
  <2>1. b # 0 /\ p \in Blocks /\ b \in Blocks
    BY <1>1, <1>2
  <2>2. r[p] \in Nat /\ r[b] \in Nat
    BY <2>1, <1>1
  <2>3. q # 0 => r[q] \in Nat
    BY <1>1, <1>3
  <2> QED BY <2>1, <2>2, <2>3, <1>2, <1>4
<1>6. \A c : c \in C <=> c \in B /\ c # b
  OBVIOUS
<1>7. \A c \in C : /\ e[c].kind = d[c].kind
                   /\ e[c].prev = IF c = q THEN p ELSE d[c].prev
                   /\ e[c].next = IF c = p THEN q ELSE d[c].next
                   /\ e[c].kind = "dir" => e[c].parent = d[c].parent /\ e[c].items = d[c].items
  <2> TAKE c \in C
  <2>1. CASE c = p
    BY <2>1, <1>5 DEF Linked
  <2>2. CASE c = q
    <3>1. q # 0
      BY <2>2, <1>1, <1>6
    <3> QED BY <3>1, <2>2, <1>5 DEF Linked
  <2>3. CASE c # p /\ c # q
    BY <2>3, <1>6 DEF Elsewhere
  <2> QED BY <2>1, <2>2, <2>3
<1> HIDE DEF C
<1>8. \A c \in C : d[c].next = b <=> c = p
  <2> TAKE c \in C
  <2>1. c \in B /\ c # b
    BY <1>6
  <2>2. d[c].next = b => d[b].prev = c
    BY <2>1, <1>1, <1>5 DEF LinkOk
  <2> QED BY <2>2, <1>2
<1>9. \A c \in C : d[c].prev = b <=> c = q
  <2> TAKE c \in C
  <2>1. c \in B /\ c # b /\ c # 0
    BY <1>1, <1>6
  <2>2. d[c].prev = b => d[b].next = c
    BY <2>1, <1>1, <1>5 DEF LinkOk
  <2> QED BY <2>1, <2>2, <1>3
<1>10. \A c \in B : d[c].prev = 0 => c \in C /\ e[c].prev = 0
  <2> TAKE c \in B
  <2> HAVE d[c].prev = 0
  <2>1. c # b /\ c # q /\ c # 0
    BY <1>1, <1>3, <1>5
  <2> QED BY <2>1, <1>6, <1>7
<1>11. ASSUME NEW c \in C PROVE LinkOk(e, C, h, r, c)
  <2>1. c \in B /\ c # b /\ c # 0 /\ LinkOk(d, B, h, r, c)
    BY <1>1, <1>6
  <2>2. h[c] \in B /\ d[h[c]].prev = 0 /\ d[h[c]].kind = d[c].kind /\ r[h[c]] <= r[c]
        /\ (d[c].kind = "dir" => d[c].parent = d[h[c]].parent)
    BY <2>1 DEF LinkOk
  <2>3. /\ h[c] \in C /\ e[h[c]].prev = 0 /\ e[h[c]].kind = e[c].kind /\ r[h[c]] <= r[c]
        /\ e[c].kind = "dir" => e[c].parent = e[h[c]].parent
    <3>1. h[c] \in C /\ e[h[c]].prev = 0
      BY <2>2, <1>10
    <3> QED BY <3>1, <2>2, <1>7
  <2>4. e[c].prev = 0 => h[c] = c
    <3>1. e[c].prev = 0 => d[c].prev = 0
      BY <1>7
    <3> QED BY <3>1, <2>1 DEF LinkOk
  <2>5. e[c].prev # 0 => /\ e[c].prev \in C /\ e[e[c].prev].next = c
                         /\ h[e[c].prev] = h[c] /\ r[e[c].prev] < r[c]
    <3>1. CASE c = q
      <4>1. e[c].prev = p /\ p \in C /\ e[p].next = q /\ h[p] = h[c]
        BY <3>1, <2>1, <1>2, <1>4, <1>5, <1>6, <1>7
      <4>2. r[p] < r[c]
        <5>1. r[p] \in Nat /\ r[b] \in Nat /\ r[c] \in Nat
          BY <2>1, <1>1, <1>2
        <5> QED BY <5>1, <3>1, <2>1, <1>2, <1>4
      <4> QED BY <4>1, <4>2, <3>1
    <3>2. CASE c # q
      <4> SUFFICES ASSUME e[c].prev # 0
                   PROVE  /\ e[c].prev \in C /\ e[e[c].prev].next = c
                          /\ h[e[c].prev] = h[c] /\ r[e[c].prev] < r[c]
        OBVIOUS
      <4> DEFINE y == d[c].prev
      <4>1. e[c].prev = y /\ y # 0 /\ y # b
        BY <3>2, <1>7, <1>9
      <4>2. y \in B /\ d[y].next = c /\ h[y] = h[c] /\ r[y] < r[c]
        BY <4>1, <2>1 DEF LinkOk
      <4> HIDE DEF y
      <4>3. y \in C /\ y # p
        BY <4>1, <4>2, <2>1, <1>2, <1>6
      <4> QED BY <4>1, <4>2, <4>3, <1>7
    <3> QED BY <3>1, <3>2
  <2>6. e[c].next # 0 => e[c].next \in C /\ e[e[c].next].prev = c
    <3>1. CASE c = p
      BY <3>1, <1>3, <1>5, <1>6, <1>7
    <3>2. CASE c # p
      <4> SUFFICES ASSUME e[c].next # 0 PROVE e[c].next \in C /\ e[e[c].next].prev = c
        OBVIOUS
      <4> DEFINE y == d[c].next
      <4>1. e[c].next = y /\ y # 0 /\ y # b
        BY <3>2, <1>7, <1>8
      <4>2. y \in B /\ d[y].prev = c
        BY <4>1, <2>1 DEF LinkOk
      <4> HIDE DEF y
      <4>3. y \in C /\ y # q
        BY <4>1, <4>2, <2>1, <1>3, <1>6
      <4> QED BY <4>1, <4>2, <4>3, <1>7
    <3> QED BY <3>1, <3>2
  <2>7. e[c].kind \in {"dir", "data"}
    BY <2>1, <1>7 DEF LinkOk
  <2> QED BY <2>3, <2>4, <2>5, <2>6, <2>7 DEF LinkOk
<1>12. ASSUME NEW c \in C, NEW j \in 1 .. DirItems, Used(e, c, j)
       PROVE  ItemOk(e, C, h, r, o, k, c, j)
  <2>1. c \in B /\ e[c].items[j] = d[c].items[j] /\ Used(d, c, j)
    BY <1>6, <1>7, <1>12 DEF Used
  <2>2. ItemOk(d, B, h, r, o, k, c, j)
    BY <2>1, <1>1
  <2> DEFINE y == d[c].items[j].blk
  <2>3. CASE y = 0
    BY <2>1, <2>3 DEF ItemOk
  <2>4. CASE y # 0
    <3>1. y \in B /\ d[y].prev = 0
      BY <2>2, <2>4 DEF ItemOk
    <3>2. y \in C /\ e[y].prev = 0
      BY <3>1, <1>10
    <3>3. e[y].kind = d[y].kind /\ (d[y].kind = "dir" => e[y].parent = d[y].parent)
      BY <3>2, <1>7
    <3> QED BY <2>1, <2>2, <2>4, <3>2, <3>3 DEF ItemOk, KindOf
  <2> QED BY <2>3, <2>4
<1>13. ASSUME NEW y \in C, y # TFS_ROOT_DIR_BLK, e[y].prev = 0
       PROVE  HeadOk(e, C, o, k, y)
  <2>1. y \in B /\ d[y].prev = 0
    BY <1>6, <1>7, <1>13
  <2>2. HeadOk(d, B, o, k, y)
    BY <2>1, <1>1, <1>13
  <2>3. o[y] \in C
    BY <2>2, <1>6 DEF HeadOk, Used, Empty
  <2> QED BY <2>2, <2>3, <1>7 DEF HeadOk, Used
<1>14. Struct(e, C, h, r, o, k)
  <2>1. C \subseteq Blocks
    BY <1>1, <1>6
  <2>2. /\ TFS_ROOT_DIR_BLK \in C /\ e[TFS_ROOT_DIR_BLK].kind = "dir"
        /\ e[TFS_ROOT_DIR_BLK].prev = 0 /\ e[TFS_ROOT_DIR_BLK].parent = 0
    BY <1>1, <1>7, <1>10
  <2> QED BY <2>1, <2>2, <1>1, <1>11, <1>12, <1>13 DEF Struct
<1>15. \A c \in C : e[c].kind = d[c].kind /\ (e[c].prev = 0 <=> d[c].prev = 0)
  <2> TAKE c \in C
  <2>1. c = q => d[c].prev # 0
    BY <1>5, <1>9
  <2> QED BY <2>1, <1>7
<1>16. ASSUME OneEmptyBut(d, B, h, b) PROVE OneEmpty(e, C, h)
  <2> SUFFICES ASSUME NEW x \in C, NEW y \in C, e[x].kind = "dir", h[x] = h[y],
                      Empty(e, x), Empty(e, y)
               PROVE  x = y
    BY DEF OneEmpty
  <2>1. e[y].kind = "dir"
    <3>1. LinkOk(e, C, h, r, x) /\ LinkOk(e, C, h, r, y)
      BY <1>11
    <3> QED BY <3>1 DEF LinkOk
  <2>2. \A c \in C : e[c].kind = "dir" /\ Empty(e, c) => d[c].kind = "dir" /\ Empty(d, c)
    BY <1>7 DEF Empty
  <2> QED BY <2>1, <2>2, <1>6, <1>16 DEF OneEmptyBut
<1> QED BY <1>14, <1>15, <1>16 DEF C, SameHeads

\* The head b of a chain is empty and takes over the content of the next block n.
HeadRemoved(d, e, B, b, n, q) ==
  /\ b \in B /\ d[b].kind = "dir" /\ Empty(d, b) /\ d[b].prev = 0
  /\ n = d[b].next /\ n # 0 /\ q = d[n].next
  /\ e \in Disks /\ Elsewhere(d, e, B, b, n, q)
  /\ Linked(d[n], e[b], 0, q) /\ (q # 0 => Linked(d[q], e[q], b, d[q].next))

\* The first block takes over the content of the second one, which is freed.
LEMMA RemoveHead ==
  ASSUME NEW d, NEW B, NEW h, NEW r, NEW o, NEW k, Struct(d, B, h, r, o, k),
         NEW b, NEW n, NEW q, NEW e, HeadRemoved(d, e, B, b, n, q)
  PROVE  /\ \E o2 : Struct(e, B \ {n}, h, r, o2, k)
         /\ n \in B /\ d[n].prev # 0
         /\ SameHeads(d, e, B \ {n})
         /\ OneEmptyBut(d, B, h, b) => OneEmpty(e, B \ {n}, h)
<1> SUFFICES ASSUME b \in B, d[b].kind = "dir", Empty(d, b), d[b].prev = 0,
                    n = d[b].next, n # 0, q = d[n].next, e \in Disks, Elsewhere(d, e, B, b, n, q),
                    Linked(d[n], e[b], 0, q), q # 0 => Linked(d[q], e[q], b, d[q].next)
             PROVE  /\ \E o2 : Struct(e, B \ {n}, h, r, o2, k)
                    /\ n \in B /\ d[n].prev # 0
                    /\ SameHeads(d, e, B \ {n})
                    /\ OneEmptyBut(d, B, h, b) => OneEmpty(e, B \ {n}, h)
  BY DEF HeadRemoved
<1> DEFINE C == B \ {n}
           o2 == [x \in B |-> IF o[x] = n THEN b ELSE o[x]]
<1>1. /\ d \in Disks /\ B \subseteq Blocks /\ 0 \notin B
      /\ h \in [Blocks -> Blocks] /\ r \in [Blocks -> Nat]
      /\ TFS_ROOT_DIR_BLK \in B /\ d[TFS_ROOT_DIR_BLK].kind = "dir"
      /\ d[TFS_ROOT_DIR_BLK].prev = 0 /\ d[TFS_ROOT_DIR_BLK].parent = 0
      /\ \A c \in B : LinkOk(d, B, h, r, c)
      /\ \A c \in B, j \in 1 .. DirItems : Used(d, c, j) => ItemOk(d, B, h, r, o, k, c, j)
      /\ \A y \in B : y # TFS_ROOT_DIR_BLK /\ d[y].prev = 0 => HeadOk(d, B, o, k, y)
  BY StructOf
<1>2. n \in B /\ d[n].prev = b /\ h[b] = b
  BY <1>1 DEF LinkOk
<1>3. b # 0 /\ h[n] = b /\ r[b] < r[n] /\ r[b] \in Nat /\ r[n] \in Nat
  BY <1>1, <1>2 DEF LinkOk
<1>4. q # 0 => q \in B /\ d[q].prev = n
  BY <1>1, <1>2 DEF LinkOk
<1>5. q # 0 => h[q] = b /\ r[n] < r[q] /\ r[q] \in Nat
  BY <1>1, <1>2, <1>3, <1>4 DEF LinkOk
<1>6. b # n /\ b # q /\ n # q
  BY <1>3, <1>5
<1>7. d[n].kind = "dir" /\ d[n].parent = d[b].parent
  BY <1>1, <1>2, <1>3 DEF LinkOk
<1>8. \A c : c \in C <=> c \in B /\ c # n
  OBVIOUS
<1>9. \A y \in B : o2[y] = IF o[y] = n THEN b ELSE o[y]
  OBVIOUS
<1>10. \A c \in C : /\ e[c].kind = d[c].kind
                    /\ e[c].prev = IF c = q THEN b ELSE d[c].prev
                    /\ e[c].next = IF c = b THEN q ELSE d[c].next
                    /\ e[c].kind = "dir" =>
                         e[c].parent = d[c].parent /\ e[c].items = IF c = b THEN d[n].items ELSE d[c].items
  <2> TAKE c \in C
  <2>1. CASE c = b
    BY <2>1, <1>6, <1>7 DEF Linked
  <2>2. CASE c = q
    <3>1. q # 0
      BY <2>2, <1>1, <1>8
    <3> QED BY <3>1, <2>2, <1>6 DEF Linked
  <2>3. CASE c # b /\ c # q
    BY <2>3, <1>8 DEF Elsewhere
  <2> QED BY <2>1, <2>2, <2>3
<1> HIDE DEF C, o2
<1>11. \A c \in C : d[c].next = n <=> c = b
  <2> TAKE c \in C
  <2>1. c \in B
    BY <1>8
  <2>2. d[c].next = n => d[n].prev = c
    BY <2>1, <1>1 DEF LinkOk
  <2> QED BY <2>2, <1>2
<1>12. \A c \in C : d[c].prev = n <=> c = q
  <2> TAKE c \in C
  <2>1. c \in B /\ c # 0 /\ n # 0
    BY <1>1, <1>2, <1>8
  <2>2. d[c].prev = n => d[n].next = c
    BY <2>1, <1>1 DEF LinkOk
  <2> QED BY <2>1, <2>2, <1>4
<1>13. \A c \in B : d[c].prev = 0 => c \in C /\ e[c].prev = 0
  <2> TAKE c \in B
  <2> HAVE d[c].prev = 0
  <2>1. c # n /\ c # q /\ c # 0
    BY <1>1, <1>2, <1>3, <1>4
  <2> QED BY <2>1, <1>8, <1>10
<1>14. ASSUME NEW c \in C PROVE LinkOk(e, C, h, r, c)
  <2>1. c \in B /\ c # n /\ c # 0 /\ LinkOk(d, B, h, r, c)
    BY <1>1, <1>8
  <2>2. h[c] \in B /\ d[h[c]].prev = 0 /\ d[h[c]].kind = d[c].kind /\ r[h[c]] <= r[c]
        /\ (d[c].kind = "dir" => d[c].parent = d[h[c]].parent)
    BY <2>1 DEF LinkOk
  <2>3. /\ h[c] \in C /\ e[h[c]].prev = 0 /\ e[h[c]].kind = e[c].kind /\ r[h[c]] <= r[c]
        /\ e[c].kind = "dir" => e[c].parent = e[h[c]].parent
    <3>1. h[c] \in C /\ e[h[c]].prev = 0
      BY <2>2, <1>13
    <3> QED BY <3>1, <2>2, <1>10
  <2>4. e[c].prev = 0 => h[c] = c
    <3>1. e[c].prev = 0 => d[c].prev = 0
      BY <1>3, <1>10
    <3> QED BY <3>1, <2>1 DEF LinkOk
  <2>5. e[c].prev # 0 => /\ e[c].prev \in C /\ e[e[c].prev].next = c
                         /\ h[e[c].prev] = h[c] /\ r[e[c].prev] < r[c]
    <3>1. CASE c = q
      <4>1. e[c].prev = b /\ b \in C /\ e[b].next = q /\ h[b] = h[c]
        BY <3>1, <2>1, <1>2, <1>5, <1>6, <1>8, <1>10
      <4>2. r[b] < r[c]
        BY <3>1, <2>1, <1>3, <1>5
      <4> QED BY <4>1, <4>2, <3>1
    <3>2. CASE c # q
      <4> SUFFICES ASSUME e[c].prev # 0
                   PROVE  /\ e[c].prev \in C /\ e[e[c].prev].next = c
                          /\ h[e[c].prev] = h[c] /\ r[e[c].prev] < r[c]
        OBVIOUS
      <4> DEFINE y == d[c].prev
      <4>1. e[c].prev = y /\ y # 0 /\ y # n
        BY <3>2, <1>10, <1>12
      <4>2. y \in B /\ d[y].next = c /\ h[y] = h[c] /\ r[y] < r[c]
        BY <4>1, <2>1 DEF LinkOk
      <4> HIDE DEF y
      <4>3. y \in C /\ y # b
        BY <4>1, <4>2, <2>1, <1>8
      <4> QED BY <4>1, <4>2, <4>3, <1>10
    <3> QED BY <3>1, <3>2
  <2>6. e[c].next # 0 => e[c].next \in C /\ e[e[c].next].prev = c
    <3>1. CASE c = b
      BY <3>1, <1>4, <1>6, <1>8, <1>10
    <3>2. CASE c # b
      <4> SUFFICES ASSUME e[c].next # 0 PROVE e[c].next \in C /\ e[e[c].next].prev = c
        OBVIOUS
      <4> DEFINE y == d[c].next
      <4>1. e[c].next = y /\ y # 0 /\ y # n
        BY <3>2, <1>10, <1>11
      <4>2. y \in B /\ d[y].prev = c
        BY <4>1, <2>1 DEF LinkOk
      <4> HIDE DEF y
      <4>3. y \in C /\ y # q
        BY <4>1, <4>2, <2>1, <1>4, <1>8
      <4> QED BY <4>1, <4>2, <4>3, <1>10
    <3> QED BY <3>1, <3>2
  <2>7. e[c].kind \in {"dir", "data"}
    BY <2>1, <1>10 DEF LinkOk
  <2> QED BY <2>3, <2>4, <2>5, <2>6, <2>7 DEF LinkOk
<1>15. ASSUME NEW c \in C, NEW j \in 1 .. DirItems, Used(e, c, j)
       PROVE  ItemOk(e, C, h, r, o2, k, c, j)
  <2> DEFINE a == IF c = b THEN n ELSE c
             y == d[a].items[j].blk
  <2>1. a \in B /\ e[c].items[j] = d[a].items[j] /\ Used(d, a, j)
    BY <1>2, <1>7, <1>8, <1>10, <1>15 DEF Used
  <2>2. ItemOk(d, B, h, r, o, k, a, j)
    BY <2>1, <1>1
  <2>3. h[a] = h[c] /\ r[c] <= r[a] /\ r[a] \in Nat /\ r[c] \in Nat
    BY <2>1, <1>1, <1>2, <1>3, <1>8
  <2>4. \A z : (IF a = n THEN b ELSE a) = c
    BY <1>8
  <2> HIDE DEF a
  <2>5. CASE y = 0
    BY <2>1, <2>5 DEF ItemOk
  <2>6. CASE y # 0
    <3>1. /\ y \in B /\ y # TFS_ROOT_DIR_BLK /\ d[y].prev = 0 /\ d[y].kind = KindOf(d[a].items[j])
          /\ r[a] < r[y] /\ o[y] = a /\ k[y] = j
          /\ d[a].items[j].type = DIR => d[y].parent = h[a]
      BY <2>2, <2>6 DEF ItemOk
    <3>2. y \in C /\ e[y].prev = 0
      BY <3>1, <1>13
    <3>3. e[y].kind = d[y].kind /\ (d[y].kind = "dir" => e[y].parent = d[y].parent)
      BY <3>2, <1>10
    <3>4. o2[y] = c
      BY <3>1, <1>9, <2>4
    <3>5. r[c] < r[y]
      <4>1. r[y] \in Nat
        BY <3>1, <1>1
      <4> QED BY <4>1, <3>1, <2>3
    <3>6. d[a].items[j].type = DIR => e[y].parent = h[c]
      BY <3>1, <3>3, <2>3 DEF KindOf
    <3> HIDE DEF y
    <3> QED BY <2>1, <3>1, <3>2, <3>3, <3>4, <3>5, <3>6 DEF ItemOk, y
  <2> QED BY <2>5, <2>6
<1>16. ASSUME NEW y \in C, y # TFS_ROOT_DIR_BLK, e[y].prev = 0
       PROVE  HeadOk(e, C, o2, k, y)
  <2>1. y \in B /\ d[y].prev = 0
    BY <1>3, <1>8, <1>10, <1>16
  <2>2. HeadOk(d, B, o, k, y)
    BY <2>1, <1>1, <1>16
  <2>3. o[y] # b /\ o[y] \in B
    BY <2>2 DEF HeadOk, Used, Empty
  <2>4. o2[y] \in C
    BY <2>1, <2>3, <1>6, <1>8, <1>9
  <2>5. e[o2[y]].kind = "dir" /\ e[o2[y]].items = d[o[y]].items
    <3>1. CASE o[y] = n
      BY <3>1, <2>1, <2>4, <1>9, <1>10
    <3>2. CASE o[y] # n
      <4>1. o2[y] = o[y] /\ d[o[y]].kind = "dir"
        BY <3>2, <2>1, <2>2, <1>9 DEF HeadOk, Used
      <4> QED BY <4>1, <2>3, <2>4, <1>10
    <3> QED BY <3>1, <3>2
  <2> QED BY <2>2, <2>4, <2>5 DEF HeadOk, Used
<1>17. \E x : Struct(e, C, h, r, x, k)
  <2>1. C \subseteq Blocks
    BY <1>1, <1>8
  <2>2. /\ TFS_ROOT_DIR_BLK \in C /\ e[TFS_ROOT_DIR_BLK].kind = "dir"
        /\ e[TFS_ROOT_DIR_BLK].prev = 0 /\ e[TFS_ROOT_DIR_BLK].parent = 0
    BY <1>1, <1>10, <1>13
  <2>3. Struct(e, C, h, r, o2, k)
    BY <2>1, <2>2, <1>1, <1>14, <1>15, <1>16 DEF Struct
  <2> QED BY <2>3
<1>18. \A c \in C : e[c].kind = d[c].kind /\ (e[c].prev = 0 <=> d[c].prev = 0)
  <2> TAKE c \in C
  <2>1. c = q => d[c].prev # 0
    BY <1>2, <1>12
  <2> QED BY <2>1, <1>3, <1>10
<1>19. ASSUME OneEmptyBut(d, B, h, b) PROVE OneEmpty(e, C, h)
  <2> SUFFICES ASSUME NEW x \in C, NEW y \in C, e[x].kind = "dir", h[x] = h[y],
                      Empty(e, x), Empty(e, y)
               PROVE  x = y
    BY DEF OneEmpty
  <2>1. e[y].kind = "dir"
    <3>1. LinkOk(e, C, h, r, x) /\ LinkOk(e, C, h, r, y)
      BY <1>14
    <3> QED BY <3>1 DEF LinkOk
  <2> DEFINE At(c) == IF c = b THEN n ELSE c
  <2>2. \A c \in C : e[c].kind = "dir" /\ Empty(e, c) =>
          At(c) \in B /\ d[At(c)].kind = "dir" /\ Empty(d, At(c)) /\ h[At(c)] = h[c] /\ At(c) # b
    BY <1>2, <1>3, <1>6, <1>7, <1>8, <1>10 DEF Empty
  <2>3. At(x) = At(y) => x = y
    BY <1>8
  <2> HIDE DEF At
  <2> QED BY <2>1, <2>2, <2>3, <1>19 DEF OneEmptyBut
<1>20. d[n].prev # 0
  BY <1>2, <1>3
<1> QED BY <1>2, <1>17, <1>18, <1>19, <1>20 DEF C, SameHeads

-----------------------------------------------------------------------------
(* write_dir_cleanup, and the blocks freed after it.                       *)

\* A list of one write of a block.
LEMMA RunPut ==
  ASSUME NEW d, NEW u, NEW b, NEW c
  PROVE  Run(St(d, u), <<Put(b, c)>>) = St([d EXCEPT ![b] = c], u)
<1>1. Run(St(d, u), <<Put(b, c)>>) = Apply(St(d, u), Put(b, c))
  BY RunOne
<1>2. Apply(St(d, u), Put(b, c)) = St([d EXCEPT ![b] = c], u)
  BY ApplyPut
<1> QED BY <1>1, <1>2

\* A list of one block that is freed.
LEMMA RunFree ==
  ASSUME NEW d, NEW u, NEW b
  PROVE  Run(St(d, u), <<Free(b)>>) = St([d EXCEPT ![b] = Junk], u \ {b})
<1>1. Run(St(d, u), <<Free(b)>>) = Apply(St(d, u), Free(b))
  BY RunOne
<1>2. Apply(St(d, u), Free(b)) = St([d EXCEPT ![b] = Junk], u \ {b})
  BY ApplyFree
<1> QED BY <1>1, <1>2

\* What holds of the blocks of the structure does not depend on the other blocks.
LEMMA StructSame ==
  ASSUME NEW d, NEW B, NEW h, NEW r, NEW o, NEW k, Struct(d, B, h, r, o, k),
         NEW e \in Disks, \A x \in B : e[x] = d[x]
  PROVE  Struct(e, B, h, r, o, k) /\ (OneEmpty(d, B, h) => OneEmpty(e, B, h))
<1>1. /\ d \in Disks /\ B \subseteq Blocks /\ 0 \notin B
      /\ h \in [Blocks -> Blocks] /\ r \in [Blocks -> Nat]
      /\ TFS_ROOT_DIR_BLK \in B /\ d[TFS_ROOT_DIR_BLK].kind = "dir"
      /\ d[TFS_ROOT_DIR_BLK].prev = 0 /\ d[TFS_ROOT_DIR_BLK].parent = 0
      /\ \A c \in B : LinkOk(d, B, h, r, c)
      /\ \A c \in B, j \in 1 .. DirItems : Used(d, c, j) => ItemOk(d, B, h, r, o, k, c, j)
      /\ \A y \in B : y # TFS_ROOT_DIR_BLK /\ d[y].prev = 0 => HeadOk(d, B, o, k, y)
  BY StructOf
<1>2. Keeps(d, e, B \cap B, h, h, r, r) /\ KeepsOwners(B \cap B, o, o, k, k)
  BY DEF Keeps, KeepsOwners, SameLinks
<1>3. ASSUME NEW c \in B PROVE LinkOk(e, B, h, r, c)
  <2>1. LinkOk(d, B, h, r, c)
    BY <1>1
  <2>2. h[c] \in B /\ (d[c].prev # 0 => d[c].prev \in B) /\ (d[c].next # 0 => d[c].next \in B)
    BY <2>1 DEF LinkOk
  <2> QED BY <2>1, <2>2, <1>2, KeepLink
<1>4. ASSUME NEW c \in B, NEW j \in 1 .. DirItems, Used(e, c, j)
      PROVE  ItemOk(e, B, h, r, o, k, c, j)
  <2>1. Used(d, c, j) /\ e[c].items[j] = d[c].items[j]
    BY <1>4 DEF Used
  <2>2. ItemOk(d, B, h, r, o, k, c, j)
    BY <2>1, <1>1
  <2>3. d[c].items[j].blk # 0 => d[c].items[j].blk \in B
    BY <2>2 DEF ItemOk
  <2> QED BY <2>1, <2>2, <2>3, <1>2, KeepItem
<1>5. ASSUME NEW y \in B, y # TFS_ROOT_DIR_BLK, e[y].prev = 0
      PROVE  HeadOk(e, B, o, k, y)
  <2>1. HeadOk(d, B, o, k, y)
    BY <1>1, <1>5
  <2> QED BY <2>1 DEF HeadOk, Used
<1>6. Struct(e, B, h, r, o, k)
  BY <1>1, <1>3, <1>4, <1>5 DEF Struct
<1> QED BY <1>6 DEF OneEmpty, Empty

\* Content x goes to a block, y to a second one if there is one, block g is freed.
Moves(to, x, n, y, g) == <<Put(to, x)>> \o (IF n = 0 THEN <<>> ELSE <<Put(n, y)>>) \o <<Free(g)>>
Moved(d, to, x, n, y, g) ==
  [(IF n = 0 THEN [d EXCEPT ![to] = x] ELSE [[d EXCEPT ![to] = x] EXCEPT ![n] = y])
     EXCEPT ![g] = Junk]

\* What the writes of write_dir_cleanup leave on the drive.
LEMMA RunMoves ==
  ASSUME NEW d, NEW u, NEW to, NEW x, NEW n, NEW y, NEW g
  PROVE  Run(St(d, u), Moves(to, x, n, y, g)) = St(Moved(d, to, x, n, y, g), u \ {g})
<1> DEFINE W == {Put(to, x), Put(n, y), Free(g)}
           a == <<Put(to, x)>>
           m == IF n = 0 THEN <<>> ELSE <<Put(n, y)>>
           z == <<Free(g)>>
           d1 == [d EXCEPT ![to] = x]
           d2 == IF n = 0 THEN d1 ELSE [d1 EXCEPT ![n] = y]
<1>1. a \in Seq(W) /\ m \in Seq(W) /\ z \in Seq(W)
  <2>1. Put(to, x) \in W /\ Put(n, y) \in W /\ Free(g) \in W
    OBVIOUS
  <2> HIDE DEF W
  <2> QED BY <2>1
<1>2. Run(St(d, u), a) = St(d1, u)
  BY RunPut
<1> HIDE DEF d1
<1>3. Run(St(d1, u), m) = St(d2, u)
  <2>1. CASE n = 0
    <3>1. m = <<>> /\ d2 = d1
      BY <2>1
    <3>2. Run(St(d1, u), <<>>) = St(d1, u)
      BY RunNone
    <3> QED BY <3>1, <3>2
  <2>2. CASE n # 0
    <3>1. Run(St(d1, u), <<Put(n, y)>>) = St([d1 EXCEPT ![n] = y], u)
      BY RunPut
    <3>2. m = <<Put(n, y)>> /\ d2 = [d1 EXCEPT ![n] = y]
      BY <2>2
    <3> HIDE DEF m, d2
    <3> QED BY <3>1, <3>2
  <2> QED BY <2>1, <2>2
<1> HIDE DEF d2
<1>4. Run(St(d2, u), z) = St([d2 EXCEPT ![g] = Junk], u \ {g})
  BY RunFree
<1> HIDE DEF W, a, m, z
<1>5. a \o m \in Seq(W)
  BY <1>1
<1>6. Run(St(d, u), a \o m) = Run(Run(St(d, u), a), m)
  BY <1>1, RunBoth
<1>7. Run(St(d, u), (a \o m) \o z) = Run(Run(St(d, u), a \o m), z)
  BY <1>1, <1>5, RunBoth
<1>8. Run(St(d, u), (a \o m) \o z) = St([d2 EXCEPT ![g] = Junk], u \ {g})
  BY <1>2, <1>3, <1>4, <1>6, <1>7
<1> QED BY <1>8 DEF a, m, z, d1, d2, Moves, Moved

\* write_dir_cleanup is a list of writes.
LEMMA CleanupType ==
  ASSUME NEW b, NEW c
  PROVE  \E W : write_dir_cleanup(b, c) \in Seq(W)
<1> DEFINE ws == write_dir_cleanup(b, c)
           head == c.prev = 0
           to   == IF head THEN b ELSE c.prev
           gone == IF head THEN c.next ELSE b
           next == disk[gone].next
           x == Put(b, c)
           y == Put(to, IF head THEN [disk[gone] EXCEPT !.prev = 0] ELSE [disk[to] EXCEPT !.next = next])
           z == Put(next, [disk[next] EXCEPT !.prev = to])
           m == IF next = 0 THEN <<>> ELSE <<z>>
           W == {x, y, z, Free(gone)}
<1>1. ws = <<x>> \/ ws = (<<y>> \o m) \o <<Free(gone)>>
  BY DEF write_dir_cleanup
<1>2. x \in W /\ y \in W /\ z \in W /\ Free(gone) \in W
  OBVIOUS
<1>3. m \in Seq(W)
  <2> HIDE DEF z, W
  <2> QED BY <1>2
<1> HIDE DEF ws, x, y, m, W, gone
<1>4. <<x>> \in Seq(W) /\ (<<y>> \o m) \o <<Free(gone)>> \in Seq(W)
  BY <1>2, <1>3
<1>5. ws \in Seq(W)
  BY <1>1, <1>4
<1> QED BY <1>5 DEF ws

\* A chain of one block has no other block.
LEMMA OneBlock ==
  ASSUME NEW d, NEW B, NEW h, NEW r, NEW o, NEW k, Struct(d, B, h, r, o, k),
         NEW b \in B, d[b].prev = 0, d[b].next = 0, NEW c \in B, h[c] = b
  PROVE  c = b
<1> DEFINE ch == Chain(d, b)
<1>1. ChainIs(d, B, h, b, ch)
  BY ChainOf
<1> HIDE DEF ch
<1>2. /\ Len(ch) \in Nat /\ ch[1] = b /\ ch \in Seq(Blocks) /\ Len(ch) >= 1
      /\ \E i \in 1 .. Len(ch) : ch[i] = c
  BY <1>1 DEF ChainIs
<1>3. Len(ch) = 1
  <2> SUFFICES ASSUME Len(ch) # 1 PROVE FALSE
    OBVIOUS
  <2> DEFINE n == Len(ch)
  <2>0. n \in Nat /\ n >= 1 /\ n # 1
    BY <1>2
  <2>1. 1 \in 1 .. n /\ 2 \in 1 .. n /\ 1 + 1 = 2
    <3> HIDE DEF n
    <3> QED BY <2>0
  <2>2. ch[2] \in Blocks
    BY <2>1, <1>2
  <2>3. d[ch[1]].next = IF 1 = Len(ch) THEN 0 ELSE ch[1 + 1]
    BY <2>1, <1>1 DEF ChainIs
  <2> QED BY <2>1, <2>2, <2>3, <1>2, Sizes
<1> QED BY <1>2, <1>3

\* b gets content c, which makes d of the drive, ch are blocks not in use any more.
Cleans(d, b, c, B, h, r, o, k, ch) ==
  /\ disk \in Disks /\ c \in DirBlks /\ c.prev = disk[b].prev /\ c.next = disk[b].next
  /\ d \in Disks /\ \A x \in Blocks : d[x] = IF x = b THEN c ELSE disk[x]
CleanSet(d, b, B, h, r, o, k, ch) ==
  /\ Struct(d, B, h, r, o, k) /\ b \in B /\ OneEmptyBut(d, B, h, b)
  /\ ch \in Seq(Blocks) /\ Range(ch) \cap B = {}
CleanedAs(d, b, c, B, h, r, k, ch, u, e, C, o2) ==
  /\ Run(St(disk, u), write_dir_cleanup(b, c) \o Frees(ch)) =
       St(e, (u \ (B \ C)) \ Range(ch))
  /\ C \subseteq B /\ Struct(e, C, h, r, o2, k) /\ OneEmpty(e, C, h)
  /\ \A x \in B : d[x].prev = 0 => x \in C /\ e[x].prev = 0 /\ e[x].kind = d[x].kind

\* What write_dir_cleanup makes of a directory block that lost an entry; the blocks
\* ch, no longer part of the structure, are freed after it.
LEMMA CleanupKeeps ==
  ASSUME NEW d, NEW b, NEW c, NEW B, NEW h, NEW r, NEW o, NEW k, NEW ch, NEW u,
         Cleans(d, b, c, B, h, r, o, k, ch), CleanSet(d, b, B, h, r, o, k, ch)
  PROVE  \E e, C, o2 : CleanedAs(d, b, c, B, h, r, k, ch, u, e, C, o2)
<1> SUFFICES ASSUME disk \in Disks, c \in DirBlks, c.prev = disk[b].prev, c.next = disk[b].next,
                    d \in Disks, \A x \in Blocks : d[x] = IF x = b THEN c ELSE disk[x],
                    Struct(d, B, h, r, o, k), b \in B, OneEmptyBut(d, B, h, b),
                    ch \in Seq(Blocks), Range(ch) \cap B = {}
             PROVE  \E e, C, o2 : CleanedAs(d, b, c, B, h, r, k, ch, u, e, C, o2)
  BY DEF Cleans, CleanSet
<1> DEFINE Off(e) == [x \in Blocks |-> IF x \in Range(ch) THEN Junk ELSE e[x]]
           Ends(e, v, o2) ==
             \E C : /\ v = u \ (B \ C)
                    /\ C \subseteq B /\ Struct(Off(e), C, h, r, o2, k) /\ OneEmpty(Off(e), C, h)
                    /\ \A x \in B : d[x].prev = 0 =>
                         x \in C /\ Off(e)[x].prev = 0 /\ Off(e)[x].kind = d[x].kind
<1>1. /\ d \in Disks /\ B \subseteq Blocks /\ 0 \notin B
      /\ r \in [Blocks -> Nat] /\ \A x \in B : LinkOk(d, B, h, r, x)
  BY StructOf
<1>2. b \in Blocks /\ d[b] = c /\ c.kind = "dir" /\ \A x \in Blocks : x # b => d[x] = disk[x]
  <2>1. b \in Blocks
    BY <1>1
  <2> QED BY <2>1 DEF DirBlks
<1>3. \A e \in Disks : /\ Off(e) \in Disks /\ \A x \in B : Off(e)[x] = e[x]
                       /\ e = [x \in Blocks |-> e[x]] /\ DOMAIN e = Blocks
  BY <1>1 DEF Disks, Contents
<1>30. d = [disk EXCEPT ![b] = c]
  <2>1. d = [x \in Blocks |-> d[x]] /\ disk = [x \in Blocks |-> disk[x]]
    BY DEF Disks
  <2> QED BY <2>1
<1>31. \A x \in B : d[x].kind = "dir" => d[x] \in DirBlks
  BY StructTypes
<1>4. ASSUME NEW e \in Disks, NEW v, Run(St(disk, u), write_dir_cleanup(b, c)) = St(e, v),
             NEW o2, Ends(e, v, o2)
      PROVE  \E e2, C, o3 : CleanedAs(d, b, c, B, h, r, k, ch, u, e2, C, o3)
  <2>1. PICK W : write_dir_cleanup(b, c) \in Seq(W)
    BY CleanupType
  <2> DEFINE V == W \cup Range(Frees(ch))
             ws == write_dir_cleanup(b, c)
             fs == Frees(ch)
  <2>2. ws \in Seq(V)
    BY <2>1
  <2>3. fs \in Seq(V)
    BY DEF Frees, Range
  <2> HIDE DEF V, ws, fs
  <2>4. Run(St(disk, u), ws \o fs) = Run(Run(St(disk, u), ws), fs)
    BY <2>2, <2>3, RunBoth
  <2>5. Run(St(e, v), Frees(ch)) = St(Off(e), v \ Range(ch))
    <3>1. e = [x \in Blocks |-> e[x]] /\ DOMAIN e = Blocks
      BY <1>3
    <3>2. Run(St(e, v), Frees(ch)) =
            St([x \in Blocks |-> IF x \in Range(ch) THEN Junk ELSE e[x]], v \ Range(ch))
      BY <3>1, RunFrees
    <3> QED BY <3>2
  <2>6. Run(St(disk, u), write_dir_cleanup(b, c) \o Frees(ch)) = St(Off(e), v \ Range(ch))
    BY <2>4, <2>5, <1>4 DEF ws, fs
  <2> DEFINE a == Off(e)
  <2>7. PICK C : /\ v = u \ (B \ C)
                 /\ C \subseteq B /\ Struct(a, C, h, r, o2, k) /\ OneEmpty(a, C, h)
                 /\ \A x \in B : d[x].prev = 0 => x \in C /\ a[x].prev = 0 /\ a[x].kind = d[x].kind
    BY <1>4
  <2>8. Run(St(disk, u), write_dir_cleanup(b, c) \o Frees(ch)) =
          St(a, (u \ (B \ C)) \ Range(ch))
    BY <2>6, <2>7
  <2> HIDE DEF Off, a, Ends
  <2>9. CleanedAs(d, b, c, B, h, r, k, ch, u, a, C, o2)
    BY <2>7, <2>8 DEF CleanedAs
  <2> QED BY <2>9
<1> DEFINE Stays == (c.prev = 0 /\ c.next = 0) \/ \E i \in 1 .. DirItems : c.items[i].type # FREE
<1>5. CASE Stays
  <2>1. write_dir_cleanup(b, c) = <<Put(b, c)>>
    BY <1>5 DEF write_dir_cleanup
  <2>2. Run(St(disk, u), write_dir_cleanup(b, c)) = St(d, u)
    <3>1. Run(St(disk, u), <<Put(b, c)>>) = St([disk EXCEPT ![b] = c], u)
      BY RunPut
    <3> QED BY <2>1, <3>1, <1>30
  <2>3. \A x \in B : Off(d)[x] = d[x]
    BY <1>1, <1>3
  <2>4. Off(d) \in Disks
    BY <1>1, <1>3
  <2>5. OneEmpty(d, B, h)
    <3> SUFFICES ASSUME NEW x \in B, NEW y \in B, d[x].kind = "dir", h[x] = h[y],
                        Empty(d, x), Empty(d, y), x # y
                 PROVE  FALSE
      BY DEF OneEmpty
    <3>1. x = b \/ y = b
      BY DEF OneEmptyBut
    <3>2. Empty(d, b)
      BY <3>1
    <3>3. c.prev = 0 /\ c.next = 0
      BY <3>2, <1>2, <1>5 DEF Empty
    <3>4. h[b] = b
      BY <3>3, <1>1, <1>2 DEF LinkOk
    <3>45. d[b].prev = 0 /\ d[b].next = 0
      BY <3>3, <1>2
    <3>5. \A z \in B : h[z] = b => z = b
      BY <3>45, OneBlock
    <3>6. x = b /\ y = b
      BY <3>1, <3>4, <3>5
    <3> QED BY <3>6
  <2> HIDE DEF Off
  <2>6. Struct(Off(d), B, h, r, o, k) /\ OneEmpty(Off(d), B, h)
    BY <2>3, <2>4, <2>5, StructSame
  <2>8. u = u \ (B \ B)
    OBVIOUS
  <2>9. Ends(d, u, o)
    BY <2>3, <2>6, <2>8
  <2> HIDE DEF Ends
  <2> QED BY <2>2, <2>9, <1>1, <1>4
<1>6. CASE ~Stays /\ c.prev = 0
  <2> DEFINE n == c.next
             q == disk[n].next
             x0 == [disk[n] EXCEPT !.prev = 0]
             y0 == [disk[q] EXCEPT !.prev = b]
             e == Moved(disk, b, x0, q, y0, n)
  <2>1. Empty(d, b) /\ n # 0
    BY <1>2, <1>6 DEF Empty
  <2>2. n \in B /\ d[n].prev = b /\ n # b /\ n # 0 /\ n \in Blocks /\ b # 0
    <3>1. n \in B /\ d[n].prev = b /\ b # 0
      BY <2>1, <1>1, <1>2 DEF LinkOk
    <3> QED BY <3>1, <2>1, <1>1, <1>2, <1>6
  <2>3. d[n] = disk[n] /\ d[n].next = q
    BY <2>2, <1>2
  <2>4. q # 0 => q \in B /\ d[q].prev = n /\ q # b /\ q \in Blocks
    <3>1. q # 0 => q \in B /\ d[q].prev = n
      BY <2>2, <2>3, <1>1 DEF LinkOk
    <3> QED BY <3>1, <2>1, <1>1, <1>2, <1>6
  <2>5. q # n
    BY <2>2, <2>4
  <2>6. q # 0 => d[q] = disk[q]
    BY <2>4, <1>2
  <2>7. d[n] \in DirBlks /\ d[n].kind = "dir"
    <3>1. h[b] = b /\ h[n] = b
      BY <2>2, <1>1, <1>2, <1>6 DEF LinkOk
    <3>2. d[n].kind = "dir"
      BY <3>1, <2>2, <1>1, <1>2 DEF LinkOk
    <3> QED BY <3>2, <2>2, <1>31
  <2>8. x0 \in DirBlks /\ Linked(d[n], x0, 0, q)
    BY <2>3, <2>7, Sizes DEF DirBlks, Linked
  <2>9. q # 0 => d[q] \in DirBlks
    <3> SUFFICES ASSUME q # 0 PROVE d[q] \in DirBlks
      OBVIOUS
    <3>1. h[q] = h[n]
      BY <2>1, <2>4, <1>1 DEF LinkOk
    <3>2. d[q].kind = d[h[q]].kind /\ d[n].kind = d[h[n]].kind
      BY <2>2, <2>4, <1>1 DEF LinkOk
    <3>3. d[q].kind = "dir"
      BY <3>1, <3>2, <2>7
    <3> QED BY <3>3, <2>4, <1>31
  <2>10. q # 0 => y0 \in DirBlks /\ Linked(d[q], y0, b, d[q].next)
    BY <2>6, <2>9, <1>2, Sizes DEF DirBlks, Linked
  <2>11. write_dir_cleanup(b, c) = Moves(b, x0, q, y0, n)
    BY <1>6 DEF write_dir_cleanup, Moves
  <2> HIDE DEF x0, y0, n, q
  <2>12. Run(St(disk, u), write_dir_cleanup(b, c)) = St(e, u \ {n})
    <3>1. Run(St(disk, u), Moves(b, x0, q, y0, n)) = St(e, u \ {n})
      BY RunMoves
    <3> QED BY <2>11, <3>1
  <2>13. \A x \in Blocks : e[x] = IF x = n THEN Junk ELSE IF q # 0 /\ x = q THEN y0
                                  ELSE IF x = b THEN x0 ELSE disk[x]
    BY <2>4, <1>2 DEF Disks, Moved
  <2>14. e \in Disks
    <3>1. e = [x \in Blocks |-> e[x]]
      BY DEF Disks, Moved
    <3>2. \A x \in Blocks : e[x] \in Contents
      BY <2>8, <2>10, <2>13 DEF Disks, Contents
    <3> HIDE DEF e
    <3> QED BY <3>1, <3>2 DEF Disks
  <2> HIDE DEF e
  <2>15. /\ Elsewhere(d, Off(e), B, b, n, q)
         /\ Linked(d[n], Off(e)[b], 0, q) /\ (q # 0 => Linked(d[q], Off(e)[q], b, d[q].next))
    <3>1. \A x \in B : Off(e)[x] = e[x] /\ x \in Blocks
      BY <2>14, <1>1, <1>3
    <3>2. e[b] = x0 /\ (q # 0 => e[q] = y0)
      BY <2>2, <2>4, <2>5, <2>13, <1>2
    <3>3. \A x \in B : x # b /\ x # n /\ x # q => e[x] = d[x]
      BY <3>1, <2>13, <1>2
    <3> QED BY <3>1, <3>2, <3>3, <2>4, <2>8, <2>10 DEF Elsewhere
  <2> DEFINE C == B \ {n}
             a == Off(e)
  <2>16. a \in Disks
    BY <2>14, <1>3
  <2> HIDE DEF Off, a
  <2>17. /\ \E o2 : Struct(a, B \ {n}, h, r, o2, k)
         /\ SameHeads(d, a, B \ {n})
         /\ OneEmpty(a, B \ {n}, h)
    <3>1. /\ Elsewhere(d, a, B, b, n, q)
          /\ Linked(d[n], a[b], 0, q) /\ (q # 0 => Linked(d[q], a[q], b, d[q].next))
      BY <2>15 DEF a
    <3>2. n = d[b].next /\ q = d[n].next /\ d[b].prev = 0 /\ d[b].kind = "dir"
      BY <2>3, <1>2, <1>6 DEF n
    <3>3. HeadRemoved(d, a, B, b, n, q)
      BY <3>1, <3>2, <2>1, <2>16 DEF HeadRemoved
    <3>4. \E x : Struct(a, B \ {n}, h, r, x, k)
      BY <3>3, RemoveHead
    <3>5. OneEmpty(a, B \ {n}, h)
      BY <3>3, RemoveHead
    <3>6. SameHeads(d, a, B \ {n})
      BY <3>3, RemoveHead
    <3> QED BY <3>4, <3>5, <3>6
  <2>18. PICK o2 : Struct(a, C, h, r, o2, k)
    BY <2>17
  <2>19. \A x \in B : d[x].prev = 0 => x \in C /\ a[x].prev = 0 /\ a[x].kind = d[x].kind
    BY <2>2, <2>17 DEF SameHeads
  <2>20. u \ {n} = u \ (B \ C)
    BY <2>2
  <2>21. Ends(e, u \ {n}, o2)
    BY <2>17, <2>18, <2>19, <2>20 DEF a
  <2> HIDE DEF Ends
  <2> QED BY <2>12, <2>14, <2>21, <1>4
<1>7. CASE ~Stays /\ c.prev # 0
  <2> DEFINE p == c.prev
             q == disk[b].next
             x0 == [disk[p] EXCEPT !.next = q]
             y0 == [disk[q] EXCEPT !.prev = p]
             e == Moved(disk, p, x0, q, y0, b)
  <2>1. Empty(d, b) /\ p # 0 /\ d[b].prev = p /\ d[b].next = q
    BY <1>2, <1>7 DEF Empty
  <2>2. p \in B /\ d[p].next = b /\ h[p] = h[b] /\ r[p] < r[b] /\ p \in Blocks
    BY <2>1, <1>1 DEF LinkOk
  <2>3. p # b
    <3>1. r[p] \in Nat
      BY <2>2, <1>1
    <3> QED BY <3>1, <2>2
  <2>4. q # 0 => q \in B /\ d[q].prev = b /\ q # b /\ q \in Blocks /\ h[q] = h[b]
    <3> SUFFICES ASSUME q # 0 PROVE q \in B /\ d[q].prev = b /\ q # b /\ q \in Blocks /\ h[q] = h[b]
      OBVIOUS
    <3>1. q \in B /\ d[q].prev = b
      BY <2>1, <1>1 DEF LinkOk
    <3>2. b # 0 /\ r[q] \in Nat /\ r[b] \in Nat
      BY <3>1, <1>1
    <3>3. r[b] < r[q] /\ h[q] = h[b]
      BY <3>1, <3>2, <1>1 DEF LinkOk
    <3> QED BY <3>1, <3>2, <3>3, <1>1
  <2>5. q # p
    <3> SUFFICES ASSUME q = p PROVE FALSE
      OBVIOUS
    <3>1. d[p].prev = b /\ p # 0
      BY <2>1, <2>4
    <3>2. r[b] < r[p] /\ r[b] \in Nat /\ r[p] \in Nat
      BY <3>1, <2>2, <1>1 DEF LinkOk
    <3> QED BY <3>2, <2>2
  <2>6. d[p] = disk[p] /\ (q # 0 => d[q] = disk[q])
    BY <2>2, <2>3, <2>4, <1>2
  <2>7. d[p] \in DirBlks /\ (q # 0 => d[q] \in DirBlks)
    <3>1. d[p].kind = d[h[p]].kind /\ d[b].kind = d[h[b]].kind /\ (q # 0 => d[q].kind = d[h[q]].kind)
      BY <2>2, <2>4, <1>1 DEF LinkOk
    <3>2. d[p].kind = "dir" /\ (q # 0 => d[q].kind = "dir")
      BY <3>1, <2>2, <2>4, <1>2
    <3> QED BY <3>2, <2>2, <2>4, <1>31
  <2>8. q \in Ptrs
    BY <2>4, Sizes
  <2>9. x0 \in DirBlks /\ Linked(d[p], x0, d[p].prev, q)
    BY <2>6, <2>7, <2>8 DEF DirBlks, Linked
  <2>10. q # 0 => y0 \in DirBlks /\ Linked(d[q], y0, p, d[q].next)
    BY <2>2, <2>6, <2>7, Sizes DEF DirBlks, Linked
  <2>11. write_dir_cleanup(b, c) = Moves(p, x0, q, y0, b)
    BY <1>7 DEF write_dir_cleanup, Moves
  <2> HIDE DEF x0, y0, p, q
  <2>12. Run(St(disk, u), write_dir_cleanup(b, c)) = St(e, u \ {b})
    <3>1. Run(St(disk, u), Moves(p, x0, q, y0, b)) = St(e, u \ {b})
      BY RunMoves
    <3> QED BY <2>11, <3>1
  <2>13. \A x \in Blocks : e[x] = IF x = b THEN Junk ELSE IF q # 0 /\ x = q THEN y0
                                  ELSE IF x = p THEN x0 ELSE disk[x]
    BY <2>2, <2>4, <1>2 DEF Disks, Moved
  <2>14. e \in Disks
    <3>1. e = [x \in Blocks |-> e[x]]
      BY DEF Disks, Moved
    <3>2. \A x \in Blocks : e[x] \in Contents
      BY <2>9, <2>10, <2>13 DEF Disks, Contents
    <3> HIDE DEF e
    <3> QED BY <3>1, <3>2 DEF Disks
  <2> HIDE DEF e
  <2>15. /\ Elsewhere(d, Off(e), B, b, p, q)
         /\ Linked(d[p], Off(e)[p], d[p].prev, q) /\ (q # 0 => Linked(d[q], Off(e)[q], p, d[q].next))
    <3>1. \A x \in B : Off(e)[x] = e[x] /\ x \in Blocks
      BY <2>14, <1>1, <1>3
    <3>2. e[p] = x0 /\ (q # 0 => e[q] = y0)
      BY <2>2, <2>3, <2>4, <2>5, <2>13
    <3>3. \A x \in B : x # b /\ x # p /\ x # q => e[x] = d[x]
      BY <3>1, <2>13, <1>2
    <3> QED BY <3>1, <3>2, <3>3, <2>2, <2>4, <2>9, <2>10 DEF Elsewhere
  <2> DEFINE C == B \ {b}
             a == Off(e)
  <2>16. a \in Disks
    BY <2>14, <1>3
  <2> HIDE DEF Off, a
  <2>17. /\ Struct(a, C, h, r, o, k)
         /\ SameHeads(d, a, B \ {b})
         /\ OneEmpty(a, C, h)
    <3>1. /\ Elsewhere(d, a, B, b, p, q)
          /\ Linked(d[p], a[p], d[p].prev, q) /\ (q # 0 => Linked(d[q], a[q], p, d[q].next))
      BY <2>15 DEF a
    <3>2. d[b].kind = "dir"
      BY <1>2
    <3>3. MiddleRemoved(d, a, B, b, p, q)
      BY <3>1, <3>2, <2>1, <2>16 DEF MiddleRemoved
    <3>4. Struct(a, B \ {b}, h, r, o, k)
      BY <3>3, RemoveMiddle
    <3>5. OneEmpty(a, B \ {b}, h)
      BY <3>3, RemoveMiddle
    <3>6. SameHeads(d, a, B \ {b})
      BY <3>3, RemoveMiddle
    <3> QED BY <3>4, <3>5, <3>6
  <2>18. \A x \in B : d[x].prev = 0 => x \in C /\ a[x].prev = 0 /\ a[x].kind = d[x].kind
    BY <2>1, <2>17 DEF SameHeads
  <2>19. u \ {b} = u \ (B \ C)
    OBVIOUS
  <2>20. Ends(e, u \ {b}, o)
    BY <2>17, <2>18, <2>19 DEF a
  <2> HIDE DEF Ends
  <2> QED BY <2>12, <2>14, <2>20, <1>4
<1> QED BY <1>5, <1>6, <1>7

-----------------------------------------------------------------------------
(* find_file.                                                              *)

\* The first slot of a set of slots is one of them.
LEMMA FirstIs ==
  ASSUME NEW n \in Nat, NEW m \in Nat, NEW S \in SUBSET ((1 .. n) \X (1 .. m)), S # {}
  PROVE  First(S) \in S
<1> DEFINE I == {s[1] : s \in S}
<1>1. I \in SUBSET Nat /\ I # {} /\ \A s \in S : s[1] \in Nat /\ s[2] \in Nat /\ s[1] \in I
  OBVIOUS
<1>2. PICK i \in I : \A y \in I : i <= y
  <2> HIDE DEF I
  <2> QED BY <1>1, LeastNumber
<1> DEFINE J == {s[2] : s \in {s \in S : s[1] = i}}
<1>3. J \in SUBSET Nat /\ J # {}
  BY <1>1
<1>4. PICK j \in J : \A y \in J : j <= y
  <2> HIDE DEF J
  <2> QED BY <1>3, LeastNumber
<1>5. PICK s \in S : s[1] = i /\ s[2] = j
  BY <1>4
<1>6. \A t \in S : Before(s, t)
  <2> TAKE t \in S
  <2>1. i <= t[1] /\ t[1] \in Nat /\ i \in Nat
    BY <1>1, <1>2
  <2>2. t[1] = i => j <= t[2]
    BY <1>4
  <2> QED BY <2>1, <2>2, <1>5 DEF Before
<1> HIDE DEF I, J
<1> QED BY <1>6 DEF First

\* The current directory can be read: ch is its chain.
Listed(ch) ==
  /\ ch \in Seq(Blocks) /\ Len(ch) \in Nat /\ Len(ch) >= 1 /\ ch[1] = current_dir_blk
  /\ \A i \in 1 .. Len(ch) :
       /\ ch[i] \in Blocks /\ disk[ch[i]] \in DirBlks
       /\ disk[ch[i]].prev = IF i = 1 THEN 0 ELSE ch[i - 1]
       /\ i # Len(ch) => disk[ch[i]].next = ch[i + 1]
  /\ Len(ch) < BlkCount - 1 => disk[ch[Len(ch)]].next = 0
CwdOk == disk \in Disks /\ 0 \in bitmap_blk /\ Listed(CurrentDir)

InCwd(b, i) ==
  \E p \in 1 .. Len(CurrentDir) : b = CurrentDir[p] /\ b \in Blocks /\ disk[b] \in DirBlks
                                  /\ i \in 1 .. DirItems

\* The slots of the current directory.
LEMMA ItemsAre ==
  ASSUME CwdOk
  PROVE  /\ DOMAIN Items = (1 .. Len(CurrentDir)) \X (1 .. DirItems)
         /\ \A s \in DOMAIN Items :
              /\ InCwd(Items[s].blk, Items[s].idx)
              /\ Items[s].item = disk[Items[s].blk].items[Items[s].idx] /\ Items[s].item \in Item
         /\ \A S \in SUBSET DOMAIN Items : S # {} => First(S) \in S
<1> DEFINE ch == CurrentDir
           n == Len(ch)
<1>1. n \in Nat /\ \A i \in 1 .. n : ch[i] \in Blocks /\ disk[ch[i]] \in DirBlks
  BY DEF CwdOk, Listed
<1>2. Items = [s \in (1 .. n) \X (1 .. DirItems) |->
                 [blk |-> ch[s[1]], idx |-> s[2], item |-> disk[ch[s[1]]].items[s[2]]]]
  BY DEF Items
<1>3. DOMAIN Items = (1 .. n) \X (1 .. DirItems)
  BY <1>2
<1>4. ASSUME NEW s \in DOMAIN Items
      PROVE  /\ InCwd(Items[s].blk, Items[s].idx)
             /\ Items[s].item = disk[Items[s].blk].items[Items[s].idx] /\ Items[s].item \in Item
  <2>1. s[1] \in 1 .. n /\ s[2] \in 1 .. DirItems
    BY <1>3
  <2>2. Items[s].blk = ch[s[1]] /\ Items[s].idx = s[2] /\ Items[s].item = disk[ch[s[1]]].items[s[2]]
    BY <1>2, <1>3
  <2>3. disk[ch[s[1]]].items[s[2]] \in Item
    BY <2>1, <1>1 DEF DirBlks
  <2> QED BY <2>1, <2>2, <2>3, <1>1 DEF InCwd
<1>5. ASSUME NEW S \in SUBSET DOMAIN Items, S # {} PROVE First(S) \in S
  <2> HIDE DEF ch, n
  <2> QED BY <1>1, <1>3, <1>5, FirstIs, Sizes
<1> QED BY <1>3, <1>4, <1>5

\* A free item is an item.
LEMMA FreeItemType == FreeItem \in Item
  BY Sizes, Words DEF Item, FreeItem, GivenNames

Found(f) == f.item \in Item /\ (f.item.type # FREE =>
                                  InCwd(f.blk, f.idx) /\ disk[f.blk].items[f.idx] = f.item)

\* find_file returns an item of the current directory, or a free one.
LEMMA FindItemIs ==
  ASSUME CwdOk, NEW n
  PROVE  Found(find_item(n))
<1> DEFINE hits == Named(n, Items)
<1>1. hits \in SUBSET DOMAIN Items
  BY DEF Named
<1>2. CASE hits = {}
  <2>1. find_item(n) = [blk |-> 0, idx |-> 0, item |-> FreeItem]
    BY <1>2 DEF find_item
  <2> QED BY <2>1, FreeItemType DEF Found, FreeItem
<1>3. CASE hits # {}
  <2>1. find_item(n) = Items[First(hits)]
    BY <1>3 DEF find_item
  <2>2. First(hits) \in DOMAIN Items
    <3> HIDE DEF hits
    <3> QED BY <1>1, <1>3, ItemsAre
  <2> HIDE DEF hits
  <2> QED BY <2>1, <2>2, ItemsAre DEF Found
<1> QED BY <1>2, <1>3

\* What find_slot makes of a full directory.
NewTail(t) == DirBlk(t, 0, disk[t].parent, NoItems)
Extending(t, z) == <<Alloc(z), Put(t, [disk[t] EXCEPT !.next = z]), Put(z, NewTail(t))>>

SlotHere(s) == /\ s.err = "OK" /\ s.writes = <<>> /\ InCwd(s.blk, s.idx) /\ s.dir = disk[s.blk]
SlotNew(s) == LET t == CurrentDir[Len(CurrentDir)] IN
              /\ s.err = "OK" /\ s.blk \in Blocks /\ s.blk \notin bitmap_blk /\ s.idx = 1
              /\ s.dir = NewTail(t) /\ s.writes = Extending(t, s.blk)
              /\ \A p \in 1 .. Len(CurrentDir), i \in 1 .. DirItems :
                   disk[CurrentDir[p]].items[i].type # FREE
SlotNone(s) == s.err = "DISK_FULL" /\ s.writes = <<>>

\* find_file returns a slot of the directory, a slot of a new block, or fails.
LEMMA FindSlotIs ==
  ASSUME CwdOk, NEW n
  PROVE  LET s == find_slot(n) IN SlotHere(s) \/ SlotNew(s) \/ SlotNone(s)
<1> DEFINE s == find_slot(n)
           items == Items
           hits  == Named(n, items)
           slots == IF hits # {} THEN hits ELSE FreeSlots(items)
           tail  == Last(CurrentDir)
           new   == FreeBlocks(bitmap_blk, 1)
<1>1. slots \in SUBSET DOMAIN Items
  BY DEF Named, FreeSlots
<1>2. CASE slots # {}
  <2> DEFINE x == items[First(slots)]
  <2>1. s = [err |-> "OK", blk |-> x.blk, idx |-> x.idx, dir |-> disk[x.blk], writes |-> <<>>]
    BY <1>2 DEF find_slot
  <2>2. First(slots) \in DOMAIN Items
    <3> HIDE DEF slots
    <3> QED BY <1>1, <1>2, ItemsAre
  <2>3. InCwd(x.blk, x.idx)
    BY <2>2, ItemsAre
  <2> HIDE DEF s, x
  <2>4. SlotHere(s)
    BY <2>1, <2>3 DEF SlotHere
  <2> QED BY <2>4 DEF s
<1>3. CASE slots = {} /\ new = <<>>
  <2>1. s = [err |-> "DISK_FULL", blk |-> 0, idx |-> 0, dir |-> Junk, writes |-> <<>>]
    BY <1>3 DEF find_slot
  <2> HIDE DEF s
  <2>2. SlotNone(s)
    BY <2>1 DEF SlotNone
  <2> QED BY <2>2 DEF s
<1>4. CASE slots = {} /\ new # <<>>
  <2> DEFINE t == CurrentDir[Len(CurrentDir)]
             z == new[1]
  <2>1. tail = t
    BY DEF Last
  <2>2. s = [err |-> "OK", blk |-> z, idx |-> 1, dir |-> NewTail(t), writes |-> Extending(t, z)]
    BY <1>4, <2>1 DEF find_slot, NewTail, Extending
  <2>3. z \in Blocks /\ z \notin bitmap_blk
    <3>1. new \in Seq(Blocks) /\ Len(new) \in Nat /\ \A i \in 1 .. Len(new) : new[i] \in Blocks /\ new[i] \notin bitmap_blk
      BY FreeBlocksFacts DEF CwdOk
    <3> HIDE DEF new
    <3>2. Len(new) >= 1
      BY <3>1, <1>4
    <3>3. 1 \in 1 .. Len(new)
      BY <3>1, <3>2
    <3> QED BY <3>1, <3>3
  <2>4. ASSUME NEW p \in 1 .. Len(CurrentDir), NEW i \in 1 .. DirItems
        PROVE  disk[CurrentDir[p]].items[i].type # FREE
    <3>1. <<p, i>> \in DOMAIN Items
      BY ItemsAre
    <3>2. Items[<<p, i>>].item = disk[CurrentDir[p]].items[i]
      BY DEF Items
    <3>3. FreeSlots(Items) = {}
      BY <1>4
    <3>4. Items[<<p, i>>].item.type # FREE
      BY <3>1, <3>3 DEF FreeSlots
    <3> QED BY <3>2, <3>4
  <2> HIDE DEF s, t, z
  <2>5. SlotNew(s)
    BY <2>2, <2>3, <2>4 DEF SlotNew, t
  <2> QED BY <2>5 DEF s
<1> QED BY <1>2, <1>3, <1>4

-----------------------------------------------------------------------------
(* Calls on a drive where nothing has failed.                              *)

IsList(ws) == \E W : ws \in Seq(W)

\* Two lists of writes make one.
LEMMA RunJoin ==
  ASSUME NEW a, NEW b, IsList(a), IsList(b), NEW s
  PROVE  Run(s, a \o b) = Run(Run(s, a), b) /\ IsList(a \o b)
<1>1. PICK V : a \in Seq(V)
  BY DEF IsList
<1>2. PICK W : b \in Seq(W)
  BY DEF IsList
<1> DEFINE X == V \cup W
<1>3. a \in Seq(X) /\ b \in Seq(X)
  BY <1>1, <1>2
<1> HIDE DEF X
<1>4. a \o b \in Seq(X)
  BY <1>3
<1>5. Run(s, a \o b) = Run(Run(s, a), b)
  BY <1>3, RunBoth
<1> QED BY <1>4, <1>5 DEF IsList

\* Short lists are lists.
LEMMA ShortLists ==
  ASSUME NEW x, NEW y, NEW z
  PROVE  IsList(<<>>) /\ IsList(<<x>>) /\ IsList(<<x, y, z>>)
<1> DEFINE W == {x, y, z}
<1>1. x \in W /\ y \in W /\ z \in W
  OBVIOUS
<1> HIDE DEF W
<1>2. <<>> \in Seq(W) /\ <<x>> \in Seq(W) /\ <<x, y, z>> \in Seq(W)
  BY <1>1
<1> QED BY <1>2 DEF IsList

\* Three writes.
LEMMA RunThree ==
  ASSUME NEW s, NEW x, NEW y, NEW z
  PROVE  Run(s, <<x, y, z>>) = Apply(Apply(Apply(s, x), y), z)
<1> DEFINE ws == <<x, y, z>>
<1>1. Len(ws) = 3 /\ Len(ws) \in Nat /\ ws[1] = x /\ ws[2] = y /\ ws[3] = z
  OBVIOUS
<1> HIDE DEF ws
<1>2. PICK f : Passes(f, s, ws) /\ Run(s, ws) = f[Len(ws)]
  BY <1>1, RunExists
<1>3. f[0] = s /\ f[0 + 1] = Apply(f[0], ws[0 + 1]) /\ f[1 + 1] = Apply(f[1], ws[1 + 1])
      /\ f[2 + 1] = Apply(f[2], ws[2 + 1])
  <2>1. f[0] = s /\ \A n \in 0 .. Len(ws) - 1 : f[n + 1] = Apply(f[n], ws[n + 1])
    BY <1>2 DEF Passes
  <2>2. 0 \in 0 .. Len(ws) - 1 /\ 1 \in 0 .. Len(ws) - 1 /\ 2 \in 0 .. Len(ws) - 1
    BY <1>1
  <2> QED BY <2>1, <2>2
<1>4. 0 + 1 = 1 /\ 1 + 1 = 2 /\ 2 + 1 = 3
  OBVIOUS
<1>5. f[1] = Apply(s, x) /\ f[2] = Apply(f[1], y) /\ f[3] = Apply(f[2], z)
  BY <1>1, <1>3, <1>4
<1> QED BY <1>1, <1>2, <1>5 DEF ws

\* The blocks B are those of the tree, and the structure is as it should be.
TidyAs(d, B, cwd, h, r, o, k) ==
  /\ Struct(d, B, h, r, o, k) /\ OneEmpty(d, B, h)
  /\ cwd \in B /\ d[cwd].kind = "dir" /\ d[cwd].prev = 0
Tidy(s, cwd) ==
  \E d, B, h, r, o, k : s = St(d, {0} \cup B) /\ TidyAs(d, B, cwd, h, r, o, k)

Now == [disk |-> disk, ram |-> bitmap_blk, map |-> map]
Here(B, h, r, o, k) ==
  /\ TidyAs(disk, B, current_dir_blk, h, r, o, k)
  /\ map = {0} \cup B /\ bitmap_blk = {0} \cup B

\* The state is tidy when its structure is.
LEMMA HereNow ==
  ASSUME NEW B, NEW h, NEW r, NEW o, NEW k, Here(B, h, r, o, k)
  PROVE  Now = St(disk, {0} \cup B) /\ Tidy(Now, current_dir_blk)
<1>1. Now = St(disk, {0} \cup B)
  BY DEF Now, Here, St
<1> QED BY <1>1 DEF Here, Tidy

\* In a tidy state the current directory can be read.
LEMMA HereCwd ==
  ASSUME NEW B, NEW h, NEW r, NEW o, NEW k, Here(B, h, r, o, k)
  PROVE  /\ CwdOk /\ disk[CurrentDir[Len(CurrentDir)]].next = 0
         /\ \A p \in 1 .. Len(CurrentDir) :
              CurrentDir[p] \in B /\ h[CurrentDir[p]] = current_dir_blk
         /\ \A c \in B : h[c] = current_dir_blk => \E p \in 1 .. Len(CurrentDir) : CurrentDir[p] = c
<1> DEFINE ch == CurrentDir
           n == Len(ch)
<1>1. Struct(disk, B, h, r, o, k) /\ current_dir_blk \in B
      /\ disk[current_dir_blk].kind = "dir" /\ disk[current_dir_blk].prev = 0
  BY DEF Here, TidyAs
<1>2. ChainIs(disk, B, h, current_dir_blk, ch)
  BY <1>1, ChainOf DEF CurrentDir
<1> HIDE DEF ch
<1>3. /\ ch \in Seq(Blocks) /\ n \in Nat /\ n >= 1 /\ ch[1] = current_dir_blk
      /\ \A i \in 1 .. n : /\ ch[i] \in B /\ h[ch[i]] = current_dir_blk
                           /\ disk[ch[i]].prev = IF i = 1 THEN 0 ELSE ch[i - 1]
                           /\ disk[ch[i]].next = IF i = n THEN 0 ELSE ch[i + 1]
      /\ \A c \in B : h[c] = current_dir_blk => \E i \in 1 .. n : ch[i] = c
  BY <1>2 DEF ChainIs
<1>4. \A i \in 1 .. n : ch[i] \in Blocks /\ disk[ch[i]] \in DirBlks
  <2> TAKE i \in 1 .. n
  <2>1. ch[i] \in B /\ h[ch[i]] = current_dir_blk
    BY <1>3
  <2>2. disk[ch[i]].kind = "dir"
    BY <2>1, <1>1 DEF Struct, LinkOk
  <2>3. \A b \in B : b \in Blocks /\ (disk[b].kind = "dir" => disk[b] \in DirBlks)
    BY <1>1, StructTypes
  <2> QED BY <2>1, <2>2, <2>3
<1>5. n \in 1 .. n
  <2> HIDE DEF n
  <2> QED BY <1>3
<1>6. disk[ch[n]].next = 0
  BY <1>3, <1>5
<1> HIDE DEF n
<1>7. /\ \A i \in 1 .. n :
           /\ ch[i] \in Blocks /\ disk[ch[i]] \in DirBlks
           /\ disk[ch[i]].prev = IF i = 1 THEN 0 ELSE ch[i - 1]
           /\ i # n => disk[ch[i]].next = ch[i + 1]
      /\ n < BlkCount - 1 => disk[ch[n]].next = 0
  BY <1>3, <1>4, <1>6
<1>8. Listed(ch)
  BY <1>3, <1>7 DEF Listed, n
<1>9. disk \in Disks /\ 0 \in bitmap_blk
  BY <1>1 DEF Here, Struct
<1>10. CwdOk
  BY <1>8, <1>9 DEF CwdOk, ch
<1> QED BY <1>3, <1>6, <1>10 DEF ch, n

\* The state that find_slot leads to: the slot is in block s.blk of the directory,
\* whose content is s.dir.
Ready(s, d, B, h, r, o, k) ==
  /\ s.err = "OK" /\ IsList(s.writes) /\ Run(Now, s.writes) = St(d, {0} \cup B)
  /\ TidyAs(d, B, current_dir_blk, h, r, o, k)
  /\ s.blk \in B /\ s.idx \in 1 .. DirItems /\ h[s.blk] = current_dir_blk
  /\ s.dir = d[s.blk] /\ s.dir \in DirBlks

\* After find_file has returned a slot, the structure has the block of the slot.
LEMMA SlotReady ==
  ASSUME NEW B, NEW h, NEW r, NEW o, NEW k, Here(B, h, r, o, k), NEW n
  PROVE  LET s == find_slot(n) IN
         \/ s.err = "DISK_FULL" /\ s.writes = <<>>
         \/ Ready(s, disk, B, h, r, o, k) /\ s.writes = <<>>
         \/ /\ s.err = "OK" /\ s.dir.items[s.idx].type = FREE
            /\ \E d, B2, h2, r2 : Ready(s, d, B2, h2, r2, o, k)
<1> DEFINE s == find_slot(n)
           cwd == current_dir_blk
<1>1. /\ CwdOk /\ disk[CurrentDir[Len(CurrentDir)]].next = 0
      /\ \A p \in 1 .. Len(CurrentDir) : CurrentDir[p] \in B /\ h[CurrentDir[p]] = cwd
      /\ \A c \in B : h[c] = cwd => \E p \in 1 .. Len(CurrentDir) : CurrentDir[p] = c
  BY HereCwd
<1>2. SlotHere(s) \/ SlotNew(s) \/ SlotNone(s)
  BY <1>1, FindSlotIs
<1>3. /\ Struct(disk, B, h, r, o, k) /\ OneEmpty(disk, B, h) /\ cwd \in B
      /\ disk[cwd].kind = "dir" /\ disk[cwd].prev = 0 /\ bitmap_blk = {0} \cup B
      /\ Now = St(disk, {0} \cup B)
  BY HereNow DEF Here, TidyAs
<1> HIDE DEF s
<1>4. CASE SlotNone(s)
  BY <1>4 DEF s, SlotNone
<1>5. CASE SlotHere(s)
  <2>1. PICK p \in 1 .. Len(CurrentDir) : s.blk = CurrentDir[p] /\ disk[s.blk] \in DirBlks
    BY <1>5 DEF SlotHere, InCwd
  <2>2. s.err = "OK" /\ s.writes = <<>> /\ s.idx \in 1 .. DirItems /\ s.dir = disk[s.blk]
    BY <1>5 DEF SlotHere, InCwd
  <2>3. IsList(s.writes) /\ Run(Now, s.writes) = St(disk, {0} \cup B)
    <3>1. IsList(<<>>)
      BY ShortLists
    <3>2. Run(Now, <<>>) = Now
      BY RunNone
    <3> QED BY <3>1, <3>2, <2>2, <1>3
  <2>4. Ready(s, disk, B, h, r, o, k)
    BY <2>1, <2>2, <2>3, <1>1 DEF Ready, Here
  <2> QED BY <2>2, <2>4 DEF s
<1>6. CASE SlotNew(s)
  <2> DEFINE t == CurrentDir[Len(CurrentDir)]
             z == s.blk
             x == [disk[t] EXCEPT !.next = z]
             y == NewTail(t)
             e1 == [disk EXCEPT ![t] = x]
             e == [e1 EXCEPT ![z] = y]
             u == {0} \cup B
  <2>0. /\ s.err = "OK" /\ z \in Blocks /\ z \notin bitmap_blk /\ s.idx = 1
        /\ s.dir = y /\ s.writes = Extending(t, z)
        /\ \A p \in 1 .. Len(CurrentDir), i \in 1 .. DirItems : disk[CurrentDir[p]].items[i].type # FREE
    BY <1>6 DEF SlotNew
  <2>1. Len(CurrentDir) \in 1 .. Len(CurrentDir)
    <3>1. Len(CurrentDir) \in Nat /\ Len(CurrentDir) >= 1
      BY <1>1 DEF CwdOk, Listed
    <3> DEFINE m == Len(CurrentDir)
    <3> HIDE DEF m
    <3> QED BY <3>1 DEF m
  <2>2. t \in B /\ h[t] = cwd /\ disk[t] \in DirBlks /\ disk[t].next = 0 /\ disk[t].kind = "dir" /\ t \in Blocks
    <3>1. t \in B /\ h[t] = cwd /\ disk[t].next = 0
      BY <2>1, <1>1
    <3>2. t \in Blocks /\ disk[t] \in DirBlks
      BY <2>1, <1>1 DEF CwdOk, Listed
    <3> QED BY <3>1, <3>2 DEF DirBlks
  <2> HIDE DEF t, z
  <2>3. z \notin B /\ z # t /\ z \in Ptrs /\ t \in Ptrs
    BY <2>0, <2>2, <1>3, Sizes
  <2>4. x \in DirBlks /\ Linked(disk[t], x, disk[t].prev, z)
    BY <2>2, <2>3 DEF DirBlks, Linked
  <2>5. y \in DirBlks /\ y = DirBlk(t, 0, disk[t].parent, NoItems) /\ y.items[1].type = FREE
    <3>1. NoItems \in [1 .. DirItems -> Item] /\ NoItems[1].type = FREE
      BY FreeItemType, Sizes DEF NoItems, FreeItem
    <3>2. disk[t].parent \in Ptrs /\ 0 \in Ptrs
      BY <2>2, Sizes DEF DirBlks
    <3> HIDE DEF NoItems
    <3>3. y = DirBlk(t, 0, disk[t].parent, NoItems)
      BY DEF NewTail
    <3> HIDE DEF y
    <3> QED BY <3>1, <3>2, <3>3, <2>3 DEF DirBlk, DirBlks
  <2> HIDE DEF x, y
  <2>6. e \in Disks /\ e[z] = y /\ e[t] = x /\ \A c \in B : c # t => e[c] = disk[c]
    <3>1. disk \in Disks /\ B \subseteq Blocks
      BY <1>3 DEF Struct
    <3>2. \A c \in Blocks : e[c] = IF c = z THEN y ELSE IF c = t THEN x ELSE disk[c]
      BY <3>1, <2>0, <2>2 DEF Disks
    <3>3. \A c \in Blocks : e[c] \in Contents
      BY <3>1, <3>2, <2>4, <2>5 DEF Disks, Contents
    <3>4. e = [c \in Blocks |-> e[c]]
      BY <3>1 DEF Disks
    <3> HIDE DEF e
    <3> QED BY <3>1, <3>2, <3>3, <3>4, <2>0, <2>2, <2>3 DEF Disks
  <2>7. Run(Now, s.writes) = St(e, u \cup {z})
    <3>1. Run(Now, s.writes) = Apply(Apply(Apply(St(disk, u), Alloc(z)), Put(t, x)), Put(z, y))
      <4>1. s.writes = <<Alloc(z), Put(t, x), Put(z, y)>>
        BY <2>0 DEF Extending, x, y
      <4>2. Run(Now, <<Alloc(z), Put(t, x), Put(z, y)>>) =
              Apply(Apply(Apply(Now, Alloc(z)), Put(t, x)), Put(z, y))
        BY RunThree
      <4> QED BY <4>1, <4>2, <1>3
    <3>2. Apply(St(disk, u), Alloc(z)) = St(disk, u \cup {z})
      <4>1. Alloc(z).op = "alloc" /\ Alloc(z).blk = z
        BY DEF Alloc
      <4> QED BY <4>1, ApplyAlloc
    <3>3. Apply(St(disk, u \cup {z}), Put(t, x)) = St(e1, u \cup {z})
      BY ApplyPut
    <3> HIDE DEF e1, u
    <3>4. Apply(St(e1, u \cup {z}), Put(z, y)) = St(e, u \cup {z})
      BY ApplyPut
    <3> HIDE DEF e
    <3> QED BY <3>1, <3>2, <3>3, <3>4
  <2> HIDE DEF e
  <2> DEFINE B2 == B \cup {z}
  <2>8. PICK h2, r2 : /\ Struct(e, B2, h2, r2, o, k)
                      /\ KeepsHeads(disk, e, B, h, h2) /\ h2[z] = h[t]
                      /\ OneEmpty(disk, B, h) /\ NoneEmpty(disk, B, h, t) => OneEmpty(e, B2, h2)
    <3>1. Linked(disk[t], e[t], disk[t].prev, z) /\ e[z] = DirBlk(t, 0, disk[t].parent, NoItems)
      BY <2>4, <2>5, <2>6
    <3>2. Extended(disk, e, B, t, z)
      BY <3>1, <2>0, <2>2, <2>3, <2>6 DEF Extended
    <3>3. Struct(disk, B, h, r, o, k)
      BY <1>3
    <3>4. PICK h2, r2 : StillTidy(disk, e, B, h, t, z, o, k, h2, r2)
      BY <3>2, <3>3, Extend
    <3> QED BY <3>4 DEF StillTidy
  <2>9. NoneEmpty(disk, B, h, t)
    <3> SUFFICES \A c \in B : h[c] = h[t] => ~Empty(disk, c)
      BY DEF NoneEmpty
    <3> TAKE c \in B
    <3> HAVE h[c] = h[t]
    <3>1. PICK p \in 1 .. Len(CurrentDir) : CurrentDir[p] = c
      BY <2>2, <1>1
    <3>2. disk[c].items[1].type # FREE
      BY <3>1, <2>0, Sizes
    <3> QED BY <3>2, Sizes DEF Empty
  <2>10. TidyAs(e, B2, cwd, h2, r2, o, k)
    BY <2>8, <2>9, <1>3 DEF TidyAs, KeepsHeads
  <2>11. IsList(s.writes)
    BY <2>0, ShortLists DEF Extending
  <2>12. u \cup {z} = {0} \cup B2
    OBVIOUS
  <2> HIDE DEF B2, u
  <2>13. s.blk \in B2 /\ h2[s.blk] = cwd /\ s.dir = e[s.blk] /\ s.dir \in DirBlks
    <3>1. z \in B2 /\ h2[z] = cwd /\ y = e[z]
      BY <2>2, <2>6, <2>8 DEF B2
    <3>2. s.dir = y /\ y \in DirBlks
      BY <2>0, <2>5
    <3> QED BY <3>1, <3>2 DEF z
  <2>14. Run(Now, s.writes) = St(e, {0} \cup B2)
    BY <2>7, <2>12
  <2>15. Ready(s, e, B2, h2, r2, o, k)
    BY <2>0, <2>10, <2>11, <2>13, <2>14, Sizes DEF Ready
  <2>16. s.err = "OK" /\ s.dir.items[s.idx].type = FREE
    BY <2>0, <2>5
  <2> QED BY <2>15, <2>16 DEF s
<1> QED BY <1>2, <1>4, <1>5, <1>6

-----------------------------------------------------------------------------
(* Calls that write one block at most, tfs_format and tfs_create_dir.      *)

PlanOk(plan) == Tidy(Run(Now, plan.writes), plan.cwd)

\* A call that writes nothing keeps the structure.
LEMMA NoWrites ==
  ASSUME NEW B, NEW h, NEW r, NEW o, NEW k, Here(B, h, r, o, k), NEW err
  PROVE  PlanOk(Plan(<<>>, err))
<1>1. Plan(<<>>, err).writes = <<>> /\ Plan(<<>>, err).cwd = current_dir_blk
  BY DEF Plan
<1>2. Run(Now, <<>>) = Now
  BY RunNone
<1>3. Tidy(Now, current_dir_blk)
  BY HereNow
<1> QED BY <1>1, <1>2, <1>3 DEF PlanOk

\* The item that find_item returns.
LEMMA ItemHere ==
  ASSUME NEW B, NEW h, NEW r, NEW o, NEW k, Here(B, h, r, o, k), NEW n, NEW f, f = find_item(n)
  PROVE  /\ f.item \in Item
         /\ f.item.type # FREE =>
              /\ f.blk \in B /\ h[f.blk] = current_dir_blk /\ f.idx \in 1 .. DirItems
              /\ f.blk \in Blocks /\ disk[f.blk] \in DirBlks
              /\ disk[f.blk].items[f.idx] = f.item /\ Used(disk, f.blk, f.idx)
              /\ ItemOk(disk, B, h, r, o, k, f.blk, f.idx)
<1>1. CwdOk /\ (\A p \in 1 .. Len(CurrentDir) : CurrentDir[p] \in B /\ h[CurrentDir[p]] = current_dir_blk)
  BY HereCwd
<1>2. Found(f)
  BY <1>1, FindItemIs
<1>3. f.item \in Item
  BY <1>2 DEF Found
<1>4. ASSUME f.item.type # FREE
      PROVE  /\ f.blk \in B /\ h[f.blk] = current_dir_blk /\ f.idx \in 1 .. DirItems
             /\ f.blk \in Blocks /\ disk[f.blk] \in DirBlks
             /\ disk[f.blk].items[f.idx] = f.item /\ Used(disk, f.blk, f.idx)
             /\ ItemOk(disk, B, h, r, o, k, f.blk, f.idx)
  <2>1. InCwd(f.blk, f.idx) /\ disk[f.blk].items[f.idx] = f.item
    BY <1>2, <1>4 DEF Found
  <2>2. PICK p \in 1 .. Len(CurrentDir) : f.blk = CurrentDir[p] /\ f.blk \in Blocks
                                          /\ disk[f.blk] \in DirBlks /\ f.idx \in 1 .. DirItems
    BY <2>1 DEF InCwd
  <2>3. f.blk \in B /\ h[f.blk] = current_dir_blk
    BY <2>2, <1>1
  <2>4. Used(disk, f.blk, f.idx)
    BY <2>1, <2>2, <1>4 DEF Used, DirBlks
  <2>5. ItemOk(disk, B, h, r, o, k, f.blk, f.idx)
    BY <2>2, <2>3, <2>4 DEF Here, TidyAs, Struct
  <2> QED BY <2>1, <2>2, <2>3, <2>4, <2>5
<1> QED BY <1>3, <1>4

\* tfs_change_dir: the current directory is a directory.
LEMMA ChangeDirOk ==
  ASSUME NEW B, NEW h, NEW r, NEW o, NEW k, Here(B, h, r, o, k), NEW n
  PROVE  PlanOk(change_dir_plan(n))
<1> DEFINE f == find_item(n)
           x == f.item.blk
<1>1. CASE f.item.type # DIR
  <2>1. change_dir_plan(n) = Plan(<<>>, "NOT_EXIST")
    BY <1>1 DEF change_dir_plan
  <2> QED BY <2>1, NoWrites
<1>2. CASE f.item.type = DIR
  <2>1. f.item \in Item /\ ItemOk(disk, B, h, r, o, k, f.blk, f.idx) /\ disk[f.blk].items[f.idx] = f.item
    BY <1>2, ItemHere, Words
  <2>2. change_dir_plan(n).writes = <<>> /\ change_dir_plan(n).cwd = x
    BY <1>2 DEF change_dir_plan, Plan
  <2> HIDE DEF f
  <2>3. x # 0
    BY <2>1, <1>2 DEF Item
  <2>4. x \in B /\ disk[x].prev = 0 /\ disk[x].kind = "dir"
    BY <2>1, <2>3, <1>2 DEF ItemOk, KindOf
  <2> HIDE DEF x
  <2>5. TidyAs(disk, B, x, h, r, o, k)
    BY <2>4 DEF Here, TidyAs
  <2>6. Tidy(Now, x)
    BY <2>5, HereNow DEF Tidy
  <2>7. Run(Now, <<>>) = Now
    BY RunNone
  <2> QED BY <2>2, <2>6, <2>7 DEF PlanOk
<1> QED BY <1>1, <1>2

\* tfs_change_dir_parent: the parent of a directory is a directory.
LEMMA ChangeDirParentOk ==
  ASSUME NEW B, NEW h, NEW r, NEW o, NEW k, Here(B, h, r, o, k)
  PROVE  PlanOk(change_dir_parent_plan)
<1> DEFINE c  == current_dir_blk
           up == disk[c].parent
<1>1. CASE up = 0
  <2>1. change_dir_parent_plan = Plan(<<>>, "NOT_EXIST")
    BY <1>1 DEF change_dir_parent_plan
  <2> QED BY <2>1, NoWrites
<1>2. CASE up # 0
  <2>1. change_dir_parent_plan.writes = <<>> /\ change_dir_parent_plan.cwd = up
    BY <1>2 DEF change_dir_parent_plan, Plan
  <2>2. /\ Struct(disk, B, h, r, o, k) /\ c \in B /\ disk[c].kind = "dir" /\ disk[c].prev = 0
    BY DEF Here, TidyAs
  <2>3. HeadOk(disk, B, o, k, c)
    BY <2>2, <1>2 DEF Struct
  <2> DEFINE b == o[c]
             it == disk[b].items[k[c]]
  <2>4. b \in B /\ k[c] \in 1 .. DirItems /\ Used(disk, b, k[c]) /\ it.blk = c /\ c # 0
    BY <2>2, <2>3, StructOf DEF HeadOk
  <2>5. ItemOk(disk, B, h, r, o, k, b, k[c]) /\ LinkOk(disk, B, h, r, b)
    BY <2>2, <2>4 DEF Struct
  <2>6. it.type = DIR /\ up = h[b]
    BY <2>2, <2>4, <2>5 DEF ItemOk, KindOf
  <2>7. h[b] \in B /\ disk[h[b]].prev = 0 /\ disk[h[b]].kind = "dir"
    BY <2>4, <2>5 DEF LinkOk, Used
  <2>8. TidyAs(disk, B, up, h, r, o, k)
    <3> HIDE DEF b
    <3> QED BY <2>6, <2>7 DEF Here, TidyAs
  <2> HIDE DEF up
  <2>9. Tidy(Now, up)
    BY <2>8, HereNow DEF Tidy
  <2>10. Run(Now, <<>>) = Now
    BY RunNone
  <2> QED BY <2>1, <2>9, <2>10 DEF PlanOk
<1> QED BY <1>1, <1>2

\* tfs_rename keeps the structure.
LEMMA RenameOk ==
  ASSUME NEW B, NEW h, NEW r, NEW o, NEW k, Here(B, h, r, o, k), NEW from, NEW to \in GivenNames
  PROVE  PlanOk(rename_plan(from, to))
<1> DEFINE f == find_item(from)
           b == f.blk
           i == f.idx
           x == [disk[b] EXCEPT !.items[i].name = to]
           it == [f.item EXCEPT !.name = to]
           d == [disk EXCEPT ![b] = x]
<1>1. (\E err : rename_plan(from, to) = Plan(<<>>, err))
      \/ (rename_plan(from, to) = Plan(<<Put(b, x)>>, "OK") /\ f.item.type # FREE)
  BY DEF rename_plan
<1>2. CASE \E err : rename_plan(from, to) = Plan(<<>>, err)
  BY <1>2, NoWrites
<1>3. CASE rename_plan(from, to) = Plan(<<Put(b, x)>>, "OK") /\ f.item.type # FREE
  <2>1. /\ f.item \in Item /\ b \in B /\ i \in 1 .. DirItems /\ b \in Blocks /\ disk[b] \in DirBlks
        /\ disk[b].items[i] = f.item /\ Used(disk, b, i)
    BY <1>3, ItemHere
  <2>2. rename_plan(from, to).writes = <<Put(b, x)>> /\ rename_plan(from, to).cwd = current_dir_blk
    BY <1>3 DEF Plan
  <2> HIDE DEF f, b, i
  <2>3. it \in Item /\ it.blk = f.item.blk /\ it.type = f.item.type
    BY <2>1 DEF Item
  <2>4. x = [disk[b] EXCEPT !.items[i] = it]
    BY <2>1 DEF DirBlks
  <2> HIDE DEF it, x
  <2>5. x \in DirBlks /\ ItemPut(disk[b], x, i, it)
    BY <2>1, <2>3, <2>4, PutItemIs
  <2>6. Struct(disk, B, h, r, o, k) /\ OneEmpty(disk, B, h) /\ disk \in Disks
    BY DEF Here, TidyAs, Struct
  <2>7. d \in Disks /\ d[b] = x /\ \A c \in B : c # b => d[c] = disk[c]
    BY <2>1, <2>5, <2>6 DEF Disks, Contents
  <2> HIDE DEF d
  <2>8. Relabels(disk, d, B, b, i, it)
    BY <2>1, <2>3, <2>5, <2>7 DEF Relabels
  <2>9. Struct(d, B, h, r, o, k) /\ KeepsHeads(disk, d, B, h, h)
    BY <2>6, <2>8, Relabel
  <2>10. OneEmpty(d, B, h)
    BY <2>6, <2>8, Relabel
  <2>11. TidyAs(d, B, current_dir_blk, h, r, o, k)
    BY <2>9, <2>10 DEF Here, TidyAs, KeepsHeads
  <2>12. Run(St(disk, {0} \cup B), <<Put(b, x)>>) = St([disk EXCEPT ![b] = x], {0} \cup B)
    BY RunPut
  <2>13. Run(Now, <<Put(b, x)>>) = St(d, {0} \cup B)
    BY <2>12, HereNow DEF d
  <2>14. Tidy(St(d, {0} \cup B), current_dir_blk)
    BY <2>11 DEF Tidy
  <2> QED BY <2>2, <2>13, <2>14 DEF PlanOk
<1> QED BY <1>1, <1>2, <1>3

\* A new drive.
NewDrive == [b \in Blocks |-> IF b = TFS_ROOT_DIR_BLK THEN DirBlk(0, 0, 0, NoItems) ELSE Junk]

\* The first block of an empty root directory is a directory block.
LEMMA RootBlk == DirBlk(0, 0, 0, NoItems) \in DirBlks
<1>1. NoItems \in [1 .. DirItems -> Item]
  BY FreeItemType DEF NoItems
<1> HIDE DEF NoItems
<1> QED BY <1>1, Sizes DEF DirBlk, DirBlks

\* A drive that was just formatted is tidy.
LEMMA NewDriveTidy ==
  Tidy(St(NewDrive, {0, TFS_ROOT_DIR_BLK}), TFS_ROOT_DIR_BLK) /\ NewDrive \in Disks
<1> DEFINE d == NewDrive
           R == TFS_ROOT_DIR_BLK
           B == {R}
           h == [b \in Blocks |-> R]
           r == [b \in Blocks |-> 0]
<1>1. R \in Blocks /\ d[R] = DirBlk(0, 0, 0, NoItems) /\ \A b \in Blocks : b # R => d[b] = Junk
  BY Sizes DEF NewDrive
<1>2. d \in Disks
  BY RootBlk DEF NewDrive, Disks, Contents
<1>3. /\ d[R].kind = "dir" /\ d[R].prev = 0 /\ d[R].next = 0 /\ d[R].parent = 0
      /\ Empty(d, R)
  BY <1>1 DEF DirBlk, Empty, NoItems, FreeItem
<1> HIDE DEF d, R
<1>4. LinkOk(d, B, h, r, R)
  BY <1>1, <1>3 DEF LinkOk
<1>5. Struct(d, B, h, r, h, r)
  <2>1. B \subseteq Blocks /\ h \in [Blocks -> Blocks] /\ r \in [Blocks -> Nat]
    BY <1>1
  <2>2. \A i \in 1 .. DirItems : ~Used(d, R, i)
    BY <1>3 DEF Empty, Used
  <2>3. \A b \in B : b = R
    OBVIOUS
  <2>4. R \in B /\ R = TFS_ROOT_DIR_BLK
    BY DEF R
  <2> HIDE DEF h, r, B
  <2> QED BY <2>1, <2>2, <2>3, <2>4, <1>2, <1>3, <1>4 DEF Struct, R
<1>6. OneEmpty(d, B, h)
  BY DEF OneEmpty
<1>7. TidyAs(d, B, R, h, r, h, r)
  BY <1>3, <1>5, <1>6 DEF TidyAs
<1>8. {0, R} = {0} \cup B
  OBVIOUS
<1>9. St(d, {0, R}) = St(d, {0} \cup B)
  BY <1>8
<1> HIDE DEF B, h, r
<1>10. Tidy(St(d, {0, R}), R)
  BY <1>7, <1>9 DEF Tidy
<1> QED BY <1>2, <1>10 DEF d, R

\* What tfs_format makes of any drive.
LEMMA FormatIs ==
  ASSUME NEW s
  PROVE  Run(s, format_plan.writes) = St(NewDrive, {0, TFS_ROOT_DIR_BLK})
<1> DEFINE R == TFS_ROOT_DIR_BLK
           x == DirBlk(0, 0, 0, NoItems)
           d0 == [b \in Blocks |-> Junk]
<1>1. format_plan.writes = <<Wipe, Alloc(R), Put(R, x)>>
  BY DEF format_plan
<1>2. Run(s, <<Wipe, Alloc(R), Put(R, x)>>) = Apply(Apply(Apply(s, Wipe), Alloc(R)), Put(R, x))
  BY RunThree
<1>3. Apply(s, Wipe) = St(d0, {0})
  BY DEF Apply, Wipe, St, InRam
<1>4. Apply(St(d0, {0}), Alloc(R)) = St(d0, {0} \cup {R})
  <2>1. Alloc(R).op = "alloc" /\ Alloc(R).blk = R
    BY DEF Alloc
  <2> QED BY <2>1, ApplyAlloc
<1>5. Apply(St(d0, {0} \cup {R}), Put(R, x)) = St([d0 EXCEPT ![R] = x], {0} \cup {R})
  BY ApplyPut
<1>6. [d0 EXCEPT ![R] = x] = NewDrive /\ {0} \cup {R} = {0, R}
  BY DEF NewDrive
<1> HIDE DEF x, d0, R
<1>7. Apply(Apply(Apply(s, Wipe), Alloc(R)), Put(R, x)) = St(NewDrive, {0, R})
  BY <1>3, <1>4, <1>5, <1>6
<1> QED BY <1>1, <1>2, <1>7 DEF x, R

\* tfs_format leaves a tidy drive, whatever was on it.
LEMMA FormatOk == PlanOk(format_plan)
<1>1. Run(Now, format_plan.writes) = St(NewDrive, {0, TFS_ROOT_DIR_BLK})
  BY FormatIs
<1>2. format_plan.cwd = TFS_ROOT_DIR_BLK
  BY DEF format_plan
<1> QED BY <1>1, <1>2, NewDriveTidy DEF PlanOk

\* The structure stays tidy when an item with its chain is added.
LEMMA AttachTidy ==
  ASSUME NEW d, NEW B, NEW cwd, NEW h, NEW r, NEW o, NEW k, TidyAs(d, B, cwd, h, r, o, k),
         NEW e, NEW b, NEW i, NEW it, NEW bs, Attaches(d, e, B, h, b, i, it, bs)
  PROVE  Tidy(St(e, ({0} \cup B) \cup Range(bs)), cwd)
<1>1. /\ Struct(d, B, h, r, o, k) /\ OneEmpty(d, B, h)
      /\ cwd \in B /\ d[cwd].kind = "dir" /\ d[cwd].prev = 0
  BY DEF TidyAs
<1>2. PICK h2, r2, o2, k2 : AttachedAs(d, e, B, h, bs, h2, r2, o2, k2)
  BY <1>1, Attach
<1> DEFINE C == B \cup Range(bs)
<1>3. TidyAs(e, C, cwd, h2, r2, o2, k2)
  BY <1>1, <1>2 DEF AttachedAs, TidyAs, KeepsHeads
<1>4. ({0} \cup B) \cup Range(bs) = {0} \cup C
  OBVIOUS
<1> HIDE DEF C
<1>5. Tidy(St(e, {0} \cup C), cwd)
  BY <1>3 DEF Tidy
<1> QED BY <1>4, <1>5

\* After, from the present state.
LEMMA AfterIs ==
  ASSUME NEW ws
  PROVE  After(ws) = Run(Now, ws)
  BY DEF After, Now

\* The new directory.
LEMMA CreateDirWrites ==
  ASSUME NEW n \in GivenNames, NEW s, NEW d, NEW B, NEW h, NEW r, NEW o, NEW k,
         Ready(s, d, B, h, r, o, k), s.dir.items[s.idx].type = FREE,
         NEW z \in Blocks, z \notin B, NEW it, it = [type |-> DIR, name |-> n, blk |-> z, size |-> 0]
  PROVE  Tidy(Run(Now, s.writes \o <<Alloc(z), PutItem(s, it), Put(z, NewDirBlk(s))>>),
              current_dir_blk)
<1> DEFINE b == s.blk
           i == s.idx
           x == [s.dir EXCEPT !.items[i] = it]
           y == DirBlk(0, 0, current_dir_blk, NoItems)
           e1 == [d EXCEPT ![b] = x]
           e == [e1 EXCEPT ![z] = y]
           u == {0} \cup B
           ws == <<Alloc(z), Put(b, x), Put(z, y)>>
<1>1. /\ IsList(s.writes) /\ Run(Now, s.writes) = St(d, u)
      /\ TidyAs(d, B, current_dir_blk, h, r, o, k)
      /\ b \in B /\ i \in 1 .. DirItems /\ h[b] = current_dir_blk
      /\ s.dir = d[b] /\ s.dir \in DirBlks
  BY DEF Ready
<1>2. it \in Item /\ it.type = DIR /\ it.blk = z
  BY Sizes, Words DEF Item
<1>3. x \in DirBlks /\ ItemPut(d[b], x, i, it)
  BY <1>1, <1>2, PutItemIs
<1>4. y \in DirBlks /\ y.kind = "dir" /\ y.prev = 0 /\ y.next = 0 /\ y.parent = current_dir_blk
      /\ \A j \in 1 .. DirItems : y.items[j].type = FREE
  <2>1. NoItems \in [1 .. DirItems -> Item] /\ \A j \in 1 .. DirItems : NoItems[j].type = FREE
    BY FreeItemType DEF NoItems, FreeItem
  <2>2. current_dir_blk \in Ptrs
    <3>1. current_dir_blk \in B /\ B \subseteq Blocks
      BY <1>1, StructOf DEF TidyAs
    <3> QED BY <3>1, Sizes
  <2> HIDE DEF NoItems
  <2> QED BY <2>1, <2>2, Sizes DEF DirBlk, DirBlks
<1>5. s.writes \o <<Alloc(z), PutItem(s, it), Put(z, NewDirBlk(s))>> = s.writes \o ws
  BY DEF PutItem, NewDirBlk
<1>6. Run(Now, s.writes \o ws) = Run(St(d, u), ws)
  <2>1. IsList(ws)
    BY ShortLists
  <2> HIDE DEF ws
  <2> QED BY <2>1, <1>1, RunJoin
<1> HIDE DEF x, y
<1>7. Run(St(d, u), ws) = St(e, u \cup {z})
  <2>1. Run(St(d, u), ws) = Apply(Apply(Apply(St(d, u), Alloc(z)), Put(b, x)), Put(z, y))
    BY RunThree
  <2>2. Apply(St(d, u), Alloc(z)) = St(d, u \cup {z})
    <3>1. Alloc(z).op = "alloc" /\ Alloc(z).blk = z
      BY DEF Alloc
    <3> QED BY <3>1, ApplyAlloc
  <2>3. Apply(St(d, u \cup {z}), Put(b, x)) = St(e1, u \cup {z})
    BY ApplyPut
  <2> HIDE DEF e1, u, ws
  <2>4. Apply(St(e1, u \cup {z}), Put(z, y)) = St(e, u \cup {z})
    BY ApplyPut
  <2> HIDE DEF e
  <2> QED BY <2>1, <2>2, <2>3, <2>4
<1>8. d \in Disks /\ B \subseteq Blocks
  BY <1>1 DEF TidyAs, Struct
<1>9. e \in Disks /\ e[z] = y /\ e[b] = x /\ \A c \in B : c # b => e[c] = d[c]
  <2>1. \A c \in Blocks : e[c] = IF c = z THEN y ELSE IF c = b THEN x ELSE d[c]
    BY <1>1, <1>8 DEF Disks
  <2>2. \A c \in Blocks : e[c] \in Contents
    BY <2>1, <1>3, <1>4, <1>8 DEF Disks, Contents
  <2>3. e = [c \in Blocks |-> e[c]]
    BY <1>8 DEF Disks
  <2> HIDE DEF e, b
  <2> QED BY <2>1, <2>2, <2>3, <1>1, <1>8 DEF Disks
<1> HIDE DEF e
<1> DEFINE bs == <<z>>
<1>10. Len(bs) = 1 /\ bs[1] = z /\ Range(bs) = {z} /\ bs \in Seq(Blocks) /\ \A j \in 1 .. Len(bs) : j = 1
  BY DEF Range
<1> HIDE DEF bs, b, i, u
<1>11. AttachedTo(d, e, B, b, i, it, bs, h[b])
  <2>1. ItemPut(d[b], e[b], i, it) /\ \A c \in B : c # b => e[c] = d[c]
    BY <1>3, <1>9
  <2>2. ASSUME NEW j \in 1 .. Len(bs)
        PROVE  /\ e[bs[j]].kind = KindOf(it)
               /\ e[bs[j]].prev = IF j = 1 THEN 0 ELSE bs[j - 1]
               /\ e[bs[j]].next = IF j = Len(bs) THEN 0 ELSE bs[j + 1]
               /\ it.type = DIR => Len(bs) = 1 /\ e[bs[j]].parent = h[b] /\ Empty(e, bs[j])
    <3>1. j = 1 /\ bs[j] = z /\ j = Len(bs) /\ Len(bs) = 1
      BY <1>10
    <3>2. e[z].kind = KindOf(it)
      BY <1>2, <1>4, <1>9 DEF KindOf
    <3>3. Empty(e, z) /\ e[z].prev = 0 /\ e[z].next = 0 /\ e[z].parent = h[b]
      BY <1>1, <1>4, <1>9 DEF Empty
    <3> QED BY <3>1, <3>2, <3>3
  <2> QED BY <2>1, <2>2 DEF AttachedTo
<1>12. Attaches(d, e, B, h, b, i, it, bs)
  <2>1. it.type # FREE /\ d[b].items[i].type = FREE
    BY <1>1, <1>2, Words DEF b, i
  <2>2. \A j \in 1 .. Len(bs) : bs[j] \notin B
    BY <1>10
  <2>3. \A j, m \in 1 .. Len(bs) : bs[j] = bs[m] => j = m
    BY <1>10
  <2>4. it.blk = IF Len(bs) = 0 THEN 0 ELSE bs[1]
    BY <1>2, <1>10
  <2> QED BY <2>1, <2>2, <2>3, <2>4, <1>1, <1>2, <1>9, <1>10, <1>11 DEF Attaches
<1>13. Tidy(St(e, ({0} \cup B) \cup Range(bs)), current_dir_blk)
  BY <1>1, <1>12, AttachTidy
<1> QED BY <1>5, <1>6, <1>7, <1>10, <1>13 DEF u

\* The structure is tidy after find_file has added a block to the directory.
LEMMA SlotTidy ==
  ASSUME NEW s, NEW d, NEW B, NEW h, NEW r, NEW o, NEW k, Ready(s, d, B, h, r, o, k), NEW err
  PROVE  PlanOk(Plan(s.writes, err))
<1>1. Run(Now, s.writes) = St(d, {0} \cup B) /\ TidyAs(d, B, current_dir_blk, h, r, o, k)
  BY DEF Ready
<1>2. Tidy(St(d, {0} \cup B), current_dir_blk)
  BY <1>1 DEF Tidy
<1>3. Plan(s.writes, err).writes = s.writes /\ Plan(s.writes, err).cwd = current_dir_blk
  BY DEF Plan
<1> QED BY <1>1, <1>2, <1>3 DEF PlanOk

\* tfs_create_dir keeps the structure, on a full drive too.
LEMMA CreateDirOk ==
  ASSUME NEW B, NEW h, NEW r, NEW o, NEW k, Here(B, h, r, o, k), NEW n \in GivenNames
  PROVE  PlanOk(create_dir_plan(n))
<1> DEFINE s == find_slot(n)
           new == FreeBlocks(After(s.writes).ram, 1)
           z == new[1]
           it == [type |-> DIR, name |-> n, blk |-> z, size |-> 0]
           p == create_dir_plan(n)
           free == s.dir.items[s.idx].type = FREE
<1>1. \/ s.err = "DISK_FULL"
      \/ s.err = "OK" /\ \E d, C, h2, r2 : Ready(s, d, C, h2, r2, o, k)
  <2>1. \/ s.err = "DISK_FULL" /\ s.writes = <<>>
        \/ Ready(s, disk, B, h, r, o, k) /\ s.writes = <<>>
        \/ /\ s.err = "OK" /\ s.dir.items[s.idx].type = FREE
           /\ \E d, C, h2, r2 : Ready(s, d, C, h2, r2, o, k)
    BY SlotReady
  <2> HIDE DEF s
  <2>2. CASE Ready(s, disk, B, h, r, o, k)
    <3>1. s.err = "OK"
      BY <2>2 DEF Ready
    <3> QED BY <3>1, <2>2
  <2> QED BY <2>1, <2>2
<1>2. /\ s.err # "OK" => p = Plan(<<>>, s.err)
      /\ s.err = "OK" /\ ~free => p = Plan(<<>>, "FILE_EXIST")
      /\ s.err = "OK" /\ free /\ new = <<>> => p = Plan(s.writes, "DISK_FULL")
      /\ s.err = "OK" /\ free /\ new # <<>> =>
           p = Plan(s.writes \o <<Alloc(z), PutItem(s, it), Put(z, NewDirBlk(s))>>, "OK")
  BY DEF create_dir_plan
<1> HIDE DEF s, p
<1>3. CASE s.err # "OK" \/ ~free
  <2>1. \E err : p = Plan(<<>>, err)
    BY <1>1, <1>2, <1>3
  <2>2. PlanOk(p)
    BY <2>1, NoWrites
  <2> QED BY <2>2 DEF p
<1>4. CASE s.err = "OK" /\ free
  <2>1. PICK d, C, h2, r2 : Ready(s, d, C, h2, r2, o, k)
    BY <1>1, <1>4
  <2>2. CASE new = <<>>
    <3>1. PlanOk(Plan(s.writes, "DISK_FULL"))
      BY <2>1, SlotTidy
    <3> QED BY <3>1, <2>2, <1>2, <1>4 DEF p
  <2>3. CASE new # <<>>
    <3>0. p = Plan(s.writes \o <<Alloc(z), PutItem(s, it), Put(z, NewDirBlk(s))>>, "OK")
      BY <2>3, <1>2, <1>4
    <3>1. After(s.writes).ram = {0} \cup C
      BY <2>1, AfterIs DEF Ready, St
    <3>2. new \in Seq(Blocks) /\ Len(new) \in Nat /\ \A i \in 1 .. Len(new) : new[i] \in Blocks /\ new[i] \notin {0} \cup C
      <4> DEFINE u == {0} \cup C
      <4>1. 0 \in u /\ 1 \in Nat /\ new = FreeBlocks(u, 1)
        BY <3>1
      <4> HIDE DEF u, new
      <4> QED BY <4>1, FreeBlocksFacts DEF u
    <3> HIDE DEF new
    <3>3. Len(new) >= 1
      BY <3>2, <2>3
    <3>4. z \in Blocks /\ z \notin C
      BY <3>2, <3>3
    <3> HIDE DEF z
    <3>5. Tidy(Run(Now, s.writes \o <<Alloc(z), PutItem(s, it), Put(z, NewDirBlk(s))>>), current_dir_blk)
      BY <2>1, <3>4, <1>4, CreateDirWrites
    <3>6. p.writes = s.writes \o <<Alloc(z), PutItem(s, it), Put(z, NewDirBlk(s))>> /\ p.cwd = current_dir_blk
      <4> DEFINE ws == s.writes \o <<Alloc(z), PutItem(s, it), Put(z, NewDirBlk(s))>>
      <4>1. p = Plan(ws, "OK")
        BY <3>0
      <4> HIDE DEF ws
      <4>2. p.writes = ws /\ p.cwd = current_dir_blk
        BY <4>1 DEF Plan
      <4> QED BY <4>2 DEF ws
    <3> HIDE DEF it
    <3>7. PlanOk(p)
      BY <3>5, <3>6 DEF PlanOk
    <3> QED BY <3>7 DEF p
  <2> QED BY <2>2, <2>3
<1> QED BY <1>1, <1>3, <1>4

-----------------------------------------------------------------------------
(* tfs_delete.                                                             *)

\* What Detach leaves.
DetachedAs(d, e, B, C, h, r, o, k, b) ==
  /\ Struct(e, C, h, r, o, k) /\ b \in C /\ KeepsHeads(d, e, C, h, h)
  /\ \A c \in B : r[h[c]] <= r[b] => c \in C
  /\ OneEmpty(d, B, h) => OneEmptyBut(e, C, h, b)

\* An item is cleared in the structure.
LEMMA Detaching ==
  ASSUME NEW d, NEW B, NEW h, NEW r, NEW o, NEW k, Struct(d, B, h, r, o, k),
         NEW b, NEW i, NEW it, NEW x, NEW e, Detaches(d, e, B, h, b, i, it, x)
  PROVE  DetachedAs(d, e, B, B \ ChainSet(B, h, x), h, r, o, k, b)
<1>1. LET C == B \ ChainSet(B, h, x) IN
         /\ Struct(e, C, h, r, o, k)
         /\ b \in C /\ KeepsHeads(d, e, C, h, h)
         /\ \A c \in B : r[h[c]] <= r[b] => c \in C
         /\ OneEmpty(d, B, h) => OneEmptyBut(e, C, h, b)
  BY Detach
<1> QED BY <1>1 DEF DetachedAs

\* The blocks ch of the entry f go, and the directory block that nothing is left in.
LEMMA RemoveOk ==
  ASSUME NEW B, NEW h, NEW r, NEW o, NEW k, Here(B, h, r, o, k),
         NEW b \in B, NEW i \in 1 .. DirItems, NEW x, x = disk[b].items[i].blk,
         Used(disk, b, i), h[b] = current_dir_blk,
         \A c \in B : h[c] = x /\ disk[c].kind = "dir" => Empty(disk, c),
         NEW ch \in Seq(Blocks), Range(ch) = ChainSet(B, h, x),
         NEW rest, rest = [disk[b] EXCEPT !.items[i] = FreeItem]
  PROVE  Tidy(Run(Now, write_dir_cleanup(b, rest) \o Frees(ch)), current_dir_blk)
<1> DEFINE d == [disk EXCEPT ![b] = rest]
           C == B \ ChainSet(B, h, x)
           u == {0} \cup B
           cwd == current_dir_blk
<1>1. /\ Struct(disk, B, h, r, o, k) /\ OneEmpty(disk, B, h)
      /\ cwd \in B /\ disk[cwd].kind = "dir" /\ disk[cwd].prev = 0
  BY DEF Here, TidyAs
<1>2. b \in Blocks /\ disk \in Disks /\ disk[b] \in DirBlks /\ 0 \notin B
  BY <1>1, StructOf, StructTypes DEF Used
<1>3. rest \in DirBlks /\ ItemPut(disk[b], rest, i, FreeItem) /\ FreeItem \in Item /\ FreeItem.blk = 0
  <2>1. FreeItem \in Item /\ FreeItem.blk = 0
    BY FreeItemType DEF FreeItem
  <2> QED BY <2>1, <1>2, PutItemIs
<1>4. rest.prev = disk[b].prev /\ rest.next = disk[b].next
  BY <1>3 DEF ItemPut, SameLinks
<1> HIDE DEF d
<1>5. d \in Disks /\ d[b] = rest /\ \A y \in Blocks : d[y] = IF y = b THEN rest ELSE disk[y]
  BY <1>2, <1>3 DEF d, Disks, Contents
<1>6. Detaches(disk, d, B, h, b, i, FreeItem, x)
  <2>1. \A c \in B \ ChainSet(B, h, x) : c # b => d[c] = disk[c]
    BY <1>1, <1>5, StructOf
  <2> QED BY <2>1, <1>3, <1>5 DEF Detaches
<1>7. /\ Struct(d, C, h, r, o, k)
      /\ b \in C /\ KeepsHeads(disk, d, C, h, h)
      /\ \A c \in B : r[h[c]] <= r[b] => c \in C
      /\ OneEmptyBut(d, C, h, b)
  <2>1. DetachedAs(disk, d, B, C, h, r, o, k, b)
    BY <1>1, <1>6, Detaching
  <2> HIDE DEF C
  <2> QED BY <2>1, <1>1 DEF DetachedAs
<1>8. cwd \in C
  <2>1. LinkOk(disk, B, h, r, cwd) /\ LinkOk(disk, B, h, r, b)
    BY <1>1 DEF Struct
  <2>2. h[cwd] = cwd /\ r[h[b]] <= r[b]
    BY <2>1, <1>1 DEF LinkOk
  <2> QED BY <2>2, <1>1, <1>7
<1>9. Range(ch) \cap C = {}
  OBVIOUS
<1>10. C \subseteq B /\ B \subseteq C \cup Range(ch)
  OBVIOUS
<1> HIDE DEF C, u
<1>11. PICK e, C2, o2 :
         /\ Run(St(disk, u), write_dir_cleanup(b, rest) \o Frees(ch)) =
              St(e, (u \ (C \ C2)) \ Range(ch))
         /\ C2 \subseteq C /\ Struct(e, C2, h, r, o2, k) /\ OneEmpty(e, C2, h)
         /\ \A y \in C : d[y].prev = 0 => y \in C2 /\ e[y].prev = 0 /\ e[y].kind = d[y].kind
  <2>1. Cleans(d, b, rest, C, h, r, o, k, ch)
    BY <1>2, <1>3, <1>4, <1>5 DEF Cleans
  <2>2. CleanSet(d, b, C, h, r, o, k, ch)
    BY <1>7, <1>9 DEF CleanSet
  <2>3. \E e, C2, o2 : CleanedAs(d, b, rest, C, h, r, k, ch, u, e, C2, o2)
    BY <2>1, <2>2, CleanupKeeps
  <2> QED BY <2>3 DEF CleanedAs
<1>12. (u \ (C \ C2)) \ Range(ch) = {0} \cup C2
  <2>1. Range(ch) \subseteq B
    BY DEF ChainSet
  <2> QED BY <2>1, <1>2, <1>9, <1>10, <1>11 DEF u
<1>13. TidyAs(e, C2, cwd, h, r, o2, k)
  <2>1. d[cwd].prev = 0 /\ d[cwd].kind = "dir"
    BY <1>1, <1>7, <1>8 DEF KeepsHeads
  <2> QED BY <2>1, <1>8, <1>11 DEF TidyAs
<1>14. Now = St(disk, u)
  BY HereNow DEF u
<1>15. Tidy(St(e, {0} \cup C2), cwd)
  BY <1>13 DEF Tidy
<1> QED BY <1>11, <1>12, <1>14, <1>15

\* The chain of a file is what ChainSet says, also when there is none.
LEMMA FileChain ==
  ASSUME NEW d, NEW B, NEW h, NEW r, NEW o, NEW k, Struct(d, B, h, r, o, k),
         NEW x, x = 0 \/ (x \in B /\ d[x].prev = 0 /\ d[x].kind = "data")
  PROVE  /\ Chain(d, x) \in Seq(Blocks) /\ Range(Chain(d, x)) = ChainSet(B, h, x)
         /\ \A c \in B : h[c] = x => d[c].kind = "data"
<1>1. /\ d \in Disks /\ B \subseteq Blocks /\ 0 \notin B /\ \A b \in B : LinkOk(d, B, h, r, b)
  BY StructOf
<1>2. CASE x = 0
  <2>1. \A b \in Blocks : Follow(d, b) \in Ptrs
    BY <1>1, FollowType
  <2>2. Walks(d, Chain(d, 0), 0, BlkCount - 1)
    BY <2>1, Sizes, ChainWalks
  <2>3. Chain(d, 0) = <<>>
    BY <2>2 DEF Walks
  <2>4. ChainSet(B, h, 0) = {} /\ \A c \in B : h[c] # 0
    BY <1>1 DEF ChainSet, LinkOk
  <2>5. Range(<<>>) = {} /\ <<>> \in Seq(Blocks)
    BY DEF Range
  <2> QED BY <1>2, <2>3, <2>4, <2>5
<1>3. CASE x \in B /\ d[x].prev = 0 /\ d[x].kind = "data"
  <2>1. ChainIs(d, B, h, x, Chain(d, x))
    BY <1>3, ChainOf
  <2>2. Range(Chain(d, x)) = ChainSet(B, h, x)
    BY <2>1 DEF ChainIs, ChainSet
  <2>3. \A c \in B : h[c] = x => d[c].kind = "data"
    BY <1>1, <1>3 DEF LinkOk
  <2> QED BY <2>1, <2>2, <2>3 DEF ChainIs
<1> QED BY <1>2, <1>3

\* tfs_delete keeps the structure.
LEMMA DeleteOk ==
  ASSUME NEW B, NEW h, NEW r, NEW o, NEW k, Here(B, h, r, o, k), NEW n, NEW types,
         types \subseteq {DIR, FILE}
  PROVE  PlanOk(delete_plan(n, types))
<1> DEFINE f == find_item(n)
           b == f.blk
           i == f.idx
           x == f.item.blk
           rest == [disk[b] EXCEPT !.items[i] = FreeItem]
           p == delete_plan(n, types)
           file == Plan(write_dir_cleanup(b, rest) \o free_file_blocks(x), "OK")
           dir == Plan(write_dir_cleanup(b, rest) \o <<Free(x)>>, "OK")
<1>1. \/ \E err : p = Plan(<<>>, err)
      \/ f.item.type = FILE /\ p = file
      \/ /\ f.item.type = DIR /\ p = dir
         /\ disk[x].next = 0 /\ \A j \in 1 .. DirItems : disk[x].items[j].type = FREE
  BY DEF delete_plan
<1> HIDE DEF p, f
<1>2. Struct(disk, B, h, r, o, k)
  BY DEF Here, TidyAs
<1>3. ASSUME f.item.type # FREE
      PROVE  /\ f.item \in Item /\ b \in B /\ h[b] = current_dir_blk /\ i \in 1 .. DirItems
             /\ x = disk[b].items[i].blk /\ Used(disk, b, i) /\ ItemOk(disk, B, h, r, o, k, b, i)
             /\ disk[b].items[i] = f.item
  BY <1>3, ItemHere DEF f
<1>4. CASE \E err : p = Plan(<<>>, err)
  BY <1>4, NoWrites DEF p
<1>5. CASE f.item.type = FILE /\ p = file
  <2>1. f.item.type # FREE
    BY <1>5, Words
  <2> DEFINE ch == Chain(disk, x)
  <2>2. free_file_blocks(x) = Frees(ch)
    BY DEF free_file_blocks, Frees
  <2> HIDE DEF ch
  <2>3. x = 0 \/ (x \in B /\ disk[x].prev = 0 /\ disk[x].kind = "data")
    BY <2>1, <1>3, <1>5, Words DEF ItemOk, KindOf
  <2>4. /\ ch \in Seq(Blocks) /\ Range(ch) = ChainSet(B, h, x)
        /\ \A c \in B : h[c] = x => disk[c].kind = "data"
    BY <2>3, <1>2, FileChain DEF ch
  <2>5. p.writes = write_dir_cleanup(b, rest) \o Frees(ch) /\ p.cwd = current_dir_blk
    BY <1>5, <2>2 DEF Plan
  <2>6. /\ b \in B /\ i \in 1 .. DirItems /\ x = disk[b].items[i].blk
        /\ Used(disk, b, i) /\ h[b] = current_dir_blk
        /\ \A c \in B : h[c] = x /\ disk[c].kind = "dir" => Empty(disk, c)
    BY <2>1, <2>4, <1>3
  <2> HIDE DEF b, i, x
  <2>7. Tidy(Run(Now, write_dir_cleanup(b, rest) \o Frees(ch)), current_dir_blk)
    BY <2>4, <2>6, RemoveOk
  <2> HIDE DEF rest
  <2> QED BY <2>5, <2>7 DEF PlanOk, p
<1>6. CASE /\ f.item.type = DIR /\ p = dir
           /\ disk[x].next = 0 /\ \A j \in 1 .. DirItems : disk[x].items[j].type = FREE
  <2>1. f.item.type # FREE
    BY <1>6, Words
  <2> DEFINE ch == <<x>>
  <2>2. x # 0
    BY <2>1, <1>3, <1>6 DEF Item
  <2>3. x \in B /\ disk[x].prev = 0 /\ x \in Blocks /\ h[x] = x
    <3>1. x \in B /\ disk[x].prev = 0
      BY <2>1, <2>2, <1>3 DEF ItemOk
    <3> HIDE DEF x
    <3> QED BY <3>1, <1>2, StructTypes DEF Struct, LinkOk
  <2>4. \A c \in B : h[c] = x => c = x
    <3> HIDE DEF x
    <3> QED BY <2>3, <1>2, <1>6, OneBlock DEF x
  <2>5. ch \in Seq(Blocks) /\ Range(ch) = ChainSet(B, h, x)
    <3>1. ch \in Seq(Blocks) /\ Range(ch) = {x}
      BY <2>3 DEF Range
    <3>2. ChainSet(B, h, x) = {x}
      BY <2>3, <2>4 DEF ChainSet
    <3> QED BY <3>1, <3>2
  <2>6. <<Free(x)>> = Frees(ch)
    BY DEF Frees
  <2>7. p.writes = write_dir_cleanup(b, rest) \o Frees(ch) /\ p.cwd = current_dir_blk
    BY <1>6, <2>6 DEF Plan
  <2>8. /\ b \in B /\ i \in 1 .. DirItems /\ x = disk[b].items[i].blk
        /\ Used(disk, b, i) /\ h[b] = current_dir_blk
    BY <2>1, <1>3
  <2>9. \A c \in B : h[c] = x /\ disk[c].kind = "dir" => Empty(disk, c)
    BY <2>4, <1>6 DEF Empty
  <2> HIDE DEF b, i, x, ch
  <2>10. Tidy(Run(Now, write_dir_cleanup(b, rest) \o Frees(ch)), current_dir_blk)
    BY <2>5, <2>8, <2>9, RemoveOk
  <2> HIDE DEF rest
  <2> QED BY <2>7, <2>10 DEF PlanOk, p
<1> QED BY <1>1, <1>4, <1>5, <1>6

-----------------------------------------------------------------------------
(* tfs_write_file.                                                         *)

\* The writes ws have made room on the drive d: the structure is that of g, where
\* the item in slot i of block b refers to no block, and c is what RAM holds of b.
WriteReady(ws, d, g, B, h, r, o, k, b, i, c) ==
  /\ IsList(ws) /\ Run(Now, ws) = St(d, {0} \cup B) /\ d \in Disks
  /\ TidyAs(g, B, current_dir_blk, h, r, o, k)
  /\ b \in B /\ i \in 1 .. DirItems /\ (g[b].items[i].type = FREE \/ g[b].items[i].blk = 0)
  /\ c \in DirBlks /\ SameLinks(c, g[b]) /\ g[b].kind = "dir"
  /\ \A j \in 1 .. DirItems : j # i => c.items[j] = g[b].items[j]
  /\ \A y \in B : y # b => d[y] = g[y]

\* The blocks of the new file.
NewFile(bs, B) ==
  /\ bs \in Seq(Blocks) /\ \A j \in 1 .. Len(bs) : bs[j] \notin B
  /\ \A j, m \in 1 .. Len(bs) : bs[j] = bs[m] => j = m

Mid(bs) == IF Len(bs) = 0 THEN <<>> ELSE <<Alloc(bs[1])>>

\* The writes of a file keep the structure when there is room for its item.
LEMMA WriteDone ==
  ASSUME NEW ws, NEW d, NEW g, NEW B, NEW h, NEW r, NEW o, NEW k, NEW b, NEW i, NEW c,
         WriteReady(ws, d, g, B, h, r, o, k, b, i, c), NEW bs, NewFile(bs, B),
         NEW v \in Payloads,
         NEW it \in Item, it.type = FILE, it.blk = IF Len(bs) = 0 THEN 0 ELSE bs[1]
  PROVE  Tidy(Run(Now, ws \o Mid(bs) \o <<Put(b, [c EXCEPT !.items[i] = it])>> \o DataWrites(bs, v)),
              current_dir_blk)
<1> DEFINE x == [c EXCEPT !.items[i] = it]
           e1 == [d EXCEPT ![b] = x]
           u == {0} \cup B
           n == Len(bs)
           put == <<Put(b, x)>>
           data == DataWrites(bs, v)
<1>1. /\ IsList(ws) /\ Run(Now, ws) = St(d, u) /\ d \in Disks
      /\ TidyAs(g, B, current_dir_blk, h, r, o, k)
      /\ b \in B /\ i \in 1 .. DirItems /\ (g[b].items[i].type = FREE \/ g[b].items[i].blk = 0)
      /\ c \in DirBlks /\ SameLinks(c, g[b]) /\ g[b].kind = "dir"
      /\ \A j \in 1 .. DirItems : j # i => c.items[j] = g[b].items[j]
      /\ \A y \in B : y # b => d[y] = g[y]
  BY DEF WriteReady
<1>2. /\ bs \in Seq(Blocks) /\ n \in Nat /\ (\A j \in 1 .. n : bs[j] \in Blocks /\ bs[j] \notin B)
      /\ \A j, m \in 1 .. n : bs[j] = bs[m] => j = m
  BY DEF NewFile
<1>3. x \in DirBlks /\ ItemPut(c, x, i, it)
  BY <1>1, PutItemIs
<1>4. ItemPut(g[b], x, i, it)
  BY <1>1, <1>3 DEF ItemPut, SameLinks
<1> HIDE DEF x
<1>5. B \subseteq Blocks
  BY <1>1 DEF TidyAs, Struct
<1>6. e1 \in Disks /\ e1[b] = x /\ \A y \in Blocks : y # b => e1[y] = d[y]
  BY <1>1, <1>3, <1>5 DEF Disks, Contents
<1> HIDE DEF e1
<1>7. Run(St(d, u), put) = St(e1, u) /\ \A w : Run(St(d, w), put) = St(e1, w)
  BY RunPut DEF e1
<1>8. it.type # FREE /\ KindOf(it) = "data" /\ it.type # DIR
  BY Words DEF KindOf
<1>9. IsList(put) /\ IsList(Mid(bs))
  BY ShortLists DEF Mid
<1> HIDE DEF put, data, u
<1>10. ASSUME NEW e \in Disks, \A y \in Blocks : y \notin Range(bs) => e[y] = e1[y],
              \A j \in 1 .. n : e[bs[j]] = FileBlk(bs, v, j)
       PROVE  Tidy(St(e, u \cup Range(bs)), current_dir_blk)
  <2>1. \A y \in B : y \notin Range(bs) /\ e[y] = e1[y]
    BY <1>2, <1>5, <1>10 DEF Range
  <2>2. ItemPut(g[b], e[b], i, it) /\ \A y \in B : y # b => e[y] = g[y]
    BY <2>1, <1>1, <1>4, <1>5, <1>6
  <2>3. \A j \in 1 .. n : /\ e[bs[j]].kind = KindOf(it)
                          /\ e[bs[j]].prev = IF j = 1 THEN 0 ELSE bs[j - 1]
                          /\ e[bs[j]].next = IF j = n THEN 0 ELSE bs[j + 1]
    <3> TAKE j \in 1 .. n
    <3>1. \A p, q, z : DataBlk(p, q, z).kind = "data" /\ DataBlk(p, q, z).prev = p /\ DataBlk(p, q, z).next = q
      BY DEF DataBlk
    <3>2. e[bs[j]] = DataBlk(IF j = 1 THEN 0 ELSE bs[j - 1], IF j = n THEN 0 ELSE bs[j + 1], <<v, j>>)
      BY <1>10 DEF FileBlk
    <3> HIDE DEF n
    <3> QED BY <3>1, <3>2, <1>8
  <2>4. AttachedTo(g, e, B, b, i, it, bs, h[b])
    BY <2>2, <2>3, <1>8 DEF AttachedTo
  <2>5. Attaches(g, e, B, h, b, i, it, bs)
    BY <2>4, <1>1, <1>2, <1>8 DEF Attaches
  <2> QED BY <2>5, <1>1, AttachTidy DEF u
<1>11. CASE n = 0
  <2>1. data = <<>>
    <3>1. data = [m \in 1 .. 2 * n - 1 |-> data[m]]
      BY DEF data, DataWrites
    <3>2. 1 .. 2 * n - 1 = {}
      BY <1>11
    <3> HIDE DEF n
    <3>3. data = [m \in {} |-> data[m]]
      BY <3>1, <3>2
    <3> QED BY <3>3
  <2>2. Mid(bs) = <<>>
    BY <1>11 DEF Mid
  <2>3. Range(bs) = {}
    BY <1>2, <1>11 DEF Range
  <2>4. IsList(<<>>)
    BY ShortLists
  <2>5. Run(Now, ws \o <<>>) = St(d, u) /\ IsList(ws \o <<>>)
    BY <2>4, <1>1, RunJoin, RunNone DEF u
  <2> DEFINE w1 == ws \o <<>>
  <2> HIDE DEF w1
  <2>6. Run(Now, w1 \o put) = St(e1, u) /\ IsList(w1 \o put)
    BY <2>5, <1>7, <1>9, RunJoin DEF w1
  <2> DEFINE w2 == w1 \o put
  <2> HIDE DEF w2
  <2>7. Run(Now, w2 \o <<>>) = St(e1, u)
    BY <2>4, <2>6, RunJoin, RunNone DEF w2
  <2>8. Tidy(St(e1, u \cup Range(bs)), current_dir_blk)
    <3>1. \A j \in 1 .. n : e1[bs[j]] = FileBlk(bs, v, j)
      BY <1>11
    <3> QED BY <3>1, <1>6, <1>10
  <2>9. u \cup Range(bs) = u
    BY <2>3
  <2> QED BY <2>1, <2>2, <2>7, <2>8, <2>9 DEF w1, w2, put, data, x
<1>12. CASE n # 0
  <2>1. n >= 1 /\ bs[1] \in Blocks
    BY <1>2, <1>12
  <2>2. Mid(bs) = <<Alloc(bs[1])>>
    BY <1>12 DEF Mid
  <2>3. Run(St(d, u), Mid(bs)) = St(d, u \cup {bs[1]})
    <3>1. Alloc(bs[1]).op = "alloc" /\ Alloc(bs[1]).blk = bs[1]
      BY DEF Alloc
    <3>2. Apply(St(d, u), Alloc(bs[1])) = St(d, u \cup {bs[1]})
      BY <3>1, ApplyAlloc
    <3>3. Run(St(d, u), <<Alloc(bs[1])>>) = Apply(St(d, u), Alloc(bs[1]))
      BY RunOne
    <3> QED BY <2>2, <3>2, <3>3
  <2> DEFINE u1 == u \cup {bs[1]}
             w1 == ws \o Mid(bs)
             w2 == w1 \o put
  <2>4. Run(Now, w1) = St(d, u1) /\ IsList(w1)
    BY <2>3, <1>1, <1>9, RunJoin DEF u
  <2> HIDE DEF u1, w1
  <2>5. Run(Now, w2) = St(e1, u1) /\ IsList(w2)
    BY <2>4, <1>7, <1>9, RunJoin
  <2> HIDE DEF w2
  <2>6. e1 = [y \in Blocks |-> e1[y]]
    BY <1>6 DEF Disks
  <2>7. PICK e : /\ Run(St(e1, u1), data) = St(e, u1 \cup {bs[j] : j \in 2 .. n})
                 /\ e = [y \in Blocks |-> e[y]]
                 /\ \A j \in 1 .. n : e[bs[j]] = FileBlk(bs, v, j)
                 /\ \A y \in Blocks : y \notin Range(bs) => e[y] = e1[y]
    <3>1. DataOk(e1, bs, n)
      BY <2>1, <2>6, <1>2 DEF DataOk
    <3> HIDE DEF n
    <3>2. \E e : DataRun(e1, u1, bs, v, n, e)
      BY <3>1, RunData
    <3> QED BY <3>2 DEF DataRun, data
  <2>8. IsList(data)
    <3>1. FileWrites(data, bs, v, n)
      BY <2>1, <1>2, DataWritesAre DEF data
    <3> QED BY <3>1 DEF FileWrites, IsList
  <2>9. Run(Now, w2 \o data) = St(e, u1 \cup {bs[j] : j \in 2 .. n})
    BY <2>5, <2>7, <2>8, RunJoin
  <2>10. u1 \cup {bs[j] : j \in 2 .. n} = u \cup Range(bs)
    <3>1. Range(bs) = {bs[j] : j \in 1 .. n}
      BY <1>2 DEF Range
    <3>2. \A j \in 1 .. n : j = 1 \/ j \in 2 .. n
      BY <1>2
    <3>3. 1 \in 1 .. n /\ \A j \in 2 .. n : j \in 1 .. n
      BY <1>2, <2>1
    <3> QED BY <3>1, <3>2, <3>3 DEF u1
  <2>11. e \in Disks
    <3>1. ASSUME NEW j \in 1 .. n PROVE FileBlk(bs, v, j) \in Contents
      <4>1. (j # 1 => bs[j - 1] \in Blocks) /\ (j # n => bs[j + 1] \in Blocks)
        BY <1>2
      <4>2. <<v, j>> \in Payloads \X Nat
        OBVIOUS
      <4>3. (IF j = 1 THEN 0 ELSE bs[j - 1]) \in Ptrs /\ (IF j = n THEN 0 ELSE bs[j + 1]) \in Ptrs
        BY <4>1, Sizes
      <4>4. FileBlk(bs, v, j) \in DataBlks
        BY <4>2, <4>3 DEF FileBlk, DataBlk, DataBlks
      <4> QED BY <4>4 DEF Contents
    <3>2. \A y \in Range(bs) : \E j \in 1 .. n : y = bs[j]
      BY <1>2 DEF Range
    <3>3. \A y \in Blocks : e[y] \in Contents
      BY <3>1, <3>2, <2>7, <1>6 DEF Disks
    <3> QED BY <3>3, <2>7 DEF Disks
  <2>12. Tidy(St(e, u \cup Range(bs)), current_dir_blk)
    BY <2>7, <2>11, <1>10
  <2> QED BY <2>9, <2>10, <2>12 DEF w1, w2, put, data, x
<1> QED BY <1>11, <1>12

\* A free slot.
LEMMA RoomNew ==
  ASSUME NEW s, NEW d, NEW B, NEW h, NEW r, NEW o, NEW k, Ready(s, d, B, h, r, o, k),
         s.dir.items[s.idx].type = FREE
  PROVE  WriteReady(s.writes \o <<>>, d, d, B, h, r, o, k, s.blk, s.idx, s.dir)
<1>1. /\ IsList(s.writes) /\ Run(Now, s.writes) = St(d, {0} \cup B)
      /\ TidyAs(d, B, current_dir_blk, h, r, o, k)
      /\ s.blk \in B /\ s.idx \in 1 .. DirItems /\ s.dir = d[s.blk] /\ s.dir \in DirBlks
  BY DEF Ready
<1>2. IsList(<<>>)
  BY ShortLists
<1>3. IsList(s.writes \o <<>>) /\ Run(Now, s.writes \o <<>>) = St(d, {0} \cup B)
  BY <1>1, <1>2, RunJoin, RunNone
<1>4. d \in Disks
  BY <1>1 DEF TidyAs, Struct
<1>5. SameLinks(s.dir, d[s.blk]) /\ d[s.blk].kind = "dir"
  BY <1>1 DEF SameLinks, DirBlks
<1> QED BY <1>1, <1>3, <1>4, <1>5 DEF WriteReady

\* A file that is overwritten: its blocks are free now, and when that leaves no block
\* free it had none.
LEMMA RoomOld ==
  ASSUME NEW B, NEW h, NEW r, NEW o, NEW k, Here(B, h, r, o, k),
         NEW s, Ready(s, disk, B, h, r, o, k), s.writes = <<>>,
         NEW old, old = s.dir.items[s.idx], old.type = FILE
  PROVE  \E d, g, C :
           /\ WriteReady(s.writes \o free_file_blocks(old.blk), d, g, C, h, r, o, k, s.blk, s.idx, s.dir)
           /\ Blocks \subseteq C =>
                Tidy(Run(Now, s.writes \o free_file_blocks(old.blk)), current_dir_blk)
<1> DEFINE b == s.blk
           i == s.idx
           x == old.blk
           ch == Chain(disk, x)
           it == [old EXCEPT !.blk = 0]
           y == [disk[b] EXCEPT !.items[i] = it]
           g == [disk EXCEPT ![b] = y]
           C == B \ ChainSet(B, h, x)
           u == {0} \cup B
           d == [z \in Blocks |-> IF z \in Range(ch) THEN Junk ELSE disk[z]]
           cwd == current_dir_blk
           ws == s.writes \o free_file_blocks(x)
<1>1. /\ Struct(disk, B, h, r, o, k) /\ OneEmpty(disk, B, h)
      /\ cwd \in B /\ disk[cwd].kind = "dir" /\ disk[cwd].prev = 0 /\ Now = St(disk, u)
  BY HereNow DEF Here, TidyAs
<1>2. /\ b \in B /\ i \in 1 .. DirItems /\ h[b] = cwd /\ s.dir = disk[b] /\ disk[b] \in DirBlks
      /\ old = disk[b].items[i] /\ old.type # FREE
  BY Words DEF Ready
<1>3. b \in Blocks /\ disk \in Disks /\ 0 \notin B /\ B \subseteq Blocks
  BY <1>1, <1>2, StructOf
<1>4. Used(disk, b, i) /\ disk[b].kind = "dir" /\ old \in Item
  BY <1>2 DEF Used, DirBlks
<1>5. ItemOk(disk, B, h, r, o, k, b, i)
  BY <1>1, <1>2, <1>4 DEF Struct
<1>6. x = 0 \/ (x \in B /\ disk[x].prev = 0 /\ disk[x].kind = "data")
  BY <1>2, <1>5, Words DEF ItemOk, KindOf
<1>7. /\ ch \in Seq(Blocks) /\ Range(ch) = ChainSet(B, h, x)
      /\ \A c \in B : h[c] = x => disk[c].kind = "data"
  <2> HIDE DEF x
  <2> QED BY <1>1, <1>6, FileChain
<1>8. free_file_blocks(x) = Frees(ch)
  BY DEF free_file_blocks, Frees
<1>9. it \in Item /\ it.blk = 0 /\ it.type = FILE
  BY <1>4, Words, Sizes DEF Item
<1> HIDE DEF it, x, ch
<1>10. y \in DirBlks /\ ItemPut(disk[b], y, i, it)
  BY <1>2, <1>9, PutItemIs
<1> HIDE DEF y
<1>11. g \in Disks /\ g[b] = y /\ \A z \in Blocks : z # b => g[z] = disk[z]
  BY <1>3, <1>10 DEF Disks, Contents
<1> HIDE DEF g
<1>12. DetachedAs(disk, g, B, C, h, r, o, k, b)
  <2>1. \A c \in B \ ChainSet(B, h, x) : c # b => g[c] = disk[c]
    BY <1>3, <1>11
  <2>2. x = disk[b].items[i].blk
    BY <1>2 DEF x
  <2>3. \A c \in B : h[c] = x /\ disk[c].kind = "dir" => Empty(disk, c)
    BY <1>7
  <2>4. ItemPut(disk[b], g[b], i, it)
    BY <1>10, <1>11
  <2> HIDE DEF b, i
  <2>5. Detaches(disk, g, B, h, b, i, it, x)
    BY <2>1, <2>2, <2>3, <2>4, <1>2, <1>4, <1>9, <1>11 DEF Detaches
  <2> QED BY <2>5, <1>1, Detaching
<1>13. /\ Struct(g, C, h, r, o, k) /\ b \in C /\ KeepsHeads(disk, g, C, h, h)
       /\ (\A c \in B : r[h[c]] <= r[b] => c \in C) /\ OneEmptyBut(g, C, h, b)
  <2> HIDE DEF C
  <2> QED BY <1>1, <1>12 DEF DetachedAs
<1>14. cwd \in C
  <2>1. LinkOk(disk, B, h, r, cwd) /\ LinkOk(disk, B, h, r, b)
    BY <1>1, <1>2 DEF Struct
  <2>2. h[cwd] = cwd /\ r[h[b]] <= r[b]
    BY <2>1, <1>1 DEF LinkOk
  <2> QED BY <2>2, <1>1, <1>2, <1>13
<1>15. OneEmpty(g, C, h)
  <2>1. ~Empty(g, b)
    BY <1>2, <1>9, <1>10, <1>11, Words DEF ItemPut, Empty
  <2> HIDE DEF C
  <2> QED BY <2>1, <1>13 DEF OneEmpty, OneEmptyBut
<1>16. TidyAs(g, C, cwd, h, r, o, k)
  <2>1. g[cwd].kind = "dir" /\ g[cwd].prev = 0
    BY <1>1, <1>13, <1>14 DEF KeepsHeads
  <2> HIDE DEF C
  <2> QED BY <2>1, <1>13, <1>14, <1>15 DEF TidyAs
<1>17. Run(Now, ws) = St(d, {0} \cup C) /\ IsList(ws)
  <2>1. disk = [z \in Blocks |-> disk[z]] /\ DOMAIN disk = Blocks
    BY <1>3 DEF Disks
  <2> HIDE DEF u
  <2>2. Run(St(disk, u), Frees(ch)) = St(d, u \ Range(ch))
    BY <2>1, <1>7, RunFrees
  <2>3. u \ Range(ch) = {0} \cup C
    BY <1>3, <1>7 DEF u, ChainSet
  <2>4. IsList(Frees(ch))
    <3> DEFINE W == {Free(z) : z \in Blocks}
    <3>1. Len(ch) \in Nat /\ \A j \in 1 .. Len(ch) : ch[j] \in Blocks
      BY <1>7
    <3>2. \A j \in 1 .. Len(ch) : Free(ch[j]) \in W
      BY <3>1
    <3> HIDE DEF W
    <3>3. Frees(ch) \in Seq(W)
      BY <3>1, <3>2 DEF Frees
    <3> QED BY <3>3 DEF IsList
  <2>5. IsList(s.writes) /\ Run(Now, s.writes) = St(disk, u)
    BY <1>1, RunNone, ShortLists
  <2> DEFINE fs == Frees(ch)
  <2>6. ws = s.writes \o fs
    BY <1>8
  <2> HIDE DEF fs, ws, d
  <2>7. Run(Now, s.writes \o fs) = Run(Run(Now, s.writes), fs) /\ IsList(s.writes \o fs)
    BY <2>4, <2>5, RunJoin DEF fs
  <2> QED BY <2>2, <2>3, <2>5, <2>6, <2>7 DEF fs
<1>18. d \in Disks /\ \A z \in C : z # b => d[z] = g[z]
  <2>1. d \in Disks
    BY <1>3 DEF Disks, Contents
  <2>2. \A z \in C : z \in Blocks /\ z \notin Range(ch)
    BY <1>3, <1>7
  <2> QED BY <2>1, <2>2, <1>11
<1>19. WriteReady(ws, d, g, C, h, r, o, k, b, i, s.dir)
  <2>1. g[b].items[i].type = FREE \/ g[b].items[i].blk = 0
    BY <1>2, <1>9, <1>10, <1>11 DEF ItemPut
  <2>2. SameLinks(s.dir, g[b]) /\ g[b].kind = "dir"
    BY <1>2, <1>4, <1>10, <1>11 DEF ItemPut, SameLinks
  <2>3. \A j \in 1 .. DirItems : j # i => s.dir.items[j] = g[b].items[j]
    BY <1>2, <1>10, <1>11 DEF ItemPut
  <2> HIDE DEF C, d, ws
  <2> QED BY <2>1, <2>2, <2>3, <1>2, <1>13, <1>16, <1>17, <1>18 DEF WriteReady
<1>20. ASSUME Blocks \subseteq C PROVE Tidy(Run(Now, ws), cwd)
  <2>1. C = B /\ Range(ch) = {}
    BY <1>3, <1>7, <1>20 DEF ChainSet
  <2>2. d = disk
    BY <2>1, <1>3 DEF Disks
  <2>3. Run(Now, ws) = St(disk, {0} \cup B)
    BY <2>1, <2>2, <1>17
  <2>4. TidyAs(disk, B, cwd, h, r, o, k)
    BY DEF Here
  <2> HIDE DEF ws
  <2> QED BY <2>3, <2>4 DEF Tidy
<1> HIDE DEF C, d
<1> QED BY <1>19, <1>20 DEF x

\* A file has blocks when it has bytes.
LEMMA ChunksOf ==
  ASSUME NEW len \in Nat
  PROVE  NChunks(len) \in Nat /\ (len = 0 <=> NChunks(len) = 0)
<1> DEFINE d == DataLen
           a == len + d - 1
<1>1. d \in Nat \ {0} /\ a \in Nat
  BY Sizes
<1>2. NChunks(len) = a \div d
  BY DEF NChunks
<1>3. a < d <=> len = 0
  BY <1>1
<1> HIDE DEF a, d
<1>4. a = d * (a \div d) + (a % d) /\ a \div d \in Nat /\ a % d \in 0 .. d - 1
  BY <1>1
<1>5. a < d <=> a \div d = 0
  <2> DEFINE q == a \div d
             m == a % d
  <2> HIDE DEF q, m
  <2>1. a = d * q + m /\ q \in Nat /\ m \in 0 .. d - 1
    BY <1>4 DEF q, m
  <2>2. q = 0 => a = m
    BY <2>1, <1>1
  <2>3. q >= 1 => d * q >= d
    BY <2>1, <1>1
  <2> QED BY <2>1, <2>2, <2>3, <1>1 DEF q
<1> QED BY <1>2, <1>3, <1>4, <1>5

\* The end of the call, with the slot and the drive as WriteReady says.
LEMMA WriteEnd ==
  ASSUME NEW n \in GivenNames, NEW len \in Nat, NEW v \in Payloads,
         NEW ws, NEW d, NEW g, NEW B, NEW h, NEW r, NEW o, NEW k, NEW s,
         WriteReady(ws, d, g, B, h, r, o, k, s.blk, s.idx, s.dir),
         NEW bs, bs = FreeBlocks(After(ws).ram, NChunks(len)), ~(len # 0 /\ bs = <<>>),
         NEW it, it = [type |-> FILE, name |-> n, size |-> len, blk |-> IF len = 0 THEN 0 ELSE bs[1]]
  PROVE  Tidy(Run(Now, ws \o (IF len = 0 THEN <<>> ELSE <<Alloc(bs[1])>>) \o <<PutItem(s, it)>>
                       \o DataWrites(bs, v)), current_dir_blk)
<1>1. After(ws).ram = {0} \cup B
  BY AfterIs DEF WriteReady, St
<1>2. NChunks(len) \in Nat /\ (len = 0 <=> NChunks(len) = 0)
  BY ChunksOf
<1>3. /\ bs \in Seq(Blocks) /\ Len(bs) \in Nat /\ Len(bs) <= NChunks(len)
      /\ \A j \in 1 .. Len(bs) : bs[j] \in Blocks /\ bs[j] \notin {0} \cup B
      /\ \A i, j \in 1 .. Len(bs) : bs[i] = bs[j] => i = j
  <2> DEFINE u == {0} \cup B
             N == NChunks(len)
  <2>1. 0 \in u /\ N \in Nat /\ bs = FreeBlocks(u, N)
    BY <1>1, <1>2
  <2> HIDE DEF u, N
  <2>2. LET cs == FreeBlocks(u, N) IN
         /\ cs \in Seq(Blocks) /\ Len(cs) \in Nat /\ Len(cs) <= N
         /\ \A i \in 1 .. Len(cs) : cs[i] \in Blocks /\ cs[i] \notin u
         /\ \A i, j \in 1 .. Len(cs) : cs[i] = cs[j] => i = j
    BY <2>1, FreeBlocksFacts
  <2> QED BY <2>1, <2>2 DEF u, N
<1>4. NewFile(bs, B)
  BY <1>3 DEF NewFile
<1>5. len = 0 <=> Len(bs) = 0
  BY <1>2, <1>3
<1>6. Mid(bs) = (IF len = 0 THEN <<>> ELSE <<Alloc(bs[1])>>)
  BY <1>5 DEF Mid
<1>7. it \in Item /\ it.type = FILE /\ it.blk = IF Len(bs) = 0 THEN 0 ELSE bs[1]
  <2>1. (IF len = 0 THEN 0 ELSE bs[1]) \in Ptrs
    <3>1. CASE len = 0
      BY <3>1, Sizes
    <3>2. CASE len # 0
      <4>1. 1 \in 1 .. Len(bs)
        BY <3>2, <1>3, <1>5
      <4>2. bs[1] \in Blocks
        BY <4>1, <1>3
      <4> QED BY <3>2, <4>2, Sizes
    <3> QED BY <3>1, <3>2
  <2>2. it.type = FILE /\ it.type # DIR /\ it.blk = IF Len(bs) = 0 THEN 0 ELSE bs[1]
    BY <1>5, Words
  <2> QED BY <2>1, <2>2 DEF Item
<1>8. PutItem(s, it) = Put(s.blk, [s.dir EXCEPT !.items[s.idx] = it])
  BY DEF PutItem
<1> DEFINE b == s.blk
           i == s.idx
           c == s.dir
<1> HIDE DEF b, i, c
<1>9. WriteReady(ws, d, g, B, h, r, o, k, b, i, c)
  BY DEF b, i, c
<1>10. Tidy(Run(Now, ws \o Mid(bs) \o <<Put(b, [c EXCEPT !.items[i] = it])>> \o DataWrites(bs, v)),
              current_dir_blk)
  BY <1>4, <1>7, <1>9, WriteDone
<1>11. PutItem(s, it) = Put(b, [c EXCEPT !.items[i] = it])
  BY <1>8 DEF b, i, c
<1> QED BY <1>6, <1>10, <1>11
\* tfs_write_file keeps the structure: files that are new, overwritten, without content, and
\* cut off by a full drive.
LEMMA WriteFileOk ==
  ASSUME NEW B, NEW h, NEW r, NEW o, NEW k, Here(B, h, r, o, k), NEW n \in GivenNames,
         NEW v \in Payloads, NEW len \in Lens, NEW overwrite \in BOOLEAN
  PROVE  PlanOk(write_file_plan(n, v, len, overwrite))
<1> DEFINE s == find_slot(n)
           old == s.dir.items[s.idx]
           freed == IF old.type = FILE THEN free_file_blocks(old.blk) ELSE <<>>
           ws == s.writes \o freed
           bs == FreeBlocks(After(ws).ram, NChunks(len))
           it == [type |-> FILE, name |-> n, size |-> len, blk |-> IF len = 0 THEN 0 ELSE bs[1]]
           all == ws \o (IF len = 0 THEN <<>> ELSE <<Alloc(bs[1])>>) \o <<PutItem(s, it)>>
                  \o DataWrites(bs, v)
           p == write_file_plan(n, v, len, overwrite)
<1>0. len \in Nat
  BY Sizes
<1>1. \/ s.err = "DISK_FULL"
      \/ Ready(s, disk, B, h, r, o, k) /\ s.writes = <<>>
      \/ /\ s.err = "OK" /\ s.dir.items[s.idx].type = FREE
         /\ \E d, C, h2, r2 : Ready(s, d, C, h2, r2, o, k)
  <2> HIDE DEF s
  <2> QED BY SlotReady DEF s
<1>2. \/ \E err : p = Plan(<<>>, err)
      \/ /\ s.err = "OK" /\ (old.type = FREE \/ old.type = FILE)
         /\ \/ len # 0 /\ bs = <<>> /\ p = Plan(ws, "DISK_FULL")
            \/ ~(len # 0 /\ bs = <<>>) /\ \E err : p = Plan(all, err)
  <2>1. CASE s.err # "OK" \/ (old.type # FREE /\ ~(overwrite /\ old.type = FILE))
    <3>1. p = Plan(<<>>, s.err) \/ p = Plan(<<>>, "FILE_EXIST")
      <4> HIDE DEF s
      <4> QED BY <2>1 DEF write_file_plan, s
    <3> HIDE DEF p
    <3> QED BY <3>1
  <2>2. CASE s.err = "OK" /\ ~(old.type # FREE /\ ~(overwrite /\ old.type = FILE)) /\ len # 0 /\ bs = <<>>
    <3>1. p = Plan(ws, "DISK_FULL")
      BY <2>2 DEF write_file_plan
    <3> HIDE DEF p, s, bs, ws
    <3> QED BY <2>2, <3>1
  <2>3. CASE s.err = "OK" /\ ~(old.type # FREE /\ ~(overwrite /\ old.type = FILE)) /\ ~(len # 0 /\ bs = <<>>)
    <3>1. p = Plan(all, IF Len(bs) = NChunks(len) THEN "OK" ELSE "DISK_FULL")
      BY <2>3 DEF write_file_plan
    <3> HIDE DEF p, s, bs, ws, all
    <3> QED BY <2>3, <3>1
  <2> QED BY <2>1, <2>2, <2>3
<1> HIDE DEF s, p
<1>3. CASE \E err : p = Plan(<<>>, err)
  BY <1>3, NoWrites DEF p
<1>4. ASSUME s.err = "OK", old.type = FREE \/ old.type = FILE
      PROVE  \/ old.type = FREE /\ \E d, C, h2, r2 : Ready(s, d, C, h2, r2, o, k)
             \/ old.type = FILE /\ Ready(s, disk, B, h, r, o, k) /\ s.writes = <<>>
  BY <1>1, <1>4, Words
<1>5. ASSUME s.err = "OK", old.type = FREE \/ old.type = FILE
      PROVE  \E d, g, C, h2, r2 :
               /\ WriteReady(ws, d, g, C, h2, r2, o, k, s.blk, s.idx, s.dir)
               /\ Blocks \subseteq C => Tidy(Run(Now, ws), current_dir_blk)
  <2>1. CASE old.type = FREE
    <3>1. PICK d, C, h2, r2 : Ready(s, d, C, h2, r2, o, k)
      BY <1>4, <1>5, <2>1, Words
    <3>2. WriteReady(s.writes \o <<>>, d, d, C, h2, r2, o, k, s.blk, s.idx, s.dir)
      BY <2>1, <3>1, RoomNew
    <3>3. ws = s.writes \o <<>>
      BY <2>1, Words
    <3>4. Run(Now, ws) = St(d, {0} \cup C) /\ TidyAs(d, C, current_dir_blk, h2, r2, o, k)
      BY <3>2, <3>3 DEF WriteReady
    <3> HIDE DEF ws
    <3>5. Tidy(Run(Now, ws), current_dir_blk)
      BY <3>4 DEF Tidy
    <3> QED BY <3>2, <3>3, <3>5
  <2>2. CASE old.type = FILE
    <3>1. Ready(s, disk, B, h, r, o, k) /\ s.writes = <<>>
      BY <1>4, <1>5, <2>2, Words
    <3>2. ws = s.writes \o free_file_blocks(old.blk)
      BY <2>2
    <3> HIDE DEF old, ws
    <3>3. old = s.dir.items[s.idx]
      BY DEF old
    <3>4. \E d, g, C :
           /\ WriteReady(s.writes \o free_file_blocks(old.blk), d, g, C, h, r, o, k, s.blk, s.idx, s.dir)
           /\ Blocks \subseteq C =>
                Tidy(Run(Now, s.writes \o free_file_blocks(old.blk)), current_dir_blk)
      BY <2>2, <3>1, <3>3, RoomOld
    <3> QED BY <3>2, <3>4
  <2> QED BY <1>5, <2>1, <2>2
<1> HIDE DEF ws, old
<1>6. CASE /\ s.err = "OK" /\ (old.type = FREE \/ old.type = FILE)
           /\ len # 0 /\ bs = <<>> /\ p = Plan(ws, "DISK_FULL")
  <2>1. PICK d, g, C, h2, r2 :
               /\ WriteReady(ws, d, g, C, h2, r2, o, k, s.blk, s.idx, s.dir)
               /\ Blocks \subseteq C => Tidy(Run(Now, ws), current_dir_blk)
    BY <1>5, <1>6
  <2>2. After(ws).ram = {0} \cup C
    BY <2>1, AfterIs DEF WriteReady, St
  <2>3. NChunks(len) \in Nat /\ NChunks(len) >= 1
    BY <1>0, <1>6, ChunksOf
  <2>4. \A b \in Blocks : b \in {0} \cup C
    <3> DEFINE u == {0} \cup C
               N == NChunks(len)
               cs == FreeBlocks(u, N)
    <3>1. 0 \in u /\ N \in Nat /\ N >= 1 /\ cs = <<>>
      BY <2>2, <2>3, <1>6
    <3> HIDE DEF u, N
    <3>2. N >= 1 /\ (\E b \in Blocks : b \notin u) => Len(cs) >= 1
      BY <3>1, FreeBlocksFacts
    <3> HIDE DEF cs
    <3>3. Len(cs) = 0
      BY <3>1
    <3> QED BY <3>1, <3>2, <3>3 DEF u
  <2>5. Blocks \subseteq C
    BY <2>4, Sizes
  <2>6. p.writes = ws /\ p.cwd = current_dir_blk
    BY <1>6 DEF Plan
  <2> HIDE DEF bs
  <2> QED BY <2>1, <2>5, <2>6 DEF PlanOk, p
<1>7. CASE /\ s.err = "OK" /\ (old.type = FREE \/ old.type = FILE)
           /\ ~(len # 0 /\ bs = <<>>) /\ \E err : p = Plan(all, err)
  <2>1. PICK d, g, C, h2, r2 : WriteReady(ws, d, g, C, h2, r2, o, k, s.blk, s.idx, s.dir)
    BY <1>5, <1>7
  <2> HIDE DEF bs
  <2>2. bs = FreeBlocks(After(ws).ram, NChunks(len))
    BY DEF bs
  <2> HIDE DEF it
  <2>3. it = [type |-> FILE, name |-> n, size |-> len, blk |-> IF len = 0 THEN 0 ELSE bs[1]]
    BY DEF it
  <2>4. ~(len # 0 /\ bs = <<>>)
    BY <1>7
  <2>5. Tidy(Run(Now, all), current_dir_blk)
    BY <1>0, <2>1, <2>2, <2>3, <2>4, WriteEnd
  <2> HIDE DEF all
  <2>6. p.writes = all /\ p.cwd = current_dir_blk
    BY <1>7 DEF Plan
  <2> QED BY <2>5, <2>6 DEF PlanOk, p
<1> QED BY <1>2, <1>3, <1>6, <1>7 DEF p

-----------------------------------------------------------------------------
(* The invariant.                                                          *)

\* The blocks of the tree and how they hang together.
Neat == \E B, h, r, o, k : Here(B, h, r, o, k)
NeatInv == faults \in Nat /\ (faults = 0 => Neat)

\* A tidy state after a call.
LEMMA TidyNext ==
  ASSUME NEW s, NEW cwd, Tidy(s, cwd), disk' = s.disk, bitmap_blk' = s.ram, map' = s.map,
         current_dir_blk' = cwd
  PROVE  Neat'
<1>1. PICK d, B, h, r, o, k : s = St(d, {0} \cup B) /\ TidyAs(d, B, cwd, h, r, o, k)
  BY DEF Tidy
<1>2. disk' = d /\ bitmap_blk' = {0} \cup B /\ map' = {0} \cup B
  BY <1>1 DEF St
<1>3. Here(B, h, r, o, k)'
  BY <1>1, <1>2 DEF Here
<1> QED BY <1>3 DEF Neat

\* A call that runs to its end leaves a tidy state when its plan does.
LEMMA CompleteKeeps ==
  ASSUME NEW plan, PlanOk(plan), Complete(plan)
  PROVE  Neat'
<1> DEFINE s == Run(Now, plan.writes)
<1>1. After(plan.writes) = s
  BY AfterIs
<1>2. /\ disk' = s.disk /\ bitmap_blk' = s.ram /\ map' = s.map /\ current_dir_blk' = plan.cwd
  BY <1>1 DEF Complete
<1>3. Tidy(s, plan.cwd)
  BY DEF PlanOk
<1> HIDE DEF s
<1> QED BY <1>2, <1>3, TidyNext

\* A call keeps the invariant when its plans are tidy while nothing has failed.
LEMMA PerformKeeps ==
  ASSUME faults \in Nat, NEW call, NEW plans, Perform(call, plans),
         faults = 0 => \A plan \in plans : PlanOk(plan)
  PROVE  NeatInv'
<1>1. PICK plan \in plans : \/ Complete(plan)
                            \/ CutShort
  BY DEF Perform
<1>2. CASE Complete(plan)
  <2>1. faults' = faults
    BY <1>2 DEF Complete
  <2>2. CASE faults = 0
    <3>1. Neat'
      BY <1>2, <2>2, CompleteKeeps
    <3> QED BY <2>1, <3>1 DEF NeatInv
  <2>3. CASE faults # 0
    BY <2>1, <2>3 DEF NeatInv
  <2> QED BY <2>2, <2>3
<1>3. CASE CutShort
  <2>1. faults' \in Nat /\ faults' # 0
    BY <1>3 DEF CutShort
  <2> QED BY <2>1 DEF NeatInv
<1> QED BY <1>1, <1>2, <1>3

\* A call that refuses the empty name keeps the structure.
LEMMA NamePlanOk ==
  ASSUME NEW B, NEW h, NEW r, NEW o, NEW k, Here(B, h, r, o, k), NEW n, NEW plan, PlanOk(plan)
  PROVE  PlanOk(NamePlan(n, plan))
<1>1. NamePlan(n, plan) = Plan(<<>>, "NO_NAME") \/ NamePlan(n, plan) = plan
  BY DEF NamePlan
<1>2. PlanOk(Plan(<<>>, "NO_NAME"))
  BY NoWrites
<1> QED BY <1>1, <1>2

\* tfs_read_file keeps the structure.
LEMMA ReadFileOk ==
  ASSUME NEW B, NEW h, NEW r, NEW o, NEW k, Here(B, h, r, o, k), NEW n, NEW max_len,
         NEW plan \in read_file_plans(n, max_len)
  PROVE  PlanOk(plan)
<1>1. \E err : plan = Plan(<<>>, err)
  BY DEF read_file_plans
<1> QED BY <1>1, NoWrites

\* The invariant holds at the beginning.
LEMMA NeatInit == Init => NeatInv
<1> SUFFICES ASSUME Init PROVE NeatInv
  OBVIOUS
<1>1. disk = NewDrive /\ map = {0, TFS_ROOT_DIR_BLK} /\ bitmap_blk = map
      /\ current_dir_blk = TFS_ROOT_DIR_BLK /\ faults = 0
  BY DEF Init, NewDrive
<1>2. PICK d, B, h, r, o, k : /\ St(NewDrive, {0, TFS_ROOT_DIR_BLK}) = St(d, {0} \cup B)
                              /\ TidyAs(d, B, TFS_ROOT_DIR_BLK, h, r, o, k)
  BY NewDriveTidy DEF Tidy
<1>3. NewDrive = d /\ {0, TFS_ROOT_DIR_BLK} = {0} \cup B
  BY <1>2 DEF St
<1>4. Here(B, h, r, o, k)
  BY <1>1, <1>2, <1>3 DEF Here
<1> QED BY <1>1, <1>4 DEF NeatInv, Neat

\* Every call keeps the invariant.
LEMMA NeatNext == NeatInv /\ [Next]_vars => NeatInv'
<1> SUFFICES ASSUME NeatInv, [Next]_vars PROVE NeatInv'
  OBVIOUS
<1>0. faults \in Nat
  BY DEF NeatInv
<1>1. faults = 0 => \E B, h, r, o, k : Here(B, h, r, o, k)
  BY DEF NeatInv, Neat
<1>2. CASE UNCHANGED vars
  BY <1>2 DEF vars, NeatInv, Neat, Here, TidyAs
<1>3. CASE tfs_init
  <2>1. disk' = disk /\ map' = map /\ bitmap_blk' = map /\ current_dir_blk' = TFS_ROOT_DIR_BLK
        /\ faults' = faults
    BY <1>3 DEF tfs_init
  <2>2. ASSUME faults = 0 PROVE Neat'
    <3>1. PICK B, h, r, o, k : Here(B, h, r, o, k)
      BY <1>1, <2>2
    <3>2. TidyAs(disk, B, TFS_ROOT_DIR_BLK, h, r, o, k) /\ map = {0} \cup B
      BY <3>1 DEF Here, TidyAs, Struct
    <3>3. Here(B, h, r, o, k)'
      BY <2>1, <3>2 DEF Here
    <3> QED BY <3>3 DEF Neat
  <2> QED BY <2>1, <2>2, <1>0 DEF NeatInv
<1>4. CASE tfs_format
  <2>1. \A plan \in {format_plan} : PlanOk(plan)
    BY FormatOk
  <2> QED BY <1>0, <1>4, <2>1, PerformKeeps DEF tfs_format
<1>5. CASE tfs_read_dir
  <2>1. faults = 0 => \A plan \in {read_dir_plan} : PlanOk(plan)
    <3>1. faults = 0 => PlanOk(Plan(<<>>, "OK"))
      BY <1>1, NoWrites
    <3> QED BY <3>1 DEF read_dir_plan
  <2> QED BY <1>0, <1>5, <2>1, PerformKeeps DEF tfs_read_dir
<1>6. CASE tfs_change_dir_root
  <2>1. disk' = disk /\ map' = map /\ bitmap_blk' = bitmap_blk /\ current_dir_blk' = TFS_ROOT_DIR_BLK
        /\ faults' = faults
    BY <1>6 DEF tfs_change_dir_root
  <2>2. ASSUME faults = 0 PROVE Neat'
    <3>1. PICK B, h, r, o, k : Here(B, h, r, o, k)
      BY <1>1, <2>2
    <3>2. TidyAs(disk, B, TFS_ROOT_DIR_BLK, h, r, o, k) /\ map = {0} \cup B /\ bitmap_blk = map
      BY <3>1 DEF Here, TidyAs, Struct
    <3>3. Here(B, h, r, o, k)'
      BY <2>1, <3>2 DEF Here
    <3> QED BY <3>3 DEF Neat
  <2> QED BY <2>1, <2>2, <1>0 DEF NeatInv
<1>7. CASE tfs_change_dir_parent
  <2>1. faults = 0 => \A plan \in {change_dir_parent_plan} : PlanOk(plan)
    <3>1. faults = 0 => PlanOk(change_dir_parent_plan)
      BY <1>1, ChangeDirParentOk
    <3> QED BY <3>1
  <2> QED BY <1>0, <1>7, <2>1, PerformKeeps DEF tfs_change_dir_parent
<1>8. ASSUME NEW n \in GivenNames, tfs_change_dir(n) PROVE NeatInv'
  <2>1. faults = 0 => PlanOk(NamePlan(n, change_dir_plan(n)))
    BY <1>1, ChangeDirOk, NamePlanOk
  <2>2. faults = 0 => \A plan \in {NamePlan(n, change_dir_plan(n))} : PlanOk(plan)
    BY <2>1
  <2> QED BY <1>0, <1>8, <2>2, PerformKeeps DEF tfs_change_dir
<1>9. ASSUME NEW n \in GivenNames, tfs_create_dir(n) PROVE NeatInv'
  <2>1. faults = 0 => PlanOk(NamePlan(n, create_dir_plan(n)))
    BY <1>1, CreateDirOk, NamePlanOk
  <2>2. faults = 0 => \A plan \in {NamePlan(n, create_dir_plan(n))} : PlanOk(plan)
    BY <2>1
  <2> QED BY <1>0, <1>9, <2>2, PerformKeeps DEF tfs_create_dir
<1>10. ASSUME NEW n \in GivenNames, NEW v \in Payloads, NEW len \in Lens, NEW ow \in BOOLEAN,
              tfs_write_file(n, v, len, ow)
       PROVE  NeatInv'
  <2>1. faults = 0 => PlanOk(NamePlan(n, write_file_plan(n, v, len, ow)))
    BY <1>1, WriteFileOk, NamePlanOk
  <2>2. faults = 0 => \A plan \in {NamePlan(n, write_file_plan(n, v, len, ow))} : PlanOk(plan)
    BY <2>1
  <2> QED BY <1>0, <1>10, <2>2, PerformKeeps DEF tfs_write_file
<1>11. ASSUME NEW n \in GivenNames, NEW max_len \in Lens, tfs_read_file(n, max_len) PROVE NeatInv'
  <2>1. faults = 0 => \A plan \in read_file_plans(n, max_len) : PlanOk(NamePlan(n, plan))
    BY <1>1, ReadFileOk, NamePlanOk
  <2>2. faults = 0 => \A plan \in {NamePlan(n, q) : q \in read_file_plans(n, max_len)} : PlanOk(plan)
    BY <2>1
  <2> QED BY <1>0, <1>11, <2>2, PerformKeeps DEF tfs_read_file
<1>12. ASSUME NEW n \in GivenNames, NEW types, types \subseteq {DIR, FILE}, tfs_delete(n, types)
       PROVE  NeatInv'
  <2>1. faults = 0 => PlanOk(NamePlan(n, delete_plan(n, types)))
    BY <1>1, <1>12, DeleteOk, NamePlanOk
  <2>2. faults = 0 => \A plan \in {NamePlan(n, delete_plan(n, types))} : PlanOk(plan)
    BY <2>1
  <2> QED BY <1>0, <1>12, <2>2, PerformKeeps DEF tfs_delete
<1>13. ASSUME NEW n \in GivenNames, NEW to \in GivenNames, tfs_rename(n, to) PROVE NeatInv'
  <2>1. faults = 0 => PlanOk(NamePlan(to, rename_plan(n, to)))
    BY <1>1, RenameOk, NamePlanOk
  <2>2. faults = 0 => \A plan \in {NamePlan(to, rename_plan(n, to))} : PlanOk(plan)
    BY <2>1
  <2> QED BY <1>0, <1>13, <2>2, PerformKeeps DEF tfs_rename
<1>14. \A types \in {{DIR}, {FILE}, {DIR, FILE}} : types \subseteq {DIR, FILE}
  OBVIOUS
<1> QED BY <1>2, <1>3, <1>4, <1>5, <1>6, <1>7, <1>8, <1>9, <1>10, <1>11, <1>12, <1>13, <1>14
        DEF Next, Call

\* The inductive invariant: as long as no call is cut short, RAM and drive have the same bitmap,
\* which marks block 0 and the blocks of one structure that hangs below the root directory:
\* every chain is linked in both directions, every head but the root's is the block of exactly
\* one item and no item refers to anything else, no directory has two blocks without items,
\* and the current directory is the head of a directory.
THEOREM NeatAlways == Spec => []NeatInv
<1> QED BY NeatInit, NeatNext, PTL DEF Spec

-----------------------------------------------------------------------------
(* What the tree is, read from the root.                                   *)

\* The entries of a directory, and one level more.
Below(d, e) == IF e.item.type = DIR THEN {f \in ItemsOf(d, e) : f.path \notin {}} ELSE {}
NextHeads(d, X) == UNION {{e} \cup Below(d, e) : e \in X}
Levels(d, F) == F[0] = {RootEntry} /\ \A n \in 0 .. BlkCount - 2 : F[n + 1] = NextHeads(d, F[n])
DirCount(d) == Cardinality({b \in Blocks : d[b].kind = "dir"})

\* What is below an entry has a path longer by one name.
LEMMA BelowDeeper ==
  ASSUME NEW d, NEW e, IsList(e.path), NEW f \in Below(d, e)
  PROVE  IsList(f.path) /\ Len(f.path) = Len(e.path) + 1
<1>1. PICK it : f = [path |-> Append(e.path, it.name), item |-> it]
  BY DEF Below, ItemsOf
<1>2. PICK W : e.path \in Seq(W)
  BY DEF IsList
<1> DEFINE V == W \cup {it.name}
<1>3. e.path \in Seq(V) /\ it.name \in V
  BY <1>2
<1> HIDE DEF V
<1>4. Append(e.path, it.name) \in Seq(V) /\ Len(Append(e.path, it.name)) = Len(e.path) + 1
  BY <1>3
<1>5. f.path = Append(e.path, it.name)
  BY <1>1
<1> QED BY <1>4, <1>5 DEF IsList

\* The next level below the longest paths of X; n levels of which all but the last are entered.
NextLevel(d, n, X) == UNION {{e} \cup (IF Len(e.path) = n THEN Below(d, e) ELSE {}) : e \in X}
Entered(d, n, X) ==
  \A e \in X : /\ IsList(e.path) /\ Len(e.path) \in 0 .. n
               /\ Len(e.path) < n => Below(d, e) \subseteq X

\* Entering the entries with the longest paths is as good as entering all of them.
LEMMA LevelsSame ==
  ASSUME NEW d, NEW F, F[0] = {RootEntry},
         \A n \in 0 .. BlkCount - 2 : F[n + 1] = NextLevel(d, n, F[n])
  PROVE  Levels(d, F)
<1> DEFINE N == BlkCount - 1
           S == {n \in 0 .. N : Entered(d, n, F[n])}
<1>0. N \in Nat /\ N - 1 = BlkCount - 2
  BY Sizes
<1>1. 0 \in S
  <2>1. RootEntry.path = <<>> /\ Len(RootEntry.path) = 0 /\ IsList(RootEntry.path)
    <3>1. RootEntry.path = <<>>
      BY DEF RootEntry
    <3>2. IsList(<<>>) /\ Len(<<>>) = 0
      BY ShortLists
    <3> QED BY <3>1, <3>2
  <2>2. Entered(d, 0, F[0])
    BY <2>1 DEF Entered
  <2>3. 0 \in 0 .. N
    BY <1>0
  <2> HIDE DEF N
  <2>4. 0 \in {n \in 0 .. N : Entered(d, n, F[n])}
    <3> HIDE DEF Entered
    <3> QED BY <2>2, <2>3
  <2> QED BY <2>4
<1>2. ASSUME NEW n \in 0 .. N - 1, Entered(d, n, F[n])
      PROVE  Entered(d, n + 1, F[n + 1]) /\ F[n + 1] = NextHeads(d, F[n])
  <2> DEFINE X == F[n]
             Y == F[n + 1]
  <2>1. Y = NextLevel(d, n, X)
    <3>1. n \in 0 .. BlkCount - 2
      BY <1>0
    <3> QED BY <3>1
  <2>2. \A e \in X : IsList(e.path) /\ Len(e.path) \in 0 .. n
                    /\ (Len(e.path) < n => Below(d, e) \subseteq X)
    BY <1>2 DEF Entered
  <2> HIDE DEF X, Y
  <2>3. X \subseteq Y
    BY <2>1 DEF NextLevel
  <2>4. \A e \in X : Below(d, e) \subseteq Y
    <3> SUFFICES ASSUME NEW e \in X PROVE Below(d, e) \subseteq Y
      OBVIOUS
    <3>1. CASE Len(e.path) = n
      BY <2>1, <3>1 DEF NextLevel
    <3>2. CASE Len(e.path) # n
      <4>1. Len(e.path) < n
        BY <2>2, <3>2
      <4> QED BY <2>2, <2>3, <4>1
    <3> QED BY <3>1, <3>2
  <2>5. \A f \in Y : f \in X \/ \E e \in X : Len(e.path) = n /\ f \in Below(d, e)
    BY <2>1 DEF NextLevel
  <2>6. Y = NextHeads(d, X)
    <3>1. NextHeads(d, X) \subseteq Y
      BY <2>3, <2>4 DEF NextHeads
    <3>2. Y \subseteq NextHeads(d, X)
      BY <2>5 DEF NextHeads
    <3> QED BY <3>1, <3>2
  <2>7. ASSUME NEW f \in Y
        PROVE  /\ IsList(f.path) /\ Len(f.path) \in 0 .. n + 1
               /\ Len(f.path) < n + 1 => Below(d, f) \subseteq Y
    <3>1. CASE f \in X
      <4>1. IsList(f.path) /\ Len(f.path) \in 0 .. n
        BY <2>2, <3>1
      <4>2. Below(d, f) \subseteq Y
        BY <2>4, <3>1
      <4> QED BY <4>1, <4>2
    <3>2. ASSUME NEW e \in X, Len(e.path) = n, f \in Below(d, e)
          PROVE  IsList(f.path) /\ Len(f.path) = n + 1
      BY <2>2, <3>2, BelowDeeper
    <3> QED BY <2>5, <3>1, <3>2
  <2>8. Entered(d, n + 1, Y)
    BY <2>7 DEF Entered
  <2> QED BY <2>6, <2>8 DEF X, Y
<1>3. \A n \in 0 .. N - 1 : n \in S => n + 1 \in S
  <2> TAKE n \in 0 .. N - 1
  <2>1. n + 1 \in 0 .. N
    BY <1>0
  <2> HIDE DEF N
  <2> QED BY <2>1, <1>2
<1>4. \A n \in 0 .. N : n \in S
  <2> HIDE DEF S, N
  <2> QED BY <1>0, <1>1, <1>3, UpTo
<1>5. ASSUME NEW n \in 0 .. BlkCount - 2
      PROVE  F[n + 1] = NextHeads(d, F[n])
  <2>1. n \in 0 .. N /\ n \in 0 .. N - 1
    BY <1>0
  <2>2. Entered(d, n, F[n])
    BY <2>1, <1>4
  <2> QED BY <2>1, <2>2, <1>2
<1> QED BY <1>5 DEF Levels

\* The entries of the tree, level by level.
LEMMA HeadsExist ==
  ASSUME NEW d
  PROVE  \E F : Levels(d, F) /\ Heads(d) = F[DirCount(d)]
<1> DEFINE N == BlkCount - 1
           G(g) == [n \in 0 .. BlkCount - 1 |-> IF n = 0 THEN {RootEntry}
                                              ELSE NextLevel(d, n - 1, g[n - 1])]
           Part(k, g) == g[0] = {RootEntry} /\ \A n \in 0 .. k - 1 : g[n + 1] = NextLevel(d, n, g[n])
           S == {k \in 0 .. N : \E g : Part(k, g)}
<1>0. N \in Nat /\ N - 1 = BlkCount - 2
  BY Sizes
<1>1. 0 \in S
  <2>1. Part(0, [n \in {0} |-> {RootEntry}])
    OBVIOUS
  <2> HIDE DEF Part
  <2> QED BY <2>1, <1>0
<1>2. ASSUME NEW k \in 0 .. N - 1, k \in S
      PROVE  k + 1 \in S
  <2>1. PICK g : Part(k, g)
    BY <1>2
  <2> DEFINE f == [n \in 0 .. k + 1 |-> IF n = k + 1 THEN NextLevel(d, k, g[k]) ELSE g[n]]
  <2> HIDE DEF N
  <2>2. f[0] = {RootEntry}
    BY <2>1, <1>2
  <2>3. \A n \in 0 .. (k + 1) - 1 : f[n + 1] = NextLevel(d, n, f[n])
    <3> TAKE n \in 0 .. (k + 1) - 1
    <3>1. f[n] = g[n]
      BY <1>2
    <3>2. CASE n = k
      BY <3>1, <3>2, <1>2
    <3>3. CASE n # k
      <4>1. n \in 0 .. k - 1 /\ n + 1 \in 0 .. k + 1 /\ n + 1 # k + 1
        BY <3>3, <1>2
      <4>2. f[n + 1] = g[n + 1]
        BY <4>1
      <4> QED BY <4>1, <4>2, <3>1, <2>1
    <3> QED BY <3>2, <3>3
  <2>4. Part(k + 1, f)
    BY <2>2, <2>3
  <2> HIDE DEF f, Part
  <2> QED BY <2>4, <1>2, <1>0
<1>3. PICK g : Part(N, g)
  <2> HIDE DEF S, N
  <2>1. \A n \in 0 .. N : n \in S
    BY <1>0, <1>1, <1>2, UpTo
  <2>2. N \in S
    BY <2>1, <1>0
  <2> QED BY <2>2 DEF S
<1> DEFINE r == [n \in 0 .. BlkCount - 1 |-> g[n]]
<1>4. r = G(r)
  <2> SUFFICES ASSUME NEW n \in 0 .. N PROVE r[n] = G(r)[n]
    OBVIOUS
  <2>1. CASE n = 0
    BY <2>1, <1>3
  <2>2. CASE n # 0
    <3>1. n - 1 \in 0 .. N - 1 /\ n - 1 \in 0 .. N /\ (n - 1) + 1 = n
      BY <2>2, <1>0
    <3>2. g[n] = NextLevel(d, n - 1, g[n - 1])
      BY <3>1, <1>3
    <3>3. r[n - 1] = g[n - 1] /\ r[n] = g[n]
      BY <3>1
    <3> QED BY <3>2, <3>3, <2>2
  <2> QED BY <2>1, <2>2
<1> DEFINE w == CHOOSE f : f = G(f)
<1>5. w = G(w)
  <2> HIDE DEF G, r
  <2> QED BY <1>4
<1>6. Heads(d) = w[DirCount(d)]
  BY DEF Heads, HeadsWithout, DirCount, NextLevel, Below
<1> HIDE DEF w
<1>7. w[0] = {RootEntry}
  <2>1. w[0] = G(w)[0]
    <3> HIDE DEF G
    <3> QED BY <1>5
  <2> QED BY <2>1, <1>0
<1>8. ASSUME NEW n \in 0 .. BlkCount - 2
      PROVE  w[n + 1] = NextLevel(d, n, w[n])
  <2>1. n + 1 \in 0 .. N /\ n + 1 # 0 /\ (n + 1) - 1 = n
    BY <1>0
  <2>2. w[n + 1] = G(w)[n + 1]
    <3> HIDE DEF G
    <3> QED BY <1>5
  <2> QED BY <2>1, <2>2
<1>9. Levels(d, w)
  BY <1>7, <1>8, LevelsSame
<1> QED BY <1>6, <1>9

\* An entry, as it follows from its item.
EntryOf(up, it) == [path |-> Append(up.path, it.name), item |-> it]

\* A head, and how an entry of a set is known.
HeadItem(d, B, e) ==
  /\ e.path \in Seq(GivenNames)
  /\ \/ e.item.type = FILE /\ e.item.blk = 0
     \/ /\ e.item.type \in {DIR, FILE} /\ e.item.blk \in B /\ e.item.blk # 0
        /\ d[e.item.blk].prev = 0 /\ d[e.item.blk].kind = KindOf(e.item)
InDir(d, B, h, up, b, i, e) ==
  /\ up.item.type = DIR /\ b \in B /\ i \in 1 .. DirItems
  /\ h[b] = up.item.blk /\ Used(d, b, i) /\ e = EntryOf(up, d[b].items[i])
Known(d, B, h, X, e) == e = RootEntry \/ \E up \in X : \E b, i : InDir(d, B, h, up, b, i, e)

\* The entry of the root directory.
LEMMA RootIs ==
  /\ RootEntry.path = <<>> /\ RootEntry.item.type = DIR /\ RootEntry.item.blk = TFS_ROOT_DIR_BLK
  BY DEF RootEntry, FreeItem

\* The entries of a directory are the items in use of its blocks.
LEMMA ItemsOfIs ==
  ASSUME NEW d, NEW B, NEW h, NEW r, NEW o, NEW k, Struct(d, B, h, r, o, k),
         NEW e, HeadItem(d, B, e), e.item.type = DIR, NEW f
  PROVE  f \in ItemsOf(d, e) <=> \E b, i : InDir(d, B, h, e, b, i, f)
<1> DEFINE p == e.item.blk
           ch == Chain(d, p)
           dirs == {b \in Range(ch) : d[b].kind = "dir"}
           its == UNION {Range(d[b].items) : b \in dirs}
<1>1. p \in B /\ d[p].prev = 0 /\ d[p].kind = "dir"
  BY Words DEF HeadItem, KindOf
<1> HIDE DEF p
<1>2. \A c : c \in Range(ch) <=> c \in B /\ h[c] = p
  BY <1>1, ChainOf DEF ChainIs
<1>3. \A c \in B : h[c] = p => d[c].kind = "dir" /\ d[c].items \in [1 .. DirItems -> Item]
  <2> TAKE c \in B
  <2> HAVE h[c] = p
  <2>1. d[c].kind = "dir"
    BY <1>1 DEF Struct, LinkOk
  <2> QED BY <2>1, StructTypes
<1> HIDE DEF ch
<1>4. \A it : it \in its <=> \E b \in B, i \in 1 .. DirItems : h[b] = p /\ it = d[b].items[i]
  <2>1. \A b : b \in dirs <=> b \in B /\ h[b] = p
    BY <1>2, <1>3
  <2>2. \A b \in B : h[b] = p =>
          \A it : it \in Range(d[b].items) <=> \E i \in 1 .. DirItems : it = d[b].items[i]
    BY <1>3 DEF Range
  <2> HIDE DEF dirs
  <2> QED BY <2>1, <2>2
<1>5. ItemsOf(d, e) = {[path |-> Append(e.path, it.name), item |-> it] : it \in {it \in its : it.type # FREE}}
  BY DEF ItemsOf, p, ch
<1> HIDE DEF its
<1>6. f \in ItemsOf(d, e) <=> \E it \in its : it.type # FREE /\ f = EntryOf(e, it)
  BY <1>5 DEF EntryOf
<1>7. \A b \in B, i \in 1 .. DirItems : h[b] = p => (Used(d, b, i) <=> d[b].items[i].type # FREE)
  BY <1>3 DEF Used
<1>8. ASSUME f \in ItemsOf(d, e) PROVE \E b, i : InDir(d, B, h, e, b, i, f)
  <2>1. PICK it \in its : it.type # FREE /\ f = EntryOf(e, it)
    BY <1>6, <1>8
  <2>2. PICK b \in B, i \in 1 .. DirItems : h[b] = p /\ it = d[b].items[i]
    BY <1>4, <2>1
  <2>3. InDir(d, B, h, e, b, i, f)
    BY <2>1, <2>2, <1>7 DEF InDir, p
  <2> QED BY <2>3
<1>9. ASSUME NEW b, NEW i, InDir(d, B, h, e, b, i, f) PROVE f \in ItemsOf(d, e)
  <2>1. b \in B /\ i \in 1 .. DirItems /\ h[b] = p /\ Used(d, b, i) /\ f = EntryOf(e, d[b].items[i])
    BY <1>9 DEF InDir, p
  <2> QED BY <2>1, <1>4, <1>6, <1>7
<1> QED BY <1>8, <1>9

\* An entry below a head is a head.
LEMMA EntryIsHead ==
  ASSUME NEW d, NEW B, NEW h, NEW r, NEW o, NEW k, Struct(d, B, h, r, o, k),
         NEW up, HeadItem(d, B, up), NEW b, NEW i, NEW e, InDir(d, B, h, up, b, i, e)
  PROVE  HeadItem(d, B, e)
<1> DEFINE it == d[b].items[i]
<1>1. b \in B /\ i \in 1 .. DirItems /\ Used(d, b, i) /\ e = EntryOf(up, it)
  BY DEF InDir
<1>2. it \in Item /\ it.type # FREE
  BY <1>1, StructTypes DEF Used
<1>3. ItemOk(d, B, h, r, o, k, b, i)
  BY <1>1 DEF Struct
<1>4. it.blk # 0 => it.blk \in B /\ d[it.blk].prev = 0 /\ d[it.blk].kind = KindOf(it)
  BY <1>3 DEF ItemOk
<1>5. it.type \in {DIR, FILE} /\ (it.type = DIR => it.blk # 0) /\ it.name \in GivenNames
  BY <1>2 DEF Item
<1> HIDE DEF it
<1>6. e.item = it /\ e.path = Append(up.path, it.name)
  BY <1>1 DEF EntryOf
<1>7. e.path \in Seq(GivenNames)
  BY <1>5, <1>6 DEF HeadItem
<1> QED BY <1>4, <1>5, <1>6, <1>7 DEF HeadItem

\* The root directory heads a chain.
LEMMA RootIsHead ==
  ASSUME NEW d, NEW B, NEW h, NEW r, NEW o, NEW k, Struct(d, B, h, r, o, k)
  PROVE  HeadItem(d, B, RootEntry)
<1>1. TFS_ROOT_DIR_BLK \in B /\ d[TFS_ROOT_DIR_BLK].prev = 0 /\ d[TFS_ROOT_DIR_BLK].kind = "dir"
      /\ TFS_ROOT_DIR_BLK # 0
  BY Sizes DEF Struct
<1>2. RootEntry.path \in Seq(GivenNames)
  BY RootIs
<1> QED BY <1>1, <1>2, RootIs DEF HeadItem, KindOf

\* Level by level, every entry is the root or in a directory that is known already.
Fits(d, B, h, X) == \A e \in X : HeadItem(d, B, e) /\ Known(d, B, h, X, e)

\* One level more: every item of the directories known so far.
LEMMA NextIs ==
  ASSUME NEW d, NEW B, NEW h, NEW r, NEW o, NEW k, Struct(d, B, h, r, o, k),
         NEW X, Fits(d, B, h, X)
  PROVE  /\ Fits(d, B, h, NextHeads(d, X)) /\ X \subseteq NextHeads(d, X)
         /\ \A up \in X : \A b, i, e : InDir(d, B, h, up, b, i, e) => e \in NextHeads(d, X)
<1> DEFINE Y == NextHeads(d, X)
<1>1. \A e : e \in Y <=> \E up \in X : e = up \/ e \in Below(d, up)
  BY DEF NextHeads
<1> HIDE DEF Y
<1>2. X \subseteq Y
  BY <1>1
<1>3. \A up \in X : \A e : e \in Below(d, up) <=> up.item.type = DIR /\ e \in ItemsOf(d, up)
  BY DEF Below
<1>4. \A up \in X : \A e : up.item.type = DIR => (e \in ItemsOf(d, up) <=> \E b, i : InDir(d, B, h, up, b, i, e))
  BY ItemsOfIs DEF Fits
<1>5. \A up \in X : \A b, i, e : InDir(d, B, h, up, b, i, e) => e \in Y
  <2> TAKE up \in X
  <2> TAKE b, i, e
  <2> HAVE InDir(d, B, h, up, b, i, e)
  <2>1. up.item.type = DIR
    BY DEF InDir
  <2> QED BY <2>1, <1>1, <1>3, <1>4
<1>6. ASSUME NEW e \in Y PROVE HeadItem(d, B, e) /\ Known(d, B, h, Y, e)
  <2>1. PICK up \in X : e = up \/ e \in Below(d, up)
    BY <1>1
  <2>2. CASE e = up
    <3>1. HeadItem(d, B, e) /\ Known(d, B, h, X, e)
      BY <2>2 DEF Fits
    <3> QED BY <3>1, <1>2 DEF Known
  <2>3. CASE e \in Below(d, up)
    <3>1. PICK b, i : InDir(d, B, h, up, b, i, e)
      BY <2>3, <1>3, <1>4
    <3>2. HeadItem(d, B, up)
      BY DEF Fits
    <3>3. HeadItem(d, B, e)
      BY <3>1, <3>2, EntryIsHead
    <3> QED BY <3>1, <3>3, <1>2 DEF Known
  <2> QED BY <2>1, <2>2, <2>3
<1> QED BY <1>2, <1>5, <1>6 DEF Fits, Y

\* Every entry found at any level heads a chain of the structure.
LEMMA LevelsFit ==
  ASSUME NEW d, NEW B, NEW h, NEW r, NEW o, NEW k, Struct(d, B, h, r, o, k),
         NEW F, Levels(d, F)
  PROVE  \A n \in 0 .. BlkCount - 1 : Fits(d, B, h, F[n])
<1> DEFINE N == BlkCount - 1
           S == {n \in 0 .. N : Fits(d, B, h, F[n])}
<1>0. N \in Nat /\ N - 1 = BlkCount - 2
  BY Sizes
<1>1. 0 \in S
  <2>1. F[0] = {RootEntry}
    BY DEF Levels
  <2>2. HeadItem(d, B, RootEntry)
    BY RootIsHead
  <2>3. Fits(d, B, h, F[0])
    BY <2>1, <2>2 DEF Fits, Known
  <2> QED BY <2>3, <1>0
<1>2. ASSUME NEW n \in 0 .. N - 1, n \in S PROVE n + 1 \in S
  <2>1. F[n + 1] = NextHeads(d, F[n])
    BY <1>0 DEF Levels
  <2>2. Fits(d, B, h, F[n + 1])
    BY <2>1, <1>2, NextIs
  <2> QED BY <2>2, <1>0, <1>2
<1>3. \A n \in 0 .. N : n \in S
  <2> HIDE DEF S, N
  <2> QED BY <1>0, <1>1, <1>2, UpTo
<1> QED BY <1>3

\* The directory blocks of smaller rank.
Lower(d, r, n) == {b \in Blocks : d[b].kind = "dir" /\ r[b] < n}
Depth(d, r, x) == Cardinality(Lower(d, r, r[x]))

\* A directory lies deeper than the directory that holds it, and there are no more levels than
\* directory blocks.
LEMMA DepthIs ==
  ASSUME NEW d, NEW r \in [Blocks -> Nat], NEW x \in Blocks
  PROVE  /\ Depth(d, r, x) \in 0 .. DirCount(d) /\ DirCount(d) \in 0 .. BlkCount - 1
         /\ \A p \in Blocks : d[p].kind = "dir" /\ r[p] < r[x] => Depth(d, r, p) < Depth(d, r, x)
<1> DEFINE Dirs == {b \in Blocks : d[b].kind = "dir"}
           L(y) == Lower(d, r, r[y])
<1>1. IsFiniteSet(Blocks) /\ Cardinality(Blocks) = BlkCount - 1
  BY FS_Interval, Sizes DEF Blocks
<1>2. IsFiniteSet(Dirs) /\ Cardinality(Dirs) <= BlkCount - 1
  <2>1. Dirs \in SUBSET Blocks
    OBVIOUS
  <2> HIDE DEF Dirs
  <2> QED BY <2>1, <1>1, FS_Subset
<1>3. \A y : IsFiniteSet(L(y)) /\ Cardinality(L(y)) <= Cardinality(Dirs)
  <2> TAKE y
  <2>1. L(y) \in SUBSET Dirs
    BY DEF Lower
  <2> HIDE DEF Dirs, L
  <2> QED BY <2>1, <1>2, FS_Subset
<1>4. \A S : IsFiniteSet(S) => Cardinality(S) \in Nat
  BY FS_CardinalityType
<1>5. ASSUME NEW p \in Blocks, d[p].kind = "dir", r[p] < r[x]
      PROVE  Cardinality(L(p)) < Cardinality(L(x))
  <2>1. r[p] \in Nat /\ r[x] \in Nat
    OBVIOUS
  <2>2. L(p) \subseteq L(x)
    <3>1. \A b \in Blocks : r[b] \in Nat
      OBVIOUS
    <3>2. \A b \in Blocks : r[b] < r[p] => r[b] < r[x]
      BY <2>1, <3>1, <1>5
    <3> QED BY <3>2 DEF Lower
  <2>3. p \in L(x) /\ p \notin L(p)
    BY <2>1, <1>5 DEF Lower
  <2> HIDE DEF L
  <2>4. L(p) \in SUBSET L(x)
    BY <2>2
  <2>5. Cardinality(L(p)) <= Cardinality(L(x)) /\ Cardinality(L(x)) # Cardinality(L(p))
    BY <2>3, <2>4, <1>3, FS_Subset
  <2>6. Cardinality(L(p)) \in Nat /\ Cardinality(L(x)) \in Nat
    BY <1>3, <1>4
  <2> QED BY <2>5, <2>6
<1>6. Cardinality(Dirs) \in Nat /\ Cardinality(L(x)) \in Nat
  BY <1>2, <1>3, <1>4
<1>7. DirCount(d) = Cardinality(Dirs)
  BY DEF DirCount
<1>8. \A y : Depth(d, r, y) = Cardinality(L(y))
  BY DEF Depth
<1> HIDE DEF Dirs, L
<1>9. Depth(d, r, x) \in 0 .. DirCount(d) /\ DirCount(d) \in 0 .. BlkCount - 1
  BY <1>2, <1>3, <1>6, <1>7, <1>8, Sizes
<1> QED BY <1>5, <1>8, <1>9

\* Every head is found, at the level of its depth or before.
LEMMA AllReached ==
  ASSUME NEW d, NEW B, NEW h, NEW r, NEW o, NEW k, Struct(d, B, h, r, o, k),
         NEW F, Levels(d, F)
  PROVE  \A x \in B : d[x].prev = 0 => \E e \in F[DirCount(d)] : e.item.blk = x
<1> DEFINE N == BlkCount - 1
           M == DirCount(d)
           Has(x, n) == \E e \in F[n] : e.item.blk = x
           Bad == {x \in B : d[x].prev = 0 /\ ~Has(x, Depth(d, r, x))}
           R == {r[x] : x \in Bad}
<1>0. N \in Nat /\ N - 1 = BlkCount - 2 /\ B \subseteq Blocks /\ r \in [Blocks -> Nat]
  BY Sizes, StructOf
<1>1. \A n \in 0 .. N : Fits(d, B, h, F[n])
  BY LevelsFit
<1>2. \A n \in 0 .. N - 1 : F[n + 1] = NextHeads(d, F[n])
  BY <1>0 DEF Levels
<1>3. \A n \in 0 .. N - 1 : /\ F[n] \subseteq F[n + 1]
                            /\ \A up \in F[n] : \A b, i, e : InDir(d, B, h, up, b, i, e) => e \in F[n + 1]
  <2> TAKE n \in 0 .. N - 1
  <2>1. Fits(d, B, h, F[n])
    BY <1>0, <1>1
  <2> HIDE DEF N
  <2> QED BY <2>1, <1>2, NextIs
<1> HIDE DEF N
<1>4. \A x, m, n : m \in 0 .. N /\ n \in m .. N /\ Has(x, m) => Has(x, n)
  <2> TAKE x, m, n
  <2> HAVE m \in 0 .. N /\ n \in m .. N /\ Has(x, m)
  <2> DEFINE S == {q \in 0 .. N - m : Has(x, m + q)}
  <2>1. 0 \in S
    BY <1>0
  <2>2. ASSUME NEW q \in 0 .. (N - m) - 1, q \in S PROVE q + 1 \in S
    <3>1. m + q \in 0 .. N - 1 /\ m + (q + 1) = (m + q) + 1 /\ q + 1 \in 0 .. N - m
      BY <1>0
    <3>2. F[m + q] \subseteq F[(m + q) + 1]
      BY <3>1, <1>3
    <3>3. Has(x, m + (q + 1))
      BY <3>1, <3>2, <2>2
    <3> HIDE DEF Has
    <3> QED BY <3>1, <3>3
  <2>3. \A q \in 0 .. N - m : q \in S
    <3>1. N - m \in Nat
      BY <1>0
    <3> HIDE DEF S
    <3> QED BY <3>1, <2>1, <2>2, UpTo
  <2>4. n - m \in 0 .. N - m /\ m + (n - m) = n
    BY <1>0
  <2> HIDE DEF Has
  <2> QED BY <2>3, <2>4
<1>5. Bad = {}
  <2> SUFFICES ASSUME Bad # {} PROVE FALSE
    OBVIOUS
  <2> HIDE DEF Has
  <2>0. \A x : x \in Bad <=> x \in B /\ d[x].prev = 0 /\ ~Has(x, Depth(d, r, x))
    OBVIOUS
  <2> HIDE DEF Bad
  <2>1. R \in SUBSET Nat /\ R # {}
    BY <2>0, <1>0
  <2>2. \E y \in R : \A z \in R : y <= z
    <3> HIDE DEF R
    <3> QED BY <2>1, LeastNumber
  <2>3. PICK x \in Bad : \A y \in Bad : r[x] <= r[y]
    BY <2>2
  <2>4. x \in B /\ d[x].prev = 0 /\ ~Has(x, Depth(d, r, x)) /\ x \in Blocks
    BY <2>0, <2>3, <1>0
  <2>5. Depth(d, r, x) \in 0 .. N /\ M \in 0 .. N
    <3>1. Depth(d, r, x) \in 0 .. M /\ M \in 0 .. N
      BY <2>4, <1>0, DepthIs DEF N
    <3> HIDE DEF M
    <3> QED BY <3>1, <1>0
  <2>6. CASE x = TFS_ROOT_DIR_BLK
    <3>1. Has(x, 0)
      BY <2>6, RootIs DEF Has, Levels
    <3>2. Has(x, Depth(d, r, x))
      BY <3>1, <2>5, <1>0, <1>4
    <3> QED BY <3>2, <2>4
  <2>7. CASE x # TFS_ROOT_DIR_BLK
    <3> DEFINE b == o[x]
               i == k[x]
               p == h[b]
    <3>1. b \in B /\ i \in 1 .. DirItems /\ Used(d, b, i) /\ d[b].items[i].blk = x
      BY <2>4, <2>7 DEF Struct, HeadOk
    <3> HIDE DEF b, i
    <3>2. LinkOk(d, B, h, r, b) /\ ItemOk(d, B, h, r, o, k, b, i)
      BY <3>1 DEF Struct
    <3>3. p \in B /\ d[p].prev = 0 /\ d[p].kind = "dir" /\ r[p] <= r[b]
      BY <3>1, <3>2 DEF LinkOk, Used
    <3>4. x # 0 /\ r[b] < r[x]
      <4>1. x # 0
        BY <2>4, Sizes
      <4> QED BY <4>1, <3>1, <3>2 DEF ItemOk
    <3> HIDE DEF p
    <3>5. r[p] < r[x] /\ p \in Blocks
      <4>1. r[p] \in Nat /\ r[b] \in Nat /\ r[x] \in Nat
        BY <3>1, <3>3, <2>4, <1>0
      <4> QED BY <4>1, <3>3, <3>4, <1>0
    <3>6. p \notin Bad
      <4>1. r[p] \in Nat /\ r[x] \in Nat
        BY <3>5, <2>4, <1>0
      <4> QED BY <4>1, <3>5, <2>3
    <3>7. Has(p, Depth(d, r, p))
      BY <3>3, <3>6, <2>0
    <3>8. Depth(d, r, p) < Depth(d, r, x) /\ Depth(d, r, p) \in 0 .. M /\ Depth(d, r, x) \in 0 .. M
      BY <3>3, <3>5, <2>4, <1>0, DepthIs
    <3> DEFINE m == Depth(d, r, p)
    <3>9. m \in 0 .. N - 1 /\ m + 1 \in 0 .. N /\ Depth(d, r, x) \in m + 1 .. N
      BY <3>8, <2>5, <1>0
    <3> HIDE DEF m
    <3>10. PICK up \in F[m] : up.item.blk = p
      BY <3>7 DEF Has, m
    <3>11. HeadItem(d, B, up)
      BY <3>9, <1>1, <1>0 DEF Fits, m
    <3>12. up.item.type = DIR
      BY <3>3, <3>5, <3>10, <3>11, Sizes DEF HeadItem, KindOf
    <3> DEFINE e == EntryOf(up, d[b].items[i])
    <3>13. InDir(d, B, h, up, b, i, e)
      BY <3>1, <3>10, <3>12 DEF InDir, p
    <3>14. e \in F[m + 1] /\ e.item.blk = x
      <4>1. e.item.blk = x
        BY <3>1 DEF EntryOf
      <4> HIDE DEF e
      <4> QED BY <4>1, <3>9, <3>13, <1>3
    <3>15. Has(x, m + 1)
      BY <3>14 DEF Has
    <3>16. Has(x, Depth(d, r, x))
      BY <3>9, <3>15, <1>4
    <3> QED BY <3>16, <2>4
  <2> QED BY <2>6, <2>7
<1> SUFFICES ASSUME NEW x \in B, d[x].prev = 0 PROVE Has(x, M)
  OBVIOUS
<1>6. Has(x, Depth(d, r, x))
  BY <1>5
<1>7. Depth(d, r, x) \in 0 .. M /\ M \in 0 .. N
  BY <1>0, DepthIs DEF N
<1>8. Depth(d, r, x) \in 0 .. N /\ M \in Depth(d, r, x) .. N
  BY <1>0, <1>7
<1> HIDE DEF Has, M
<1> QED BY <1>4, <1>6, <1>8

\* Entries with the same first block have the same path.
LEMMA OnePath ==
  ASSUME NEW d, NEW B, NEW h, NEW r, NEW o, NEW k, Struct(d, B, h, r, o, k),
         NEW X, Fits(d, B, h, X)
  PROVE  \A e, f \in X : e.item.blk # 0 /\ e.item.blk = f.item.blk => e.path = f.path
<1> DEFINE Differ(x) == \E e, f \in X : e.item.blk = x /\ f.item.blk = x /\ e.path # f.path
           Bad == {x \in B : Differ(x)}
           R == {r[x] : x \in Bad}
<1>0. B \subseteq Blocks /\ r \in [Blocks -> Nat]
  BY StructOf
<1>1. \A e \in X : e.item.blk # 0 => e.item.blk \in B
  BY DEF Fits, HeadItem
<1>2. Bad = {}
  <2> SUFFICES ASSUME Bad # {} PROVE FALSE
    OBVIOUS
  <2> HIDE DEF Differ
  <2>0. \A x : x \in Bad <=> x \in B /\ Differ(x)
    OBVIOUS
  <2> HIDE DEF Bad
  <2>1. R \in SUBSET Nat /\ R # {}
    BY <2>0, <1>0
  <2>2. \E y \in R : \A z \in R : y <= z
    <3> HIDE DEF R
    <3> QED BY <2>1, LeastNumber
  <2>3. PICK x \in Bad : \A y \in Bad : r[x] <= r[y]
    BY <2>2
  <2>4. x \in B /\ x # 0 /\ Differ(x)
    BY <2>0, <2>3, <1>0, Sizes
  <2>5. PICK e, f \in X : e.item.blk = x /\ f.item.blk = x /\ e.path # f.path
    BY <2>4 DEF Differ
  <2>6. ASSUME NEW g \in X, g.item.blk = x, g # RootEntry
        PROVE  /\ x # TFS_ROOT_DIR_BLK
               /\ \E up \in X : /\ up.item.blk = h[o[x]] /\ g = EntryOf(up, d[o[x]].items[k[x]])
                                /\ r[h[o[x]]] < r[x] /\ h[o[x]] \in B /\ h[o[x]] # 0
    <3>1. Known(d, B, h, X, g)
      BY DEF Fits
    <3>0. PICK up \in X : \E b, i : InDir(d, B, h, up, b, i, g)
      BY <3>1, <2>6 DEF Known
    <3>2. PICK b, i : InDir(d, B, h, up, b, i, g)
      BY <3>0
    <3>3. /\ b \in B /\ i \in 1 .. DirItems /\ h[b] = up.item.blk /\ Used(d, b, i)
          /\ g = EntryOf(up, d[b].items[i])
      BY <3>2 DEF InDir
    <3>4. d[b].items[i].blk = x
      BY <3>3, <2>6 DEF EntryOf
    <3>5. ItemOk(d, B, h, r, o, k, b, i) /\ LinkOk(d, B, h, r, b)
      BY <3>3 DEF Struct
    <3>6. x # TFS_ROOT_DIR_BLK /\ r[b] < r[x] /\ o[x] = b /\ k[x] = i
      BY <3>4, <3>5, <2>4 DEF ItemOk
    <3>7. r[h[b]] <= r[b] /\ h[b] \in B
      BY <3>5 DEF LinkOk
    <3>8. r[h[b]] < r[x] /\ h[b] # 0
      <4>1. r[h[b]] \in Nat /\ r[b] \in Nat /\ r[x] \in Nat /\ h[b] # 0
        BY <3>3, <3>7, <2>4, <1>0, Sizes
      <4> QED BY <4>1, <3>6, <3>7
    <3> QED BY <3>3, <3>6, <3>7, <3>8
  <2>7. CASE e = RootEntry \/ f = RootEntry
    <3>1. x = TFS_ROOT_DIR_BLK
      BY <2>5, <2>7, RootIs
    <3>2. e = RootEntry /\ f = RootEntry
      BY <3>1, <2>5, <2>6
    <3> QED BY <3>2, <2>5
  <2>8. CASE e # RootEntry /\ f # RootEntry
    <3> DEFINE y == h[o[x]]
               it == d[o[x]].items[k[x]]
    <3>1. PICK u \in X : u.item.blk = y /\ e = EntryOf(u, it) /\ r[y] < r[x] /\ y \in B
      BY <2>5, <2>6, <2>8
    <3>2. PICK v \in X : v.item.blk = y /\ f = EntryOf(v, it)
      BY <2>5, <2>6, <2>8
    <3> HIDE DEF y, it
    <3>3. u.path # v.path
      BY <3>1, <3>2, <2>5 DEF EntryOf
    <3>4. y \in Bad
      BY <3>1, <3>2, <3>3, <2>0 DEF Differ
    <3>5. r[y] \in Nat /\ r[x] \in Nat
      BY <3>1, <2>4, <1>0
    <3> QED BY <3>1, <3>4, <3>5, <2>3
  <2> QED BY <2>7, <2>8
<1> SUFFICES ASSUME NEW e \in X, NEW f \in X, e.item.blk # 0, e.item.blk = f.item.blk, e.path # f.path
             PROVE  FALSE
  OBVIOUS
<1>3. Differ(e.item.blk) /\ e.item.blk \in B
  BY <1>1
<1> HIDE DEF Differ
<1> QED BY <1>2, <1>3

\* The heads of a drive.
HeadsAre(d, B, h, X) ==
  /\ Fits(d, B, h, X)
  /\ \A x \in B : d[x].prev = 0 => \E e \in X : e.item.blk = x
  /\ \A e, f \in X : e.item.blk # 0 /\ e.item.blk = f.item.blk => e.path = f.path

\* The entries that are found are all there are.
LEMMA HeadsOk ==
  ASSUME NEW d, NEW B, NEW h, NEW r, NEW o, NEW k, Struct(d, B, h, r, o, k)
  PROVE  HeadsAre(d, B, h, Heads(d))
<1>1. PICK F : Levels(d, F) /\ Heads(d) = F[DirCount(d)]
  BY HeadsExist
<1>2. DirCount(d) \in 0 .. BlkCount - 1
  <2>1. TFS_ROOT_DIR_BLK \in Blocks /\ r \in [Blocks -> Nat]
    BY Sizes, StructOf
  <2> QED BY <2>1, DepthIs
<1>3. Fits(d, B, h, Heads(d))
  BY <1>1, <1>2, LevelsFit
<1>4. \A x \in B : d[x].prev = 0 => \E e \in Heads(d) : e.item.blk = x
  BY <1>1, AllReached
<1>5. \A e, f \in Heads(d) : e.item.blk # 0 /\ e.item.blk = f.item.blk => e.path = f.path
  BY <1>3, OnePath
<1> QED BY <1>3, <1>4, <1>5 DEF HeadsAre

-----------------------------------------------------------------------------
(* What the structure means for the tree.                                  *)

\* The chain of an entry.
LEMMA HeadChain ==
  ASSUME NEW d, NEW B, NEW h, NEW r, NEW o, NEW k, Struct(d, B, h, r, o, k),
         NEW e, HeadItem(d, B, e)
  PROVE  /\ \A c : c \in Range(Chain(d, e.item.blk)) <=> e.item.blk # 0 /\ c \in B /\ h[c] = e.item.blk
         /\ e.item.blk # 0 => ChainIs(d, B, h, e.item.blk, Chain(d, e.item.blk))
         /\ e.item.blk = 0 => Chain(d, e.item.blk) = <<>>
<1> DEFINE p == e.item.blk
<1>1. CASE p = 0
  <2>1. \A b \in Blocks : Follow(d, b) \in Ptrs
    BY FollowType, StructOf
  <2>2. Walks(d, Chain(d, 0), 0, BlkCount - 1)
    BY <2>1, Sizes, ChainWalks
  <2>3. Chain(d, 0) = <<>> /\ Range(<<>>) = {}
    BY <2>2 DEF Walks, Range
  <2> HIDE DEF p
  <2>4. \A c : c \in Range(Chain(d, p)) <=> FALSE
    BY <2>3, <1>1
  <2> QED BY <2>3, <2>4, <1>1 DEF p
<1>2. CASE p # 0
  <2>1. p \in B /\ d[p].prev = 0
    BY <1>2 DEF HeadItem
  <2> HIDE DEF p
  <2>2. ChainIs(d, B, h, p, Chain(d, p))
    BY <2>1, ChainOf
  <2>3. \A c : c \in Range(Chain(d, p)) <=> c \in B /\ h[c] = p
    BY <2>2 DEF ChainIs
  <2> QED BY <2>2, <2>3, <1>2 DEF p
<1> QED BY <1>1, <1>2

\* Two-element sequences are what they hold.
LEMMA OccupiedIs ==
  ASSUME NEW d, NEW X
  PROVE  \A q : q \in Occupied(d, X) <=>
                  \E e \in X : \E b : b \in Range(Chain(d, e.item.blk)) /\ q = <<e.path, b>>
  BY DEF Occupied

\* The blocks that the entries occupy are the blocks of the structure, and no
\* block belongs to entries of two paths.
LEMMA BlocksAre ==
  ASSUME NEW d, NEW B, NEW h, NEW r, NEW o, NEW k, Struct(d, B, h, r, o, k),
         NEW X, HeadsAre(d, B, h, X)
  PROVE  BlocksOf(d, X) = B /\ NoSharing(d, X)
<1> DEFINE occ == Occupied(d, X)
           T == {q[2] : q \in occ}
<1>1. \A q : q \in occ <=> \E e \in X : \E b : b \in Range(Chain(d, e.item.blk)) /\ q = <<e.path, b>>
  BY OccupiedIs
<1>2. \A e \in X : \A c : c \in Range(Chain(d, e.item.blk)) <=> e.item.blk # 0 /\ c \in B /\ h[c] = e.item.blk
  BY HeadChain DEF HeadsAre, Fits
<1> HIDE DEF occ
<1>3. \A q \in occ : \E e \in X : q = <<e.path, q[2]>> /\ e.item.blk # 0 /\ q[2] \in B /\ h[q[2]] = e.item.blk
  BY <1>1, <1>2
<1>4. T = B
  <2>1. ASSUME NEW b \in B PROVE b \in T
    <3>1. h[b] \in B /\ d[h[b]].prev = 0 /\ h[b] # 0
      <4>1. h[b] \in B /\ d[h[b]].prev = 0
        BY DEF Struct, LinkOk
      <4> QED BY <4>1, StructTypes
    <3>2. PICK e \in X : e.item.blk = h[b]
      BY <3>1 DEF HeadsAre
    <3>3. b \in Range(Chain(d, e.item.blk))
      BY <3>1, <3>2, <1>2
    <3> DEFINE q == <<e.path, b>>
    <3>4. q \in occ /\ q[2] = b
      BY <3>3, <1>1
    <3> QED BY <3>4
  <2> QED BY <2>1, <1>3
<1>5. \A q, s \in occ : q[2] = s[2] => q = s
  <2> TAKE q, s \in occ
  <2> HAVE q[2] = s[2]
  <2>1. PICK e \in X : q = <<e.path, q[2]>> /\ e.item.blk # 0 /\ h[q[2]] = e.item.blk
    BY <1>3
  <2>2. PICK f \in X : s = <<f.path, s[2]>> /\ h[s[2]] = f.item.blk
    BY <1>3
  <2>3. e.path = f.path
    BY <2>1, <2>2 DEF HeadsAre
  <2> QED BY <2>1, <2>2, <2>3
<1>6. IsFiniteSet(T)
  <2>1. IsFiniteSet(Blocks)
    BY FS_Interval, Sizes DEF Blocks
  <2>2. T \in SUBSET Blocks
    BY <1>4, StructOf
  <2> HIDE DEF T
  <2> QED BY <2>1, <2>2, FS_Subset
<1>7. Cardinality(occ) = Cardinality(T)
  <2> DEFINE g == [b \in T |-> CHOOSE q \in occ : q[2] = b]
  <2>1. \A b \in T : g[b] \in occ /\ g[b][2] = b
    OBVIOUS
  <2>2. \A q \in occ : q[2] \in T /\ g[q[2]] = q
    BY <2>1, <1>5
  <2>3. g \in [T -> occ]
    BY <2>1
  <2> HIDE DEF g, T
  <2>4. g \in Injection(T, occ)
    BY <2>1, <2>3 DEF Injection, IsInjective
  <2>5. g \in Surjection(T, occ)
    BY <2>2, <2>3 DEF Surjection
  <2>6. ExistsBijection(T, occ)
    BY <2>4, <2>5 DEF ExistsBijection, Bijection
  <2> QED BY <2>6, <1>6, FS_Bijection
<1>8. BlocksOf(d, X) = T /\ NoSharing(d, X)
  BY <1>7 DEF BlocksOf, NoSharing, occ
<1> QED BY <1>4, <1>8

\* Every block of a chain is of the kind its entry says.
LEMMA KindsAre ==
  ASSUME NEW d, NEW B, NEW h, NEW r, NEW o, NEW k, Struct(d, B, h, r, o, k),
         NEW X, HeadsAre(d, B, h, X)
  PROVE  KindsRight(d, X)
<1> SUFFICES ASSUME NEW e \in X, NEW b \in Range(Chain(d, e.item.blk))
             PROVE  d[b].kind = IF e.item.type = DIR THEN "dir" ELSE "data"
  BY DEF KindsRight
<1>1. HeadItem(d, B, e)
  BY DEF HeadsAre, Fits
<1>2. e.item.blk # 0 /\ b \in B /\ h[b] = e.item.blk
  BY <1>1, HeadChain
<1>3. d[b].kind = d[h[b]].kind
  BY <1>2 DEF Struct, LinkOk
<1>4. d[e.item.blk].kind = KindOf(e.item)
  BY <1>1, <1>2 DEF HeadItem
<1> QED BY <1>2, <1>3, <1>4 DEF KindOf

\* prev and parent pointers of every chain.
LEMMA LinksAre ==
  ASSUME NEW d, NEW B, NEW h, NEW r, NEW o, NEW k, Struct(d, B, h, r, o, k),
         NEW X, HeadsAre(d, B, h, X)
  PROVE  LinksRight(d, X)
<1> DEFINE ch(e) == Chain(d, e.item.blk)
           Above(e, c) ==
             \/ e.path = <<>> /\ d[c].parent = 0
             \/ \E up \in X : /\ e.path # <<>>
                              /\ up.path = SubSeq(e.path, 1, Len(e.path) - 1)
                              /\ d[c].parent = up.item.blk
<1>1. ASSUME NEW e \in X, NEW i \in 1 .. Len(ch(e))
      PROVE  /\ d[ch(e)[i]].prev = IF i = 1 THEN 0 ELSE ch(e)[i - 1]
             /\ e.item.type = DIR => Above(e, ch(e)[i])
  <2> DEFINE p == e.item.blk
             s == ch(e)
             c == s[i]
  <2>1. HeadItem(d, B, e) /\ Known(d, B, h, X, e)
    BY DEF HeadsAre, Fits
  <2>2. p # 0
    <3> SUFFICES ASSUME p = 0 PROVE FALSE
      OBVIOUS
    <3>1. s = <<>>
      BY <2>1, HeadChain
    <3>2. Len(s) = 0
      BY <3>1
    <3>3. i \in 1 .. Len(s)
      OBVIOUS
    <3> HIDE DEF s
    <3> QED BY <3>2, <3>3
  <2>3. ChainIs(d, B, h, p, s)
    BY <2>1, <2>2, HeadChain
  <2>4. i \in 1 .. Len(s)
    OBVIOUS
  <2> HIDE DEF s
  <2>5. c \in B /\ h[c] = p /\ d[c].prev = IF i = 1 THEN 0 ELSE s[i - 1]
    BY <2>3, <2>4 DEF ChainIs
  <2> HIDE DEF c
  <2>6. ASSUME e.item.type = DIR PROVE Above(e, c)
    <3>1. p \in B /\ d[p].kind = "dir" /\ d[p].prev = 0
      BY <2>1, <2>2, <2>6 DEF HeadItem, KindOf
    <3>2. d[c].parent = d[p].parent
      <4>1. LinkOk(d, B, h, r, c)
        BY <2>5 DEF Struct
      <4>2. d[p].kind = d[c].kind /\ (d[c].kind = "dir" => d[c].parent = d[p].parent)
        <5> HIDE DEF p
        <5> QED BY <4>1, <2>5 DEF LinkOk
      <4> QED BY <4>2, <3>1
    <3>3. CASE e = RootEntry
      <4>1. e.path = <<>> /\ p = TFS_ROOT_DIR_BLK
        BY <3>3, RootIs
      <4>2. d[TFS_ROOT_DIR_BLK].parent = 0
        BY DEF Struct
      <4> QED BY <4>1, <4>2, <3>2
    <3>4. CASE e # RootEntry
      <4>0. PICK up \in X : \E b, j : InDir(d, B, h, up, b, j, e)
        BY <2>1, <3>4 DEF Known
      <4>1. PICK b, j : InDir(d, B, h, up, b, j, e)
        BY <4>0
      <4>2. /\ b \in B /\ j \in 1 .. DirItems /\ h[b] = up.item.blk /\ Used(d, b, j)
            /\ e = EntryOf(up, d[b].items[j])
        BY <4>1 DEF InDir
      <4>3. ItemOk(d, B, h, r, o, k, b, j)
        BY <4>2 DEF Struct
      <4>4. d[b].items[j] = e.item /\ e.path = Append(up.path, d[b].items[j].name)
        BY <4>2 DEF EntryOf
      <4>5. d[p].parent = h[b]
        BY <4>3, <4>4, <2>2, <2>6 DEF ItemOk
      <4>6. up.path \in Seq(GivenNames) /\ d[b].items[j].name \in GivenNames
        <5>1. HeadItem(d, B, up)
          BY DEF HeadsAre, Fits
        <5>2. d[b].items[j] \in Item
          BY <4>2, StructTypes DEF Used
        <5> QED BY <5>1, <5>2 DEF HeadItem, Item
      <4> DEFINE x == d[b].items[j].name
                 y == up.path
      <4> HIDE DEF x, y
      <4>7. Append(y, x) # <<>> /\ SubSeq(Append(y, x), 1, Len(Append(y, x)) - 1) = y
        <5>1. y \in Seq(GivenNames) /\ x \in GivenNames
          BY <4>6 DEF x, y
        <5> QED BY <5>1
      <4>8. up.path = SubSeq(e.path, 1, Len(e.path) - 1) /\ e.path # <<>>
        BY <4>4, <4>7 DEF x, y
      <4>9. d[c].parent = up.item.blk
        BY <3>2, <4>2, <4>5
      <4> QED BY <4>8, <4>9
    <3> QED BY <3>3, <3>4
  <2> HIDE DEF Above
  <2> QED BY <2>5, <2>6 DEF c, s
<1> QED BY <1>1 DEF LinksRight

\* A structure is sound, and its blocks are those the directory tree refers to.
LEMMA StructSound ==
  ASSUME NEW d, NEW B, NEW h, NEW r, NEW o, NEW k, Struct(d, B, h, r, o, k)
  PROVE  Sound(d) /\ InUse(d) = B
<1>1. HeadsAre(d, B, h, Heads(d))
  BY HeadsOk
<1>2. BlocksOf(d, Heads(d)) = B /\ NoSharing(d, Heads(d))
  BY <1>1, BlocksAre
<1>3. KindsRight(d, Heads(d)) /\ LinksRight(d, Heads(d))
  BY <1>1, KindsAre, LinksAre
<1> QED BY <1>2, <1>3 DEF Sound, SoundHeads, InUse

\* A directory without items has one block.
LEMMA EmptyOne ==
  ASSUME NEW d, NEW B, NEW h, NEW r, NEW o, NEW k, Struct(d, B, h, r, o, k), OneEmpty(d, B, h),
         NEW e \in Heads(d), e.item.type = DIR, ItemsOf(d, e) = {}
  PROVE  Len(Chain(d, e.item.blk)) = 1
<1> DEFINE p == e.item.blk
           s == Chain(d, p)
<1>1. HeadItem(d, B, e)
  BY HeadsOk DEF HeadsAre, Fits
<1>2. p \in B /\ d[p].kind = "dir" /\ d[p].prev = 0 /\ p # 0
  BY <1>1, Words DEF HeadItem, KindOf
<1>3. ChainIs(d, B, h, p, s)
  BY <1>1, <1>2, HeadChain
<1>4. \A b \in B : h[b] = p => Empty(d, b)
  <2> SUFFICES ASSUME NEW b \in B, h[b] = p, NEW i \in 1 .. DirItems, d[b].items[i].type # FREE
               PROVE  FALSE
    BY DEF Empty
  <2>1. Used(d, b, i)
    BY <1>2 DEF Used, Struct, LinkOk
  <2> DEFINE f == EntryOf(e, d[b].items[i])
  <2>2. InDir(d, B, h, e, b, i, f)
    BY <2>1 DEF InDir
  <2> HIDE DEF f
  <2>3. f \in ItemsOf(d, e)
    BY <2>2, <1>1, ItemsOfIs
  <2> QED BY <2>3
<1> HIDE DEF s
<1>5. /\ Len(s) \in Nat /\ Len(s) >= 1
      /\ \A i \in 1 .. Len(s) : s[i] \in B /\ h[s[i]] = p
      /\ \A i, j \in 1 .. Len(s) : s[i] = s[j] => i = j
  BY <1>3 DEF ChainIs
<1> SUFFICES ASSUME Len(s) # 1 PROVE FALSE
  BY DEF s
<1>6. 1 \in 1 .. Len(s) /\ 2 \in 1 .. Len(s)
  <2> DEFINE n == Len(s)
  <2>1. n \in Nat /\ n >= 1 /\ n # 1
    BY <1>5
  <2> HIDE DEF n
  <2>2. 1 \in 1 .. n /\ 2 \in 1 .. n
    BY <2>1
  <2> QED BY <2>2 DEF n
<1>7. s[1] \in B /\ s[2] \in B /\ h[s[1]] = p /\ h[s[2]] = p /\ s[1] # s[2]
  BY <1>5, <1>6
<1>8. d[s[1]].kind = "dir"
  BY <1>2, <1>7 DEF Struct, LinkOk
<1> HIDE DEF p
<1>9. Empty(d, s[1]) /\ Empty(d, s[2])
  BY <1>4, <1>7
<1> QED BY <1>7, <1>8, <1>9 DEF OneEmpty

-----------------------------------------------------------------------------
(* The theorems.                                                           *)

\* What the invariant says of the tree.
LEMMA NeatMeans ==
  ASSUME NeatInv
  PROVE  NoLeak /\ EmptyDirIsOneBlock /\ (faults = 0 => Sound(disk))
<1> SUFFICES ASSUME faults = 0
             PROVE  /\ map = {0} \cup InUse(disk) /\ bitmap_blk = map /\ Sound(disk)
                    /\ \A e \in Heads(disk) : (e.item.type = DIR /\ ItemsOf(disk, e) = {}) =>
                                                Len(Chain(disk, e.item.blk)) = 1
  BY DEF NoLeak, EmptyDirIsOneBlock
<1>1. PICK B, h, r, o, k : Here(B, h, r, o, k)
  BY DEF NeatInv, Neat
<1>2. /\ Struct(disk, B, h, r, o, k) /\ OneEmpty(disk, B, h)
      /\ map = {0} \cup B /\ bitmap_blk = {0} \cup B
  BY <1>1 DEF Here, TidyAs
<1>3. Sound(disk) /\ InUse(disk) = B
  BY <1>2, StructSound
<1>4. \A e \in Heads(disk) : (e.item.type = DIR /\ ItemsOf(disk, e) = {}) =>
                               Len(Chain(disk, e.item.blk)) = 1
  BY <1>2, EmptyOne
<1> QED BY <1>2, <1>3, <1>4

\* As long as no call is cut short, alloc_block and free_block are called so that exactly the
\* bitmap block and the blocks of the directory tree are marked: tfs_delete, overwriting,
\* write_dir_cleanup and calls that meet a full drive leak nothing and free nothing in use.
THEOREM NoLeakAlways == Spec => []NoLeak
<1>1. NeatInv => NoLeak
  BY NeatMeans
<1> QED BY <1>1, NeatAlways, PTL

\* As long as no call is cut short, write_dir_cleanup brings a directory whose items are all
\* deleted back to one block, which is all that tfs_delete looks at before it removes one.
THEOREM EmptyDirAlways == Spec => []EmptyDirIsOneBlock
<1>1. NeatInv => EmptyDirIsOneBlock
  BY NeatMeans
<1> QED BY <1>1, NeatAlways, PTL

-----------------------------------------------------------------------------
(* Types, in every state.                                                  *)

Plain == [op: {"put"}, blk: Blocks, val: Contents, alt: {<<>>}]
           \cup [op: {"alloc", "free"}, blk: Blocks, val: {Junk}, alt: {<<>>}]
           \cup {Wipe}
Writes == Plain \cup [op: {"alloc"}, blk: Blocks, val: {Junk}, alt: Seq(Plain)]

Typed(s) == s.disk \in Disks /\ s.ram \subseteq Ptrs /\ 0 \in s.ram
            /\ s.map \subseteq Ptrs /\ 0 \in s.map

\* A write of a block has its type.
LEMMA PutIsWrite ==
  ASSUME NEW b \in Blocks, NEW c \in Contents
  PROVE  Put(b, c) \in Plain /\ Put(b, c) \in Writes
  BY DEF Put, Plain, Writes

\* Writes of the bitmap have their type.
LEMMA OtherWrites ==
  ASSUME NEW b \in Blocks
  PROVE  Alloc(b) \in Writes /\ Free(b) \in Writes /\ Wipe \in Writes
  BY DEF Alloc, Free, Plain, Writes

\* What is known of a write.
LEMMA WriteIs ==
  ASSUME NEW w \in Writes
  PROVE  /\ w.op \in {"put", "alloc", "free", "wipe"} /\ w.alt \in Seq(Writes)
         /\ w.op # "wipe" => w.blk \in Blocks
         /\ w.op \in {"put", "free"} => w.val \in Contents
<1>1. CASE w \in [op: {"put"}, blk: Blocks, val: Contents, alt: {<<>>}]
  <2>1. w.op = "put" /\ w.blk \in Blocks /\ w.val \in Contents /\ w.alt = <<>>
    BY <1>1
  <2> QED BY <2>1, EmptySeq
<1>2. CASE w \in [op: {"alloc", "free"}, blk: Blocks, val: {Junk}, alt: {<<>>}]
  <2>1. w.op \in {"alloc", "free"} /\ w.blk \in Blocks /\ w.val = Junk /\ w.alt = <<>>
    BY <1>2
  <2>2. Junk \in Contents
    BY DEF Contents
  <2> QED BY <2>1, <2>2, EmptySeq
<1>3. CASE w = Wipe
  BY <1>3 DEF Wipe
<1>4. CASE w \in [op: {"alloc"}, blk: Blocks, val: {Junk}, alt: Seq(Plain)]
  <2>1. w.alt \in Seq(Plain) /\ w.op = "alloc" /\ w.blk \in Blocks
    BY <1>4
  <2>2. \A x \in Plain : x \in Writes
    BY DEF Writes
  <2>3. w.alt \in Seq(Writes)
    BY <2>1, <2>2, SeqMonotonic
  <2> QED BY <2>1, <2>3
<1> QED BY <1>1, <1>2, <1>3, <1>4 DEF Writes, Plain

\* The cached bitmap keeps its type.
LEMMA InRamTyped ==
  ASSUME NEW ram, ram \subseteq Ptrs, 0 \in ram, NEW w \in Writes
  PROVE  InRam(ram, w) \subseteq Ptrs /\ 0 \in InRam(ram, w)
<1>1. w.op \in {"put", "alloc", "free", "wipe"} /\ (w.op # "wipe" => w.blk \in Blocks)
  BY WriteIs
<1> QED BY <1>1, Sizes DEF InRam

\* A write keeps drive and bitmaps of their type.
LEMMA ApplyTyped ==
  ASSUME NEW s, Typed(s), NEW w \in Writes
  PROVE  Typed(Apply(s, w))
<1> DEFINE t == Apply(s, w)
           ram == InRam(s.ram, w)
<1>1. /\ w.op \in {"put", "alloc", "free", "wipe"} /\ (w.op # "wipe" => w.blk \in Blocks)
      /\ w.op \in {"put", "free"} => w.val \in Contents
  BY WriteIs
<1>2. ram \subseteq Ptrs /\ 0 \in ram
  BY InRamTyped DEF Typed
<1>3. /\ t.ram = ram /\ t.map = IF w.op = "put" THEN s.map ELSE ram
      /\ t.disk = CASE w.op = "wipe" -> [b \in Blocks |-> Junk]
                    [] w.op \in {"put", "free"} -> [s.disk EXCEPT ![w.blk] = w.val]
                    [] OTHER -> s.disk
  BY DEF Apply
<1> HIDE DEF t, ram
<1>4. t.disk \in Disks
  <2>1. [b \in Blocks |-> Junk] \in Disks
    BY DEF Disks, Contents
  <2>2. w.op \in {"put", "free"} => [s.disk EXCEPT ![w.blk] = w.val] \in Disks
    BY <1>1 DEF Disks, Typed
  <2> QED BY <1>1, <1>3, <2>1, <2>2 DEF Typed
<1>5. Typed(t)
  BY <1>2, <1>3, <1>4 DEF Typed
<1> QED BY <1>5 DEF t

\* So does a list of writes.
LEMMA RunTyped ==
  ASSUME NEW s, Typed(s), NEW ws \in Seq(Writes)
  PROVE  Typed(Run(s, ws))
<1>1. Len(ws) \in Nat /\ \A i \in 1 .. Len(ws) : ws[i] \in Writes
  OBVIOUS
<1>2. PICK f : Passes(f, s, ws) /\ Run(s, ws) = f[Len(ws)]
  BY <1>1, RunExists
<1> DEFINE S == {n \in 0 .. Len(ws) : Typed(f[n])}
<1>3. 0 \in S
  BY <1>1, <1>2 DEF Passes
<1>4. ASSUME NEW n \in 0 .. Len(ws) - 1, n \in S
      PROVE  n + 1 \in S
  <2>1. f[n + 1] = Apply(f[n], ws[n + 1]) /\ n + 1 \in 1 .. Len(ws)
    BY <1>1, <1>2 DEF Passes
  <2>2. Typed(f[n]) /\ ws[n + 1] \in Writes
    BY <1>1, <1>4, <2>1
  <2>3. Typed(Apply(f[n], ws[n + 1]))
    BY <2>2, ApplyTyped
  <2> QED BY <2>1, <2>3
<1>5. \A n \in 0 .. Len(ws) : n \in S
  <2> HIDE DEF S
  <2> QED BY <1>1, <1>3, <1>4, UpTo
<1> QED BY <1>1, <1>2, <1>5

Errors == {"OK", "IO", "DISK_FULL", "FILE_EXIST", "NOT_EXIST", "NOT_EMPTY", "NO_NAME", "UNEXP_EOF"}
TypeInv == /\ Typed(Now) /\ current_dir_blk \in Blocks
           /\ tfs_last_error \in Errors /\ faults \in 0 .. MaxFaults
PlanTyped(plan) == plan.writes \in Seq(Writes) /\ plan.cwd \in Blocks /\ plan.err \in Errors

\* Drive and bitmaps after a call.
LEMMA NowTyped ==
  ASSUME NEW s, Typed(s), disk' = s.disk, bitmap_blk' = s.ram, map' = s.map
  PROVE  Typed(Now)'
  BY DEF Typed, Now, Disks, Contents, DirBlks, DataBlks, Junk, Item, Ptrs, GivenNames, Blocks

\* A call that runs to its end keeps every variable of its type.
LEMMA CompleteTyped ==
  ASSUME TypeInv, NEW plan, PlanTyped(plan), Complete(plan)
  PROVE  TypeInv'
<1> DEFINE s == Run(Now, plan.writes)
<1>1. Typed(s)
  BY RunTyped DEF TypeInv, PlanTyped
<1>2. After(plan.writes) = s
  BY AfterIs
<1>3. /\ disk' = s.disk /\ bitmap_blk' = s.ram /\ map' = s.map /\ current_dir_blk' = plan.cwd
      /\ tfs_last_error' = plan.err /\ faults' = faults
  BY <1>2 DEF Complete
<1> HIDE DEF s
<1>4. Typed(Now)'
  BY <1>1, <1>3, NowTyped
<1> QED BY <1>3, <1>4 DEF TypeInv, PlanTyped, Errors, Blocks

\* So does one that is cut short by a loss of power.
LEMMA PowerLossTyped ==
  ASSUME TypeInv, NEW plan, PlanTyped(plan), NEW k \in 0 .. Len(plan.writes), CutShort,
         PowerLossAfter(plan, k)
  PROVE  TypeInv'
<1> DEFINE done == SubSeq(plan.writes, 1, k)
           s == Run(Now, done)
           t == [disk |-> s.disk, ram |-> s.map, map |-> s.map]
<1>1. done \in Seq(Writes)
  <2>1. plan.writes \in Seq(Writes)
    BY DEF PlanTyped
  <2> QED BY <2>1, SubSeqProperties
<1> HIDE DEF done
<1>2. Typed(s)
  BY <1>1, RunTyped DEF TypeInv
<1>3. After(done) = s
  BY AfterIs
<1>4. /\ disk' = s.disk /\ bitmap_blk' = s.map /\ map' = s.map
      /\ current_dir_blk' = TFS_ROOT_DIR_BLK /\ tfs_last_error' = "OK"
  BY <1>3 DEF PowerLossAfter, done
<1> HIDE DEF s
<1>5. Typed(t) /\ disk' = t.disk /\ bitmap_blk' = t.ram /\ map' = t.map
  BY <1>2, <1>4 DEF Typed
<1> HIDE DEF t
<1>6. Typed(Now)'
  BY <1>5, NowTyped
<1>7. faults' \in 0 .. MaxFaults
  BY Sizes DEF CutShort, TypeInv
<1>8. current_dir_blk' \in Blocks' /\ tfs_last_error' \in Errors
  BY <1>4, Sizes DEF Errors, Blocks
<1> QED BY <1>6, <1>7, <1>8 DEF TypeInv, Errors

\* So does one that is cut short by a failed transfer.
LEMMA FailTyped ==
  ASSUME TypeInv, NEW plan, PlanTyped(plan), NEW k \in 0 .. Len(plan.writes), CutShort,
         FailAfter(plan, k)
  PROVE  TypeInv'
<1> DEFINE done == SubSeq(plan.writes, 1, k)
           s == Run(Now, done)
           pending == {plan.writes[i] : i \in {k + 1} \cap DOMAIN plan.writes}
           tried(w, reached) == (IF reached THEN Append(done, w) ELSE done) \o w.alt
<1>0. plan.writes \in Seq(Writes)
  BY DEF PlanTyped
<1>1. done \in Seq(Writes)
  BY <1>0, SubSeqProperties
<1>2. \A w \in pending : w \in Writes
  BY <1>0
<1>3. After(done) = s /\ \A w, reached : After(tried(w, reached)) = Run(Now, tried(w, reached))
  BY AfterIs
<1>4. /\ \/ disk' = s.disk /\ map' = s.map /\ bitmap_blk' = s.ram
         \/ \E w \in pending, reached \in BOOLEAN :
              /\ disk' = Run(Now, tried(w, reached)).disk /\ map' = Run(Now, tried(w, reached)).map
              /\ bitmap_blk' = InRam(s.ram, w)
      /\ tfs_last_error' = "IO" /\ current_dir_blk' = current_dir_blk
  <2> HIDE DEF s
  <2> QED BY <1>3 DEF FailAfter
<1> HIDE DEF done, pending
<1>5. Typed(s)
  BY <1>1, RunTyped DEF TypeInv
<1>6. ASSUME NEW w \in pending, NEW reached \in BOOLEAN
      PROVE  Typed(Run(Now, tried(w, reached)))
  <2>1. w \in Writes /\ w.alt \in Seq(Writes)
    BY <1>2, WriteIs
  <2>2. tried(w, reached) \in Seq(Writes)
    BY <2>1, <1>1
  <2> HIDE DEF tried
  <2> QED BY <2>2, RunTyped DEF TypeInv
<1> HIDE DEF s
<1>7. Typed(Now)'
  <2>1. CASE disk' = s.disk /\ map' = s.map /\ bitmap_blk' = s.ram
    BY <2>1, <1>5, NowTyped
  <2>2. CASE \E w \in pending, reached \in BOOLEAN :
              /\ disk' = Run(Now, tried(w, reached)).disk /\ map' = Run(Now, tried(w, reached)).map
              /\ bitmap_blk' = InRam(s.ram, w)
    <3>1. PICK w \in pending, reached \in BOOLEAN :
              /\ disk' = Run(Now, tried(w, reached)).disk /\ map' = Run(Now, tried(w, reached)).map
              /\ bitmap_blk' = InRam(s.ram, w)
      BY <2>2
    <3> DEFINE t == Run(Now, tried(w, reached))
               u == [disk |-> t.disk, ram |-> InRam(s.ram, w), map |-> t.map]
    <3>2. Typed(t)
      BY <1>6
    <3>3. InRam(s.ram, w) \subseteq Ptrs /\ 0 \in InRam(s.ram, w)
      BY <1>2, <1>5, InRamTyped DEF Typed
    <3> HIDE DEF t
    <3>4. Typed(u)
      BY <3>2, <3>3 DEF Typed
    <3>5. disk' = u.disk /\ bitmap_blk' = u.ram /\ map' = u.map
      BY <3>1 DEF t
    <3> HIDE DEF u
    <3> QED BY <3>4, <3>5, NowTyped
  <2> QED BY <1>4, <2>1, <2>2
<1>8. faults' \in 0 .. MaxFaults
  BY Sizes DEF CutShort, TypeInv
<1>9. current_dir_blk' \in Blocks' /\ tfs_last_error' \in Errors
  BY <1>4 DEF Errors, Blocks, TypeInv
<1> QED BY <1>7, <1>8, <1>9 DEF TypeInv, Errors

\* A call keeps the types when its plans are of the right type.
LEMMA PerformTyped ==
  ASSUME TypeInv, NEW call, NEW plans, Perform(call, plans), \A plan \in plans : PlanTyped(plan)
  PROVE  TypeInv'
<1>1. PICK plan \in plans : \/ Complete(plan)
                            \/ /\ CutShort
                               /\ \E k \in 0 .. Len(plan.writes) :
                                    FailAfter(plan, k) \/ PowerLossAfter(plan, k)
  BY DEF Perform
<1>2. PlanTyped(plan)
  BY <1>1
<1> QED BY <1>1, <1>2, CompleteTyped, FailTyped, PowerLossTyped

-----------------------------------------------------------------------------
(* The plans of the calls have the right types.                            *)

\* In an operable state the current directory can be read.
LEMMA OperableCwd ==
  ASSUME TypeInv, Operable
  PROVE  CwdOk
<1> DEFINE ch == CurrentDir
<1>1. disk \in Disks /\ 0 \in bitmap_blk /\ current_dir_blk \in Blocks
  BY DEF TypeInv, Typed, Now
<1>2. PICK heads \in {Heads(disk)} :
        /\ SoundHeads(disk, heads)
        /\ \E e \in heads : e.item.type = DIR /\ e.item.blk = current_dir_blk
  BY DEF Operable, OperableWith
<1>3. PICK e \in heads : e.item.type = DIR /\ e.item.blk = current_dir_blk
  BY <1>2
<1>4. ch = Chain(disk, e.item.blk)
  BY <1>3 DEF CurrentDir
<1>5. \A b \in Range(ch) : disk[b].kind = "dir"
  BY <1>2, <1>3, <1>4 DEF SoundHeads, KindsRight
<1>6. \A i \in 1 .. Len(ch) : disk[ch[i]].prev = IF i = 1 THEN 0 ELSE ch[i - 1]
  BY <1>2, <1>3, <1>4 DEF SoundHeads, LinksRight
<1>7. Walks(disk, ch, current_dir_blk, BlkCount - 1)
  <2>1. \A b \in Blocks : Follow(disk, b) \in Ptrs
    BY <1>1, FollowType
  <2>2. current_dir_blk \in Ptrs
    BY <1>1, Sizes
  <2> QED BY <2>1, <2>2, ChainWalks DEF CurrentDir
<1> HIDE DEF ch
<1>8. /\ ch \in Seq(Blocks) /\ Len(ch) \in Nat /\ Len(ch) >= 1 /\ ch[1] = current_dir_blk
      /\ \A i \in 1 .. Len(ch) - 1 : ch[i + 1] = Follow(disk, ch[i])
      /\ Len(ch) < BlkCount - 1 => Follow(disk, ch[Len(ch)]) = 0
  BY <1>1, <1>7, Sizes DEF Walks
<1>9. \A i \in 1 .. Len(ch) : ch[i] \in Blocks /\ ch[i] \in Range(ch)
  BY <1>8 DEF Range
<1>10. \A i \in 1 .. Len(ch) : disk[ch[i]] \in DirBlks /\ Follow(disk, ch[i]) = disk[ch[i]].next
  <2> TAKE i \in 1 .. Len(ch)
  <2>1. disk[ch[i]] \in Contents /\ disk[ch[i]].kind = "dir"
    BY <1>1, <1>5, <1>9 DEF Disks
  <2> QED BY <2>1, Kinds DEF Follow
<1>11. Listed(ch)
  <2>1. \A i \in 1 .. Len(ch) : i # Len(ch) => disk[ch[i]].next = ch[i + 1]
    <3> TAKE i \in 1 .. Len(ch)
    <3>1. i # Len(ch) => i \in 1 .. Len(ch) - 1
      BY <1>8
    <3> QED BY <3>1, <1>8, <1>10
  <2>2. Len(ch) \in 1 .. Len(ch)
    BY <1>8
  <2> QED BY <2>1, <2>2, <1>6, <1>8, <1>9, <1>10 DEF Listed
<1> QED BY <1>1, <1>11 DEF CwdOk, ch

\* A plan that stays in the current directory.
LEMMA PlanIs ==
  ASSUME TypeInv, NEW ws \in Seq(Writes), NEW err \in Errors
  PROVE  PlanTyped(Plan(ws, err))
  BY DEF Plan, PlanTyped, TypeInv

\* A plan without writes.
LEMMA NoWritesTyped ==
  ASSUME TypeInv, NEW err \in Errors
  PROVE  PlanTyped(Plan(<<>>, err))
  BY PlanIs, EmptySeq

\* A call that refuses the empty name.
LEMMA NamePlanTyped ==
  ASSUME TypeInv, NEW n, NEW plan, n # NoName => PlanTyped(plan)
  PROVE  PlanTyped(NamePlan(n, plan))
<1>1. PlanTyped(Plan(<<>>, "NO_NAME"))
  BY NoWritesTyped DEF Errors
<1> QED BY <1>1 DEF NamePlan

\* A block of the current directory.
LEMMA InCwdIs ==
  ASSUME CwdOk, NEW b, NEW i, InCwd(b, i)
  PROVE  /\ b \in Blocks /\ b # 0 /\ i \in 1 .. DirItems /\ disk[b] \in DirBlks
         /\ disk[b].prev \in Ptrs /\ disk[b].next \in Ptrs /\ disk[b].parent \in Ptrs
         /\ disk[b].prev # 0 => disk[disk[b].prev] \in DirBlks
         /\ disk[b].prev = 0 /\ disk[b].next # 0 => disk[disk[b].next] \in DirBlks
<1> DEFINE ch == CurrentDir
<1>1. Listed(ch)
  BY DEF CwdOk
<1>2. PICK p \in 1 .. Len(ch) : b = ch[p] /\ b \in Blocks /\ disk[b] \in DirBlks /\ i \in 1 .. DirItems
  BY DEF InCwd
<1> HIDE DEF ch
<1>3. disk[b].prev \in Ptrs /\ disk[b].next \in Ptrs /\ disk[b].parent \in Ptrs
  BY <1>2 DEF DirBlks
<1>4. b # 0
  BY <1>2, Sizes
<1> DEFINE n == Len(ch)
<1>5. /\ n \in Nat /\ n >= 1 /\ \A j \in 1 .. n : ch[j] \in Blocks /\ disk[ch[j]] \in DirBlks
      /\ \A j \in 1 .. n : disk[ch[j]].prev = IF j = 1 THEN 0 ELSE ch[j - 1]
      /\ \A j \in 1 .. n : j # n => disk[ch[j]].next = ch[j + 1]
      /\ n < BlkCount - 1 => disk[ch[n]].next = 0
  BY <1>1 DEF Listed
<1> HIDE DEF n
<1>6. p \in 1 .. n
  BY DEF n
<1>7. disk[b].prev # 0 => disk[disk[b].prev] \in DirBlks
  <2> SUFFICES ASSUME disk[b].prev # 0 PROVE disk[disk[b].prev] \in DirBlks
    OBVIOUS
  <2>1. p # 1 /\ disk[b].prev = ch[p - 1]
    BY <1>2, <1>5, <1>6
  <2>2. p - 1 \in 1 .. n
    BY <2>1, <1>5, <1>6
  <2> QED BY <2>1, <2>2, <1>5
<1>8. disk[b].prev = 0 /\ disk[b].next # 0 => disk[disk[b].next] \in DirBlks
  <2> SUFFICES ASSUME disk[b].prev = 0, disk[b].next # 0 PROVE disk[disk[b].next] \in DirBlks
    OBVIOUS
  <2>1. p = 1
    <3> SUFFICES ASSUME p # 1 PROVE FALSE
      OBVIOUS
    <3>1. p - 1 \in 1 .. n /\ disk[b].prev = ch[p - 1]
      BY <1>2, <1>5, <1>6
    <3> QED BY <3>1, <1>5, Sizes
  <2>2. CASE n = 1
    <3>1. ~(n < BlkCount - 1)
      BY <2>1, <2>2, <1>2, <1>5
    <3>2. BlkCount = 2
      BY <3>1, <2>2, Sizes
    <3>3. b = 1 /\ disk[b].next = 1
      BY <3>2, <1>2, <1>3 DEF Blocks, Ptrs
    <3> QED BY <3>3, <1>2
  <2>3. CASE n # 1
    <3>1. 1 \in 1 .. n /\ 2 \in 1 .. n /\ 1 # n
      BY <2>3, <1>5
    <3>2. disk[b].next = ch[2]
      BY <3>1, <2>1, <1>2, <1>5
    <3> QED BY <3>1, <3>2, <1>5
  <2> QED BY <2>2, <2>3
<1> QED BY <1>2, <1>3, <1>4, <1>7, <1>8

\* A block whose prev pointer is set keeps its type.
LEMMA PrevTyped ==
  ASSUME NEW c \in Contents, NEW p \in Ptrs
  PROVE  [c EXCEPT !.prev = p] \in Contents
<1>1. CASE c \in DirBlks
  BY <1>1 DEF DirBlks, Contents
<1>2. CASE c \in DataBlks
  BY <1>2 DEF DataBlks, Contents
<1>3. CASE c = Junk
  <2>1. DOMAIN c = {"kind"} /\ "prev" \notin {"kind"} /\ c = [x \in {"kind"} |-> c[x]]
    BY <1>3 DEF Junk
  <2>2. [c EXCEPT !.prev = p] = c
    BY <2>1
  <2> QED BY <2>2
<1> QED BY <1>1, <1>2, <1>3 DEF Contents

\* write_dir_cleanup writes blocks of the drive, with what blocks hold.
LEMMA CleanupTyped ==
  ASSUME CwdOk, NEW b, NEW i, InCwd(b, i), NEW it \in Item,
         NEW c, c = [disk[b] EXCEPT !.items[i] = it]
  PROVE  write_dir_cleanup(b, c) \in Seq(Writes)
<1>1. /\ b \in Blocks /\ b # 0 /\ i \in 1 .. DirItems /\ disk[b] \in DirBlks
      /\ disk[b].prev \in Ptrs /\ disk[b].next \in Ptrs /\ disk[b].parent \in Ptrs
      /\ disk[b].prev # 0 => disk[disk[b].prev] \in DirBlks
      /\ disk[b].prev = 0 /\ disk[b].next # 0 => disk[disk[b].next] \in DirBlks
  BY InCwdIs
<1>2. c \in DirBlks /\ c.prev = disk[b].prev /\ c.next = disk[b].next
  BY <1>1, PutItemIs DEF ItemPut, SameLinks
<1> DEFINE head == c.prev = 0
           to   == IF head THEN b ELSE c.prev
           gone == IF head THEN c.next ELSE b
           next == disk[gone].next
           x == IF head THEN [disk[gone] EXCEPT !.prev = 0] ELSE [disk[to] EXCEPT !.next = next]
           y == [disk[next] EXCEPT !.prev = to]
           ws == Moves(to, x, next, y, gone)
<1>3. \/ write_dir_cleanup(b, c) = <<Put(b, c)>>
      \/ ~(c.prev = 0 /\ c.next = 0) /\ write_dir_cleanup(b, c) = ws
  BY DEF write_dir_cleanup, Moves
<1>4. <<Put(b, c)>> \in Seq(Writes)
  <2>1. Put(b, c) \in Writes
    BY <1>1, <1>2, PutIsWrite DEF Contents
  <2> QED BY <2>1
<1>5. ASSUME ~(c.prev = 0 /\ c.next = 0) PROVE ws \in Seq(Writes)
  <2>1. /\ to \in Blocks /\ gone \in Blocks /\ disk[to] \in DirBlks /\ disk[gone] \in DirBlks
    BY <1>1, <1>2, <1>5, Sizes
  <2>2. next \in Ptrs
    BY <2>1 DEF DirBlks
  <2> HIDE DEF next, to, gone
  <2>3. x \in Contents
    <3>1. [disk[gone] EXCEPT !.prev = 0] \in Contents
      BY <2>1, PrevTyped, Sizes DEF Contents
    <3>2. [disk[to] EXCEPT !.next = next] \in Contents
      BY <2>1, <2>2 DEF Contents, DirBlks
    <3> QED BY <3>1, <3>2
  <2>4. next # 0 => next \in Blocks /\ y \in Contents
    <3> SUFFICES ASSUME next # 0 PROVE next \in Blocks /\ y \in Contents
      OBVIOUS
    <3>1. next \in Blocks /\ to \in Ptrs
      BY <2>1, <2>2, Sizes
    <3>2. disk[next] \in Contents
      BY <3>1 DEF CwdOk, Disks
    <3> QED BY <3>1, <3>2, PrevTyped
  <2> HIDE DEF x, y
  <2>5. Put(to, x) \in Writes /\ Free(gone) \in Writes /\ (next # 0 => Put(next, y) \in Writes)
    BY <2>1, <2>3, <2>4, PutIsWrite, OtherWrites
  <2> DEFINE mid == IF next = 0 THEN <<>> ELSE <<Put(next, y)>>
  <2>6. mid \in Seq(Writes)
    BY <2>5, EmptySeq
  <2>7. ws = <<Put(to, x)>> \o mid \o <<Free(gone)>>
    BY DEF Moves
  <2> HIDE DEF mid, ws
  <2>8. <<Put(to, x)>> \in Seq(Writes) /\ <<Free(gone)>> \in Seq(Writes)
    BY <2>5
  <2> QED BY <2>6, <2>7, <2>8
<1> QED BY <1>3, <1>4, <1>5

\* free_file_blocks frees blocks of the drive.
LEMMA FreesTyped ==
  ASSUME disk \in Disks, NEW b \in Ptrs
  PROVE  free_file_blocks(b) \in Seq(Writes)
<1> DEFINE ch == Chain(disk, b)
<1>1. ch \in Seq(Blocks)
  <2>1. \A x \in Blocks : Follow(disk, x) \in Ptrs
    BY FollowType
  <2> QED BY <2>1, ChainWalks DEF Walks
<1>2. free_file_blocks(b) = [i \in 1 .. Len(ch) |-> Free(ch[i])]
  BY DEF free_file_blocks
<1> HIDE DEF ch
<1>3. Len(ch) \in Nat /\ \A i \in 1 .. Len(ch) : ch[i] \in Blocks
  BY <1>1
<1>4. \A i \in 1 .. Len(ch) : Free(ch[i]) \in Writes
  BY <1>3, OtherWrites
<1> QED BY <1>2, <1>3, <1>4

\* What find_slot returns, and what it still writes.
SlotTyped(s) ==
  /\ s.writes \in Seq(Writes) /\ s.err \in {"OK", "DISK_FULL"}
  /\ s.err = "OK" => s.blk \in Blocks /\ s.idx \in 1 .. DirItems /\ s.dir \in DirBlks

\* A slot that find_file returns is one of a directory block.
LEMMA FindSlotTyped ==
  ASSUME CwdOk, NEW n
  PROVE  SlotTyped(find_slot(n))
<1> DEFINE s == find_slot(n)
           t == CurrentDir[Len(CurrentDir)]
<1>1. SlotHere(s) \/ SlotNew(s) \/ SlotNone(s)
  BY FindSlotIs
<1> HIDE DEF s
<1>2. CASE SlotHere(s)
  BY <1>2, EmptySeq, InCwdIs DEF SlotHere, SlotTyped, s
<1>3. CASE SlotNone(s)
  BY <1>3, EmptySeq DEF SlotNone, SlotTyped, s
<1>4. CASE SlotNew(s)
  <2>1. t \in Blocks /\ disk[t] \in DirBlks
    <3> DEFINE ch == CurrentDir
    <3>1. Len(ch) \in Nat /\ Len(ch) >= 1 /\ \A i \in 1 .. Len(ch) : ch[i] \in Blocks /\ disk[ch[i]] \in DirBlks
      BY DEF CwdOk, Listed
    <3> QED BY <3>1
  <2>2. s.err = "OK" /\ s.blk \in Blocks /\ s.idx = 1 /\ s.dir = NewTail(t) /\ s.writes = Extending(t, s.blk)
    BY <1>4 DEF SlotNew
  <2> HIDE DEF t
  <2>3. NoItems \in [1 .. DirItems -> Item]
    BY FreeItemType DEF NoItems
  <2> HIDE DEF NoItems
  <2>4. NewTail(t) \in DirBlks
    BY <2>1, <2>3, Sizes DEF NewTail, DirBlk, DirBlks
  <2>5. [disk[t] EXCEPT !.next = s.blk] \in DirBlks
    BY <2>1, <2>2, Sizes DEF DirBlks
  <2>6. Put(t, [disk[t] EXCEPT !.next = s.blk]) \in Writes
    BY <2>1, <2>5, PutIsWrite DEF Contents
  <2>7. Alloc(s.blk) \in Writes /\ Put(s.blk, NewTail(t)) \in Writes
    BY <2>2, <2>4, OtherWrites, PutIsWrite DEF Contents
  <2>8. Extending(t, s.blk) \in Seq(Writes)
    BY <2>6, <2>7 DEF Extending
  <2>9. 1 \in 1 .. DirItems
    BY Sizes
  <2> QED BY <2>2, <2>4, <2>8, <2>9 DEF SlotTyped, s
<1> QED BY <1>1, <1>2, <1>3, <1>4 DEF s

\* Each status is one of those a call returns.
LEMMA ErrorWords ==
  /\ \A e \in {"OK", "DISK_FULL", "FILE_EXIST", "NOT_EXIST", "NOT_EMPTY", "NO_NAME", "IO", "UNEXP_EOF"} :
       e \in Errors
  BY DEF Errors

\* The item find_item returns, and what it refers to.
LEMMA FoundTyped ==
  ASSUME CwdOk, NEW n, NEW f, f = find_item(n), NEW types, types \subseteq {DIR, FILE},
         f.item.type \in types
  PROVE  /\ InCwd(f.blk, f.idx) /\ f.item.blk \in Ptrs
         /\ f.item.type # FILE => f.item.blk \in Blocks
<1>1. Found(f)
  BY FindItemIs
<1>2. f.item \in Item /\ f.item.type # FREE
  BY <1>1, Words DEF Found
<1>3. f.item.blk \in Ptrs /\ (f.item.type = DIR => f.item.blk # 0)
  BY <1>2 DEF Item
<1> QED BY <1>1, <1>2, <1>3, Sizes DEF Found

\* The writes of tfs_format.
LEMMA FormatTyped == PlanTyped(format_plan)
<1> DEFINE put == Put(TFS_ROOT_DIR_BLK, DirBlk(0, 0, 0, NoItems))
           a == Alloc(TFS_ROOT_DIR_BLK)
<1>1. put \in Writes /\ a \in Writes /\ Wipe \in Writes
  BY RootBlk, Sizes, PutIsWrite, OtherWrites DEF Contents
<1>2. format_plan = [writes |-> <<Wipe, a, put>>, err |-> "OK", cwd |-> TFS_ROOT_DIR_BLK]
  BY DEF format_plan
<1> HIDE DEF put, a
<1>3. <<Wipe, a, put>> \in Seq(Writes)
  BY <1>1
<1> DEFINE ws == <<Wipe, a, put>>
<1> HIDE DEF ws
<1>4. format_plan.writes = ws /\ format_plan.cwd = TFS_ROOT_DIR_BLK /\ format_plan.err = "OK"
  BY <1>2 DEF ws
<1> QED BY <1>3, <1>4, Sizes DEF PlanTyped, Errors, ws

\* A plan that writes nothing and changes the directory.
LEMMA MovesTo ==
  ASSUME NEW b \in Blocks
  PROVE  PlanTyped([Plan(<<>>, "OK") EXCEPT !.cwd = b])
  BY EmptySeq DEF Plan, PlanTyped, Errors

\* tfs_change_dir_parent goes to a block of the drive.
LEMMA ParentTyped ==
  ASSUME TypeInv, CwdOk
  PROVE  PlanTyped(change_dir_parent_plan)
<1> DEFINE ch == CurrentDir
           up == disk[current_dir_blk].parent
<1>1. disk[current_dir_blk] \in DirBlks
  <2>1. Len(ch) \in Nat /\ Len(ch) >= 1 /\ ch[1] = current_dir_blk
        /\ \A i \in 1 .. Len(ch) : disk[ch[i]] \in DirBlks
    BY DEF CwdOk, Listed
  <2> QED BY <2>1
<1>2. up \in Ptrs
  BY <1>1 DEF DirBlks
<1>3. change_dir_parent_plan = IF up = 0 THEN Plan(<<>>, "NOT_EXIST") ELSE [Plan(<<>>, "OK") EXCEPT !.cwd = up]
  BY DEF change_dir_parent_plan
<1> HIDE DEF up
<1>4. PlanTyped(Plan(<<>>, "NOT_EXIST")) /\ (up # 0 => PlanTyped([Plan(<<>>, "OK") EXCEPT !.cwd = up]))
  BY <1>2, NoWritesTyped, MovesTo, Sizes DEF Errors
<1> QED BY <1>3, <1>4

\* So does tfs_change_dir.
LEMMA ChangeDirTyped ==
  ASSUME TypeInv, CwdOk, NEW n
  PROVE  PlanTyped(change_dir_plan(n))
<1> DEFINE f == find_item(n)
<1>1. change_dir_plan(n) = IF f.item.type # DIR THEN Plan(<<>>, "NOT_EXIST")
                                               ELSE [Plan(<<>>, "OK") EXCEPT !.cwd = f.item.blk]
  BY DEF change_dir_plan
<1>2. f.item.type = DIR => f.item.blk \in Blocks
  <2>1. f.item.type = DIR => f.item.type \in {DIR}
    OBVIOUS
  <2>2. f = find_item(n) /\ {DIR} \subseteq {DIR, FILE}
    OBVIOUS
  <2> HIDE DEF f
  <2> QED BY <2>1, <2>2, FoundTyped, Words
<1> HIDE DEF f
<1>3. PlanTyped(Plan(<<>>, "NOT_EXIST"))
  BY NoWritesTyped DEF Errors
<1>4. f.item.type = DIR => PlanTyped([Plan(<<>>, "OK") EXCEPT !.cwd = f.item.blk])
  BY <1>2, MovesTo
<1> QED BY <1>1, <1>3, <1>4

\* tfs_read_file returns a status and writes nothing.
LEMMA ReadTyped ==
  ASSUME TypeInv, NEW n, NEW max_len, NEW plan \in read_file_plans(n, max_len)
  PROVE  PlanTyped(plan)
<1>1. \A it, wanted, stored : ReadStatus(it, wanted, stored) \subseteq Errors
  BY DEF ReadStatus, Errors
<1>2. \E err \in Errors : plan = Plan(<<>>, err)
  BY <1>1 DEF read_file_plans, Errors
<1> QED BY <1>2, NoWritesTyped

\* An item is stored in a directory block.
LEMMA PutItemTyped ==
  ASSUME NEW s, s.blk \in Blocks, s.idx \in 1 .. DirItems, s.dir \in DirBlks, NEW it \in Item
  PROVE  PutItem(s, it) \in Writes
<1>1. [s.dir EXCEPT !.items[s.idx] = it] \in Contents
  BY PutItemIs DEF Contents
<1> QED BY <1>1, PutIsWrite DEF PutItem

\* The blocks that are allocated after some writes.
LEMMA NewBlocksTyped ==
  ASSUME TypeInv, NEW ws \in Seq(Writes), NEW k \in Nat
  PROVE  LET bs == FreeBlocks(After(ws).ram, k) IN
         /\ bs \in Seq(Blocks) /\ (bs # <<>> => bs[1] \in Blocks)
<1> DEFINE ram == After(ws).ram
           bs == FreeBlocks(ram, k)
<1>1. 0 \in ram
  BY AfterIs, RunTyped DEF TypeInv, Typed
<1> HIDE DEF ram
<1>2. bs \in Seq(Blocks)
  BY <1>1, FreeBlocksFacts
<1> HIDE DEF bs
<1>3. bs # <<>> => bs[1] \in Blocks
  BY <1>2
<1> QED BY <1>2, <1>3 DEF bs, ram

\* The writes of tfs_create_dir.
LEMMA CreateDirTyped ==
  ASSUME TypeInv, CwdOk, NEW n \in GivenNames
  PROVE  PlanTyped(create_dir_plan(n))
<1> DEFINE s == find_slot(n)
           new == FreeBlocks(After(s.writes).ram, 1)
           z == new[1]
           it == [type |-> DIR, name |-> n, blk |-> z, size |-> 0]
           p == create_dir_plan(n)
           free == s.dir.items[s.idx].type = FREE
           made == <<Alloc(z), PutItem(s, it), Put(z, NewDirBlk(s))>>
<1>1. SlotTyped(s)
  BY FindSlotTyped
<1>2. /\ s.err # "OK" => p = Plan(<<>>, s.err)
      /\ s.err = "OK" /\ ~free => p = Plan(<<>>, "FILE_EXIST")
      /\ s.err = "OK" /\ free /\ new = <<>> => p = Plan(s.writes, "DISK_FULL")
      /\ s.err = "OK" /\ free /\ new # <<>> => p = Plan(s.writes \o made, "OK")
  BY DEF create_dir_plan
<1> HIDE DEF s
<1>3. s.writes \in Seq(Writes) /\ s.err \in {"OK", "DISK_FULL"}
  BY <1>1 DEF SlotTyped
<1>4. s.err \in Errors /\ "FILE_EXIST" \in Errors /\ "DISK_FULL" \in Errors /\ "OK" \in Errors
  BY <1>3, ErrorWords
<1>5. new # <<>> => z \in Blocks
  BY <1>3, NewBlocksTyped
<1> HIDE DEF new, z
<1>6. s.err = "OK" /\ new # <<>> => made \in Seq(Writes)
  <2> SUFFICES ASSUME s.err = "OK", new # <<>> PROVE made \in Seq(Writes)
    OBVIOUS
  <2>1. s.blk \in Blocks /\ s.idx \in 1 .. DirItems /\ s.dir \in DirBlks /\ z \in Blocks
    BY <1>1, <1>5 DEF SlotTyped
  <2>2. it \in Item
    BY <2>1, Sizes, Words DEF Item
  <2> HIDE DEF it
  <2>3. NewDirBlk(s) \in Contents
    <3>1. NoItems \in [1 .. DirItems -> Item] /\ current_dir_blk \in Ptrs
      BY FreeItemType, Sizes DEF NoItems, TypeInv
    <3> HIDE DEF NoItems
    <3> QED BY <3>1, Sizes DEF NewDirBlk, DirBlk, DirBlks, Contents
  <2>4. Alloc(z) \in Writes /\ PutItem(s, it) \in Writes /\ Put(z, NewDirBlk(s)) \in Writes
    BY <2>1, <2>2, <2>3, OtherWrites, PutIsWrite, PutItemTyped
  <2> QED BY <2>4
<1> HIDE DEF made, free, p
<1>7. CASE s.err = "OK" /\ free /\ new # <<>>
  <2>1. s.writes \o made \in Seq(Writes)
    BY <1>3, <1>6, <1>7
  <2> QED BY <2>1, <1>2, <1>4, <1>7, PlanIs DEF p
<1>8. CASE ~(s.err = "OK" /\ free /\ new # <<>>)
  BY <1>2, <1>3, <1>4, <1>8, PlanIs, NoWritesTyped DEF p
<1> QED BY <1>7, <1>8

\* The writes of a new file, and what is written when one fails.
LEMMA DataWritesTyped ==
  ASSUME NEW bs \in Seq(Blocks), NEW v \in Payloads
  PROVE  DataWrites(bs, v) \in Seq(Writes)
<1> DEFINE n == Len(bs)
           prev(i) == IF i = 1 THEN 0 ELSE bs[i - 1]
           next(i) == IF i = n THEN 0 ELSE bs[i + 1]
           Chunk(i, to) == Put(bs[i], DataBlk(prev(i), to, <<v, i>>))
           E(k) == LET i == (k + 1) \div 2 IN
                   IF k % 2 = 1 /\ i # n THEN [Alloc(next(i)) EXCEPT !.alt = <<Chunk(i, 0)>>]
                   ELSE Chunk(i, next(i))
<1>1. DataWrites(bs, v) = [k \in 1 .. 2 * n - 1 |-> E(k)]
  BY DEF DataWrites
<1>2. n \in Nat /\ \A i \in 1 .. n : bs[i] \in Blocks
  OBVIOUS
<1> HIDE DEF n
<1>3. ASSUME NEW i \in 1 .. n
      PROVE  /\ prev(i) \in Ptrs /\ next(i) \in Ptrs /\ (i # n => next(i) \in Blocks)
  <2>1. i # 1 => i - 1 \in 1 .. n
    BY <1>2
  <2>2. i # n => i + 1 \in 1 .. n
    BY <1>2
  <2> QED BY <2>1, <2>2, <1>2, Sizes
<1> HIDE DEF prev, next
<1>4. ASSUME NEW i \in 1 .. n, NEW to \in Ptrs
      PROVE  Chunk(i, to) \in Plain /\ Chunk(i, to) \in Writes
  <2>1. DataBlk(prev(i), to, <<v, i>>) \in Contents
    <3>1. <<v, i>> \in Payloads \X Nat /\ prev(i) \in Ptrs
      BY <1>2, <1>3
    <3> QED BY <3>1 DEF DataBlk, DataBlks, Contents
  <2>2. bs[i] \in Blocks
    BY <1>2
  <2> QED BY <2>1, <2>2, PutIsWrite
<1> HIDE DEF Chunk
<1>5. ASSUME NEW k \in 1 .. 2 * n - 1 PROVE E(k) \in Writes
  <2> DEFINE i == (k + 1) \div 2
  <2>1. i \in 1 .. n
    BY <1>2
  <2> HIDE DEF i
  <2>2. Chunk(i, next(i)) \in Writes
    BY <2>1, <1>3, <1>4
  <2>3. i # n => [Alloc(next(i)) EXCEPT !.alt = <<Chunk(i, 0)>>] \in Writes
    <3> SUFFICES ASSUME i # n PROVE [Alloc(next(i)) EXCEPT !.alt = <<Chunk(i, 0)>>] \in Writes
      OBVIOUS
    <3>1. next(i) \in Blocks /\ Chunk(i, 0) \in Plain
      BY <2>1, <1>3, <1>4, Sizes
    <3>2. <<Chunk(i, 0)>> \in Seq(Plain)
      BY <3>1
    <3> DEFINE alt == <<Chunk(i, 0)>>
    <3> HIDE DEF alt
    <3>3. [Alloc(next(i)) EXCEPT !.alt = alt] = [op |-> "alloc", blk |-> next(i), val |-> Junk, alt |-> alt]
      BY DEF Alloc
    <3>4. [op |-> "alloc", blk |-> next(i), val |-> Junk, alt |-> alt] \in Writes
      BY <3>1, <3>2 DEF Writes, alt
    <3> QED BY <3>3, <3>4 DEF alt
  <2> QED BY <2>2, <2>3 DEF i
<1> HIDE DEF E
<1>6. CASE n = 0
  <2>1. DataWrites(bs, v) = <<>>
    <3>1. 1 .. 2 * n - 1 = {}
      BY <1>6
    <3> QED BY <3>1, <1>1
  <2> QED BY <2>1, EmptySeq
<1>7. CASE n # 0
  <2>1. 2 * n - 1 \in Nat
    BY <1>7, <1>2
  <2> DEFINE m == 2 * n - 1
  <2> HIDE DEF m
  <2>2. [k \in 1 .. m |-> E(k)] \in Seq(Writes)
    BY <2>1, <1>5, IsASeq DEF m
  <2> QED BY <2>2, <1>1 DEF m
<1> QED BY <1>6, <1>7

\* The writes of tfs_write_file.
LEMMA WriteFileTyped ==
  ASSUME TypeInv, CwdOk, NEW n \in GivenNames, NEW v \in Payloads, NEW len \in Lens,
         NEW overwrite \in BOOLEAN
  PROVE  PlanTyped(write_file_plan(n, v, len, overwrite))
<1> DEFINE s     == find_slot(n)
           old   == s.dir.items[s.idx]
           freed == IF old.type = FILE THEN free_file_blocks(old.blk) ELSE <<>>
           bs    == FreeBlocks(After(s.writes \o freed).ram, NChunks(len))
           it    == [type |-> FILE, name |-> n, size |-> len, blk |-> IF len = 0 THEN 0 ELSE bs[1]]
           base  == s.writes \o freed
           first == IF len = 0 THEN <<>> ELSE <<Alloc(bs[1])>>
           err   == IF Len(bs) = NChunks(len) THEN "OK" ELSE "DISK_FULL"
           p     == write_file_plan(n, v, len, overwrite)
<1>1. SlotTyped(s)
  BY FindSlotTyped
<1>2. \/ s.err # "OK" /\ p = Plan(<<>>, s.err)
      \/ p = Plan(<<>>, "FILE_EXIST")
      \/ s.err = "OK" /\ p = Plan(base, "DISK_FULL")
      \/ /\ s.err = "OK" /\ ~(len # 0 /\ bs = <<>>)
         /\ p = Plan(base \o first \o <<PutItem(s, it)>> \o DataWrites(bs, v), err)
  BY DEF write_file_plan
<1> HIDE DEF s, p
<1>3. s.writes \in Seq(Writes) /\ s.err \in {"OK", "DISK_FULL"}
  BY <1>1 DEF SlotTyped
<1>4. s.err \in Errors /\ "FILE_EXIST" \in Errors /\ "DISK_FULL" \in Errors /\ err \in Errors
  BY <1>3, ErrorWords
<1> HIDE DEF err
<1>5. CASE s.err = "OK"
  <2>1. s.blk \in Blocks /\ s.idx \in 1 .. DirItems /\ s.dir \in DirBlks
    BY <1>1, <1>5 DEF SlotTyped
  <2>2. old \in Item
    BY <2>1 DEF DirBlks
  <2> HIDE DEF old
  <2>3. freed \in Seq(Writes)
    <3>1. old.blk \in Ptrs /\ disk \in Disks
      BY <2>2 DEF Item, CwdOk
    <3> QED BY <3>1, FreesTyped, EmptySeq
  <2> HIDE DEF freed
  <2>4. base \in Seq(Writes)
    BY <2>3, <1>3
  <2>5. len \in Nat /\ NChunks(len) \in Nat
    BY Sizes, ChunksOf
  <2>6. bs \in Seq(Blocks) /\ (bs # <<>> => bs[1] \in Blocks)
    <3> HIDE DEF base
    <3>1. bs = FreeBlocks(After(base).ram, NChunks(len))
      BY DEF base
    <3> QED BY <3>1, <2>4, <2>5, NewBlocksTyped
  <2> HIDE DEF bs, base
  <2>7. CASE ~(len # 0 /\ bs = <<>>)
    <3>1. it \in Item
      <4>1. len # 0 => bs[1] \in Ptrs
        BY <2>6, <2>7, Sizes
      <4> QED BY <4>1, <2>5, Sizes, Words DEF Item
    <3> HIDE DEF it
    <3>2. first \in Seq(Writes)
      <4>1. len # 0 => Alloc(bs[1]) \in Writes
        BY <2>6, <2>7, OtherWrites
      <4> QED BY <4>1, EmptySeq
    <3>3. PutItem(s, it) \in Writes
      BY <2>1, <3>1, PutItemTyped
    <3>4. <<PutItem(s, it)>> \in Seq(Writes)
      BY <3>3
    <3>5. DataWrites(bs, v) \in Seq(Writes)
      BY <2>6, DataWritesTyped
    <3> DEFINE put == <<PutItem(s, it)>>
               data == DataWrites(bs, v)
    <3> HIDE DEF first, put, data
    <3>6. base \o first \o put \o data \in Seq(Writes)
      <4>1. base \o first \in Seq(Writes) /\ put \in Seq(Writes) /\ data \in Seq(Writes)
        BY <2>4, <3>2, <3>4, <3>5 DEF put, data
      <4>2. base \o first \o put \in Seq(Writes)
        BY <4>1
      <4> QED BY <4>1, <4>2
    <3>7. PlanTyped(Plan(base \o first \o put \o data, err))
      BY <3>6, <1>4, PlanIs
    <3>8. PlanTyped(Plan(base, "DISK_FULL")) /\ PlanTyped(Plan(<<>>, "FILE_EXIST"))
      BY <2>4, <1>4, PlanIs, NoWritesTyped
    <3> QED BY <3>7, <3>8, <1>2, <1>5 DEF put, data, p
  <2>8. CASE len # 0 /\ bs = <<>>
    <3>1. PlanTyped(Plan(base, "DISK_FULL")) /\ PlanTyped(Plan(<<>>, "FILE_EXIST"))
      BY <2>4, <1>4, PlanIs, NoWritesTyped
    <3> QED BY <3>1, <2>8, <1>2, <1>5 DEF p
  <2> QED BY <2>7, <2>8
<1>6. CASE s.err # "OK"
  <2>1. PlanTyped(Plan(<<>>, s.err)) /\ PlanTyped(Plan(<<>>, "FILE_EXIST"))
    BY <1>4, NoWritesTyped
  <2> QED BY <2>1, <1>2, <1>6 DEF p
<1> QED BY <1>5, <1>6

\* The writes of tfs_delete.
LEMMA DeleteTyped ==
  ASSUME TypeInv, CwdOk, NEW n, NEW types, types \subseteq {DIR, FILE}
  PROVE  PlanTyped(delete_plan(n, types))
<1> DEFINE f    == find_item(n)
           rest == [disk[f.blk] EXCEPT !.items[f.idx] = FreeItem]
           p    == delete_plan(n, types)
           out  == write_dir_cleanup(f.blk, rest)
<1>1. \/ p = Plan(<<>>, "NOT_EXIST")
      \/ p = Plan(<<>>, "NOT_EMPTY")
      \/ f.item.type \in types /\ f.item.type = FILE /\ p = Plan(out \o free_file_blocks(f.item.blk), "OK")
      \/ f.item.type \in types /\ f.item.type # FILE /\ p = Plan(out \o <<Free(f.item.blk)>>, "OK")
  BY DEF delete_plan
<1>2. f.item.type \in types =>
        /\ InCwd(f.blk, f.idx) /\ f.item.blk \in Ptrs
        /\ f.item.type # FILE => f.item.blk \in Blocks
  <2>1. f = find_item(n)
    OBVIOUS
  <2> HIDE DEF f
  <2> QED BY <2>1, FoundTyped
<1> HIDE DEF f, p
<1>3. f.item.type \in types => out \in Seq(Writes)
  BY <1>2, CleanupTyped, FreeItemType
<1> HIDE DEF out
<1>4. f.item.type \in types /\ f.item.type = FILE => out \o free_file_blocks(f.item.blk) \in Seq(Writes)
  <2> SUFFICES ASSUME f.item.type \in types PROVE out \o free_file_blocks(f.item.blk) \in Seq(Writes)
    OBVIOUS
  <2>1. free_file_blocks(f.item.blk) \in Seq(Writes)
    BY <1>2, FreesTyped DEF CwdOk
  <2> QED BY <2>1, <1>3
<1>5. f.item.type \in types /\ f.item.type # FILE => out \o <<Free(f.item.blk)>> \in Seq(Writes)
  <2> SUFFICES ASSUME f.item.type \in types, f.item.type # FILE
               PROVE out \o <<Free(f.item.blk)>> \in Seq(Writes)
    OBVIOUS
  <2>1. Free(f.item.blk) \in Writes
    BY <1>2, OtherWrites
  <2>2. <<Free(f.item.blk)>> \in Seq(Writes)
    BY <2>1
  <2> QED BY <2>2, <1>3
<1> DEFINE w1 == out \o free_file_blocks(f.item.blk)
           w2 == out \o <<Free(f.item.blk)>>
<1> HIDE DEF w1, w2
<1>6. PlanTyped(Plan(<<>>, "NOT_EXIST")) /\ PlanTyped(Plan(<<>>, "NOT_EMPTY"))
  BY NoWritesTyped, ErrorWords
<1>7. /\ f.item.type \in types /\ f.item.type = FILE => PlanTyped(Plan(w1, "OK"))
      /\ f.item.type \in types /\ f.item.type # FILE => PlanTyped(Plan(w2, "OK"))
  BY <1>4, <1>5, PlanIs, ErrorWords DEF w1, w2
<1> QED BY <1>1, <1>6, <1>7 DEF p, w1, w2

\* The write of tfs_rename.
LEMMA RenameTyped ==
  ASSUME TypeInv, CwdOk, NEW from, NEW to \in GivenNames
  PROVE  PlanTyped(rename_plan(from, to))
<1> DEFINE f == find_item(from)
           c == [disk[f.blk] EXCEPT !.items[f.idx].name = to]
           p == rename_plan(from, to)
<1>1. \/ \E err \in {"FILE_EXIST", "NO_NAME", "NOT_EXIST"} : p = Plan(<<>>, err)
      \/ f.item.type # FREE /\ p = Plan(<<Put(f.blk, c)>>, "OK")
  BY DEF rename_plan
<1>2. Found(f)
  BY FindItemIs
<1> HIDE DEF f, p
<1>3. f.item.type # FREE => <<Put(f.blk, c)>> \in Seq(Writes)
  <2> SUFFICES ASSUME f.item.type # FREE PROVE <<Put(f.blk, c)>> \in Seq(Writes)
    OBVIOUS
  <2>1. InCwd(f.blk, f.idx)
    BY <1>2 DEF Found
  <2>2. f.blk \in Blocks /\ f.idx \in 1 .. DirItems /\ disk[f.blk] \in DirBlks
    BY <2>1, InCwdIs
  <2>3. disk[f.blk].items[f.idx] \in Item
    BY <2>2 DEF DirBlks
  <2> DEFINE x == disk[f.blk]
             it == [x.items[f.idx] EXCEPT !.name = to]
  <2>4. it \in Item
    BY <2>3 DEF Item
  <2>5. c = [x EXCEPT !.items[f.idx] = it]
    OBVIOUS
  <2> HIDE DEF it, c
  <2>6. c \in Contents
    BY <2>2, <2>4, <2>5, PutItemIs DEF Contents
  <2>7. Put(f.blk, c) \in Writes
    BY <2>2, <2>6, PutIsWrite
  <2> QED BY <2>7
<1> HIDE DEF c
<1>4. \A err \in {"FILE_EXIST", "NO_NAME", "NOT_EXIST"} : PlanTyped(Plan(<<>>, err))
  BY NoWritesTyped, ErrorWords
<1>5. f.item.type # FREE => PlanTyped(Plan(<<Put(f.blk, c)>>, "OK"))
  BY <1>3, PlanIs, ErrorWords
<1> QED BY <1>1, <1>4, <1>5 DEF p

\* The types hold at the beginning.
LEMMA TypeInit == Init => TypeInv
<1> SUFFICES ASSUME Init PROVE TypeInv
  OBVIOUS
<1>1. disk = NewDrive /\ map = {0, TFS_ROOT_DIR_BLK} /\ bitmap_blk = map
      /\ current_dir_blk = TFS_ROOT_DIR_BLK /\ tfs_last_error = "OK" /\ faults = 0
  BY DEF Init, NewDrive
<1>2. Typed(Now)
  BY <1>1, NewDriveTidy, Sizes DEF Typed, Now
<1> QED BY <1>1, <1>2, Sizes DEF TypeInv, Errors

\* A call on a drive that can be operated keeps them.
LEMMA CallTyped ==
  ASSUME TypeInv, CwdOk, Call
  PROVE  TypeInv'
<1>1. CASE tfs_read_dir
  <2>1. \A plan \in {read_dir_plan} : PlanTyped(plan)
    BY NoWritesTyped, ErrorWords DEF read_dir_plan
  <2> QED BY <1>1, <2>1, PerformTyped DEF tfs_read_dir
<1>2. CASE tfs_change_dir_root
  BY <1>2, Sizes DEF tfs_change_dir_root, TypeInv, Typed, Now, Disks, Contents, DirBlks, DataBlks,
                     Junk, Item, Ptrs, GivenNames, Blocks, Errors
<1>3. CASE tfs_change_dir_parent
  <2>1. \A plan \in {change_dir_parent_plan} : PlanTyped(plan)
    BY ParentTyped
  <2> QED BY <1>3, <2>1, PerformTyped DEF tfs_change_dir_parent
<1>4. ASSUME NEW n \in GivenNames, tfs_change_dir(n) PROVE TypeInv'
  <2>1. PlanTyped(NamePlan(n, change_dir_plan(n)))
    BY ChangeDirTyped, NamePlanTyped
  <2>2. \A plan \in {NamePlan(n, change_dir_plan(n))} : PlanTyped(plan)
    BY <2>1
  <2> QED BY <1>4, <2>2, PerformTyped DEF tfs_change_dir
<1>5. ASSUME NEW n \in GivenNames, tfs_create_dir(n) PROVE TypeInv'
  <2>1. PlanTyped(NamePlan(n, create_dir_plan(n)))
    BY CreateDirTyped, NamePlanTyped
  <2>2. \A plan \in {NamePlan(n, create_dir_plan(n))} : PlanTyped(plan)
    BY <2>1
  <2> QED BY <1>5, <2>2, PerformTyped DEF tfs_create_dir
<1>6. ASSUME NEW n \in GivenNames, NEW v \in Payloads, NEW len \in Lens, NEW ow \in BOOLEAN,
             tfs_write_file(n, v, len, ow)
      PROVE  TypeInv'
  <2>1. PlanTyped(NamePlan(n, write_file_plan(n, v, len, ow)))
    BY WriteFileTyped, NamePlanTyped
  <2>2. \A plan \in {NamePlan(n, write_file_plan(n, v, len, ow))} : PlanTyped(plan)
    BY <2>1
  <2> QED BY <1>6, <2>2, PerformTyped DEF tfs_write_file
<1>7. ASSUME NEW n \in GivenNames, NEW max_len \in Lens, tfs_read_file(n, max_len) PROVE TypeInv'
  <2>1. \A plan \in read_file_plans(n, max_len) : PlanTyped(NamePlan(n, plan))
    BY ReadTyped, NamePlanTyped
  <2>2. \A plan \in {NamePlan(n, q) : q \in read_file_plans(n, max_len)} : PlanTyped(plan)
    BY <2>1
  <2> QED BY <1>7, <2>2, PerformTyped DEF tfs_read_file
<1>8. ASSUME NEW n \in GivenNames, NEW types, types \subseteq {DIR, FILE}, tfs_delete(n, types)
      PROVE  TypeInv'
  <2>1. PlanTyped(NamePlan(n, delete_plan(n, types)))
    BY <1>8, DeleteTyped, NamePlanTyped
  <2>2. \A plan \in {NamePlan(n, delete_plan(n, types))} : PlanTyped(plan)
    BY <2>1
  <2> QED BY <1>8, <2>2, PerformTyped DEF tfs_delete
<1>9. ASSUME NEW n \in GivenNames, NEW to \in GivenNames, tfs_rename(n, to) PROVE TypeInv'
  <2>1. PlanTyped(NamePlan(to, rename_plan(n, to)))
    BY RenameTyped, NamePlanTyped
  <2>2. \A plan \in {NamePlan(to, rename_plan(n, to))} : PlanTyped(plan)
    BY <2>1
  <2> QED BY <1>9, <2>2, PerformTyped DEF tfs_rename
<1>10. \A types \in {{DIR}, {FILE}, {DIR, FILE}} : types \subseteq {DIR, FILE}
  OBVIOUS
<1> QED BY <1>1, <1>2, <1>3, <1>4, <1>5, <1>6, <1>7, <1>8, <1>9, <1>10 DEF Call

\* Every step keeps them.
LEMMA TypeNext == TypeInv /\ [Next]_vars => TypeInv'
<1> SUFFICES ASSUME TypeInv, [Next]_vars PROVE TypeInv'
  OBVIOUS
<1>1. CASE UNCHANGED vars
  BY <1>1 DEF vars, TypeInv, Typed, Now, Disks, Contents, DirBlks, DataBlks,
              Junk, Item, Ptrs, GivenNames, Blocks, Errors
<1>2. CASE tfs_init
  <2> DEFINE t == [disk |-> disk, ram |-> map, map |-> map]
  <2>1. Typed(t) /\ disk' = t.disk /\ bitmap_blk' = t.ram /\ map' = t.map
    BY <1>2 DEF tfs_init, TypeInv, Typed, Now
  <2> HIDE DEF t
  <2>2. Typed(Now)'
    BY <2>1, NowTyped
  <2>3. current_dir_blk' \in Blocks' /\ tfs_last_error' \in Errors /\ faults' = faults
    BY <1>2, Sizes DEF tfs_init, Errors, Blocks
  <2> QED BY <2>2, <2>3 DEF TypeInv, Errors
<1>3. CASE tfs_format
  <2>1. \A plan \in {format_plan} : PlanTyped(plan)
    BY FormatTyped
  <2> QED BY <1>3, <2>1, PerformTyped DEF tfs_format
<1>4. CASE Operable /\ Call
  BY <1>4, OperableCwd, CallTyped
<1> QED BY <1>1, <1>2, <1>3, <1>4 DEF Next

\* They are at least what TypeOK says.
LEMMA TypeInvMeans ==
  ASSUME TypeInv
  PROVE  TypeOK
<1>1. disk \in Disks /\ map \subseteq Ptrs /\ bitmap_blk \subseteq Ptrs
  BY DEF TypeInv, Typed, Now
<1>2. \A b \in Blocks : disk[b].kind \in {"dir", "data", "junk"}
  BY <1>1, Kinds DEF Disks
<1> QED BY <1>1, <1>2 DEF TypeInv, TypeOK, Ptrs, Disks, Errors

\* Whatever calls are cut short wherever, every block of the drive holds a directory block, a
\* data block or nothing known, with pointers to blocks of the drive, block 0 stays marked, and
\* current_dir_blk is a block of the drive.
THEOREM TypeAlways == Spec => []TypeInv
<1> QED BY TypeInit, TypeNext, PTL DEF Spec

\* Every variable keeps its type, and as long as no call is cut short no block is in two chains,
\* every block is of the kind its entry says, prev points to the block before and parent to
\* the directory above, whatever tfs_create_dir, tfs_write_file, tfs_delete and
\* write_dir_cleanup add, remove and move.
THEOREM StructureSoundAlways == Spec => []StructureSound
<1>1. NeatInv /\ TypeInv => StructureSound
  BY NeatMeans, TypeInvMeans DEF StructureSound
<1> QED BY <1>1, NeatAlways, TypeAlways, PTL
=============================================================================
