-------------------------- MODULE BlockAllocProofs --------------------------
(***************************************************************************)
(* Proofs about the block allocator, for drives and bitmap blocks of every *)
(* size and any number of failed transfers and power losses; then, while   *)
(* no transfer fails: no block is lost, a refusal means a full drive, the  *)
(* count is exact, and every step is one that module Allocator allows.     *)
(***************************************************************************)
EXTENDS BlockAlloc, FiniteSetTheorems, WellFoundedInduction, TLAPS

-----------------------------------------------------------------------------
(* Arithmetic of bitmap blocks.                                            *)

\* TFS_BITMAP_BLK_COUNT is a number greater than one.
LEMMA NPositive == N \in Nat /\ N >= 2
  BY SizeAssumption DEF N

\* Division with remainder by the number of blocks a bitmap block describes.
LEMMA DivMod ==
  \A x \in Nat : /\ x = N * (x \div N) + (x % N)
                 /\ x \div N \in Nat
                 /\ x % N \in 0 .. N - 1
  BY NPositive

\* The remainder of a multiple and an offset is the offset.
LEMMA MulMod == \A k \in Nat : \A o \in 0 .. N - 1 : (N * k + o) % N = o
  BY NPositive

\* Different multiples are at least one bitmap block apart.
LEMMA MulLess == \A j, k \in Nat : N * j < N * k => N * j + N <= N * k
  BY NPositive

\* GET_BITMAP_BLK rounds down to a multiple, by less than a bitmap block.
LEMMA GetBitmap ==
  ASSUME NEW x \in Nat
  PROVE  /\ GET_BITMAP_BLK(x) \in Nat
         /\ GET_BITMAP_BLK(x) % N = 0
         /\ x % N \in 0 .. N - 1
         /\ x = GET_BITMAP_BLK(x) + (x % N)
<1>1. x % N \in 0 .. N - 1
  BY DivMod
<1>2. GET_BITMAP_BLK(x) = N * (x \div N)
  BY DivMod, NPositive DEF GET_BITMAP_BLK
<1>3. N * (x \div N) \in Nat
  BY DivMod, NPositive
<1>4. (N * (x \div N)) % N = 0
  <2>1. (N * (x \div N) + 0) % N = 0
    BY DivMod, MulMod, NPositive
  <2> QED BY <2>1, <1>3
<1>5. x = GET_BITMAP_BLK(x) + (x % N)
  BY <1>1, NPositive DEF GET_BITMAP_BLK
<1> QED BY <1>1, <1>2, <1>3, <1>4, <1>5

\* A block is described by the bitmap block it lies behind.
LEMMA AlignedOffset ==
  ASSUME NEW p \in Nat, p % N = 0, NEW o \in 0 .. N - 1
  PROVE  (p + o) % N = o /\ GET_BITMAP_BLK(p + o) = p
<1>1. p = N * (p \div N) /\ p \div N \in Nat
  BY DivMod, NPositive
<1>2. (p + o) % N = o
  BY <1>1, MulMod
<1> QED BY <1>2, NPositive DEF GET_BITMAP_BLK

\* The bitmap block after p is N blocks further.
LEMMA AlignedStep ==
  ASSUME NEW p \in Nat, NEW q \in Nat, p % N = 0, q % N = 0, p < q
  PROVE  p + N <= q /\ (p + N) % N = 0
<1>1. p = N * (p \div N) /\ q = N * (q \div N) /\ p \div N \in Nat /\ q \div N \in Nat
  BY DivMod, NPositive
<1>2. p + N <= q
  BY <1>1, MulLess
<1>3. (p + N) % N = 0
  <2>1. p + N = N * ((p \div N) + 1) + 0 /\ (p \div N) + 1 \in Nat
    BY <1>1, NPositive
  <2>2. (N * ((p \div N) + 1) + 0) % N = 0
    BY <2>1, MulMod, NPositive
  <2> QED BY <2>1, <2>2
<1> QED BY <1>2, <1>3

\* The last bitmap block describes the last block of the drive.
LEMMA LastBitmap ==
  /\ last_bitmap_blk \in Nat
  /\ last_bitmap_blk % N = 0
  /\ last_bitmap_blk < BlkCount
  /\ last_bitmap_len \in 1 .. N
  /\ last_bitmap_blk + last_bitmap_len = BlkCount
<1>1. BlkCount - 1 \in Nat
  BY BlkCountAssumption
<1> DEFINE b == BlkCount - 1
<1>2. /\ GET_BITMAP_BLK(b) \in Nat /\ GET_BITMAP_BLK(b) % N = 0
      /\ b % N \in 0 .. N - 1 /\ b = GET_BITMAP_BLK(b) + (b % N)
  BY <1>1, GetBitmap
<1>3. last_bitmap_blk = GET_BITMAP_BLK(b) /\ last_bitmap_len = (b % N) + 1
  BY DEF last_bitmap_blk, last_bitmap_len
<1>4. b = BlkCount - 1 /\ BlkCount \in Nat
  BY BlkCountAssumption
<1> HIDE DEF b
<1> QED BY <1>1, <1>2, <1>3, <1>4, NPositive

\* The bitmap blocks are the multiples of N up to the last one.
LEMMA BitmapBlkFacts ==
  /\ 0 \in BitmapBlks
  /\ last_bitmap_blk \in BitmapBlks
  /\ 1 \notin BitmapBlks
  /\ \A p \in BitmapBlks : /\ p \in Nat /\ p % N = 0
                           /\ p <= last_bitmap_blk /\ p < BlkCount
                           /\ p # last_bitmap_blk => p + N \in BitmapBlks
                           /\ \A q \in BitmapBlks : q < p => q + N <= p
<1>1. 0 % N = 0 /\ 1 % N = 1
  <2>1. 0 = N * 0 /\ (N * 0 + 1) % N = 1 /\ (N * 0 + 0) % N = 0
    BY MulMod, NPositive
  <2> QED BY <2>1, NPositive
<1>2. 0 \in BitmapBlks /\ 1 \notin BitmapBlks /\ last_bitmap_blk \in BitmapBlks
  BY <1>1, LastBitmap DEF BitmapBlks
<1>3. ASSUME NEW p \in BitmapBlks
      PROVE  p \in Nat /\ p % N = 0 /\ p <= last_bitmap_blk /\ p < BlkCount
  BY LastBitmap, BlkCountAssumption DEF BitmapBlks
<1>4. ASSUME NEW p \in BitmapBlks, NEW q \in BitmapBlks, q < p
      PROVE  q + N <= p
  BY <1>3, <1>4, AlignedStep
<1>5. ASSUME NEW p \in BitmapBlks, p # last_bitmap_blk
      PROVE  p + N \in BitmapBlks
  <2>1. p \in Nat /\ p % N = 0 /\ p < last_bitmap_blk
    BY <1>3, <1>5, LastBitmap
  <2>2. p + N <= last_bitmap_blk /\ (p + N) % N = 0
    BY <2>1, AlignedStep, LastBitmap
  <2> QED BY <2>1, <2>2, NPositive, LastBitmap DEF BitmapBlks
<1> QED BY <1>2, <1>3, <1>4, <1>5

\* The first clear bit exists when there is a clear bit.
LEMMA MinFacts ==
  ASSUME NEW S \in SUBSET Nat, S # {}
  PROVE  Min(S) \in S /\ \A y \in S : Min(S) <= y
<1>1. \E x \in S : \A y \in S : ~(<<y, x>> \in OpToRel(<, Nat))
  BY NatLessThanWellFounded, WFMin
<1>2. \A x, y \in S : ~(<<y, x>> \in OpToRel(<, Nat)) => x <= y
  <2> SUFFICES ASSUME NEW x \in S, NEW y \in S, ~(x <= y)
               PROVE  <<y, x>> \in OpToRel(<, Nat)
    OBVIOUS
  <2>1. y < x /\ x \in Nat /\ y \in Nat
    OBVIOUS
  <2> QED BY <2>1 DEF OpToRel
<1>3. \E x \in S : \A y \in S : x <= y
  BY <1>1, <1>2
<1> QED BY <1>3 DEF Min

-----------------------------------------------------------------------------
(* Transfers.                                                              *)

AllBits == 0 .. (last_bitmap_blk + N - 1)

\* What a bitmap block in RAM must hold to cover the blocks of a set.
Covers(p, img, S) == \A b \in S : GET_BITMAP_BLK(b) = p => b % N \in img

\* Storing an image that covers S keeps every block of S marked.
LEMMA StoredKeeps ==
  ASSUME NEW p \in BitmapBlks, NEW img \in SUBSET (0 .. N - 1),
         map \subseteq AllBits, NEW S, S \subseteq map, Covers(p, img, S)
  PROVE  Stored(p, img) \subseteq AllBits /\ S \subseteq Stored(p, img)
<1>1. p \in Nat /\ p % N = 0 /\ p <= last_bitmap_blk
  BY BitmapBlkFacts
<1>2. Stored(p, img) \subseteq AllBits
  <2>1. ASSUME NEW o \in 0 .. N - 1 PROVE p + o \in AllBits
    BY <1>1, NPositive, LastBitmap DEF AllBits
  <2> QED BY <2>1 DEF Stored
<1>3. ASSUME NEW b \in S PROVE b \in Stored(p, img)
  <2>1. CASE b \notin p .. p + N - 1
    BY <2>1, <1>3 DEF Stored
  <2>2. CASE b \in p .. p + N - 1
    <3>1. b - p \in 0 .. N - 1 /\ b = p + (b - p)
      BY <2>2, <1>1, NPositive
    <3>2. b % N = b - p /\ GET_BITMAP_BLK(b) = p
      <4>1. (p + (b - p)) % N = b - p /\ GET_BITMAP_BLK(p + (b - p)) = p
        BY <3>1, <1>1, AlignedOffset
      <4> QED BY <4>1, <3>1
    <3>3. b - p \in img
      BY <3>2, <1>3 DEF Covers
    <3> QED BY <3>1, <3>3 DEF Stored
  <2> QED BY <2>1, <2>2
<1> QED BY <1>2, <1>3

\* drive_write_bitmap, whether the write succeeds or fails.
LEMMA WriteKeeps ==
  ASSUME NEW p \in BitmapBlks, NEW img \in SUBSET (0 .. N - 1),
         map \subseteq AllBits, NEW S, S \subseteq map, Covers(p, img, S),
         faults \in 0 .. MaxFaults,
         drive_write_bitmap(p, img)
  PROVE  /\ map' \subseteq AllBits /\ S \subseteq map'
         /\ faults' \in 0 .. MaxFaults
         /\ tfs_last_error' \in {tfs_last_error, "IO"}
         /\ map' \in {map, Stored(p, img)}
<1>1. Stored(p, img) \subseteq AllBits /\ S \subseteq Stored(p, img)
  BY StoredKeeps
<1>2. map' \in {map, Stored(p, img)}
  BY DEF drive_write_bitmap
<1>3. tfs_last_error' \in {tfs_last_error, "IO"} /\ faults' \in 0 .. MaxFaults
  BY FaultAssumption DEF drive_write_bitmap, Fault
<1> QED BY <1>1, <1>2, <1>3

\* A bitmap block read from the drive covers what is marked on the drive.
LEMMA ReadCovers ==
  ASSUME NEW p \in BitmapBlks, NEW S, S \subseteq map, map \subseteq AllBits
  PROVE  Covers(p, BitmapOn(p), S)
<1> SUFFICES ASSUME NEW b \in S, GET_BITMAP_BLK(b) = p PROVE b % N \in BitmapOn(p)
  BY DEF Covers
<1>1. b \in Nat /\ b \in map
  BY NPositive, LastBitmap DEF AllBits
<1>2. b = p + (b % N) /\ b % N \in 0 .. N - 1
  BY <1>1, GetBitmap
<1> QED BY <1>1, <1>2 DEF BitmapOn

\* load_bitmap, whether the read succeeds or fails.
LEMMA LoadFacts ==
  ASSUME NEW p \in BitmapBlks, map \subseteq AllBits, faults \in 0 .. MaxFaults,
         bitmap_blk \in SUBSET (0 .. N - 1), tfs_last_error = "OK",
         load_bitmap(p)
  PROVE  /\ map' = map
         /\ bitmap_blk' \in SUBSET (0 .. N - 1)
         /\ faults' \in 0 .. MaxFaults
         /\ \/ /\ tfs_last_error' = "OK" /\ loaded_bitmap_blk' = p
               /\ bitmap_blk' = BitmapOn(p)
            \/ tfs_last_error' = "IO" /\ loaded_bitmap_blk' = TFS_BITMAP_BLK_INVAL
<1>1. CASE Fault
  <2>1. faults' \in 0 .. MaxFaults /\ tfs_last_error' = "IO"
    BY <1>1, FaultAssumption DEF Fault
  <2> QED BY <2>1 DEF load_bitmap, BitmapOn
<1>2. CASE ~Fault
  BY <1>2 DEF load_bitmap, BitmapOn
<1> QED BY <1>1, <1>2

\* Bits in a bitmap block can be counted.
LEMMA CountType ==
  ASSUME NEW img \in SUBSET (0 .. N - 1) PROVE Cardinality(img) \in Nat
<1>1. IsFiniteSet(0 .. N - 1)
  BY FS_Interval, NPositive
<1>2. IsFiniteSet(img)
  BY <1>1, FS_Subset
<1> QED BY <1>2, FS_CardinalityType

-----------------------------------------------------------------------------
(* The inductive step, one lemma for each action that touches the drive or *)
(* the cached bitmap block.                                                *)

\* Held, spelled out for each phase.
LEMMA HeldIs ==
  /\ formatted => Held = owned \cup Reserved \cup PastEnd
  /\ (~formatted /\ pc \in {"formatload", "scan"}) => Held = BitmapBlks \cup PastEnd
  /\ (~formatted /\ pc = "formatroot") => Held = Reserved \cup PastEnd
  /\ (~formatted /\ pc \notin {"formatload", "scan", "formatroot"}) => Held = {}
  BY DEF Held

\* alloc_block takes the first clear bit: the block was not held, and it is
\* marked before it is handed out.
LEMMA AllocTakeStep ==
  ASSUME IInv, formatted \in BOOLEAN, alloc_take
  PROVE  IInv' /\ (ret' # ret => ret' \in (0 .. BlkCount - 1) \ (owned \cup BitmapBlks))
<1> DEFINE o == Min(FreeOffsets)
<1>1. /\ pc = "scan" /\ Found
      /\ bitmap_blk' = bitmap_blk \cup {o}
      /\ drive_write_bitmap(loaded_bitmap_blk, bitmap_blk')
      /\ UNCHANGED <<loaded_bitmap_blk, start, pos, used, formatted>>
      /\ aborted' = (aborted \/ (tfs_last_error' # "OK" /\ ~formatted))
  BY DEF alloc_take
<1>2. /\ TypeOK /\ pos = loaded_bitmap_blk /\ pos \in BitmapBlks /\ ~aborted
      /\ tfs_last_error = "OK"
  BY <1>1 DEF IInv, ScanPhase, RunPhase
<1>3. pos \in Nat /\ pos % N = 0 /\ pos < BlkCount /\ pos # TFS_BITMAP_BLK_INVAL
  BY <1>2, BitmapBlkFacts DEF TFS_BITMAP_BLK_INVAL
<1>4. /\ o \in 0 .. N - 1 /\ o \notin bitmap_blk
      /\ \A y \in FreeOffsets : o <= y
      /\ pos + o \in 0 .. BlkCount - 1
  <2>1. FreeOffsets \in SUBSET Nat /\ FreeOffsets # {} /\ pos + o < BlkCount
    BY <1>1, NPositive DEF FreeOffsets, Found
  <2>2. o \in FreeOffsets /\ \A y \in FreeOffsets : o <= y
    BY <2>1, MinFacts
  <2>3. o \in 0 .. N - 1 /\ o \notin bitmap_blk
    BY <2>2 DEF FreeOffsets
  <2> HIDE DEF o
  <2> QED BY <2>1, <2>2, <2>3, <1>3, NPositive, BlkCountAssumption
<1> HIDE DEF o
<1>5. (pos + o) % N = o /\ GET_BITMAP_BLK(pos + o) = pos
  BY <1>3, <1>4, AlignedOffset
<1>6. Covers(pos, bitmap_blk, Held) /\ Held \subseteq map
  BY <1>1, <1>2, <1>3 DEF IInv, Cached, Covers, Marked
<1>7. pos + o \notin Held
  BY <1>4, <1>5, <1>6 DEF Covers
<1>8. bitmap_blk' \in SUBSET (0 .. N - 1) /\ map \subseteq AllBits /\ faults \in 0 .. MaxFaults
  BY <1>1, <1>2, <1>4 DEF TypeOK, AllBits
<1>9. Covers(pos, bitmap_blk', Held)
  BY <1>1, <1>6 DEF Covers
<1>10. /\ map' \subseteq AllBits /\ Held \subseteq map'
       /\ faults' \in 0 .. MaxFaults
       /\ tfs_last_error' \in {"OK", "IO"}
  BY <1>1, <1>2, <1>6, <1>8, <1>9, WriteKeeps
<1>11. /\ bitmap_blk' \subseteq 0 .. N - 1 /\ map' \subseteq 0 .. (last_bitmap_blk + N - 1)
       /\ loaded_bitmap_blk' = pos /\ pos' = pos
  BY <1>1, <1>2, <1>8, <1>10 DEF AllBits
<1>12. CASE tfs_last_error' = "OK"
  <2>1. /\ ret' = pos + o /\ ~aborted'
        /\ formatted => pc' = "idle" /\ owned' = owned \cup {pos + o}
        /\ ~formatted => pc' = "formatroot" /\ owned' = owned
    BY <1>12, <1>1, <1>2 DEF alloc_take, Returned, o
  <2>2. map' = Stored(loaded_bitmap_blk, bitmap_blk')
    BY <1>12, <1>1 DEF drive_write_bitmap, Fault
  <2>3. pos + o \in map'
    BY <2>2, <1>1, <1>2 DEF Stored
  <2>4. ~formatted => pos + o = 1
    <3> SUFFICES ASSUME ~formatted PROVE pos + o = 1
      OBVIOUS
    <3>1. pos = 0 /\ 1 \notin bitmap_blk
      BY <1>1 DEF IInv, ScanPhase
    <3>2. 0 \in Held
      BY HeldIs, BitmapBlkFacts, <1>1
    <3>3. 0 \in bitmap_blk
      <4>1. GET_BITMAP_BLK(0 + 0) = 0 /\ (0 + 0) % N = 0
        BY <1>3, <3>1, AlignedOffset, NPositive
      <4> QED BY <4>1, <3>1, <3>2, <1>6 DEF Covers
    <3>4. 1 \in FreeOffsets
      BY <3>1, NPositive DEF FreeOffsets
    <3> QED BY <3>1, <3>3, <3>4, <1>4
  <2>5. Held' \subseteq Held \cup {pos + o}
    <3>1. CASE formatted
      BY <3>1, <1>1, <2>1, HeldIs DEF Held
    <3>2. CASE ~formatted
      BY <3>2, <1>1, <2>1, <2>4, HeldIs DEF Held, Reserved, TFS_ROOT_DIR_BLK
    <3> QED BY <3>1, <3>2
  <2>6. Marked'
    BY <2>5, <2>3, <1>10 DEF Marked
  <2>7. Cached'
    <3>1. ASSUME NEW b \in Held', GET_BITMAP_BLK(b) = pos PROVE b % N \in bitmap_blk'
      BY <3>1, <2>5, <1>5, <1>9, <1>1 DEF Covers
    <3> QED BY <3>1, <1>11 DEF Cached
  <2>8. TypeOK'
    BY <1>1, <1>2, <1>4, <1>10, <1>11, <2>1, <1>12, <1>3 DEF TypeOK, PCs, Errors
  <2>9. ScanPhase' /\ FreePhase' /\ FormatPhase' /\ RunPhase'
    BY <1>1, <2>1, <2>4, <1>12 DEF ScanPhase, FreePhase, FormatPhase, RunPhase, IInv,
       TFS_ROOT_DIR_BLK
  <2>10. pos + o \notin owned \cup BitmapBlks
    <3>1. CASE formatted
      BY <3>1, <1>7, HeldIs DEF Reserved
    <3>2. CASE ~formatted
      BY <3>2, <1>7, <1>1, HeldIs DEF IInv, FormatPhase
    <3> QED BY <3>1, <3>2
  <2> QED BY <2>1, <2>6, <2>7, <2>8, <2>9, <2>10, <1>4 DEF IInv
<1>13. CASE tfs_last_error' # "OK"
  <2>1. /\ pc' = "idle" /\ ret' = ret /\ owned' = owned
        /\ aborted' = ~formatted /\ tfs_last_error' = "IO"
    BY <1>13, <1>1, <1>2, <1>10 DEF alloc_take, Returned, TypeOK
  <2>2. Held' \subseteq Held
    BY <2>1, <1>1, HeldIs DEF Held
  <2>3. Marked' /\ Cached'
    BY <2>2, <1>10, <1>9, <1>11 DEF Marked, Cached, Covers
  <2>4. TypeOK'
    BY <1>1, <1>2, <1>10, <1>11, <2>1 DEF TypeOK, PCs, Errors
  <2>5. ScanPhase' /\ FreePhase' /\ FormatPhase' /\ RunPhase'
    BY <1>1, <2>1 DEF ScanPhase, FreePhase, FormatPhase, RunPhase, IInv
  <2> QED BY <2>1, <2>3, <2>4, <2>5 DEF IInv
<1> QED BY <1>12, <1>13

\* A clear bit of the first bitmap block exists for the root directory, so the
\* search goes on to another bitmap block only on a formatted drive.
LEMMA RootFound ==
  ASSUME IInv, pc = "scan", ~Found
  PROVE  formatted
<1> SUFFICES ASSUME ~formatted PROVE FALSE
  OBVIOUS
<1>1. pos = 0 /\ 1 \notin bitmap_blk
  BY DEF IInv, ScanPhase
<1>2. 1 \in FreeOffsets /\ FreeOffsets \in SUBSET Nat
  BY <1>1, NPositive DEF FreeOffsets
<1>3. Min(FreeOffsets) \in Nat /\ Min(FreeOffsets) <= 1
  BY <1>2, MinFacts
<1>4. pos + Min(FreeOffsets) < BlkCount
  BY <1>1, <1>3, BlkCountAssumption
<1> QED BY <1>2, <1>4 DEF Found

\* alloc_block goes on to the next bitmap block, or finds the drive full.
LEMMA AllocNextStep ==
  ASSUME IInv, formatted \in BOOLEAN, alloc_next
  PROVE  IInv'
<1>1. /\ pc = "scan" /\ ~Found
      /\ pos' = NextBitmap(pos)
      /\ pc' = IF tfs_last_error' # "OK" THEN "idle" ELSE "scan"
      /\ aborted' = (aborted \/ (tfs_last_error' # "OK" /\ ~formatted))
      /\ UNCHANGED <<start, used, ret, owned, formatted>>
  BY DEF alloc_next
<1>2. /\ TypeOK /\ pos = loaded_bitmap_blk /\ pos \in BitmapBlks /\ ~aborted
      /\ tfs_last_error = "OK"
  BY <1>1 DEF IInv, ScanPhase, RunPhase
<1>3. formatted
  BY <1>1, RootFound
<1>4. pos' \in BitmapBlks
  BY <1>1, <1>2, BitmapBlkFacts DEF NextBitmap, TFS_FIRST_BITMAP_BLK
<1>5. map \subseteq AllBits /\ faults \in 0 .. MaxFaults /\ bitmap_blk \in SUBSET (0 .. N - 1)
  BY <1>2 DEF TypeOK, AllBits
<1>6. /\ map' = map /\ bitmap_blk' \in SUBSET (0 .. N - 1) /\ faults' \in 0 .. MaxFaults
      /\ \/ /\ tfs_last_error' = "OK" /\ loaded_bitmap_blk' = pos'
            /\ bitmap_blk' = BitmapOn(pos')
         \/ tfs_last_error' \in {"IO", "DISK_FULL"} /\ loaded_bitmap_blk' = TFS_BITMAP_BLK_INVAL
  <2>1. CASE pos' = start
    BY <2>1, <1>5 DEF alloc_next
  <2>2. CASE pos' # start
    <3>1. load_bitmap(pos')
      BY <2>2 DEF alloc_next
    <3> QED BY <3>1, <1>2, <1>4, <1>5, LoadFacts
  <2> QED BY <2>1, <2>2
<1>7. Held' = Held /\ ~aborted'
  BY <1>1, <1>2, <1>3, HeldIs DEF Held
<1>8. Marked'
  BY <1>6, <1>7 DEF Marked, IInv
<1>9. Cached'
  <2>1. Covers(pos', BitmapOn(pos'), Held)
    BY <1>4, <1>5, ReadCovers DEF Marked, IInv
  <2> QED BY <2>1, <1>6, <1>7 DEF Cached, Covers
<1>10. TypeOK'
  <2>1. pos' \in 0 .. BlkCount - 1
    BY <1>4, BitmapBlkFacts, BlkCountAssumption
  <2>2. loaded_bitmap_blk' \in BitmapBlks \cup {TFS_BITMAP_BLK_INVAL}
    BY <1>4, <1>6
  <2> QED BY <1>1, <1>2, <1>6, <1>7, <2>1, <2>2 DEF TypeOK, PCs, Errors
<1>11. ScanPhase' /\ FreePhase' /\ FormatPhase' /\ RunPhase'
  BY <1>1, <1>3, <1>4, <1>6, <1>7 DEF ScanPhase, FreePhase, FormatPhase, RunPhase, IInv
<1> QED BY <1>8, <1>9, <1>10, <1>11 DEF IInv

\* free_block clears the bit of the block given up and of no other.
LEMMA FreeWriteStep ==
  ASSUME IInv, free_write
  PROVE  IInv'
<1>1. /\ pc = "freewrite" /\ pc' = "idle"
      /\ bitmap_blk' = bitmap_blk \ {FreedOffset(pos)}
      /\ drive_write_bitmap(loaded_bitmap_blk, bitmap_blk')
      /\ UNCHANGED <<loaded_bitmap_blk, locals, ghosts>>
  BY DEF free_write, Returned
<1>2. /\ TypeOK /\ tfs_last_error = "OK" /\ formatted /\ ~aborted
      /\ pos \notin owned \cup Reserved /\ pos \in 0 .. BlkCount - 1
      /\ loaded_bitmap_blk = GET_BITMAP_BLK(pos)
  BY <1>1 DEF IInv, TypeOK, FreePhase, RunPhase
<1>3. pos \in Nat /\ pos = GET_BITMAP_BLK(pos) + (pos % N) /\ GET_BITMAP_BLK(pos) \in Nat
  BY <1>2, GetBitmap
<1>4. loaded_bitmap_blk \in BitmapBlks /\ loaded_bitmap_blk # TFS_BITMAP_BLK_INVAL
  BY <1>2, <1>3 DEF TypeOK, TFS_BITMAP_BLK_INVAL
<1>5. pos \notin Held /\ Held \subseteq map /\ map \subseteq AllBits
  BY <1>2, HeldIs, BlkCountAssumption DEF PastEnd, IInv, Marked, TypeOK, AllBits
<1>6. Covers(loaded_bitmap_blk, bitmap_blk, Held)
  BY <1>1, <1>2, <1>4 DEF IInv, Cached, Covers
<1>7. Covers(loaded_bitmap_blk, bitmap_blk', Held)
  <2> SUFFICES ASSUME NEW b \in Held, GET_BITMAP_BLK(b) = loaded_bitmap_blk
               PROVE  b % N \in bitmap_blk'
    BY DEF Covers
  <2>1. b \in Nat
    BY <1>5, NPositive, LastBitmap DEF AllBits
  <2>2. b = GET_BITMAP_BLK(b) + (b % N) /\ b % N \in 0 .. N - 1
    BY <2>1, GetBitmap
  <2>3. b # pos
    BY <1>5
  <2>4. b % N # pos % N
    BY <2>2, <2>3, <1>2, <1>3
  <2> QED BY <2>4, <1>1, <1>6 DEF Covers, FreedOffset
<1>8. bitmap_blk' \in SUBSET (0 .. N - 1) /\ faults \in 0 .. MaxFaults
  BY <1>1, <1>2 DEF TypeOK
<1>9. /\ map' \subseteq AllBits /\ Held \subseteq map' /\ faults' \in 0 .. MaxFaults
      /\ tfs_last_error' \in {"OK", "IO"}
  BY <1>1, <1>2, <1>4, <1>5, <1>7, <1>8, WriteKeeps
<1>10. Held' = Held
  BY <1>1, <1>2, HeldIs DEF Held, ghosts
<1>11. Marked' /\ Cached'
  BY <1>1, <1>7, <1>9, <1>10 DEF Marked, Cached, Covers
<1>12. TypeOK'
  BY <1>1, <1>2, <1>8, <1>9 DEF TypeOK, PCs, Errors, AllBits, locals, ghosts
<1>13. ScanPhase' /\ FreePhase' /\ FormatPhase' /\ RunPhase'
  BY <1>1, <1>2 DEF ScanPhase, FreePhase, FormatPhase, RunPhase, IInv, ghosts
<1> QED BY <1>11, <1>12, <1>13 DEF IInv

\* After load_bitmap everything still held is marked and cached.
LEMMA LoadKeeps ==
  ASSUME IInv, NEW p \in BitmapBlks, tfs_last_error = "OK", load_bitmap(p),
         Held' \subseteq map
  PROVE  Marked' /\ Cached'
<1>1. TypeOK
  BY DEF IInv
<1>2. map \subseteq AllBits /\ faults \in 0 .. MaxFaults /\ bitmap_blk \in SUBSET (0 .. N - 1)
  BY <1>1 DEF TypeOK, AllBits
<1>3. /\ map' = map
      /\ \/ /\ tfs_last_error' = "OK" /\ loaded_bitmap_blk' = p
            /\ bitmap_blk' = BitmapOn(p)
         \/ tfs_last_error' = "IO" /\ loaded_bitmap_blk' = TFS_BITMAP_BLK_INVAL
  BY <1>2, LoadFacts
<1>4. Covers(p, BitmapOn(p), Held')
  BY <1>2, ReadCovers
<1> QED BY <1>3, <1>4 DEF Marked, Cached, Covers

\* load_bitmap keeps the types of what it writes.
LEMMA LoadType ==
  ASSUME IInv, NEW p \in BitmapBlks, tfs_last_error = "OK", load_bitmap(p)
  PROVE  /\ map' = map
         /\ bitmap_blk' \subseteq 0 .. N - 1
         /\ loaded_bitmap_blk' \in BitmapBlks \cup {TFS_BITMAP_BLK_INVAL}
         /\ tfs_last_error' \in {"OK", "IO"}
         /\ faults' \in 0 .. MaxFaults
         /\ tfs_last_error' = "OK" => loaded_bitmap_blk' = p /\ bitmap_blk' = BitmapOn(p)
<1>1. TypeOK
  BY DEF IInv
<1>2. map \subseteq AllBits /\ faults \in 0 .. MaxFaults /\ bitmap_blk \in SUBSET (0 .. N - 1)
  BY <1>1 DEF TypeOK, AllBits
<1> QED BY <1>2, LoadFacts

\* free_block reads the bitmap block of the block given up.
LEMMA FreeLoadStep ==
  ASSUME IInv, free_load
  PROVE  IInv'
<1>1. /\ pc = "freeload" /\ load_bitmap(GET_BITMAP_BLK(pos))
      /\ pc' = IF tfs_last_error' # "OK" THEN "idle" ELSE "freewrite"
      /\ UNCHANGED <<locals, ghosts>>
  BY DEF free_load
<1>2. /\ TypeOK /\ tfs_last_error = "OK" /\ formatted /\ ~aborted
      /\ pos \notin owned \cup Reserved /\ pos \in 0 .. BlkCount - 1
  BY <1>1 DEF IInv, TypeOK, FreePhase, RunPhase
<1>3. GET_BITMAP_BLK(pos) \in BitmapBlks
  <2>1. pos \in Nat /\ BlkCount \in Nat
    BY <1>2, BlkCountAssumption
  <2>2. /\ GET_BITMAP_BLK(pos) \in Nat /\ GET_BITMAP_BLK(pos) % N = 0
        /\ pos % N \in 0 .. N - 1 /\ pos = GET_BITMAP_BLK(pos) + (pos % N)
    BY <2>1, GetBitmap
  <2>3. GET_BITMAP_BLK(pos) <= last_bitmap_blk
    <3>1. GET_BITMAP_BLK(pos) < BlkCount
      BY <1>2, <2>1, <2>2, NPositive
    <3>2. CASE last_bitmap_blk < GET_BITMAP_BLK(pos)
      <4>1. last_bitmap_blk + N <= GET_BITMAP_BLK(pos)
        BY <3>2, <2>2, LastBitmap, AlignedStep
      <4> QED BY <4>1, <3>1, LastBitmap, <2>1, <2>2, NPositive
    <3> QED BY <3>2, <2>2, LastBitmap
  <2> QED BY <2>2, <2>3, LastBitmap DEF BitmapBlks
<1>4. /\ map' = map
      /\ bitmap_blk' \subseteq 0 .. N - 1
      /\ loaded_bitmap_blk' \in BitmapBlks \cup {TFS_BITMAP_BLK_INVAL}
      /\ tfs_last_error' \in {"OK", "IO"}
      /\ faults' \in 0 .. MaxFaults
      /\ tfs_last_error' = "OK" => loaded_bitmap_blk' = GET_BITMAP_BLK(pos)
  BY <1>1, <1>2, <1>3, LoadType
<1>5. Held' = Held
  BY <1>1, <1>2, HeldIs DEF Held, ghosts
<1>6. Marked' /\ Cached'
  BY <1>1, <1>2, <1>3, <1>5, LoadKeeps DEF IInv, Marked
<1>7. TypeOK'
  BY <1>1, <1>2, <1>4 DEF TypeOK, PCs, Errors, locals, ghosts
<1>8. ScanPhase' /\ FreePhase' /\ FormatPhase' /\ RunPhase'
  BY <1>1, <1>2, <1>4 DEF ScanPhase, FreePhase, FormatPhase, RunPhase, IInv, ghosts, locals
<1> QED BY <1>6, <1>7, <1>8 DEF IInv

\* tfs_init.
LEMMA InitStep ==
  ASSUME IInv, tfs_init
  PROVE  IInv'
<1>1. pc = "off" /\ pc' = "idle" /\ UNCHANGED <<locals, ghosts>>
  BY DEF tfs_init, Returned
<1>2. TypeOK /\ tfs_last_error = "OK" /\ 0 \in BitmapBlks
  BY <1>1, BitmapBlkFacts DEF IInv, RunPhase
<1>3. Held' = Held /\ Held \subseteq map
  BY <1>1, HeldIs DEF Held, ghosts, IInv, Marked
<1>4. ScanPhase' /\ FreePhase' /\ FormatPhase' /\ RunPhase'
  BY <1>1 DEF ScanPhase, FreePhase, FormatPhase, RunPhase, IInv, ghosts
<1>5. CASE load_bitmap(TFS_FIRST_BITMAP_BLK)
  <2>1. load_bitmap(0)
    BY <1>5 DEF TFS_FIRST_BITMAP_BLK
  <2>2. Marked' /\ Cached'
    BY <2>1, <1>2, <1>3, LoadKeeps
  <2>3. /\ map' = map
        /\ bitmap_blk' \subseteq 0 .. N - 1
        /\ loaded_bitmap_blk' \in BitmapBlks \cup {TFS_BITMAP_BLK_INVAL}
        /\ tfs_last_error' \in {"OK", "IO"}
        /\ faults' \in 0 .. MaxFaults
    BY <2>1, <1>2, LoadType
  <2>4. TypeOK'
    BY <1>1, <1>2, <2>3 DEF TypeOK, PCs, Errors, locals, ghosts
  <2> QED BY <2>2, <2>4, <1>4 DEF IInv
<1>6. CASE ~load_bitmap(TFS_FIRST_BITMAP_BLK)
  <2>1. /\ faults < MaxFaults /\ faults' = faults + 1 /\ tfs_last_error' = "NO_DEV"
        /\ UNCHANGED <<map, ram>>
    BY <1>6 DEF tfs_init
  <2>2. faults' \in 0 .. MaxFaults
    BY <2>1, <1>2, FaultAssumption DEF TypeOK
  <2>3. TypeOK'
    BY <1>1, <1>2, <2>1, <2>2 DEF TypeOK, PCs, Errors, locals, ghosts, ram
  <2>4. Marked' /\ Cached'
    BY <1>3, <2>1 DEF Marked, Cached
  <2> QED BY <2>3, <2>4, <1>4 DEF IInv
<1> QED BY <1>5, <1>6

\* Entering alloc_block, free_block, tfs_format or tfs_get_used.
LEMMA CallStep ==
  ASSUME UseAfterFailedFormat = FALSE, IInv,
         \/ alloc_call
         \/ \E b \in 0 .. BlkCount - 1 : free_call(b)
         \/ format_call
         \/ get_used_call
  PROVE  IInv'
<1>1. TypeOK /\ 0 \in BitmapBlks
  BY BitmapBlkFacts DEF IInv
<1>2. CASE alloc_call
  <2>1. /\ pc = "idle" /\ tfs_last_error # "NO_DEV" /\ formatted /\ ~aborted
        /\ UNCHANGED <<map, ram, ghosts, faults>> /\ ret' = 0 /\ used' = -1
        /\ \/ /\ tfs_last_error' = "DISK_FULL" /\ UNCHANGED <<pc, start, pos>>
              /\ loaded_bitmap_blk = TFS_BITMAP_BLK_INVAL
           \/ /\ tfs_last_error' = "OK" /\ pc' = "scan"
              /\ loaded_bitmap_blk # TFS_BITMAP_BLK_INVAL
              /\ start' = loaded_bitmap_blk /\ pos' = loaded_bitmap_blk
    BY <1>2 DEF alloc_call, Enter, ClientMayRun
  <2>2. Held' = Held
    BY <2>1, HeldIs DEF Held, ghosts
  <2>3. Marked' /\ Cached'
    BY <2>1, <2>2 DEF Marked, Cached, IInv, ram, ghosts
  <2>4. loaded_bitmap_blk # TFS_BITMAP_BLK_INVAL =>
          loaded_bitmap_blk \in BitmapBlks /\ loaded_bitmap_blk \in 0 .. BlkCount - 1
    BY <1>1, BitmapBlkFacts, BlkCountAssumption DEF TypeOK
  <2>5. 0 \in 0 .. BlkCount - 1
    BY BlkCountAssumption
  <2>6. TypeOK'
    BY <1>1, <2>1, <2>4, <2>5 DEF TypeOK, PCs, Errors, ram, ghosts
  <2>7. ScanPhase' /\ FreePhase' /\ FormatPhase' /\ RunPhase'
    BY <2>1, <2>4 DEF ScanPhase, FreePhase, FormatPhase, RunPhase, IInv, ghosts, ram
  <2> QED BY <2>3, <2>6, <2>7 DEF IInv
<1>3. ASSUME NEW b \in 0 .. BlkCount - 1, free_call(b) PROVE IInv'
  <2>1. /\ pc = "idle" /\ tfs_last_error # "NO_DEV" /\ formatted /\ ~aborted
        /\ b \in owned \ Reserved /\ tfs_last_error' = "OK" /\ ret' = 0 /\ used' = -1
        /\ pos' = b /\ owned' = owned \ {b}
        /\ pc' = IF loaded_bitmap_blk # GET_BITMAP_BLK(b) THEN "freeload" ELSE "freewrite"
        /\ UNCHANGED <<map, ram, start, formatted, aborted, faults>>
    BY <1>3 DEF free_call, Enter, ClientMayRun
  <2>2. Held' \subseteq Held
    BY <2>1, HeldIs DEF Held
  <2>3. Marked' /\ Cached'
    BY <2>1, <2>2 DEF Marked, Cached, IInv, ram
  <2>4. 0 \in 0 .. BlkCount - 1
    BY BlkCountAssumption
  <2>5. TypeOK'
    BY <1>1, <2>1, <2>4 DEF TypeOK, PCs, Errors, ram
  <2>6. ScanPhase' /\ FreePhase' /\ FormatPhase' /\ RunPhase'
    BY <2>1 DEF ScanPhase, FreePhase, FormatPhase, RunPhase, IInv, ram
  <2> QED BY <2>3, <2>5, <2>6 DEF IInv
<1>4. CASE format_call
  <2>1. /\ pc = "idle" /\ tfs_last_error' = "OK" /\ ret' = 0 /\ used' = -1
        /\ pos' = 0 /\ bitmap_blk' = {0} /\ pc' = "format" /\ aborted' = FALSE
        /\ UNCHANGED <<map, loaded_bitmap_blk, start, owned, formatted, faults>>
    BY <1>4 DEF format_call, Enter, TFS_FIRST_BITMAP_BLK
  <2>2. Held' \subseteq Held
    BY <2>1, HeldIs DEF Held
  <2>3. Marked' /\ Cached'
    BY <2>1, <2>2 DEF Marked, Cached, IInv
  <2>4. 0 \in 0 .. BlkCount - 1 /\ 0 \in 0 .. N - 1
    BY BlkCountAssumption, NPositive
  <2>5. TypeOK'
    <3>1. formatted' \in BOOLEAN /\ aborted' \in BOOLEAN
      BY <1>1, <2>1, Zenon DEF TypeOK
    <3>2. /\ UNCHANGED <<map, loaded_bitmap_blk, start, owned, faults>>
          /\ tfs_last_error' = "OK" /\ ret' = 0 /\ used' = -1
          /\ pos' = 0 /\ bitmap_blk' = {0} /\ pc' = "format"
      BY <2>1
    <3> QED BY <1>1, <2>4, <3>1, <3>2 DEF TypeOK, PCs, Errors
  <2>6. \A p \in BitmapBlks : ~(p < 0)
    BY BitmapBlkFacts
  <2>7. ScanPhase' /\ FreePhase' /\ FormatPhase' /\ RunPhase'
    BY <1>1, <2>1, <2>6 DEF ScanPhase, FreePhase, FormatPhase, RunPhase, IInv
  <2> QED BY <2>3, <2>5, <2>7 DEF IInv
<1>5. CASE get_used_call
  <2>1. /\ pc = "idle" /\ tfs_last_error # "NO_DEV"
        /\ tfs_last_error' = "OK" /\ ret' = 0 /\ used' = 0 /\ pos' = 0 /\ pc' = "count"
        /\ UNCHANGED <<map, ram, start, ghosts, faults>>
    BY <1>5 DEF get_used_call, Enter, TFS_FIRST_BITMAP_BLK
  <2>2. Held' = Held
    BY <2>1, HeldIs DEF Held, ghosts
  <2>3. Marked' /\ Cached'
    BY <2>1, <2>2 DEF Marked, Cached, IInv, ram, ghosts
  <2>4. 0 \in 0 .. BlkCount - 1
    BY BlkCountAssumption
  <2>5. TypeOK'
    BY <1>1, <2>1, <2>4 DEF TypeOK, PCs, Errors, ram, ghosts
  <2>6. ScanPhase' /\ FreePhase' /\ FormatPhase' /\ RunPhase'
    BY <1>1, <2>1 DEF ScanPhase, FreePhase, FormatPhase, RunPhase, IInv, ghosts
  <2> QED BY <2>3, <2>5, <2>6 DEF IInv
<1> QED BY <1>2, <1>3, <1>4, <1>5

\* tfs_get_used counts one bitmap block after the other in the cache.
LEMMA CountStep ==
  ASSUME IInv, get_used_load \/ get_used_done
  PROVE  IInv'
<1>1. TypeOK /\ 0 \in BitmapBlks /\ pc \in {"count", "countdone"} /\ tfs_last_error = "OK"
  BY BitmapBlkFacts DEF IInv, RunPhase, get_used_load, get_used_done
<1>2. pos \in BitmapBlks
  BY <1>1 DEF IInv, RunPhase
<1>3. UNCHANGED <<start, ret, ghosts>> /\ pc' \in {"count", "countdone", "idle"}
  BY <1>1 DEF get_used_load, get_used_done, Returned, locals
<1>4. Held' = Held /\ Held \subseteq map
  BY <1>1, <1>3, HeldIs DEF Held, ghosts, IInv, Marked
<1>5. PICK p \in BitmapBlks : load_bitmap(p)
  BY <1>1, <1>2 DEF get_used_load, get_used_done, TFS_FIRST_BITMAP_BLK
<1>6. Marked' /\ Cached'
  BY <1>1, <1>4, <1>5, LoadKeeps
<1>7. /\ map' = map
      /\ bitmap_blk' \subseteq 0 .. N - 1
      /\ loaded_bitmap_blk' \in BitmapBlks \cup {TFS_BITMAP_BLK_INVAL}
      /\ tfs_last_error' \in {"OK", "IO"}
      /\ faults' \in 0 .. MaxFaults
  BY <1>1, <1>5, LoadType
<1>8. /\ pos' \in BitmapBlks /\ used' \in Int
      /\ pc' # "idle" => tfs_last_error' = "OK"
  <2>1. CASE get_used_done
    BY <2>1, <1>1, <1>2 DEF get_used_done, locals, Returned, TypeOK
  <2>2. CASE get_used_load
    <3>1. Cardinality(bitmap_blk') \in Nat
      BY <1>7, CountType
    <3>2. used \in Int /\ PastEndBits \in Int
      BY <1>1, LastBitmap, NPositive DEF TypeOK, PastEndBits
    <3>3. pos # last_bitmap_blk => pos + N \in BitmapBlks
      BY <1>2, BitmapBlkFacts
    <3>4. /\ pos' \in {pos, pos + N}
          /\ pos' # pos => pos # last_bitmap_blk
          /\ used' \in {-1, used + Cardinality(bitmap_blk') - PastEndBits,
                        used + Cardinality(bitmap_blk')}
          /\ pc' # "idle" => tfs_last_error' = "OK"
      BY <2>2 DEF get_used_load, Returned
    <3>5. used' \in Int
      BY <3>1, <3>2, <3>4
    <3> QED BY <3>3, <3>4, <3>5, <1>2
  <2> QED BY <2>1, <2>2
<1>9. pos' \in 0 .. BlkCount - 1
  <2>1. pos' \in Nat /\ pos' < BlkCount
    BY <1>8, BitmapBlkFacts
  <2> QED BY <2>1, BlkCountAssumption
<1>10. TypeOK'
  BY <1>1, <1>3, <1>7, <1>8, <1>9 DEF TypeOK, PCs, Errors, ghosts
<1>11. ScanPhase' /\ FreePhase' /\ FormatPhase' /\ RunPhase'
  BY <1>1, <1>3, <1>7, <1>8 DEF ScanPhase, FreePhase, FormatPhase, RunPhase, IInv, ghosts
<1> QED BY <1>6, <1>10, <1>11 DEF IInv

\* tfs_format stores a bitmap block: in the first one only the block's own bit is
\* set, so the search that follows finds the root directory's place.
LEMMA FormatWriteStep ==
  ASSUME IInv, format_write
  PROVE  IInv'
<1>1. /\ pc = "format"
      /\ bitmap_blk' = FormatImage(pos)
      /\ drive_write_bitmap(pos, bitmap_blk')
      /\ aborted' = (aborted \/ tfs_last_error' # "OK")
      /\ UNCHANGED <<loaded_bitmap_blk, start, used, ret>>
  BY DEF format_write
<1>2. /\ TypeOK /\ tfs_last_error = "OK" /\ ~aborted /\ pos \in BitmapBlks
      /\ bitmap_blk = {0}
      /\ \A p \in BitmapBlks : p < pos => p \in map
      /\ pos > 0 => ~formatted /\ 1 \notin map
      /\ ~formatted => owned = {}
  BY <1>1 DEF IInv, FormatPhase, RunPhase
<1>3. /\ pos \in Nat /\ pos % N = 0 /\ pos < BlkCount /\ pos <= last_bitmap_blk
      /\ pos # last_bitmap_blk => pos + N \in BitmapBlks
      /\ \A q \in BitmapBlks : q < pos => q + N <= pos
  BY <1>2, BitmapBlkFacts
<1>4. /\ bitmap_blk' \in SUBSET (0 .. N - 1)
      /\ 0 \in bitmap_blk'
      /\ pos = last_bitmap_blk => last_bitmap_len .. N - 1 \subseteq bitmap_blk'
      /\ pos = 0 => 1 \notin bitmap_blk'
  <2>1. bitmap_blk' = IF pos = last_bitmap_blk THEN {0} \cup (last_bitmap_len .. N - 1)
                                              ELSE {0}
    BY <1>1, <1>2 DEF FormatImage
  <2>2. last_bitmap_len \in 1 .. N /\ last_bitmap_blk + last_bitmap_len = BlkCount
        /\ BlkCount >= 2 /\ BlkCount \in Nat
    BY LastBitmap, BlkCountAssumption
  <2>3. last_bitmap_len .. N - 1 \subseteq 0 .. N - 1 /\ 0 \in 0 .. N - 1
    BY <2>2, NPositive
  <2>4. pos = last_bitmap_blk /\ pos = 0 => 1 \notin last_bitmap_len .. N - 1
    BY <2>2, NPositive
  <2> QED BY <2>1, <2>3, <2>4
<1>5. map \subseteq AllBits /\ faults \in 0 .. MaxFaults
  BY <1>2 DEF TypeOK, AllBits
<1>6. /\ map' \subseteq AllBits /\ faults' \in 0 .. MaxFaults
      /\ tfs_last_error' \in {"OK", "IO"} /\ map' \in {map, Stored(pos, bitmap_blk')}
  <2>1. {} \subseteq map /\ Covers(pos, bitmap_blk', {})
    BY DEF Covers
  <2> QED BY <1>1, <1>2, <1>4, <1>5, <2>1, WriteKeeps
<1>7. TypeOK'
  <2>1. pos' \in {pos, pos + N} /\ (pos' # pos => pos' \in BitmapBlks)
    BY <1>1, <1>3 DEF format_write
  <2>2. pos' \in BitmapBlks
    BY <2>1, <1>2
  <2>3. pos' \in 0 .. BlkCount - 1
    <3>1. pos' \in Nat /\ pos' < BlkCount
      BY <2>2, BitmapBlkFacts
    <3> QED BY <3>1, BlkCountAssumption
  <2>4. owned' \in {owned, {}} /\ formatted' \in {formatted, FALSE}
        /\ pc' \in {"idle", "formatload", "format"}
    BY DEF format_write
  <2>5. pc' \in PCs /\ tfs_last_error' \in Errors /\ aborted' \in BOOLEAN
        /\ owned' \subseteq 0 .. BlkCount - 1 /\ formatted' \in BOOLEAN
    BY <2>4, <1>1, <1>2, <1>6 DEF PCs, Errors, TypeOK
  <2> QED BY <1>1, <1>2, <1>4, <1>6, <2>3, <2>5 DEF TypeOK, AllBits
<1>8. CASE tfs_last_error' # "OK"
  <2>1. pc' = "idle" /\ aborted' /\ pos' = pos
    BY <1>8, <1>1 DEF format_write
  <2>2. \/ UNCHANGED <<map, owned, formatted>>
        \/ owned' = {} /\ formatted' = FALSE
    BY <1>8, <1>1 DEF format_write
  <2>3. Held' \subseteq map'
    <3>1. CASE UNCHANGED <<map, owned, formatted>>
      <4>1. Held' \subseteq Held
        BY <3>1, <2>1, <1>1, HeldIs DEF Held
      <4> QED BY <4>1, <3>1 DEF IInv, Marked
    <3>2. CASE owned' = {} /\ formatted' = FALSE
      <4>1. Held' = {}
        BY <3>2, <2>1 DEF Held
      <4> QED BY <4>1
    <3> QED BY <2>2, <3>1, <3>2
  <2>4. Cached'
    BY <2>1 DEF Cached
  <2>5. ScanPhase' /\ FreePhase' /\ FormatPhase' /\ RunPhase'
    BY <2>1, <2>2, <1>2 DEF ScanPhase, FreePhase, FormatPhase, RunPhase
  <2> QED BY <2>3, <2>4, <2>5, <1>7 DEF IInv, Marked
<1>9. CASE tfs_last_error' = "OK"
  <2>1. /\ owned' = {} /\ formatted' = FALSE /\ ~aborted'
        /\ pos = last_bitmap_blk => pc' = "formatload" /\ pos' = pos
        /\ pos # last_bitmap_blk => pc' = "format" /\ pos' = pos + N
    BY <1>9, <1>1, <1>2 DEF format_write
  <2>2. map' = Stored(pos, bitmap_blk')
    BY <1>9, <1>1 DEF drive_write_bitmap, Fault
  <2>3. 1 \notin map'
    <3>1. CASE pos = 0
      <4>1. 1 \in pos .. pos + N - 1
        BY <3>1, NPositive
      <4>2. \A x \in bitmap_blk' : pos + x # 1
        BY <3>1, <1>4
      <4> QED BY <4>1, <4>2, <2>2 DEF Stored
    <3>2. CASE pos # 0
      <4>1. pos > 0 /\ 1 \notin map
        BY <3>2, <1>3, <1>2
      <4>2. 0 < pos
        BY <4>1, <1>3
      <4>3. 0 + N <= pos
        BY <4>2, <1>3, BitmapBlkFacts
      <4>4. \A x \in bitmap_blk' : pos + x # 1
        BY <4>3, <1>3, <1>4, NPositive
      <4> QED BY <4>1, <4>4, <2>2 DEF Stored
    <3> QED BY <3>1, <3>2
  <2>4. ASSUME NEW q \in BitmapBlks, q <= pos PROVE q \in map'
    <3>1. q \in Nat /\ (q < pos => q + N <= pos)
      BY <1>3, BitmapBlkFacts
    <3>2. CASE q = pos
      <4>1. pos + 0 \in {pos + o : o \in bitmap_blk'}
        BY <1>4
      <4> QED BY <4>1, <3>2, <1>3, <2>2 DEF Stored
    <3>3. CASE q # pos
      <4>1. q < pos /\ q \in map
        BY <3>3, <3>1, <2>4, <1>2, <1>3
      <4>2. q \notin pos .. pos + N - 1
        BY <4>1, <3>1, <1>3
      <4> QED BY <4>1, <4>2, <2>2 DEF Stored
    <3> QED BY <3>2, <3>3
  <2>5. CASE pos # last_bitmap_blk
    <3>1. pc' = "format" /\ pos' = pos + N /\ pos' \in BitmapBlks /\ bitmap_blk' = {0}
      BY <2>5, <2>1, <1>1, <1>2, <1>3 DEF FormatImage
    <3>2. Marked' /\ Cached'
      BY <3>1, <2>1 DEF Marked, Cached, Held
    <3>3. ASSUME NEW q \in BitmapBlks, q < pos' PROVE q \in map'
      <4>1. q \in Nat /\ q + N <= pos'
        BY <3>1, <3>3, BitmapBlkFacts
      <4>2. q <= pos
        BY <4>1, <3>1, <1>3, NPositive
      <4> QED BY <4>2, <2>4
    <3>4. FormatPhase'
      BY <3>1, <3>3, <2>1, <2>3 DEF FormatPhase
    <3>5. ScanPhase' /\ FreePhase' /\ RunPhase'
      BY <3>1, <1>9 DEF ScanPhase, FreePhase, RunPhase
    <3> QED BY <3>2, <3>4, <3>5, <1>7 DEF IInv
  <2>6. CASE pos = last_bitmap_blk
    <3>1. pc' = "formatload" /\ pos' = pos
      BY <2>6, <2>1
    <3>2. BitmapBlks \subseteq map'
      BY <2>4, <2>6, BitmapBlkFacts
    <3>3. ASSUME NEW b \in PastEnd PROVE b \in map'
      <4>1. /\ b \in BlkCount .. (last_bitmap_blk + N - 1)
            /\ last_bitmap_blk \in Nat /\ BlkCount \in Nat
            /\ last_bitmap_len \in 1 .. N /\ last_bitmap_blk + last_bitmap_len = BlkCount
        BY <3>3, LastBitmap, BlkCountAssumption DEF PastEnd
      <4>2. b - pos \in last_bitmap_len .. N - 1 /\ pos + (b - pos) = b
        BY <4>1, <2>6, NPositive
      <4>3. b - pos \in bitmap_blk'
        BY <4>2, <1>4, <2>6
      <4> QED BY <4>2, <4>3, <2>2 DEF Stored
    <3>4. Marked'
      <4>1. Held' = BitmapBlks \cup PastEnd
        BY <3>1, <2>1 DEF Held, BitmapBlks, PastEnd
      <4> QED BY <4>1, <3>2, <3>3 DEF Marked
    <3>5. Cached' /\ ScanPhase' /\ FreePhase' /\ FormatPhase' /\ RunPhase'
      BY <3>1, <2>1, <2>3, <1>9 DEF Cached, ScanPhase, FreePhase, FormatPhase, RunPhase
    <3> QED BY <3>4, <3>5, <1>7 DEF IInv
  <2> QED BY <2>5, <2>6
<1> QED BY <1>8, <1>9

\* tfs_format reads the first bitmap block back before it allocates.
LEMMA FormatLoadStep ==
  ASSUME IInv, format_load
  PROVE  IInv'
<1>1. /\ pc = "formatload" /\ load_bitmap(0)
      /\ UNCHANGED <<used, ret, owned, formatted>>
      /\ aborted' = (aborted \/ tfs_last_error' # "OK")
      /\ \/ /\ tfs_last_error' # "OK" /\ pc' = "idle" /\ UNCHANGED <<start, pos>>
         \/ /\ tfs_last_error' = "OK" /\ pc' = "scan" /\ start' = 0 /\ pos' = 0
  BY DEF format_load, Returned, TFS_FIRST_BITMAP_BLK
<1>2. /\ TypeOK /\ tfs_last_error = "OK" /\ ~formatted /\ ~aborted /\ 1 \notin map
      /\ owned = {} /\ 0 \in BitmapBlks
  BY <1>1, BitmapBlkFacts DEF IInv, FormatPhase, RunPhase
<1>3. /\ map' = map
      /\ bitmap_blk' \subseteq 0 .. N - 1
      /\ loaded_bitmap_blk' \in BitmapBlks \cup {TFS_BITMAP_BLK_INVAL}
      /\ tfs_last_error' \in {"OK", "IO"}
      /\ faults' \in 0 .. MaxFaults
      /\ tfs_last_error' = "OK" => loaded_bitmap_blk' = 0 /\ bitmap_blk' = BitmapOn(0)
  BY <1>1, <1>2, LoadType
<1>4. Held' \subseteq map
  <2>1. Held \subseteq map /\ Held = BitmapBlks \cup PastEnd
    BY <1>1, <1>2, HeldIs DEF IInv, Marked
  <2>2. Held' \subseteq BitmapBlks \cup PastEnd
    BY <1>1, <1>2 DEF Held, BitmapBlks, PastEnd
  <2> QED BY <2>1, <2>2
<1>5. Marked' /\ Cached'
  BY <1>1, <1>2, <1>4, LoadKeeps
<1>6. 0 \in 0 .. BlkCount - 1
  BY BlkCountAssumption
<1>7. TypeOK'
  BY <1>1, <1>2, <1>3, <1>6 DEF TypeOK, PCs, Errors
<1>8. 1 \notin BitmapOn(0)
  BY <1>2, NPositive DEF BitmapOn
<1>9. ScanPhase' /\ FreePhase' /\ FormatPhase' /\ RunPhase'
  BY <1>1, <1>2, <1>3, <1>8 DEF ScanPhase, FreePhase, FormatPhase, RunPhase
<1> QED BY <1>5, <1>7, <1>9 DEF IInv

\* tfs_format clears the root directory block and the drive is formatted.
LEMMA FormatRootStep ==
  ASSUME IInv, format_root
  PROVE  IInv'
<1>1. /\ pc = "formatroot" /\ pc' = "idle" /\ ret' = 0
      /\ UNCHANGED <<map, ram, start, pos, used>>
      /\ \/ /\ owned' = BitmapBlks \cup {ret} /\ formatted' = TRUE
            /\ UNCHANGED <<faults, tfs_last_error, aborted>>
         \/ /\ Fault /\ aborted' = TRUE /\ UNCHANGED <<owned, formatted>>
  BY DEF format_root, Returned
<1>2. /\ TypeOK /\ tfs_last_error = "OK" /\ ~formatted /\ ~aborted
      /\ ret = 1 /\ owned = {}
  BY <1>1 DEF IInv, FormatPhase, RunPhase, TFS_ROOT_DIR_BLK
<1>3. Held = Reserved \cup PastEnd /\ Held \subseteq map
  BY <1>1, <1>2, HeldIs DEF IInv, Marked
<1>4. Held' \subseteq Held
  BY <1>1, <1>2, <1>3 DEF Held, Reserved, TFS_ROOT_DIR_BLK, BitmapBlks, PastEnd
<1>5. Marked' /\ Cached'
  BY <1>1, <1>2, <1>3, <1>4 DEF Marked, Cached, IInv, ram
<1>6. TypeOK'
  <2>1. 0 \in 0 .. BlkCount - 1 /\ 1 \in 0 .. BlkCount - 1
    BY BlkCountAssumption
  <2>2. BitmapBlks \subseteq 0 .. BlkCount - 1
    BY BitmapBlkFacts, BlkCountAssumption
  <2>3. faults' \in 0 .. MaxFaults /\ tfs_last_error' \in {"OK", "IO"}
    BY <1>1, <1>2, FaultAssumption DEF Fault, TypeOK
  <2>4. UNCHANGED <<map, bitmap_blk, loaded_bitmap_blk, start, pos, used>>
    BY <1>1 DEF ram
  <2>5. owned' \subseteq 0 .. BlkCount - 1 /\ formatted' \in BOOLEAN /\ aborted' \in BOOLEAN
    BY <1>1, <1>2, <2>1, <2>2 DEF TypeOK
  <2> QED BY <1>1, <1>2, <2>1, <2>3, <2>4, <2>5 DEF TypeOK, PCs, Errors
<1>7. ScanPhase' /\ FreePhase' /\ FormatPhase' /\ RunPhase'
  BY <1>1, <1>2 DEF ScanPhase, FreePhase, FormatPhase, RunPhase
<1> QED BY <1>5, <1>6, <1>7 DEF IInv

\* After a loss of power what is on the drive is all that counts.
LEMMA PowerLossStep ==
  ASSUME IInv, PowerLoss
  PROVE  IInv'
<1>1. /\ faults < MaxFaults /\ faults' = faults + 1 /\ pc' = "off"
      /\ bitmap_blk' = {} /\ loaded_bitmap_blk' = 0 /\ tfs_last_error' = "OK"
      /\ start' = 0 /\ pos' = 0 /\ used' = -1 /\ ret' = 0 /\ aborted' = FALSE
      /\ UNCHANGED <<map, owned, formatted>>
  BY DEF PowerLoss
<1>2. TypeOK /\ 0 \in BitmapBlks /\ Held \subseteq map
  BY BitmapBlkFacts DEF IInv, Marked
<1>3. Held' \subseteq Held
  BY <1>1, HeldIs DEF Held
<1>4. Marked' /\ Cached'
  BY <1>1, <1>2, <1>3 DEF Marked, Cached
<1>5. TypeOK'
  <2>1. 0 \in 0 .. BlkCount - 1 /\ faults' \in 0 .. MaxFaults /\ 0 \in BitmapBlks
    BY <1>1, <1>2, BlkCountAssumption, FaultAssumption DEF TypeOK
  <2>2. formatted' \in BOOLEAN /\ aborted' \in BOOLEAN
    BY <1>1, <1>2, Zenon DEF TypeOK
  <2>3. /\ map' \subseteq 0 .. (last_bitmap_blk + N - 1)
        /\ owned' \subseteq 0 .. BlkCount - 1
        /\ bitmap_blk' = {} /\ loaded_bitmap_blk' = 0 /\ tfs_last_error' = "OK"
        /\ pc' = "off" /\ start' = 0 /\ pos' = 0 /\ used' = -1 /\ ret' = 0
    BY <1>1, <1>2, Zenon DEF TypeOK
  <2> QED BY <2>1, <2>2, <2>3 DEF TypeOK, PCs, Errors
<1>6. ScanPhase' /\ FreePhase' /\ FormatPhase' /\ RunPhase'
  BY <1>1 DEF ScanPhase, FreePhase, FormatPhase, RunPhase, IInv
<1> QED BY <1>4, <1>5, <1>6 DEF IInv

-----------------------------------------------------------------------------
(* The invariant and what follows from it.                                 *)

\* The invariant holds before tfs_init, whatever the drive holds.
LEMMA InitIInv ==
  ASSUME Init PROVE IInv
<1>1. 0 \in BitmapBlks /\ 0 \in 0 .. BlkCount - 1 /\ 0 \in 0 .. MaxFaults
  BY BitmapBlkFacts, BlkCountAssumption, FaultAssumption
<1>2. TypeOK
  <2>1. /\ map \subseteq 0 .. (last_bitmap_blk + N - 1)
        /\ bitmap_blk = {} /\ loaded_bitmap_blk = 0 /\ tfs_last_error = "OK" /\ pc = "off"
        /\ start = 0 /\ pos = 0 /\ used = -1 /\ ret = 0 /\ owned = {} /\ faults = 0
    BY DEF Init
  <2>2. formatted \in BOOLEAN /\ aborted \in BOOLEAN
    BY DEF Init
  <2> QED BY <1>1, <2>1, <2>2 DEF TypeOK, PCs, Errors
<1>3. Marked /\ Cached
  BY DEF Init, Marked, Cached, Held
<1>4. ScanPhase /\ FreePhase /\ FormatPhase /\ RunPhase
  BY DEF Init, ScanPhase, FreePhase, FormatPhase, RunPhase
<1> QED BY <1>2, <1>3, <1>4 DEF IInv

\* Every step keeps the invariant, when no client goes on after a tfs_format
\* that reported an error.
LEMMA Inductive ==
  ASSUME UseAfterFailedFormat = FALSE, IInv, [Next]_vars
  PROVE  IInv'
<1>0. formatted \in BOOLEAN
  BY DEF IInv, TypeOK
<1>1. CASE UNCHANGED vars
  <2>1. UNCHANGED <<Held, map, bitmap_blk, loaded_bitmap_blk, tfs_last_error, pc, start, pos,
                    used, ret, owned, formatted, aborted, faults>>
    BY <1>1 DEF vars, Held, BitmapBlks, PastEnd, Reserved
  <2>2. TypeOK'
    BY <2>1 DEF IInv, TypeOK
  <2>3. Marked' /\ Cached'
    BY <2>1 DEF IInv, Marked, Cached
  <2>4. ScanPhase' /\ FreePhase' /\ FormatPhase' /\ RunPhase'
    BY <2>1 DEF IInv, ScanPhase, FreePhase, FormatPhase, RunPhase
  <2> QED BY <2>2, <2>3, <2>4 DEF IInv
<1>2. CASE Call
  BY <1>1, <1>2, InitStep, CallStep DEF Call, no_dev_call
<1>3. CASE Step
  BY <1>0, <1>3, AllocTakeStep, AllocNextStep, FreeLoadStep, FreeWriteStep,
     FormatWriteStep, FormatLoadStep, FormatRootStep, CountStep DEF Step
<1>4. CASE PowerLoss
  BY <1>4, PowerLossStep
<1> QED BY <1>1, <1>2, <1>3, <1>4 DEF Next

\* The inductive invariant holds in every behaviour: at each step of each
\* routine everything held is marked, whatever transfers fail and wherever
\* power is lost.
THEOREM Invariant ==
  ASSUME UseAfterFailedFormat = FALSE
  PROVE  Spec => []IInv
<1>1. Init => IInv
  BY InitIInv
<1>2. IInv /\ [Next]_vars => IInv'
  BY Inductive
<1> QED BY <1>1, <1>2, PTL DEF Spec

\* Every variable of the allocator keeps its type.
THEOREM TypeCorrect ==
  ASSUME UseAfterFailedFormat = FALSE
  PROVE  Spec => []TypeOK
<1>1. IInv => TypeOK
  BY DEF IInv
<1> QED BY <1>1, Invariant, PTL

\* The blocks a formatted drive's file system holds, the bitmap blocks and the
\* bits past the end of the drive are marked on the drive at every moment.
THEOREM HeldBlocksMarked ==
  ASSUME UseAfterFailedFormat = FALSE
  PROVE  Spec => []OwnedMarked
<1>1. IInv => OwnedMarked
  BY HeldIs DEF IInv, Marked, OwnedMarked
<1> QED BY <1>1, Invariant, PTL

\* tfs_format gets block TFS_ROOT_DIR_BLK for the root directory.
THEOREM RootBlock ==
  ASSUME UseAfterFailedFormat = FALSE
  PROVE  Spec => []RootInPlace
<1>1. IInv => RootInPlace
  BY DEF IInv, FormatPhase, RootInPlace
<1> QED BY <1>1, Invariant, PTL

\* A step that changes the result to a block number is alloc_take.
LEMMA OnlyTakeReturns ==
  ASSUME [Next]_vars, ~alloc_take, ret' # 0
  PROVE  ret' = ret
  BY DEF Next, Call, Step, vars, tfs_init, alloc_call, free_call, format_call,
     get_used_call, no_dev_call, alloc_next, free_load, free_write, format_write,
     format_load, format_root, get_used_load, get_used_done, PowerLoss, locals

\* alloc_block hands out only blocks of the drive that are not in use: the safety
\* of the allocator.
THEOREM NoBlockTwice ==
  ASSUME UseAfterFailedFormat = FALSE
  PROVE  Spec => NoDoubleAlloc
<1>1. IInv /\ [Next]_vars =>
        [(ret' # 0 /\ ret' # ret) => ret' \in (0 .. BlkCount - 1) \ (owned \cup BitmapBlks)]_vars
  <2> SUFFICES ASSUME IInv, [Next]_vars, ret' # 0, ret' # ret
               PROVE  ret' \in (0 .. BlkCount - 1) \ (owned \cup BitmapBlks)
    OBVIOUS
  <2>1. alloc_take
    BY OnlyTakeReturns
  <2>2. formatted \in BOOLEAN
    BY DEF IInv, TypeOK
  <2> QED BY <2>1, <2>2, AllocTakeStep
<1>2. Spec => []IInv
  BY Invariant
<1> QED BY <1>1, <1>2, PTL DEF Spec, NoDoubleAlloc

-----------------------------------------------------------------------------
(* Images of bitmap blocks.                                                *)

\* The bits of the drive after a write of a bitmap block, one by one.
LEMMA StoredIs ==
  ASSUME NEW p \in BitmapBlks, NEW img \in SUBSET (0 .. N - 1), map \subseteq AllBits
  PROVE  \A x \in AllBits : x \in Stored(p, img) <=>
           IF x \in p .. p + N - 1 THEN x - p \in img ELSE x \in map
<1>1. p \in Nat /\ p + N - 1 \in Nat
  BY BitmapBlkFacts, NPositive
<1> TAKE x \in AllBits
<1>2. x \in Nat
  BY NPositive, LastBitmap DEF AllBits
<1>3. x \in {p + o : o \in img} <=> x - p \in img
  <2>1. ASSUME NEW o \in img, x = p + o PROVE x - p \in img
    <3>1. o \in Nat /\ x - p = o
      BY <1>1, <2>1, NPositive
    <3> QED BY <3>1
  <2>2. x = p + (x - p)
    BY <1>1, <1>2
  <2> QED BY <2>1, <2>2
<1>4. x - p \in img => x \in p .. p + N - 1
  BY <1>1, <1>2, NPositive
<1> QED BY <1>3, <1>4 DEF Stored

\* Setting or clearing one bit of what the drive holds changes that bit only.
LEMMA StoredBit ==
  ASSUME NEW p \in BitmapBlks, map \subseteq AllBits, NEW o \in 0 .. N - 1
  PROVE  /\ Stored(p, BitmapOn(p) \cup {o}) = map \cup {p + o}
         /\ Stored(p, BitmapOn(p) \ {o}) = map \ {p + o}
<1>1. p \in Nat /\ p + N - 1 \in Nat /\ p <= last_bitmap_blk
  <2>1. p \in Nat /\ p <= last_bitmap_blk
    BY BitmapBlkFacts
  <2> QED BY <2>1, NPositive
<1>2. p + o \in AllBits /\ p + o \in p .. p + N - 1
  BY <1>1, NPositive, LastBitmap DEF AllBits
<1>3. \A x \in AllBits : x \in p .. p + N - 1 => (x - p \in BitmapOn(p) <=> x \in map)
  <2> SUFFICES ASSUME NEW x \in AllBits, x \in p .. p + N - 1
               PROVE  x - p \in BitmapOn(p) <=> x \in map
    OBVIOUS
  <2>1. x - p \in 0 .. N - 1 /\ p + (x - p) = x
    BY <1>1, NPositive
  <2> QED BY <2>1 DEF BitmapOn
<1>4. \A x \in AllBits : x - p = o <=> x = p + o
  BY <1>1, NPositive, LastBitmap DEF AllBits
<1>5. /\ BitmapOn(p) \cup {o} \in SUBSET (0 .. N - 1)
      /\ BitmapOn(p) \ {o} \in SUBSET (0 .. N - 1)
  BY DEF BitmapOn
<1>6. \A x \in AllBits : x \in Stored(p, BitmapOn(p) \cup {o}) <=> x \in map \cup {p + o}
  BY <1>2, <1>3, <1>4, <1>5, StoredIs
<1>7. \A x \in AllBits : x \in Stored(p, BitmapOn(p) \ {o}) <=> x \in map \ {p + o}
  BY <1>2, <1>3, <1>4, <1>5, StoredIs
<1>8. \A img \in SUBSET (0 .. N - 1) : Stored(p, img) \subseteq AllBits
  <2> SUFFICES ASSUME NEW img \in SUBSET (0 .. N - 1) PROVE Stored(p, img) \subseteq AllBits
    OBVIOUS
  <2>1. {} \subseteq map /\ Covers(p, img, {})
    BY DEF Covers
  <2> QED BY <2>1, StoredKeeps
<1> QED BY <1>2, <1>5, <1>6, <1>7, <1>8

\* What is read back of a bitmap block is what was written.
LEMMA StoredOn ==
  ASSUME NEW p \in BitmapBlks, NEW img \in SUBSET (0 .. N - 1), map \subseteq AllBits,
         map' = Stored(p, img)
  PROVE  img = {o \in 0 .. N - 1 : p + o \in map'}
<1>1. p \in Nat /\ p + N - 1 \in Nat /\ p <= last_bitmap_blk
  <2>1. p \in Nat /\ p <= last_bitmap_blk
    BY BitmapBlkFacts
  <2> QED BY <2>1, NPositive
<1>2. ASSUME NEW o \in 0 .. N - 1 PROVE p + o \in map' <=> o \in img
  <2>1. p + o \in AllBits /\ p + o \in p .. p + N - 1 /\ (p + o) - p = o
    BY <1>1, NPositive, LastBitmap DEF AllBits
  <2> QED BY <2>1, StoredIs
<1> QED BY <1>2

\* A write that has not failed.
LEMMA GoodWrite ==
  ASSUME NEW p, NEW img, faults \in Nat, faults' = 0, drive_write_bitmap(p, img)
  PROVE  faults = 0 /\ map' = Stored(p, img) /\ tfs_last_error' = tfs_last_error
  BY DEF drive_write_bitmap, Fault

\* A read that has not failed.
LEMMA GoodRead ==
  ASSUME NEW p, faults \in Nat, faults' = 0, load_bitmap(p)
  PROVE  /\ faults = 0 /\ map' = map /\ tfs_last_error' = tfs_last_error
         /\ bitmap_blk' = {o \in 0 .. N - 1 : p + o \in map'} /\ loaded_bitmap_blk' = p
  BY DEF load_bitmap, Fault, BitmapOn

-----------------------------------------------------------------------------
(* The inductive step, one lemma for each routine.                         *)

\* While a drive is being read the marks on it stay as they are.
LEMMA InitExact ==
  ASSUME IInv, IExact, tfs_init
  PROVE  IExact'
<1>1. pc = "off" /\ pc' = "idle" /\ UNCHANGED <<start, pos, used, ret, owned, formatted, aborted>>
  BY DEF tfs_init, Returned, locals, ghosts
<1>2. faults \in Nat /\ used = -1
  BY <1>1 DEF IInv, TypeOK, IExact, CountExact
<1>3. CountExact' /\ ResultPhase'
  BY <1>1, <1>2 DEF CountExact, ResultPhase
<1>4. ASSUME faults' = 0 PROVE load_bitmap(0)
  BY <1>2, <1>4 DEF tfs_init, TFS_FIRST_BITMAP_BLK
<1>5. ASSUME faults' = 0
      PROVE  /\ faults = 0 /\ map' = map
             /\ bitmap_blk' = {o \in 0 .. N - 1 : 0 + o \in map'} /\ loaded_bitmap_blk' = 0
  BY <1>2, <1>4, <1>5, GoodRead
<1>6. DriveExact' /\ CacheExact' /\ SearchExact'
  BY <1>1, <1>5 DEF IExact, DriveExact, CacheExact, SearchExact, TFS_BITMAP_BLK_INVAL,
     BitmapOn
<1> QED BY <1>3, <1>6 DEF IExact

\* Entering a routine touches neither the drive nor, except in tfs_format, the cache.
LEMMA CallExact ==
  ASSUME IInv, IExact,
         \/ alloc_call
         \/ \E b \in 0 .. BlkCount - 1 : free_call(b)
         \/ format_call
         \/ get_used_call
  PROVE  IExact'
<1>1. TypeOK
  BY DEF IInv
<1>2. CASE alloc_call
  <2>1. /\ pc = "idle" /\ formatted
        /\ UNCHANGED <<map, bitmap_blk, loaded_bitmap_blk, owned, formatted, faults>>
        /\ ret' = 0 /\ used' = -1
        /\ \/ pc' = "idle"
           \/ /\ pc' = "scan" /\ start' = loaded_bitmap_blk /\ pos' = loaded_bitmap_blk
              /\ loaded_bitmap_blk # TFS_BITMAP_BLK_INVAL
    BY <1>2 DEF alloc_call, Enter, ClientMayRun, ram, ghosts
  <2>2. DriveExact' /\ CacheExact' /\ CountExact' /\ ResultPhase'
    BY <2>1 DEF IExact, DriveExact, CacheExact, CountExact, ResultPhase, BitmapOn
  <2>3. pc' = "scan" => Searched' = {}
    <3> SUFFICES ASSUME pc' = "scan" PROVE Searched' = {}
      OBVIOUS
    <3>1. start' = pos' /\ pos' \in Nat
      BY <2>1, <1>1, BitmapBlkFacts DEF TypeOK
    <3>2. \A b \in Blocks : ~(start' <= b /\ b < pos')
      BY <3>1, BlkCountAssumption DEF Blocks
    <3> QED BY <3>1, <3>2 DEF Searched
  <2>4. SearchExact'
    BY <2>1, <2>3 DEF IExact, SearchExact
  <2> QED BY <2>2, <2>4 DEF IExact
<1>3. ASSUME NEW b \in 0 .. BlkCount - 1, free_call(b) PROVE IExact'
  <2>1. /\ pc = "idle" /\ formatted /\ b \in owned /\ owned' = owned \ {b}
        /\ pc' \in {"freeload", "freewrite"} /\ pos' = b /\ ret' = 0 /\ used' = -1
        /\ UNCHANGED <<map, bitmap_blk, loaded_bitmap_blk, formatted, faults>>
    BY <1>3 DEF free_call, Enter, ClientMayRun, ram
  <2>2. DriveExact'
    BY <2>1 DEF IExact, DriveExact
  <2>3. CacheExact' /\ SearchExact' /\ CountExact' /\ ResultPhase'
    BY <2>1 DEF IExact, CacheExact, SearchExact, CountExact, ResultPhase, BitmapOn
  <2> QED BY <2>2, <2>3 DEF IExact
<1>4. CASE format_call
  <2>1. /\ pc = "idle" /\ pc' = "format" /\ pos' = 0 /\ ret' = 0 /\ used' = -1
        /\ UNCHANGED <<map, loaded_bitmap_blk, owned, formatted, faults>>
    BY <1>4 DEF format_call, Enter, TFS_FIRST_BITMAP_BLK
  <2>2. 0 .. pos' - 1 = {}
    BY <2>1
  <2>3. DriveExact'
    BY <2>1, <2>2 DEF IExact, DriveExact
  <2>4. CacheExact' /\ SearchExact' /\ CountExact' /\ ResultPhase'
    BY <2>1 DEF IExact, CacheExact, SearchExact, CountExact, ResultPhase
  <2> QED BY <2>3, <2>4 DEF IExact
<1>5. CASE get_used_call
  <2>1. /\ pc = "idle" /\ pc' = "count" /\ pos' = 0 /\ ret' = 0 /\ used' = 0
        /\ UNCHANGED <<map, bitmap_blk, loaded_bitmap_blk, owned, formatted, faults>>
    BY <1>5 DEF get_used_call, Enter, TFS_FIRST_BITMAP_BLK, ram, ghosts
  <2>2. map' \cap (0 .. pos' - 1) = {}
    BY <2>1
  <2>3. CountExact'
    BY <2>1, <2>2, FS_EmptySet DEF CountExact
  <2>4. DriveExact' /\ CacheExact' /\ SearchExact' /\ ResultPhase'
    BY <2>1 DEF IExact, DriveExact, CacheExact, SearchExact, ResultPhase, BitmapOn
  <2> QED BY <2>3, <2>4 DEF IExact
<1> QED BY <1>2, <1>3, <1>4, <1>5

\* alloc_block marks the block it takes and no other.
LEMMA AllocTakeExact ==
  ASSUME IInv, IExact, alloc_take
  PROVE  /\ IExact'
         /\ faults' = 0 /\ formatted =>
              /\ ret' \in Blocks \ (map \cup BitmapBlks) /\ map' = map \cup {ret'}
              /\ pc' = "idle" /\ tfs_last_error' = "OK"
<1> DEFINE o == Min(FreeOffsets)
<1>1. /\ pc = "scan" /\ Found
      /\ bitmap_blk' = bitmap_blk \cup {o}
      /\ drive_write_bitmap(loaded_bitmap_blk, bitmap_blk')
      /\ UNCHANGED <<loaded_bitmap_blk, start, pos, used, formatted>>
      /\ pc' \in {"idle", "formatroot"}
      /\ tfs_last_error' = "OK" =>
           /\ ret' = pos + o
           /\ formatted => pc' = "idle" /\ owned' = owned \cup {pos + o}
           /\ ~formatted => pc' = "formatroot" /\ owned' = owned
  BY DEF alloc_take, Returned
<1>2. /\ TypeOK /\ pos = loaded_bitmap_blk /\ pos \in BitmapBlks
      /\ tfs_last_error = "OK" /\ formatted \in BOOLEAN
  BY <1>1 DEF IInv, TypeOK, ScanPhase, RunPhase
<1>3. /\ faults \in Nat /\ map \subseteq AllBits
      /\ pos \in Nat /\ pos # TFS_BITMAP_BLK_INVAL
  BY <1>2, BitmapBlkFacts DEF TypeOK, AllBits, TFS_BITMAP_BLK_INVAL
<1>4. o \in 0 .. N - 1 /\ o \notin bitmap_blk /\ pos + o < BlkCount
  <2>1. FreeOffsets \in SUBSET Nat /\ FreeOffsets # {} /\ pos + o < BlkCount
    BY <1>1, NPositive DEF FreeOffsets, Found
  <2>2. o \in FreeOffsets
    BY <2>1, MinFacts
  <2> QED BY <2>1, <2>2 DEF FreeOffsets
<1> HIDE DEF o
<1>5. used = -1
  BY <1>1 DEF IExact, CountExact
<1>6. IInv'
  BY <1>2, AllocTakeStep
<1>7. CountExact' /\ ResultPhase'
  BY <1>1, <1>5 DEF CountExact, ResultPhase
<1>8. SearchExact'
  BY <1>1, <1>2, <1>3 DEF SearchExact
<1>9. ASSUME faults' = 0
      PROVE  /\ DriveExact' /\ CacheExact'
             /\ formatted => /\ ret' \in Blocks \ (map \cup BitmapBlks) /\ map' = map \cup {ret'}
                             /\ pc' = "idle" /\ tfs_last_error' = "OK"
  <2>1. /\ faults = 0 /\ tfs_last_error' = "OK"
        /\ map' = Stored(pos, bitmap_blk')
    BY <1>1, <1>2, <1>3, <1>9, GoodWrite
  <2>2. bitmap_blk = BitmapOn(pos)
    BY <1>1, <1>2, <1>3, <2>1 DEF IExact, CacheExact
  <2>3. map' = map \cup {pos + o}
    BY <1>1, <1>2, <1>3, <1>4, <2>1, <2>2, StoredBit
  <2>4. bitmap_blk' \in SUBSET (0 .. N - 1)
    BY <1>1, <1>2, <1>4 DEF TypeOK
  <2>5. bitmap_blk' = {b \in 0 .. N - 1 : pos + b \in map'}
    BY <1>2, <1>3, <2>1, <2>4, StoredOn
  <2>6. CacheExact'
    BY <1>1, <1>2, <2>5 DEF CacheExact, BitmapOn
  <2>7. CASE formatted
    <3>1. DriveExact'
      BY <1>1, <2>1, <2>3, <2>7 DEF IExact, DriveExact
    <3>2. pos + o \notin map
      BY <1>4, <2>2 DEF BitmapOn
    <3>3. pos + o \in Blocks
      BY <1>3, <1>4, NPositive, BlkCountAssumption DEF Blocks
    <3>4. BitmapBlks \subseteq map
      BY <2>7, HeldIs DEF IInv, Marked, Reserved
    <3> QED BY <1>1, <2>1, <2>3, <2>6, <2>7, <3>1, <3>2, <3>3, <3>4
  <2>8. CASE ~formatted
    <3>1. pc' = "formatroot" /\ ret' = pos + o
      BY <1>1, <2>1, <2>8
    <3>2. pos + o = TFS_ROOT_DIR_BLK
      BY <1>6, <3>1 DEF IInv, FormatPhase
    <3>3. map = BitmapBlks \cup PastEnd
      BY <1>1, <2>1, <2>8 DEF IExact, DriveExact
    <3>4. DriveExact'
      BY <1>1, <2>3, <2>8, <3>1, <3>2, <3>3 DEF DriveExact, Reserved
    <3> QED BY <2>6, <2>8, <3>4
  <2> QED BY <1>2, <2>7, <2>8
<1>10. faults' # 0 => DriveExact' /\ CacheExact'
  BY DEF DriveExact, CacheExact
<1> QED BY <1>7, <1>8, <1>9, <1>10 DEF IExact

\* A bitmap block that the search leaves behind has no free block of the drive.
LEMMA LeftBehind ==
  ASSUME IInv, IExact, faults = 0, pc = "scan", ~Found
  PROVE  \A b \in Blocks : pos <= b /\ b < pos + N => b \in map
<1>1. pos = loaded_bitmap_blk /\ pos \in BitmapBlks
  BY DEF IInv, ScanPhase, RunPhase
<1>2. pos \in Nat /\ pos # TFS_BITMAP_BLK_INVAL
  BY <1>1, BitmapBlkFacts DEF TFS_BITMAP_BLK_INVAL
<1>3. bitmap_blk = BitmapOn(pos)
  BY <1>1, <1>2 DEF IExact, CacheExact
<1> SUFFICES ASSUME NEW b \in Blocks, pos <= b, b < pos + N, b \notin map PROVE FALSE
  OBVIOUS
<1>4. b - pos \in 0 .. N - 1 /\ pos + (b - pos) = b /\ b < BlkCount
  BY <1>2, NPositive, BlkCountAssumption DEF Blocks
<1>5. b - pos \in FreeOffsets /\ FreeOffsets \in SUBSET Nat
  BY <1>3, <1>4, NPositive DEF FreeOffsets, BitmapOn
<1>6. Min(FreeOffsets) \in Nat /\ Min(FreeOffsets) <= b - pos
  BY <1>5, MinFacts
<1>7. pos + Min(FreeOffsets) < BlkCount
  BY <1>2, <1>4, <1>6, BlkCountAssumption
<1> QED BY <1>5, <1>7 DEF Found

\* The search gives up only when it has been all round a full drive.
LEMMA AllocNextExact ==
  ASSUME IInv, IExact, alloc_next
  PROVE  /\ IExact'
         /\ faults' = 0 /\ pc' = "idle" => Blocks \subseteq map /\ tfs_last_error' = "DISK_FULL"
<1>1. /\ pc = "scan" /\ ~Found
      /\ pos' = NextBitmap(pos)
      /\ pc' = IF tfs_last_error' # "OK" THEN "idle" ELSE "scan"
      /\ UNCHANGED <<start, used, ret, owned, formatted>>
  BY DEF alloc_next
<1>2. /\ TypeOK /\ pos = loaded_bitmap_blk /\ pos \in BitmapBlks /\ start \in BitmapBlks
      /\ tfs_last_error = "OK"
  BY <1>1 DEF IInv, ScanPhase, RunPhase, TypeOK
<1>3. formatted
  BY <1>1, RootFound
<1>4. faults \in Nat /\ used = -1 /\ ret = 0
  BY <1>1, <1>2 DEF TypeOK, IExact, CountExact, ResultPhase
<1>5. CountExact' /\ ResultPhase'
  BY <1>1, <1>4 DEF CountExact, ResultPhase
<1>6. faults' # 0 => DriveExact' /\ CacheExact' /\ SearchExact'
  BY <1>1 DEF DriveExact, CacheExact, SearchExact
<1>7. ASSUME faults' = 0
      PROVE  /\ DriveExact' /\ CacheExact' /\ SearchExact'
             /\ pc' = "idle" => Blocks \subseteq map /\ tfs_last_error' = "DISK_FULL"
  <2>1. /\ faults = 0 /\ map' = map
        /\ pos' = start => /\ loaded_bitmap_blk' = TFS_BITMAP_BLK_INVAL
                           /\ tfs_last_error' = "DISK_FULL" /\ pc' = "idle"
        /\ pos' # start => /\ loaded_bitmap_blk' = pos'
                           /\ bitmap_blk' = {o \in 0 .. N - 1 : pos' + o \in map'}
                           /\ tfs_last_error' = "OK" /\ pc' = "scan"
    <3>1. CASE pos' = start
      BY <1>1, <1>4, <1>7, <3>1 DEF alloc_next
    <3>2. CASE pos' # start
      <4>1. load_bitmap(pos')
        BY <3>2 DEF alloc_next
      <4>2. /\ faults = 0 /\ map' = map /\ tfs_last_error' = tfs_last_error
            /\ bitmap_blk' = {o \in 0 .. N - 1 : pos' + o \in map'} /\ loaded_bitmap_blk' = pos'
        BY <1>4, <1>7, <4>1 DEF load_bitmap, Fault, BitmapOn
      <4> QED BY <1>1, <1>2, <3>2, <4>2
    <3> QED BY <3>1, <3>2
  <2>2. /\ pos \in Nat /\ start \in Nat /\ pos <= last_bitmap_blk /\ start <= last_bitmap_blk
        /\ (pos < start => pos + N <= start)
        /\ last_bitmap_blk \in Nat /\ BlkCount <= last_bitmap_blk + N
    <3>1. /\ pos \in Nat /\ start \in Nat /\ pos <= last_bitmap_blk /\ start <= last_bitmap_blk
          /\ (pos < start => pos + N <= start)
      BY <1>2, BitmapBlkFacts
    <3> QED BY <3>1, LastBitmap, NPositive
  <2>3. pos' = IF pos = last_bitmap_blk THEN 0 ELSE pos + N
    BY <1>1 DEF NextBitmap, TFS_FIRST_BITMAP_BLK
  <2>4. \A b \in Blocks : b \in Searched \/ (pos <= b /\ b < pos + N) => b \in map
    <3>1. Searched \subseteq map
      BY <1>1, <1>3, <2>1 DEF IExact, SearchExact
    <3> QED BY <1>1, <2>1, <3>1, LeftBehind
  <2>5. \A b \in Blocks : b \in Nat /\ b < last_bitmap_blk + N
    BY <2>2, BlkCountAssumption, NPositive DEF Blocks
  <2>6. \A b \in Blocks : b \in Searched <=> IF start <= pos THEN start <= b /\ b < pos
                                                            ELSE start <= b \/ b < pos
    BY DEF Searched
  <2>7. pos' = start => Blocks \subseteq map
    <3> SUFFICES ASSUME pos' = start, NEW b \in Blocks PROVE b \in map
      OBVIOUS
    <3>1. b \in Searched \/ (pos <= b /\ b < pos + N)
      BY <2>2, <2>3, <2>5, <2>6, NPositive
    <3> QED BY <3>1, <2>4
  <2>8. pos' # start => Searched' \subseteq map
    <3> SUFFICES ASSUME pos' # start, NEW b \in Searched' PROVE b \in map
      OBVIOUS
    <3>1. b \in Blocks /\ IF start <= pos' THEN start <= b /\ b < pos' ELSE start <= b \/ b < pos'
      BY <1>1 DEF Searched, Blocks
    <3>2. b \in Searched \/ (pos <= b /\ b < pos + N)
      BY <2>2, <2>3, <2>5, <2>6, <3>1, NPositive
    <3> QED BY <3>1, <3>2, <2>4
  <2>9. DriveExact' /\ CacheExact'
    <3>1. map = owned \cup PastEnd /\ owned' = owned /\ map' = map /\ formatted' /\ pc' \in {"idle", "scan"}
      BY <1>1, <1>3, <2>1 DEF IExact, DriveExact
    <3>2. DriveExact'
      BY <3>1 DEF DriveExact
    <3>3. CacheExact'
      BY <2>1 DEF CacheExact, BitmapOn
    <3> QED BY <3>2, <3>3
  <2>10. pos' # start => loaded_bitmap_blk' # TFS_BITMAP_BLK_INVAL
    BY <2>1, <2>2, <2>3, NPositive DEF TFS_BITMAP_BLK_INVAL
  <2>11. SearchExact'
    BY <1>3, <2>1, <2>7, <2>8, <2>10 DEF SearchExact
  <2> QED BY <2>1, <2>7, <2>9, <2>11
<1> QED BY <1>5, <1>6, <1>7 DEF IExact

\* free_block reads the bitmap block of the block given up,
LEMMA FreeLoadExact ==
  ASSUME IInv, IExact, free_load
  PROVE  IExact'
<1>1. /\ pc = "freeload" /\ load_bitmap(GET_BITMAP_BLK(pos)) /\ pc' \in {"idle", "freewrite"}
      /\ pc' = "idle" => tfs_last_error' # "OK"
      /\ UNCHANGED <<start, pos, used, ret, owned, formatted>>
  BY DEF free_load, locals, ghosts
<1>2. /\ faults \in Nat /\ used = -1 /\ ret = 0 /\ formatted /\ tfs_last_error = "OK"
      /\ pos \in Nat
  BY <1>1, BlkCountAssumption DEF IInv, TypeOK, FreePhase, RunPhase, IExact, CountExact, ResultPhase
<1>3. CountExact' /\ ResultPhase'
  BY <1>1, <1>2 DEF CountExact, ResultPhase
<1>4. ASSUME faults' = 0
      PROVE  /\ faults = 0 /\ map' = map /\ bitmap_blk' = BitmapOn(loaded_bitmap_blk)'
             /\ loaded_bitmap_blk' # TFS_BITMAP_BLK_INVAL /\ pc' = "freewrite"
  <2>1. /\ faults = 0 /\ map' = map /\ tfs_last_error' = "OK"
        /\ loaded_bitmap_blk' = GET_BITMAP_BLK(pos)
        /\ bitmap_blk' = BitmapOn(GET_BITMAP_BLK(pos))
    BY <1>1, <1>2, <1>4 DEF load_bitmap, Fault
  <2>2. GET_BITMAP_BLK(pos) \in Nat
    BY <1>2, GetBitmap
  <2> QED BY <1>1, <2>1, <2>2 DEF BitmapOn, TFS_BITMAP_BLK_INVAL
<1>5. DriveExact' /\ CacheExact' /\ SearchExact'
  BY <1>1, <1>2, <1>4 DEF IExact, DriveExact, CacheExact, SearchExact
<1> QED BY <1>3, <1>5 DEF IExact

\* and clears its bit only.
LEMMA FreeWriteExact ==
  ASSUME IInv, IExact, free_write
  PROVE  /\ IExact'
         /\ faults' = 0 => /\ map' = map \ {pos} /\ pos \in map \cap Blocks /\ pos \notin Reserved
                           /\ tfs_last_error' = "OK"
<1>1. /\ pc = "freewrite" /\ pc' = "idle"
      /\ bitmap_blk' = bitmap_blk \ {pos % N}
      /\ drive_write_bitmap(loaded_bitmap_blk, bitmap_blk')
      /\ UNCHANGED <<loaded_bitmap_blk, start, pos, used, ret, owned, formatted>>
  BY DEF free_write, Returned, FreedOffset, locals, ghosts
<1>2. /\ TypeOK /\ tfs_last_error = "OK" /\ formatted /\ used = -1
      /\ pos \notin owned \cup Reserved /\ pos \in Blocks
      /\ loaded_bitmap_blk = GET_BITMAP_BLK(pos)
  BY <1>1 DEF IInv, TypeOK, FreePhase, RunPhase, IExact, CountExact, Blocks
<1>3. /\ pos \in Nat /\ pos = GET_BITMAP_BLK(pos) + (pos % N) /\ GET_BITMAP_BLK(pos) \in Nat
      /\ pos % N \in 0 .. N - 1
  BY <1>2, BlkCountAssumption, GetBitmap DEF Blocks
<1>4. /\ loaded_bitmap_blk \in BitmapBlks /\ loaded_bitmap_blk # TFS_BITMAP_BLK_INVAL
      /\ faults \in Nat /\ map \subseteq AllBits /\ bitmap_blk' \in SUBSET (0 .. N - 1)
  <2>1. loaded_bitmap_blk # TFS_BITMAP_BLK_INVAL
    BY <1>2, <1>3 DEF TFS_BITMAP_BLK_INVAL
  <2>2. loaded_bitmap_blk \in BitmapBlks
    BY <1>2, <2>1 DEF TypeOK
  <2>3. faults \in Nat /\ map \subseteq AllBits
    BY <1>2 DEF TypeOK, AllBits
  <2>4. bitmap_blk' \in SUBSET (0 .. N - 1)
    BY <1>1, <1>2 DEF TypeOK
  <2> QED BY <2>1, <2>2, <2>3, <2>4
<1>5. CountExact' /\ ResultPhase'
  BY <1>1, <1>2 DEF CountExact, ResultPhase
<1>6. SearchExact'
  BY <1>1, <1>4 DEF SearchExact
<1>7. ASSUME faults' = 0
      PROVE  /\ DriveExact' /\ CacheExact'
             /\ map' = map \ {pos} /\ pos \in map \cap Blocks /\ pos \notin Reserved
             /\ tfs_last_error' = "OK"
  <2>1. faults = 0 /\ map' = Stored(loaded_bitmap_blk, bitmap_blk') /\ tfs_last_error' = "OK"
    BY <1>1, <1>2, <1>4, <1>7, GoodWrite
  <2>2. bitmap_blk = BitmapOn(loaded_bitmap_blk)
    BY <1>1, <1>4, <2>1 DEF IExact, CacheExact
  <2>3. map' = map \ {pos}
    BY <1>1, <1>2, <1>3, <1>4, <2>1, <2>2, StoredBit
  <2>4. bitmap_blk' = {o \in 0 .. N - 1 : loaded_bitmap_blk + o \in map'}
    BY <1>4, <2>1, StoredOn DEF BitmapOn
  <2>5. CacheExact'
    BY <1>1, <2>4 DEF CacheExact, BitmapOn
  <2>6. map = owned \cup PastEnd \cup {pos}
    BY <1>1, <2>1 DEF IExact, DriveExact
  <2>7. pos \notin owned \cup PastEnd
    BY <1>2, BlkCountAssumption DEF PastEnd, Blocks
  <2>8. DriveExact'
    BY <1>1, <1>2, <2>1, <2>3, <2>6, <2>7 DEF DriveExact
  <2> QED BY <1>2, <2>1, <2>3, <2>5, <2>6, <2>8
<1>8. faults' # 0 => DriveExact' /\ CacheExact'
  BY DEF DriveExact, CacheExact
<1> QED BY <1>5, <1>6, <1>7, <1>8 DEF IExact

\* The marks in a bitmap block are those of the blocks it describes.
LEMMA CountBlock ==
  ASSUME NEW p \in Nat
  PROVE  /\ IsFiniteSet(map \cap (p .. p + N - 1))
         /\ Cardinality(BitmapOn(p)) = Cardinality(map \cap (p .. p + N - 1))
<1> DEFINE S == BitmapOn(p)
           T == map \cap (p .. p + N - 1)
           f == [o \in S |-> p + o]
<1>1. IsFiniteSet(S)
  <2>1. IsFiniteSet(0 .. N - 1)
    BY FS_Interval, NPositive
  <2>2. S \in SUBSET (0 .. N - 1)
    BY DEF BitmapOn
  <2> QED BY <2>1, <2>2, FS_Subset
<1>2. \A o \in S : p + o \in T /\ o \in Nat
  BY NPositive DEF BitmapOn
<1>3. \A x \in T : x - p \in S /\ p + (x - p) = x
  BY NPositive DEF BitmapOn
<1> HIDE DEF S, T
<1>4. f \in [S -> T]
  BY <1>2
<1>5. \A a, b \in S : f[a] = f[b] => a = b
  BY <1>2
<1>6. \A t \in T : \E s \in S : f[s] = t
  BY <1>3
<1>7. f \in Bijection(S, T)
  BY <1>4, <1>5, <1>6 DEF Bijection, Injection, Surjection, IsInjective
<1>8. ExistsBijection(S, T)
  BY <1>7 DEF ExistsBijection
<1>9. IsFiniteSet(T) /\ Cardinality(T) = Cardinality(S)
  BY <1>1, <1>8, FS_Bijection
<1> QED BY <1>9 DEF S, T

\* Counting goes on where it stopped.
LEMMA CountOn ==
  ASSUME NEW p \in Nat, NEW q \in Nat, p <= q
  PROVE  /\ IsFiniteSet(map \cap (0 .. q - 1))
         /\ Cardinality(map \cap (0 .. q - 1)) \in Nat
         /\ IsFiniteSet(map \cap (p .. q - 1))
         /\ Cardinality(map \cap (p .. q - 1)) \in Nat
         /\ Cardinality(map \cap (0 .. q - 1))
              = Cardinality(map \cap (0 .. p - 1)) + Cardinality(map \cap (p .. q - 1))
<1> DEFINE A == map \cap (0 .. p - 1)
           B == map \cap (p .. q - 1)
<1>1. IsFiniteSet(0 .. p - 1) /\ IsFiniteSet(p .. q - 1)
  BY FS_Interval
<1>2. IsFiniteSet(A) /\ IsFiniteSet(B)
  BY <1>1, FS_Intersection
<1>3. A \cap B = {} /\ map \cap (0 .. q - 1) = A \cup B
  OBVIOUS
<1> HIDE DEF A, B
<1>4. /\ IsFiniteSet(A \cup B)
      /\ Cardinality(A \cup B) = Cardinality(A) + Cardinality(B) - Cardinality(A \cap B)
  BY <1>2, FS_Union
<1>5. Cardinality(A) \in Nat /\ Cardinality(B) \in Nat /\ Cardinality(A \cap B) = 0
  BY <1>2, <1>3, FS_CardinalityType, FS_EmptySet
<1>6. Cardinality(A \cup B) = Cardinality(A) + Cardinality(B) /\ Cardinality(A \cup B) \in Nat
  BY <1>4, <1>5
<1> QED BY <1>2, <1>3, <1>4, <1>5, <1>6 DEF A, B

\* Of the marks in all bitmap blocks, those past the end are taken off.
LEMMA CountAll ==
  ASSUME PastEnd \subseteq map
  PROVE  Cardinality(map \cap (0 .. (last_bitmap_blk + N) - 1)) - PastEndBits
           = Cardinality(map \cap Blocks)
<1> DEFINE E == BlkCount .. (last_bitmap_blk + N) - 1
<1>1. /\ BlkCount \in Nat /\ last_bitmap_blk + N \in Nat /\ BlkCount <= last_bitmap_blk + N
      /\ (last_bitmap_blk + N) - BlkCount = PastEndBits
      /\ last_bitmap_blk + N - 1 = (last_bitmap_blk + N) - 1
  BY LastBitmap, NPositive, BlkCountAssumption DEF PastEndBits
<1>2. map \cap E = E
  BY <1>1, Zenon DEF PastEnd
<1>3. Cardinality(E) = PastEndBits /\ PastEndBits \in Int
  <2>1. BlkCount \in Int /\ (last_bitmap_blk + N) - 1 \in Int
    BY <1>1
  <2>2. Cardinality(E) = IF BlkCount > (last_bitmap_blk + N) - 1 THEN 0
                         ELSE (last_bitmap_blk + N) - 1 - BlkCount + 1
    BY <2>1, FS_Interval, Zenon
  <2> HIDE DEF E
  <2> QED BY <1>1, <2>2
<1>4. /\ Cardinality(map \cap Blocks) \in Nat
      /\ Cardinality(map \cap (0 .. (last_bitmap_blk + N) - 1))
           = Cardinality(map \cap Blocks) + Cardinality(map \cap E)
  <2>1. 0 \in Nat /\ 0 <= BlkCount
    BY <1>1
  <2>2. Cardinality(map \cap (0 .. BlkCount - 1)) \in Nat
    BY <1>1, <2>1, CountOn, Zenon
  <2>3. Cardinality(map \cap (0 .. (last_bitmap_blk + N) - 1))
          = Cardinality(map \cap (0 .. BlkCount - 1)) + Cardinality(map \cap E)
    BY <1>1, CountOn, Zenon
  <2> QED BY <2>2, <2>3, Zenon DEF Blocks
<1>5. \A b, c \in Int : (b + c) - c = b
  OBVIOUS
<1>6. (Cardinality(map \cap Blocks) + PastEndBits) - PastEndBits = Cardinality(map \cap Blocks)
  BY <1>3, <1>4, <1>5
<1>7. Cardinality(map \cap E) = PastEndBits
  BY <1>2, <1>3, Zenon
<1>8. Cardinality(map \cap (0 .. (last_bitmap_blk + N) - 1))
        = Cardinality(map \cap Blocks) + PastEndBits
  BY <1>4, <1>7, Zenon
<1> QED BY <1>6, <1>8, Zenon

\* tfs_get_used counts the marks of one bitmap block after the other.
LEMMA CountLoadExact ==
  ASSUME IInv, IExact, get_used_load
  PROVE  IExact'
<1>1. /\ pc = "count" /\ load_bitmap(pos) /\ pc' \in {"idle", "count", "countdone"}
      /\ UNCHANGED <<start, ret, owned, formatted>>
  BY DEF get_used_load, Returned, ghosts
<1>2. /\ TypeOK /\ faults \in Nat /\ tfs_last_error = "OK" /\ pos \in BitmapBlks
      /\ formatted \in BOOLEAN
  BY <1>1 DEF IInv, TypeOK, RunPhase
<1>3. /\ pos \in Nat /\ pos <= last_bitmap_blk /\ pos # TFS_BITMAP_BLK_INVAL /\ pos + N \in Nat
      /\ last_bitmap_blk \in Nat
  <2>1. pos \in Nat /\ pos <= last_bitmap_blk
    BY <1>2, BitmapBlkFacts
  <2> QED BY <2>1, NPositive, LastBitmap DEF TFS_BITMAP_BLK_INVAL
<1>4. ResultPhase' /\ map' = map
  BY <1>1 DEF ResultPhase, load_bitmap
<1>5. DriveExact'
  <2>1. pc' \notin {"freeload", "freewrite", "format", "formatload", "scan", "formatroot"}
    BY <1>1
  <2>2. faults' = 0 => faults = 0
    BY <1>1, <1>2, GoodRead
  <2>3. faults = 0 /\ formatted => map = owned \cup PastEnd
    BY <1>1 DEF IExact, DriveExact
  <2> QED BY <1>1, <1>4, <2>1, <2>2, <2>3 DEF DriveExact
<1>6. CacheExact' /\ SearchExact'
  <2>1. ASSUME faults' = 0
        PROVE  /\ faults = 0 /\ loaded_bitmap_blk' = pos
               /\ bitmap_blk' = {o \in 0 .. N - 1 : loaded_bitmap_blk' + o \in map'}
    BY <1>1, <1>2, <2>1, GoodRead
  <2>2. CacheExact'
    BY <2>1 DEF CacheExact, BitmapOn
  <2>3. SearchExact'
    BY <1>1, <1>3, <2>1 DEF SearchExact
  <2> QED BY <2>2, <2>3
<1>7. CountExact'
  <2>1. CASE tfs_last_error' # "OK"
    <3>1. used' = -1 /\ pc' = "idle"
      BY <1>1, <2>1 DEF get_used_load, Returned
    <3> QED BY <3>1 DEF CountExact
  <2>2. CASE tfs_last_error' = "OK"
    <3>1. bitmap_blk' = BitmapOn(pos)
      BY <1>1, <2>2 DEF load_bitmap, Fault
    <3>2. CASE ~formatted
      BY <1>1, <3>2 DEF CountExact
    <3>3. CASE formatted
      <4>1. used = Cardinality(map \cap (0 .. pos - 1))
        BY <1>1, <3>3 DEF IExact, CountExact
      <4>2. Cardinality(bitmap_blk') = Cardinality(map \cap (pos .. (pos + N) - 1))
        <5>1. pos + N - 1 = (pos + N) - 1
          BY <1>3, NPositive
        <5> QED BY <1>3, <3>1, <5>1, CountBlock, Zenon
      <4>3. pos <= pos + N
        BY <1>3, NPositive
      <4>4. used + Cardinality(bitmap_blk') = Cardinality(map \cap (0 .. (pos + N) - 1))
        <5>1. pos \in Nat /\ pos + N \in Nat
          BY <1>3, NPositive
        <5>2. Cardinality(map \cap (0 .. (pos + N) - 1))
                = Cardinality(map \cap (0 .. pos - 1)) + Cardinality(map \cap (pos .. (pos + N) - 1))
          BY <5>1, <4>3, CountOn, Zenon
        <5> QED BY <4>1, <4>2, <5>2
      <4>5. CASE pos = last_bitmap_blk
        <5>1. used' = used + Cardinality(bitmap_blk') - PastEndBits /\ pc' = "countdone"
          BY <1>1, <2>2, <4>5 DEF get_used_load
        <5>2. PastEnd \subseteq map
          BY <3>3, HeldIs DEF IInv, Marked
        <5>3. used + Cardinality(bitmap_blk') = Cardinality(map \cap (0 .. (last_bitmap_blk + N) - 1))
          BY <4>4, <4>5
        <5>4. (used + Cardinality(bitmap_blk')) - PastEndBits = Cardinality(map \cap Blocks)
          BY <5>2, <5>3, CountAll, Zenon
        <5>5. used \in Int /\ Cardinality(bitmap_blk') \in Int /\ PastEndBits \in Int
          <6>1. BitmapOn(pos) \in SUBSET (0 .. N - 1)
            BY DEF BitmapOn
          <6>2. Cardinality(bitmap_blk') \in Nat
            BY <3>1, <6>1, CountType
          <6> QED BY <1>2, <6>2, LastBitmap, NPositive DEF TypeOK, PastEndBits
        <5>6. used' = (used + Cardinality(bitmap_blk')) - PastEndBits
          BY <5>1, <5>5
        <5>7. used' = Cardinality(map \cap Blocks)
          BY <5>4, <5>6, Zenon
        <5> QED BY <1>1, <1>4, <5>1, <5>7 DEF CountExact, Blocks
      <4>6. CASE pos # last_bitmap_blk
        <5>1. used' = used + Cardinality(bitmap_blk') /\ pc' = "count" /\ pos' = pos + N
          BY <1>1, <2>2, <4>6 DEF get_used_load
        <5>2. used' = Cardinality(map' \cap (0 .. pos' - 1))
          BY <1>4, <4>4, <5>1
        <5> QED BY <5>1, <5>2 DEF CountExact
      <4> QED BY <4>5, <4>6
    <3> QED BY <1>2, <3>2, <3>3
  <2> QED BY <2>1, <2>2
<1> QED BY <1>4, <1>5, <1>6, <1>7 DEF IExact

\* It reads the first bitmap block again and returns the count.
LEMMA CountDoneExact ==
  ASSUME IInv, IExact, get_used_done
  PROVE  IExact'
<1>1. /\ pc = "countdone" /\ load_bitmap(0) /\ pc' = "idle" /\ map' = map
      /\ UNCHANGED <<start, pos, used, ret, owned, formatted>>
  BY DEF get_used_done, Returned, locals, ghosts, TFS_FIRST_BITMAP_BLK, load_bitmap
<1>2. faults \in Nat
  BY DEF IInv, TypeOK
<1>3. ASSUME faults' = 0
      PROVE  /\ faults = 0 /\ loaded_bitmap_blk' = 0
             /\ bitmap_blk' = {o \in 0 .. N - 1 : 0 + o \in map'}
  BY <1>1, <1>2, <1>3, GoodRead
<1>4. CountExact' /\ ResultPhase'
  <2>1. used # -1 /\ formatted => used = Cardinality(map \cap Blocks)
    BY <1>1 DEF IExact, CountExact
  <2> QED BY <1>1, <2>1 DEF CountExact, ResultPhase, Blocks
<1>5. DriveExact' /\ CacheExact' /\ SearchExact'
  BY <1>1, <1>3 DEF IExact, DriveExact, CacheExact, SearchExact, BitmapOn, TFS_BITMAP_BLK_INVAL
<1> QED BY <1>4, <1>5 DEF IExact

\* A bitmap block describes itself and no other bitmap block.
LEMMA OnlyItself ==
  ASSUME NEW p \in BitmapBlks, NEW x \in p .. p + N - 1
  PROVE  x \in BitmapBlks <=> x = p
<1>1. p \in Nat /\ p % N = 0
  BY BitmapBlkFacts
<1>2. x - p \in 0 .. N - 1 /\ p + (x - p) = x
  BY <1>1, NPositive
<1>3. x % N = x - p
  <2>1. (p + (x - p)) % N = x - p
    BY <1>1, <1>2, AlignedOffset
  <2> QED BY <1>2, <2>1
<1>4. ASSUME x \in BitmapBlks PROVE x = p
  <2>1. x % N = 0
    BY <1>4, BitmapBlkFacts
  <2> QED BY <1>1, <1>2, <1>3, <2>1
<1> QED BY <1>4

\* Up to the bitmap block tfs_format has just stored, the drive has only the marks of
\* the bitmap blocks and of the bits past its end.
LEMMA FormatMarks ==
  ASSUME IInv, IExact, faults = 0, pc = "format", map' = Stored(pos, FormatImage(pos))
  PROVE  \A x \in AllBits : x < pos + N =>
           (x \in map' <=> x \in BitmapBlks \/ (pos = last_bitmap_blk /\ x \in PastEnd))
<1> DEFINE img == FormatImage(pos)
<1>1. TypeOK /\ pos \in BitmapBlks /\ bitmap_blk = {0} /\ map \subseteq AllBits
  BY DEF IInv, FormatPhase, RunPhase, TypeOK, AllBits
<1>2. pos \in Nat /\ pos < BlkCount /\ pos <= last_bitmap_blk
  BY <1>1, BitmapBlkFacts
<1>3. /\ last_bitmap_blk \in Nat /\ last_bitmap_len \in 1 .. N /\ BlkCount \in Nat
      /\ last_bitmap_blk + last_bitmap_len = BlkCount
  BY LastBitmap, BlkCountAssumption
<1>4. \A o : o \in img <=> o = 0 \/ (pos = last_bitmap_blk /\ o \in last_bitmap_len .. N - 1)
  BY <1>1 DEF FormatImage
<1>5. img \in SUBSET (0 .. N - 1)
  BY <1>3, <1>4, NPositive
<1> HIDE DEF img
<1>6. \A x \in AllBits : x \in map' <=> IF x \in pos .. pos + N - 1 THEN x - pos \in img
                                                                  ELSE x \in map
  BY <1>1, <1>5, StoredIs DEF img
<1> SUFFICES ASSUME NEW x \in AllBits, x < pos + N
             PROVE  x \in map' <=> x \in BitmapBlks \/ (pos = last_bitmap_blk /\ x \in PastEnd)
  OBVIOUS
<1>7. x \in Nat /\ x <= last_bitmap_blk + N - 1
  BY <1>3, NPositive DEF AllBits
<1>8. CASE x < pos
  <2>1. x \in 0 .. pos - 1 /\ x \notin pos .. pos + N - 1 /\ x \notin PastEnd
    BY <1>2, <1>3, <1>7, <1>8 DEF PastEnd
  <2>2. x \in map <=> x \in BitmapBlks
    BY <2>1 DEF IExact, DriveExact
  <2> QED BY <1>6, <2>1, <2>2
<1>9. CASE ~(x < pos)
  <2>1. x \in pos .. pos + N - 1 /\ (x - pos = 0 <=> x = pos)
    BY <1>2, <1>7, <1>9, NPositive
  <2>2. pos = last_bitmap_blk => (x - pos \in last_bitmap_len .. N - 1 <=> x \in PastEnd)
    BY <1>2, <1>3, <1>7, <2>1, NPositive DEF PastEnd
  <2>3. x \in BitmapBlks <=> x = pos
    BY <1>1, <2>1, OnlyItself
  <2> QED BY <1>4, <1>6, <2>1, <2>2, <2>3
<1> QED BY <1>8, <1>9

\* tfs_format leaves no other marks behind.
LEMMA FormatWriteExact ==
  ASSUME IInv, IExact, format_write
  PROVE  /\ IExact'
         /\ faults' = 0 => ~formatted'
<1>1. /\ pc = "format"
      /\ bitmap_blk' = FormatImage(pos)
      /\ drive_write_bitmap(pos, bitmap_blk')
      /\ pc' \in {"idle", "formatload", "format"}
      /\ UNCHANGED <<loaded_bitmap_blk, start, used, ret>>
  BY DEF format_write
<1>2. TypeOK /\ pos \in BitmapBlks /\ tfs_last_error = "OK" /\ faults \in Nat /\ IInv'
  BY <1>1, FormatWriteStep DEF IInv, RunPhase, TypeOK
<1>3. used = -1 /\ ret = 0
  BY <1>1 DEF IExact, CountExact, ResultPhase
<1>4. CountExact' /\ ResultPhase'
  BY <1>1, <1>3 DEF CountExact, ResultPhase
<1>5. faults' # 0 => DriveExact' /\ CacheExact' /\ SearchExact'
  BY <1>1 DEF DriveExact, CacheExact, SearchExact
<1>6. ASSUME faults' = 0
      PROVE  DriveExact' /\ CacheExact' /\ SearchExact' /\ ~formatted'
  <2>1. faults = 0 /\ map' = Stored(pos, FormatImage(pos)) /\ tfs_last_error' = "OK"
    BY <1>1, <1>2, <1>6, GoodWrite
  <2>2. /\ ~formatted'
        /\ pos = last_bitmap_blk => pc' = "formatload" /\ pos' = pos
        /\ pos # last_bitmap_blk => pc' = "format" /\ pos' = pos + N
    BY <2>1 DEF format_write
  <2>3. CacheExact' /\ SearchExact'
    BY <2>2 DEF CacheExact, SearchExact
  <2>4. \A x \in AllBits : x < pos + N =>
          (x \in map' <=> x \in BitmapBlks \/ (pos = last_bitmap_blk /\ x \in PastEnd))
    BY <1>1, <2>1, FormatMarks
  <2>5. /\ pos \in Nat /\ map' \subseteq AllBits /\ BitmapBlks \subseteq AllBits
        /\ PastEnd \subseteq AllBits /\ last_bitmap_blk \in Nat /\ pos <= last_bitmap_blk
        /\ pos # last_bitmap_blk => pos + N <= last_bitmap_blk
    <3>1. pos \in Nat /\ pos <= last_bitmap_blk
          /\ (pos # last_bitmap_blk => pos + N \in BitmapBlks)
      BY <1>2, BitmapBlkFacts
    <3>2. pos # last_bitmap_blk => pos + N <= last_bitmap_blk
      BY <3>1, BitmapBlkFacts
    <3>3. \A p \in BitmapBlks : p \in Nat /\ p <= last_bitmap_blk
      BY BitmapBlkFacts
    <3>4. BitmapBlks \subseteq AllBits
      BY <3>3, LastBitmap, NPositive DEF AllBits
    <3>5. PastEnd \subseteq AllBits
      BY BlkCountAssumption, LastBitmap, NPositive DEF PastEnd, AllBits
    <3>6. map' \subseteq AllBits
      BY <1>2 DEF IInv, TypeOK, AllBits
    <3> QED BY <3>1, <3>2, <3>4, <3>5, <3>6, LastBitmap
  <2>6. CASE pos = last_bitmap_blk
    <3>1. \A x \in AllBits : x < pos + N
      BY <2>5, <2>6, NPositive DEF AllBits
    <3>2. map' = BitmapBlks \cup PastEnd
      BY <2>4, <2>5, <2>6, <3>1
    <3> QED BY <2>2, <2>3, <2>6, <3>2 DEF DriveExact
  <2>7. CASE pos # last_bitmap_blk
    <3>1. ASSUME NEW x \in 0 .. pos' - 1 PROVE x \in AllBits /\ x < pos + N
      BY <2>2, <2>5, <2>7, NPositive DEF AllBits
    <3>2. map' \cap (0 .. pos' - 1) = BitmapBlks \cap (0 .. pos' - 1)
      BY <2>4, <2>7, <3>1
    <3> QED BY <2>2, <2>3, <2>7, <3>2 DEF DriveExact
  <2> QED BY <2>6, <2>7
<1> QED BY <1>4, <1>5, <1>6 DEF IExact

\* It reads the first bitmap block back,
LEMMA FormatLoadExact ==
  ASSUME IInv, IExact, format_load
  PROVE  IExact'
<1>1. /\ pc = "formatload" /\ load_bitmap(0) /\ pc' \in {"idle", "scan"} /\ map' = map
      /\ UNCHANGED <<used, ret, owned, formatted>>
  BY DEF format_load, Returned, TFS_FIRST_BITMAP_BLK, load_bitmap
<1>2. faults \in Nat /\ ~formatted /\ used = -1 /\ ret = 0
  BY <1>1 DEF IInv, TypeOK, FormatPhase, IExact, CountExact, ResultPhase
<1>3. ASSUME faults' = 0
      PROVE  /\ faults = 0 /\ loaded_bitmap_blk' = 0
             /\ bitmap_blk' = {o \in 0 .. N - 1 : 0 + o \in map'}
  BY <1>1, <1>2, <1>3, GoodRead
<1>4. DriveExact' /\ CacheExact' /\ SearchExact'
  BY <1>1, <1>2, <1>3 DEF IExact, DriveExact, CacheExact, SearchExact, BitmapOn
<1>5. CountExact' /\ ResultPhase'
  BY <1>1, <1>2 DEF CountExact, ResultPhase
<1> QED BY <1>4, <1>5 DEF IExact

\* and clears the root directory block, which completes the file system.
LEMMA FormatRootExact ==
  ASSUME IInv, IExact, format_root
  PROVE  /\ IExact'
         /\ faults' = 0 => /\ map = Reserved \cup PastEnd /\ formatted'
                           /\ ret' = 0 /\ pc' = "idle" /\ tfs_last_error' = "OK"
<1>1. /\ pc = "formatroot" /\ pc' = "idle" /\ ret' = 0
      /\ UNCHANGED <<map, bitmap_blk, loaded_bitmap_blk, start, pos, used>>
  BY DEF format_root, Returned, ram
<1>2. /\ faults \in Nat /\ used = -1 /\ ret = TFS_ROOT_DIR_BLK /\ tfs_last_error = "OK"
      /\ loaded_bitmap_blk # TFS_BITMAP_BLK_INVAL
  BY <1>1 DEF IInv, TypeOK, FormatPhase, RunPhase, IExact, CountExact, SearchExact
<1>3. ASSUME faults' = 0
      PROVE  faults = 0 /\ owned' = Reserved /\ formatted' /\ tfs_last_error' = "OK"
  BY <1>1, <1>2, <1>3 DEF format_root, Fault, Reserved
<1>4. faults' = 0 => map = Reserved \cup PastEnd
  BY <1>1, <1>3 DEF IExact, DriveExact
<1>5. DriveExact'
  BY <1>1, <1>3, <1>4 DEF DriveExact
<1>6. CacheExact' /\ SearchExact'
  BY <1>1, <1>2, <1>3 DEF IExact, CacheExact, SearchExact, BitmapOn
<1>7. CountExact' /\ ResultPhase'
  BY <1>1, <1>2 DEF CountExact, ResultPhase
<1> QED BY <1>1, <1>3, <1>4, <1>5, <1>6, <1>7 DEF IExact

-----------------------------------------------------------------------------
(* The invariant and what follows from it.                                 *)

\* A drive fresh from the factory promises nothing yet.
LEMMA InitIExact ==
  ASSUME Init PROVE IExact
  BY DEF Init, IExact, DriveExact, CacheExact, SearchExact, CountExact, ResultPhase

\* Every step keeps what is exact exact.
LEMMA ExactInductive ==
  ASSUME IInv, IExact, [Next]_vars
  PROVE  IExact'
<1>1. CASE UNCHANGED vars
  <2>1. DriveExact' /\ CacheExact'
    BY <1>1 DEF IExact, DriveExact, CacheExact, vars, BitmapOn
  <2>2. Searched' = Searched
    BY <1>1 DEF Searched, Blocks, vars
  <2>3. SearchExact' /\ CountExact' /\ ResultPhase'
    BY <1>1, <2>2 DEF IExact, SearchExact, CountExact, ResultPhase, Blocks, vars
  <2> QED BY <2>1, <2>3 DEF IExact
<1>2. CASE Call
  BY <1>1, <1>2, InitExact, CallExact DEF Call, no_dev_call
<1>3. CASE Step
  BY <1>3, AllocTakeExact, AllocNextExact, FreeLoadExact, FreeWriteExact,
     FormatWriteExact, FormatLoadExact, FormatRootExact, CountLoadExact, CountDoneExact DEF Step
<1>4. CASE PowerLoss
  <2>1. faults' # 0 /\ pc' = "off" /\ used' = -1
    BY <1>4 DEF PowerLoss, IInv, TypeOK
  <2> QED BY <2>1 DEF IExact, DriveExact, CacheExact, SearchExact, CountExact, ResultPhase
<1> QED BY <1>1, <1>2, <1>3, <1>4 DEF Next

\* While no transfer fails the marks on the drive, the cached bitmap block, what a
\* search has seen and what tfs_get_used has counted are exact.
THEOREM Exact ==
  ASSUME UseAfterFailedFormat = FALSE
  PROVE  Spec => [](IInv /\ IExact)
<1>1. Init => IInv /\ IExact
  BY InitIInv, InitIExact
<1>2. IInv /\ IExact /\ [Next]_vars => (IInv /\ IExact)'
  BY Inductive, ExactInductive
<1> QED BY <1>1, <1>2, PTL DEF Spec

\* Without failures no block is lost: between calls exactly the blocks held by the
\* file system are marked.
THEOREM NoBlockLost ==
  ASSUME UseAfterFailedFormat = FALSE
  PROVE  Spec => []NoLeak
<1>1. IExact => NoLeak
  BY DEF IExact, DriveExact, NoLeak
<1> QED BY <1>1, Exact, PTL

\* alloc_block refuses without a search only on a full drive, as long as no transfer
\* has failed.
THEOREM RefusalMeansFull ==
  ASSUME UseAfterFailedFormat = FALSE
  PROVE  Spec => []InvalMeansFull
<1>1. IExact => InvalMeansFull
  BY DEF IExact, SearchExact, InvalMeansFull, Blocks
<1> QED BY <1>1, Exact, PTL

\* tfs_get_used returns the number of blocks of the drive marked as used, whatever
\* transfers failed before.
THEOREM CountCorrect ==
  ASSUME UseAfterFailedFormat = FALSE
  PROVE  Spec => []UsedExact
<1>1. IExact => UsedExact
  BY DEF IExact, CountExact, UsedExact, Blocks
<1> QED BY <1>1, Exact, PTL

-----------------------------------------------------------------------------
(* The steps of the allocator are steps of module Allocator.               *)

\* The blocks in use as module Allocator sees them.
Taken == IF formatted /\ faults = 0 THEN map \cap Blocks ELSE {}

\* A step after which the drive is unformatted or has failed ends the promise.
LEMMA MapsToErase ==
  ASSUME faults' \in Nat, ~formatted' \/ faults' # 0
  PROVE  Promise!Erase
<1>1. Taken' = {} /\ Answer' = -1
  BY DEF Taken, Answer
<1> QED BY <1>1 DEF Promise!Erase, Promise!None, Taken, Blocks

\* A step that moves neither the marks nor the answer is no step of Allocator.
LEMMA MapsToStutter ==
  ASSUME Taken' = Taken, Answer' = Answer
  PROVE  UNCHANGED Promise!avars
  BY DEF Promise!avars, Taken, Blocks

\* What the client has been told, between calls and on a formatted drive.
LEMMA AnswerIdle ==
  ASSUME IInv
  PROVE  /\ pc # "scan" => Answer # -2
         /\ formatted /\ faults = 0 /\ ret = 0 /\ tfs_last_error = "OK" /\ pc # "scan" => Answer = -1
<1>1. ret \in Nat
  BY BlkCountAssumption DEF IInv, TypeOK
<1> QED BY <1>1 DEF Answer

\* The calls: a request is entered, or refused on a full drive; the others forget
\* the last answer.
LEMMA CallMaps ==
  ASSUME IInv, IExact, IInv', formatted', faults' = 0, Call
  PROVE  Promise!ANext \/ UNCHANGED Promise!avars
<1>1. faults \in Nat /\ formatted \in BOOLEAN
  BY DEF IInv, TypeOK
<1>2. CASE no_dev_call
  BY <1>2, MapsToStutter DEF no_dev_call, vars, Taken, Answer, Blocks
<1>3. CASE tfs_init
  <2>1. /\ faults = 0 /\ map' = map /\ tfs_last_error' = tfs_last_error
        /\ ret' = ret /\ formatted /\ pc = "off" /\ pc' = "idle"
    BY <1>1, <1>3, GoodRead DEF tfs_init, Returned, locals, ghosts
  <2>2. Taken' = Taken /\ Answer' = Answer
    BY <2>1 DEF Taken, Answer, Blocks
  <2> QED BY <2>2, MapsToStutter
<1>4. CASE alloc_call
  <2>1. /\ pc = "idle" /\ formatted /\ ret' = 0
        /\ UNCHANGED <<map, loaded_bitmap_blk, formatted, faults>>
        /\ loaded_bitmap_blk = TFS_BITMAP_BLK_INVAL => tfs_last_error' = "DISK_FULL" /\ pc' = "idle"
        /\ loaded_bitmap_blk # TFS_BITMAP_BLK_INVAL => pc' = "scan"
    BY <1>4 DEF alloc_call, Enter, ClientMayRun, ram, ghosts
  <2>2. Taken = map \cap Blocks /\ Taken' = Taken
    BY <2>1 DEF Taken, Blocks
  <2>3. CASE loaded_bitmap_blk = TFS_BITMAP_BLK_INVAL
    <3>1. Taken = Blocks
      BY <2>1, <2>2, <2>3 DEF IExact, SearchExact
    <3>2. Answer' = -3
      BY <2>1, <2>3 DEF Answer
    <3>3. Promise!Refuse
      BY <2>2, <3>1, <3>2 DEF Promise!Refuse, Promise!Full, Taken, Blocks
    <3> QED BY <3>3 DEF Promise!ANext
  <2>4. CASE loaded_bitmap_blk # TFS_BITMAP_BLK_INVAL
    <3>1. 0 \in Blocks /\ 0 \in map
      BY <2>1, HeldIs, BitmapBlkFacts, BlkCountAssumption DEF IInv, Marked, Reserved, Blocks
    <3>2. Answer' = -2 /\ Taken # {}
      BY <2>1, <2>2, <2>4, <3>1 DEF Answer
    <3>3. Promise!Request
      BY <2>2, <3>2 DEF Promise!Request, Promise!Busy, Taken, Blocks
    <3> QED BY <3>3 DEF Promise!ANext
  <2> QED BY <2>3, <2>4
<1>5. ASSUME \/ \E b \in 0 .. BlkCount - 1 : free_call(b)
             \/ format_call
             \/ get_used_call
      PROVE  Promise!ANext
  <2>1. /\ pc = "idle" /\ pc' # "scan" /\ ret' = 0 /\ tfs_last_error' = "OK"
        /\ UNCHANGED <<map, formatted, faults>>
    BY <1>5 DEF free_call, format_call, get_used_call, Enter, ghosts
  <2>2. Taken' = Taken
    BY <2>1 DEF Taken, Blocks
  <2>3. Answer # -2 /\ Answer' = -1
    BY <2>1, AnswerIdle DEF Answer
  <2>4. Promise!Forget
    BY <2>2, <2>3 DEF Promise!Forget, Promise!Busy, Promise!None, Taken, Blocks
  <2> QED BY <2>4 DEF Promise!ANext
<1> QED BY <1>2, <1>3, <1>4, <1>5 DEF Call

\* The search ends with a grant or, on a full drive, with a refusal; free_block frees
\* one block, and tfs_format ends with the reserved blocks taken.
LEMMA StepMaps ==
  ASSUME IInv, IExact, IInv', formatted', faults' = 0, Step
  PROVE  Promise!ANext \/ UNCHANGED Promise!avars
<1>1. faults \in Nat /\ formatted \in BOOLEAN /\ ret \in Nat
  BY BlkCountAssumption DEF IInv, TypeOK
<1>2. CASE alloc_take
  <2>1. formatted /\ pc = "scan" /\ faults = 0
    BY <1>1, <1>2 DEF alloc_take, drive_write_bitmap, Fault
  <2>2. /\ ret' \in Blocks \ (map \cup BitmapBlks) /\ map' = map \cup {ret'}
        /\ pc' = "idle" /\ tfs_last_error' = "OK"
    BY <1>2, <2>1, AllocTakeExact
  <2>3. ret' # 0
    BY <2>2, BitmapBlkFacts
  <2>4. Answer = -2 /\ Answer' = ret'
    BY <2>1, <2>2, <2>3 DEF Answer
  <2>5. Taken' = Taken \cup {ret'} /\ ret' \in Blocks \ Taken
    BY <2>1, <2>2 DEF Taken, Blocks
  <2>6. Promise!Grant
    BY <2>4, <2>5 DEF Promise!Grant, Promise!Busy, Taken, Blocks
  <2> QED BY <2>6 DEF Promise!ANext
<1>3. CASE alloc_next
  <2>1. /\ pc = "scan" /\ pc' \in {"scan", "idle"} /\ formatted /\ ret' = ret /\ ret = 0
    BY <1>3 DEF alloc_next, IExact, ResultPhase
  <2>2. faults = 0 /\ map' = map
    BY <1>1, <1>3 DEF alloc_next, load_bitmap, Fault
  <2>3. Taken = map \cap Blocks /\ Taken' = Taken /\ Answer = -2
    BY <2>1, <2>2 DEF Taken, Answer, Blocks
  <2>4. CASE pc' = "scan"
    <3>1. Answer' = -2
      BY <2>4 DEF Answer
    <3> QED BY <2>3, <3>1, MapsToStutter
  <2>5. CASE pc' = "idle"
    <3>1. Blocks \subseteq map /\ tfs_last_error' = "DISK_FULL"
      BY <1>3, <2>5, AllocNextExact
    <3>2. Answer' = -3 /\ Taken = Blocks
      BY <2>1, <2>3, <2>5, <3>1 DEF Answer
    <3>3. Promise!Refuse
      BY <2>3, <3>2 DEF Promise!Refuse, Promise!Full, Taken, Blocks
    <3> QED BY <3>3 DEF Promise!ANext
  <2> QED BY <2>1, <2>4, <2>5
<1>4. CASE free_write
  <2>1. /\ pc = "freewrite" /\ pc' = "idle" /\ formatted /\ ret' = ret /\ ret = 0
        /\ tfs_last_error = "OK" /\ faults = 0
    BY <1>1, <1>4 DEF free_write, Returned, locals, ghosts, IExact, ResultPhase, IInv, RunPhase,
       drive_write_bitmap, Fault
  <2>2. /\ map' = map \ {pos} /\ pos \in map \cap Blocks /\ pos \notin Reserved
        /\ tfs_last_error' = "OK"
    BY <1>4, FreeWriteExact
  <2>3. Answer = -1 /\ Answer' = -1
    BY <2>1, <2>2 DEF Answer
  <2>4. Taken' = Taken \ {pos} /\ pos \in Taken \ Reserved
    BY <2>1, <2>2 DEF Taken, Blocks
  <2>5. Promise!Free
    BY <2>3, <2>4 DEF Promise!Free, Promise!None, Taken, Blocks
  <2> QED BY <2>5 DEF Promise!ANext
<1>5. CASE format_root
  <2>1. /\ map = Reserved \cup PastEnd /\ map' = map /\ ret' = 0 /\ pc' = "idle"
        /\ tfs_last_error' = "OK"
    BY <1>5, FormatRootExact DEF format_root
  <2>2. Reserved \subseteq Blocks /\ PastEnd \cap Blocks = {}
    <3>1. \A p \in BitmapBlks : p \in Nat /\ p < BlkCount
      BY BitmapBlkFacts
    <3> QED BY <3>1, BlkCountAssumption DEF Reserved, Blocks, PastEnd, TFS_ROOT_DIR_BLK
  <2>3. Taken' = Reserved /\ Answer' = -1
    <3>1. Taken' = map \cap Blocks
      BY <2>1 DEF Taken, Blocks
    <3>2. Answer' = -1
      BY <2>1 DEF Answer
    <3> QED BY <2>1, <2>2, <3>1, <3>2
  <2>4. Promise!Format
    BY <2>3 DEF Promise!Format, Promise!None, Taken, Blocks
  <2> QED BY <2>4 DEF Promise!ANext
<1>6. CASE format_write \/ format_load
  BY <1>6, FormatWriteExact DEF format_load, IInv, FormatPhase
<1>7. ASSUME free_load \/ get_used_load \/ get_used_done
      PROVE  UNCHANGED Promise!avars
  <2>1. PICK p : load_bitmap(p)
    BY <1>7 DEF free_load, get_used_load, get_used_done
  <2>2. faults = 0 /\ map' = map /\ tfs_last_error' = tfs_last_error
    BY <1>1, <2>1, GoodRead
  <2>3. pc # "scan" /\ pc' # "scan" /\ ret' = ret /\ formatted
    BY <1>7 DEF free_load, get_used_load, get_used_done, locals, ghosts, Returned
  <2>4. Taken' = Taken /\ Answer' = Answer
    BY <2>2, <2>3 DEF Taken, Answer, Blocks
  <2> QED BY <2>4, MapsToStutter
<1> QED BY <1>2, <1>3, <1>4, <1>5, <1>6, <1>7 DEF Step

\* While no transfer fails every step of the allocator is one that module Allocator
\* allows: a search ends with a block that was free or, on a full drive only, with
\* TFS_ERR_DISK_FULL.
THEOREM KeepsPromise ==
  ASSUME UseAfterFailedFormat = FALSE
  PROVE  Spec => ImplementsSafely
<1>1. Init => Promise!AInit
  <2> SUFFICES ASSUME Init PROVE Promise!AInit
    OBVIOUS
  <2>1. Taken = {} /\ Answer = -1
    BY DEF Init, Taken, Answer
  <2> QED BY <2>1 DEF Promise!AInit, Promise!None, Taken, Blocks
<1>2. IInv /\ IExact /\ (IInv /\ IExact)' /\ [Next]_vars => [Promise!ANext]_(Promise!avars)
  <2> SUFFICES ASSUME IInv, IExact, IInv', [Next]_vars
               PROVE  Promise!ANext \/ UNCHANGED Promise!avars
    OBVIOUS
  <2>1. faults' \in Nat
    BY DEF IInv, TypeOK
  <2>2. CASE ~formatted' \/ faults' # 0
    BY <2>1, <2>2, MapsToErase DEF Promise!ANext
  <2>3. CASE formatted' /\ faults' = 0
    <3>1. CASE UNCHANGED vars
      <4>1. Taken' = Taken /\ Answer' = Answer
        BY <3>1 DEF vars, Taken, Answer, Blocks
      <4> QED BY <4>1, MapsToStutter
    <3>2. CASE PowerLoss
      BY <2>3, <3>2 DEF PowerLoss, IInv, TypeOK
    <3> QED BY <2>3, <3>1, <3>2, CallMaps, StepMaps DEF Next
  <2> QED BY <2>2, <2>3
<1>3. Spec => [](IInv /\ IExact)
  BY Exact
<1> QED BY <1>1, <1>2, <1>3, PTL DEF Spec, ImplementsSafely
=============================================================================
