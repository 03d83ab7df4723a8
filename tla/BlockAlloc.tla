----------------------------- MODULE BlockAlloc -----------------------------
(***************************************************************************)
(* The block allocator of filesys.c: the bitmap blocks on the drive, the   *)
(* one bitmap block cached in RAM (bitmap_blk, loaded_bitmap_blk) and the  *)
(* routines that work on them: tfs_init, alloc_block, free_block,          *)
(* tfs_format and tfs_get_used.                                            *)
(*                                                                         *)
(* One action is at most one transfer with the drive and the computation   *)
(* that follows it, so a failed transfer or a loss of power can fall       *)
(* between any two transfers.  The rest of the file system is the client:  *)
(* it asks for blocks, gives back blocks it holds, formats and counts.     *)
(***************************************************************************)
EXTENDS Integers, FiniteSets, FiniteSetsExt

CONSTANTS
  BlkCount,    \* tfs_drive_info.blk_count
  ByteBits,    \* bits in a byte of the bitmap (8 in the code)
  BlockBytes,  \* TFS_BLOCKSIZE (512 in the code)
  MaxFaults,   \* bound: failed transfers and power losses in a behaviour
  UseAfterFailedFormat  \* clients go on after a tfs_format that reported an error

\* TFS_BITMAP_BLK_COUNT: the number of blocks one bitmap block describes.
N == BlockBytes * ByteBits

ASSUME BlkCountAssumption == BlkCount \in Nat /\ BlkCount >= 2
ASSUME SizeAssumption == /\ ByteBits \in Nat \ {0}
                         /\ BlockBytes \in Nat \ {0}
                         /\ N >= 2
ASSUME FaultAssumption == /\ MaxFaults \in Nat
                          /\ UseAfterFailedFormat \in BOOLEAN

TFS_FIRST_BITMAP_BLK == 0
TFS_ROOT_DIR_BLK     == 1
TFS_BITMAP_BLK_INVAL == -1

\* GET_BITMAP_BLK(x): the bitmap block that describes block x.
GET_BITMAP_BLK(x) == x - (x % N)

\* The two values tfs_init derives from the size of the drive.
last_bitmap_blk == GET_BITMAP_BLK(BlkCount - 1)
last_bitmap_len == ((BlkCount - 1) % N) + 1

\* The bitmap blocks, and the bits of the last one that describe no block.
BitmapBlks == {b \in 0 .. last_bitmap_blk : b % N = 0}
PastEnd    == BlkCount .. (last_bitmap_blk + N - 1)
Reserved   == BitmapBlks \cup {TFS_ROOT_DIR_BLK}

VARIABLES
  map,               \* drive: the blocks whose bit is set in its bitmap block
  bitmap_blk,        \* RAM: offsets of the set bits of the cached bitmap block
  loaded_bitmap_blk, \* RAM: which bitmap block is cached
  tfs_last_error,
  pc,                \* the transfer the running routine does next
  start, pos,        \* locals of alloc_block, free_block, tfs_format, tfs_get_used
  used,              \* local and result of tfs_get_used, -1 when there is none
  ret,               \* result of alloc_block, 0 when there is none
  owned,             \* ghost: blocks the file system on the drive holds
  formatted,         \* ghost: the drive holds a complete file system
  aborted,           \* ghost: the last tfs_format since tfs_init failed
  faults             \* failed transfers and power losses so far

vars == <<map, bitmap_blk, loaded_bitmap_blk, tfs_last_error, pc, start, pos,
          used, ret, owned, formatted, aborted, faults>>

ram    == <<bitmap_blk, loaded_bitmap_blk>>
locals == <<start, pos, used, ret>>
ghosts == <<owned, formatted, aborted>>

Errors == {"OK", "NO_DEV", "IO", "DISK_FULL"}
PCs == {"off", "idle", "scan", "freeload", "freewrite", "format", "formatload",
        "formatroot", "count", "countdone"}

-----------------------------------------------------------------------------
(* Transfers.                                                              *)

\* The bits bitmap block p holds on the drive, as offsets.
BitmapOn(p) == {o \in 0 .. N - 1 : p + o \in map}

\* The bits of the drive after image img has been stored in bitmap block p.
Stored(p, img) == (map \ (p .. p + N - 1)) \cup {p + o : o \in img}

\* A transfer fails: the driver sets TFS_ERR_IO.
Fault == /\ faults < MaxFaults
         /\ faults' = faults + 1
         /\ tfs_last_error' = "IO"

\* drive_write_block of a bitmap block.  A write that is reported as failed
\* may have reached the drive all the same.
drive_write_bitmap(p, img) ==
  \/ /\ map' = Stored(p, img)
     /\ UNCHANGED <<faults, tfs_last_error>>
  \/ /\ Fault
     /\ map' \in {map, Stored(p, img)}

\* Faulty variant, for the mutation runs: a failed read counts as loaded.
load_bitmap_unchecked(p) ==
  /\ \/ /\ bitmap_blk' = BitmapOn(p)
        /\ UNCHANGED <<faults, tfs_last_error>>
     \/ Fault /\ UNCHANGED bitmap_blk
  /\ loaded_bitmap_blk' = p
  /\ UNCHANGED map

\* load_bitmap: a failed read leaves no bitmap block loaded.
load_bitmap(p) ==
  /\ \/ /\ bitmap_blk' = BitmapOn(p)
        /\ loaded_bitmap_blk' = p
        /\ UNCHANGED <<faults, tfs_last_error>>
     \/ /\ Fault
        /\ loaded_bitmap_blk' = TFS_BITMAP_BLK_INVAL
        /\ UNCHANGED bitmap_blk
  /\ UNCHANGED map

Returned == pc' = "idle"

-----------------------------------------------------------------------------
(* tfs_init.                                                               *)

tfs_init ==
  /\ pc = "off"
  /\ \/ \* drive_init finds no usable device
        /\ faults < MaxFaults
        /\ faults' = faults + 1
        /\ tfs_last_error' = "NO_DEV"
        /\ UNCHANGED <<map, ram>>
     \/ load_bitmap(TFS_FIRST_BITMAP_BLK)
  /\ Returned
  /\ UNCHANGED <<locals, ghosts>>

\* Every routine returns at once after TFS_ERR_NO_DEV and clears any other
\* error; the results of the call before it are forgotten.
Enter == /\ pc = "idle"
         /\ tfs_last_error # "NO_DEV"

no_dev_call == /\ pc = "idle"
               /\ tfs_last_error = "NO_DEV"
               /\ UNCHANGED vars

\* The file system code allocates and frees only on a formatted drive.
ClientMayRun == /\ formatted
                /\ aborted => UseAfterFailedFormat

-----------------------------------------------------------------------------
(* alloc_block.                                                            *)

alloc_call ==
  /\ Enter /\ ClientMayRun
  /\ ret' = 0 /\ used' = -1
  /\ IF loaded_bitmap_blk = TFS_BITMAP_BLK_INVAL
       THEN /\ tfs_last_error' = "DISK_FULL"
            /\ UNCHANGED <<pc, start, pos>>
       ELSE /\ tfs_last_error' = "OK"
            /\ pc' = "scan"
            /\ start' = loaded_bitmap_blk
            /\ pos' = loaded_bitmap_blk
  /\ UNCHANGED <<map, ram, ghosts, faults>>

\* The clear bits of the cached bitmap block.
FreeOffsets == (0 .. N - 1) \ bitmap_blk

\* Faulty variant: the last block of the drive is never found.
FoundShort == /\ FreeOffsets # {}
              /\ pos + Min(FreeOffsets) < BlkCount - 1

\* The search takes the first clear bit, and gives up on this bitmap block when
\* that bit lies past the end of the drive.
Found == /\ FreeOffsets # {}
         /\ pos + Min(FreeOffsets) < BlkCount

\* Faulty variant: the search does not wrap around.
NextBitmapStops(p) == IF p = last_bitmap_blk THEN p ELSE p + N

NextBitmap(p) == IF p = last_bitmap_blk THEN TFS_FIRST_BITMAP_BLK ELSE p + N

\* alloc_block is called by tfs_format, for the root directory, exactly when
\* the drive is not formatted yet.
alloc_take ==
  /\ pc = "scan" /\ Found
  /\ LET o == Min(FreeOffsets) IN
     /\ bitmap_blk' = bitmap_blk \cup {o}
     /\ drive_write_bitmap(loaded_bitmap_blk, bitmap_blk')
     /\ IF tfs_last_error' # "OK"
          THEN Returned /\ UNCHANGED <<ret, owned>>
          ELSE /\ ret' = pos + o
               /\ IF formatted THEN /\ Returned
                                    /\ owned' = owned \cup {pos + o}
                               ELSE /\ pc' = "formatroot"
                                    /\ UNCHANGED owned
  /\ UNCHANGED <<loaded_bitmap_blk, start, pos, used, formatted>>
  /\ aborted' = (aborted \/ (tfs_last_error' # "OK" /\ ~formatted))

alloc_next ==
  /\ pc = "scan" /\ ~Found
  /\ pos' = NextBitmap(pos)
  /\ IF pos' = start
       THEN /\ loaded_bitmap_blk' = TFS_BITMAP_BLK_INVAL
            /\ tfs_last_error' = "DISK_FULL"
            /\ UNCHANGED <<map, bitmap_blk, faults>>
       ELSE load_bitmap(pos')
  /\ pc' = IF tfs_last_error' # "OK" THEN "idle" ELSE "scan"
  /\ aborted' = (aborted \/ (tfs_last_error' # "OK" /\ ~formatted))
  /\ UNCHANGED <<start, used, ret, owned, formatted>>

-----------------------------------------------------------------------------
(* free_block.                                                             *)

\* The client has given up the block once it calls; a failure only leaks it.
free_call(b) ==
  /\ Enter /\ ClientMayRun
  /\ b \in owned \ Reserved
  /\ tfs_last_error' = "OK"
  /\ ret' = 0 /\ used' = -1
  /\ pos' = b
  /\ owned' = owned \ {b}
  /\ pc' = IF loaded_bitmap_blk # GET_BITMAP_BLK(b) THEN "freeload" ELSE "freewrite"
  /\ UNCHANGED <<map, ram, start, formatted, aborted, faults>>

free_load ==
  /\ pc = "freeload"
  /\ load_bitmap(GET_BITMAP_BLK(pos))
  /\ pc' = IF tfs_last_error' # "OK" THEN "idle" ELSE "freewrite"
  /\ UNCHANGED <<locals, ghosts>>

\* Faulty variant: the bit within the byte is forgotten.
FreedByte(b) == (b % N) - (b % ByteBits)

FreedOffset(b) == b % N

free_write ==
  /\ pc = "freewrite"
  /\ bitmap_blk' = bitmap_blk \ {FreedOffset(pos)}
  /\ drive_write_bitmap(loaded_bitmap_blk, bitmap_blk')
  /\ Returned
  /\ UNCHANGED <<loaded_bitmap_blk, locals, ghosts>>

-----------------------------------------------------------------------------
(* tfs_format.                                                             *)

format_call ==
  /\ Enter
  /\ tfs_last_error' = "OK"
  /\ ret' = 0 /\ used' = -1
  /\ pos' = TFS_FIRST_BITMAP_BLK
  /\ bitmap_blk' = {0}
  /\ pc' = "format"
  /\ aborted' = FALSE
  /\ UNCHANGED <<map, loaded_bitmap_blk, start, owned, formatted, faults>>

\* Faulty variant: a bitmap block does not mark itself.
FormatImageBlank(p) == IF p = last_bitmap_blk THEN last_bitmap_len .. N - 1 ELSE {}

\* The last bitmap block marks the blocks past the end of the drive as used.
FormatImage(p) == IF p = last_bitmap_blk
                    THEN bitmap_blk \cup (last_bitmap_len .. N - 1)
                    ELSE bitmap_blk

\* The old file system is gone once one of these writes may have reached the
\* drive.
format_write ==
  /\ pc = "format"
  /\ bitmap_blk' = FormatImage(pos)
  /\ drive_write_bitmap(pos, bitmap_blk')
  /\ IF map' = map /\ tfs_last_error' # "OK"
       THEN UNCHANGED <<owned, formatted>>
       ELSE owned' = {} /\ formatted' = FALSE
  /\ aborted' = (aborted \/ tfs_last_error' # "OK")
  /\ pos' = IF tfs_last_error' # "OK" \/ pos = last_bitmap_blk THEN pos ELSE pos + N
  /\ pc' = CASE tfs_last_error' # "OK" -> "idle"
             [] tfs_last_error' = "OK" /\ pos = last_bitmap_blk -> "formatload"
             [] OTHER -> "format"
  /\ UNCHANGED <<loaded_bitmap_blk, start, used, ret>>

\* The first bitmap block is read back and alloc_block entered with it.
format_load ==
  /\ pc = "formatload"
  /\ load_bitmap(TFS_FIRST_BITMAP_BLK)
  /\ IF tfs_last_error' # "OK"
       THEN Returned /\ UNCHANGED <<start, pos>>
       ELSE /\ pc' = "scan"
            /\ start' = TFS_FIRST_BITMAP_BLK
            /\ pos' = TFS_FIRST_BITMAP_BLK
  /\ aborted' = (aborted \/ tfs_last_error' # "OK")
  /\ UNCHANGED <<used, ret, owned, formatted>>

\* The root directory block is cleared, in the block alloc_block returned.
format_root ==
  /\ pc = "formatroot"
  /\ \/ /\ owned' = BitmapBlks \cup {ret}
        /\ formatted' = TRUE
        /\ UNCHANGED <<faults, tfs_last_error, aborted>>
     \/ /\ Fault
        /\ aborted' = TRUE
        /\ UNCHANGED <<owned, formatted>>
  /\ ret' = 0
  /\ Returned
  /\ UNCHANGED <<map, ram, start, pos, used>>

-----------------------------------------------------------------------------
(* tfs_get_used.                                                           *)

get_used_call ==
  /\ Enter
  /\ tfs_last_error' = "OK"
  /\ ret' = 0
  /\ used' = 0
  /\ pos' = TFS_FIRST_BITMAP_BLK
  /\ pc' = "count"
  /\ UNCHANGED <<map, ram, start, ghosts, faults>>

\* Faulty variant: one bit too few is taken off.
PastEndBitsShort == N - last_bitmap_len - 1

\* The bits past the end of the drive are marked as used and not counted.
PastEndBits == N - last_bitmap_len

get_used_load ==
  /\ pc = "count"
  /\ load_bitmap(pos)
  /\ IF tfs_last_error' # "OK"
       THEN Returned /\ used' = -1 /\ UNCHANGED pos
       ELSE IF pos = last_bitmap_blk
              THEN /\ used' = used + Cardinality(bitmap_blk') - PastEndBits
                   /\ pc' = "countdone"
                   /\ UNCHANGED pos
              ELSE /\ used' = used + Cardinality(bitmap_blk')
                   /\ pos' = pos + N
                   /\ UNCHANGED pc
  /\ UNCHANGED <<start, ret, ghosts>>

\* The first bitmap block is loaded again; the count is returned even if that
\* fails.
get_used_done ==
  /\ pc = "countdone"
  /\ load_bitmap(TFS_FIRST_BITMAP_BLK)
  /\ Returned
  /\ UNCHANGED <<locals, ghosts>>

-----------------------------------------------------------------------------
(* Power is lost between two transfers; the RAM comes back zeroed.         *)

PowerLoss ==
  /\ pc # "off"
  /\ faults < MaxFaults
  /\ faults' = faults + 1
  /\ pc' = "off"
  /\ bitmap_blk' = {} /\ loaded_bitmap_blk' = 0
  /\ tfs_last_error' = "OK"
  /\ start' = 0 /\ pos' = 0 /\ used' = -1 /\ ret' = 0
  /\ aborted' = FALSE
  /\ UNCHANGED <<map, owned, formatted>>

-----------------------------------------------------------------------------
\* A drive never formatted holds anything; all clear and all set are the ends.
Init ==
  /\ map \in {{}, 0 .. (last_bitmap_blk + N - 1)}
  /\ bitmap_blk = {} /\ loaded_bitmap_blk = 0
  /\ tfs_last_error = "OK"
  /\ pc = "off"
  /\ start = 0 /\ pos = 0 /\ used = -1 /\ ret = 0
  /\ owned = {} /\ formatted = FALSE /\ aborted = FALSE
  /\ faults = 0

\* The calls of the client, and the steps a routine takes once it is called.
Call == \/ tfs_init
        \/ alloc_call
        \/ \E b \in 0 .. BlkCount - 1 : free_call(b)
        \/ format_call
        \/ get_used_call
        \/ no_dev_call

Step == \/ alloc_take \/ alloc_next
        \/ free_load \/ free_write
        \/ format_write \/ format_load \/ format_root
        \/ get_used_load \/ get_used_done

Next == Call \/ Step \/ PowerLoss

Spec == Init /\ [][Next]_vars

\* A routine that has been called runs on: the program is sequential and waits
\* for nothing but the drive.
FairSpec == Spec /\ WF_vars(Step)

-----------------------------------------------------------------------------
(* Properties.                                                             *)

\* Every variable keeps its type.
TypeOK ==
  /\ map \subseteq 0 .. (last_bitmap_blk + N - 1)
  /\ bitmap_blk \subseteq 0 .. N - 1
  /\ loaded_bitmap_blk \in BitmapBlks \cup {TFS_BITMAP_BLK_INVAL}
  /\ tfs_last_error \in Errors
  /\ pc \in PCs
  /\ start \in BitmapBlks
  /\ pos \in 0 .. BlkCount - 1
  /\ used \in Int
  /\ ret \in 0 .. BlkCount - 1
  /\ owned \subseteq 0 .. BlkCount - 1
  /\ formatted \in BOOLEAN
  /\ aborted \in BOOLEAN
  /\ faults \in 0 .. MaxFaults

\* alloc_block never hands out a block that the file system already holds, a
\* bitmap block or a block past the end of the drive, whatever transfers failed
\* and wherever power was lost before.
NoDoubleAlloc ==
  [][(ret' # 0 /\ ret' # ret) => ret' \in (0 .. BlkCount - 1) \ (owned \cup BitmapBlks)]_vars

\* Every block the file system holds, every bitmap block and every bit past the
\* end of the drive is marked on the drive itself at every moment, so losing
\* power never makes a held block free.
OwnedMarked ==
  formatted => (owned \cup Reserved \cup PastEnd) \subseteq map

\* tfs_format stores the root directory where tfs_init and the directory
\* routines look for it.
RootInPlace == pc = "formatroot" => ret = TFS_ROOT_DIR_BLK

\* On a formatted drive tfs_get_used returns the number of blocks of the drive
\* marked as used.
UsedExact ==
  (formatted /\ pc = "idle" /\ used # -1) => used = Cardinality(map \cap (0 .. BlkCount - 1))

\* Without failures no block is lost: between calls exactly the blocks held by
\* the file system are marked.
NoLeak ==
  (formatted /\ pc = "idle" /\ faults = 0) => map = owned \cup PastEnd

\* "no current bitmap block -> full was detected": as long as no transfer has
\* failed, no block of the drive is free when alloc_block refuses without a search.
InvalMeansFull ==
  (formatted /\ pc = "idle" /\ faults = 0 /\ loaded_bitmap_blk = TFS_BITMAP_BLK_INVAL) =>
    (0 .. BlkCount - 1) \subseteq map

\* What the client has been told: the codes of module Allocator.
Answer == IF ~formatted \/ faults > 0 THEN -1
          ELSE IF pc = "scan" THEN -2
          ELSE IF ret # 0 THEN ret
          ELSE IF tfs_last_error = "DISK_FULL" THEN -3 ELSE -1

\* While no transfer fails the allocator is the one of module Allocator: every
\* search ends with a free block or, on a full drive only, with
\* TFS_ERR_DISK_FULL.  The blocks in use are the bits on the drive.  The promise
\* ends with the first failure, which counts as the loss of the drive.
Promise == INSTANCE Allocator WITH
  Blocks   <- 0 .. BlkCount - 1,
  Reserved <- Reserved,
  taken    <- IF formatted /\ faults = 0 THEN map \cap (0 .. BlkCount - 1) ELSE {},
  answer   <- Answer
Implements == Promise!ASpec

\* Every call returns, also when the search goes round the whole drive.
CallsReturn == (pc \notin {"off", "idle"}) ~> (pc \in {"off", "idle"})

-----------------------------------------------------------------------------
(* The inductive invariant behind OwnedMarked and NoDoubleAlloc.           *)

\* The blocks that must not be handed out, also while tfs_format is running.
Held ==
  CASE formatted -> owned \cup Reserved \cup PastEnd
    [] ~formatted /\ pc \in {"formatload", "scan"} -> BitmapBlks \cup PastEnd
    [] ~formatted /\ pc = "formatroot" -> Reserved \cup PastEnd
    [] OTHER -> {}

\* They are marked on the drive,
Marked == Held \subseteq map

\* and in the cached bitmap block whenever a routine may search or store it.
Cached ==
  (pc \notin {"off", "format", "formatload"} /\ ~aborted
     /\ tfs_last_error # "NO_DEV" /\ loaded_bitmap_blk # TFS_BITMAP_BLK_INVAL) =>
    \A b \in Held : GET_BITMAP_BLK(b) = loaded_bitmap_blk => b % N \in bitmap_blk

\* Where each routine stands.
ScanPhase ==
  pc = "scan" => /\ pos = loaded_bitmap_blk
                 /\ ~aborted
                 /\ ~formatted => pos = 0 /\ 1 \notin bitmap_blk

FreePhase ==
  pc \in {"freeload", "freewrite"} =>
    /\ formatted /\ ~aborted
    /\ pos \notin owned \cup Reserved
    /\ pc = "freewrite" => loaded_bitmap_blk = GET_BITMAP_BLK(pos)

FormatPhase ==
  /\ pc \in {"format", "formatload", "formatroot"} => ~aborted
  /\ pc = "format" => /\ bitmap_blk = {0}
                      /\ \A p \in BitmapBlks : p < pos => p \in map
                      /\ pos > 0 => ~formatted /\ 1 \notin map
  /\ pc = "formatload" => ~formatted /\ 1 \notin map
  /\ pc = "formatroot" => ~formatted /\ ret = TFS_ROOT_DIR_BLK
  /\ ~formatted => owned = {}

RunPhase ==
  /\ pc # "idle" => tfs_last_error = "OK"
  /\ pc \in {"scan", "format", "count", "countdone"} => pos \in BitmapBlks

\* Everything held is marked on the drive and in the cached bitmap block at each
\* step of each routine, whatever transfers fail: the inductive invariant.
IInv == /\ TypeOK /\ Marked /\ Cached
        /\ ScanPhase /\ FreePhase /\ FormatPhase /\ RunPhase

-----------------------------------------------------------------------------
(* What NoLeak, InvalMeansFull, UsedExact and Implements need in addition: *)
(* nothing else is marked, and what a routine knows of the drive so far.   *)

Blocks == 0 .. BlkCount - 1

\* While no transfer fails the drive has no marks but those of the blocks held and
\* of the block that free_block is about to free; tfs_format has got to pos.
DriveExact ==
  faults = 0 =>
    /\ formatted /\ pc \notin {"freeload", "freewrite"} => map = owned \cup PastEnd
    /\ pc \in {"freeload", "freewrite"} => map = owned \cup PastEnd \cup {pos}
    /\ pc = "format" => map \cap (0 .. pos - 1) = BitmapBlks \cap (0 .. pos - 1)
    /\ ~formatted /\ pc \in {"formatload", "scan"} => map = BitmapBlks \cup PastEnd
    /\ pc = "formatroot" => map = Reserved \cup PastEnd

\* Then the cached bitmap block is the one on the drive, except in tfs_format, which
\* uses its buffer for the new ones.
CacheExact ==
  faults = 0 /\ pc \notin {"off", "format", "formatload"} /\ loaded_bitmap_blk # TFS_BITMAP_BLK_INVAL
    => bitmap_blk = BitmapOn(loaded_bitmap_blk)

\* The blocks whose bitmap blocks the search has left behind, from start round to pos.
Searched == IF start <= pos THEN {b \in Blocks : start <= b /\ b < pos}
                            ELSE {b \in Blocks : start <= b \/ b < pos}

\* None of them is free; none at all when no bitmap block is loaded.
SearchExact ==
  /\ faults = 0 /\ formatted =>
       /\ pc = "scan" => Searched \subseteq map
       /\ loaded_bitmap_blk = TFS_BITMAP_BLK_INVAL => Blocks \subseteq map
  /\ pc = "formatroot" => loaded_bitmap_blk # TFS_BITMAP_BLK_INVAL

\* tfs_get_used has counted the marks before pos, and in the end those of the drive.
CountExact ==
  /\ used # -1 => pc \in {"idle", "count", "countdone"}
  /\ formatted /\ pc = "count" => used = Cardinality(map \cap (0 .. pos - 1))
  /\ formatted /\ used # -1 /\ pc \in {"idle", "countdone"} => used = Cardinality(map \cap Blocks)

\* A call has no result before it returns.
ResultPhase == pc \in {"scan", "freeload", "freewrite", "format", "formatload"} => ret = 0

\* Without failed transfers the marks on the drive, the cached bitmap block, what a
\* search has seen and what tfs_get_used has counted are exact: inductive with IInv.
IExact == DriveExact /\ CacheExact /\ SearchExact /\ CountExact /\ ResultPhase

\* The steps of Implements, without its fairness.
ImplementsSafely == Promise!AInit /\ [][Promise!ANext]_(Promise!avars)
=============================================================================
