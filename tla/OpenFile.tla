------------------------------ MODULE OpenFile ------------------------------
(***************************************************************************)
(* One open file of the extended API of filesys.c: its handle, the blocks  *)
(* of its chain and its directory item, under tfs_write, tfs_read and      *)
(* tfs_trunc with the routines seek, update_dir_item and free_file_blocks  *)
(* they share, and under closing and opening it again.                     *)
(*                                                                         *)
(* All openings of a file share one handle (tfs_open counts its users), so *)
(* one handle is all there is to a file.  One action is at most one        *)
(* transfer of a block and the computation that goes with it; allocating   *)
(* and freeing a block is one step with its bitmap (module BlockAlloc).    *)
(***************************************************************************)
EXTENDS Integers, Sequences, FiniteSets, FiniteSetsExt

CONSTANTS
  BlkCount,    \* blocks of the drive, the bitmap block left out
  DataLen,     \* TFS_DATA_LEN
  Bytes,       \* what callers write; 0 is the byte of a gap
  MaxSize,     \* bound: last byte position a call reaches
  MaxFaults,   \* bound: failed transfers in a behaviour
  Truncates,   \* callers use tfs_trunc
  EmptyAppends, \* callers write no bytes, behind the blocks of the file
  WrittenFiles  \* the file may have been made by tfs_write_file

ASSUME SizeAssumption == /\ BlkCount \in Nat \ {0} /\ DataLen \in Nat \ {0}
                         /\ MaxSize \in Nat \ {0} /\ MaxFaults \in Nat
                         /\ {Truncates, EmptyAppends, WrittenFiles} \subseteq BOOLEAN
ASSUME ByteAssumption == Bytes \subseteq Nat

Blocks == 1 .. BlkCount
Offs   == 0 .. DataLen - 1
\* A byte nobody has written through the handle.
Stale  == -1

VARIABLES
  disk,      \* drive: the data blocks
  used,      \* drive and RAM: blocks marked in the bitmap
  item,      \* drive: block and size in the directory item
  hnd,       \* RAM: TFS_FILEHANDLE
  blk_buf,   \* RAM: the block buffer, while it holds a data block
  tfs_last_error,
  pc,        \* what the running call does next
  call,      \* its arguments
  loc,       \* its locals
  got, ret,  \* the bytes tfs_read has read, the number tfs_write has written
  before,    \* ghost: the file before the running call, see Snapshot
  slip,      \* ghost: how many blocks curr_blk is ahead of curr_pos
  faults

vars == <<disk, used, item, hnd, blk_buf, tfs_last_error, pc, call, loc, got, ret, before, slip, faults>>

Zeros == [o \in Offs |-> 0]
DataBlk(prev, next, data) == [known |-> TRUE, prev |-> prev, next |-> next, data |-> data]
\* What a block holds that nobody has written since it was allocated: when the
\* file had it before, its old pointers.
Forgotten(c) == [c EXCEPT !.known = FALSE, !.data = [o \in Offs |-> Stale]]
Junk == Forgotten(DataBlk(0, 0, Zeros))

NoCall == [op |-> "none", len |-> 0, offset |-> 0, v |-> 0]
NoLoc  == [last_blk |-> 0, last_pos |-> 0, len |-> 0, offset |-> 0, os |-> 0,
           append |-> FALSE, update_item |-> FALSE, free_from |-> 0]

-----------------------------------------------------------------------------
(* The file as its blocks and a handle or item show it.                    *)

\* The n-th block of the chain that starts at first on drive d, 0 after its end; a
\* block never written ends it.
Walk(d, first) ==
  LET at[n \in 0 .. BlkCount] == IF n = 0 THEN first
                                 ELSE IF at[n - 1] = 0 \/ ~d[at[n - 1]].known THEN 0
                                      ELSE d[at[n - 1]].next
  IN at

BlkAt(first) == Walk(disk, first)

ChainBlks(first) == {BlkAt(first)[n] : n \in 0 .. BlkCount} \ {0}

\* The byte at place i, counted from 1, of a chain on drive d.
Byte(d, first, i) ==
  LET b == Walk(d, first)[(i - 1) \div DataLen] IN
  IF b = 0 THEN Stale ELSE d[b].data[(i - 1) % DataLen]

Content(first, size) == [i \in 1 .. size |-> Byte(disk, first, i)]

\* The chain of the file can be walked in both directions, and every block of it
\* has been written and is marked.
SoundChain(first) ==
  LET at == BlkAt(first) IN
  /\ at[BlkCount] = 0
  /\ \A n \in 0 .. BlkCount - 1 :
       at[n] # 0 => /\ disk[at[n]].known
                    /\ at[n] \in used
                    /\ disk[at[n]].prev = IF n = 0 THEN 0 ELSE at[n - 1]

\* The chain of the open file has a block where a handle that has slipped by n blocks
\* looks for position pos.
InChain(pos, n) == LET at == pos \div DataLen + n IN at <= BlkCount /\ BlkAt(hnd.first_blk)[at] # 0

\* The drive was full before the directory item had a block: the handle alone knows the
\* blocks that the file has got.
Unsaved == before.unsaved \/ (tfs_last_error = "DISK_FULL" /\ item.blk = 0)

\* The bytes of the file that handle h shows, the blocks that are in no file, and Unsaved.
Snapshot(h, lost, unsaved) ==
  [bytes |-> Content(h.first_blk, h.size), lost |-> lost, unsaved |-> unsaved]

\* There is no repair program: after a failed transfer callers use the file as
\* long as its chain is sound.
Usable == faults > 0 => SoundChain(hnd.first_blk) /\ SoundChain(item.blk)

-----------------------------------------------------------------------------
(* Transfers.                                                              *)

Fault == /\ faults < MaxFaults
         /\ faults' = faults + 1
         /\ tfs_last_error' = "IO"

NoFault == UNCHANGED <<faults, tfs_last_error>>

\* A write that is reported as failed may have reached the drive all the same.
drive_write_block(b, c) ==
  \/ disk' = [disk EXCEPT ![b] = c] /\ NoFault
  \/ Fault /\ disk' \in {disk, [disk EXCEPT ![b] = c]}

drive_read_block(b) ==
  \/ blk_buf' = disk[b] /\ NoFault
  \/ Fault /\ UNCHANGED blk_buf

\* alloc_block: the block, or 0 and an error.
alloc_block(b) ==
  LET free == Blocks \ used IN
  \/ /\ free # {} /\ b = Min(free)
     /\ used' = used \cup {b}
     /\ NoFault
  \/ /\ free = {} /\ b = 0
     /\ tfs_last_error' = "DISK_FULL"
     /\ UNCHANGED <<used, faults>>
  \/ /\ free # {} /\ b = 0
     /\ Fault
     /\ used' \in {used, used \cup {Min(free)}}

Returned == /\ pc' = "idle" /\ call' = NoCall /\ loc' = NoLoc
\* A call goes on at p with locals l, or returns.
Proceed(p, l) == IF p = "done" THEN Returned
                 ELSE pc' = p /\ loc' = l /\ UNCHANGED call

Failed == tfs_last_error' # "OK"

-----------------------------------------------------------------------------
(* Calls.                                                                  *)

init_pos(h) == [h EXCEPT !.curr_blk = h.first_blk, !.curr_pos = 0]

\* seek starts from the position of the handle when it has one.
FromStart(pos)   == pos = 0 \/ hnd.curr_blk = 0
StartPos(h, pos) == IF FromStart(pos) THEN init_pos(h) ELSE h
Slip(pos)        == slip' = IF FromStart(pos) THEN 0 ELSE slip

Enter ==
  /\ pc = "idle" /\ Usable
  /\ tfs_last_error' = "OK"
  /\ got' = <<>> /\ ret' = 0
  /\ before' = Snapshot(hnd, before.lost, Unsaved)
  /\ UNCHANGED <<disk, used, item, blk_buf, faults>>

Arguments(op, len, offset, v) == [op |-> op, len |-> len, offset |-> offset, v |-> v]

tfs_write(len, offset, v) ==
  /\ Enter
  /\ call' = Arguments("write", len, offset, v)
  /\ Slip(offset)
  /\ len = 0 => EmptyAppends \/ InChain(offset, slip')
  /\ hnd' = StartPos(hnd, offset)
  /\ loc' = [NoLoc EXCEPT !.len = len, !.offset = offset]
  /\ pc' = "seek"

\* The length is cut to what the file has.
tfs_read(len, offset) ==
  /\ Enter
  /\ call' = Arguments("read", len, offset, 0)
  /\ offset <= hnd.size
  /\ Slip(offset)
  /\ hnd' = StartPos(hnd, offset)
  /\ loc' = [NoLoc EXCEPT !.len = IF len > hnd.size - offset THEN hnd.size - offset ELSE len,
                          !.offset = offset]
  /\ pc' = "seek"

\* Nothing is read beyond the end of the file.
tfs_read_beyond(offset) ==
  /\ Enter
  /\ offset > hnd.size
  /\ UNCHANGED <<hnd, pc, call, loc, slip>>

tfs_trunc(size) ==
  /\ Truncates
  /\ Enter
  /\ call' = Arguments("trunc", 0, size, 0)
  /\ IF size = 0
       THEN /\ pc' = "freeing"
            /\ loc' = [NoLoc EXCEPT !.free_from = hnd.first_blk]
            /\ UNCHANGED <<hnd, slip>>
       ELSE /\ pc' = "seek"
            /\ Slip(size)
            /\ hnd' = StartPos(hnd, size)
            /\ loc' = [NoLoc EXCEPT !.offset = size]

\* tfs_close of the last descriptor, and tfs_open.  Blocks that are in the handle only are lost.
reopen ==
  /\ pc = "idle" /\ Usable
  /\ hnd' = init_pos([size |-> item.size, first_blk |-> item.blk, curr_blk |-> 0, curr_pos |-> 0])
  /\ tfs_last_error' = "OK"
  /\ got' = <<>> /\ ret' = 0
  /\ before' = Snapshot(hnd', IF Unsaved THEN used \ ChainBlks(item.blk) ELSE before.lost, FALSE)
  /\ slip' = 0
  /\ UNCHANGED <<disk, used, item, blk_buf, pc, call, loc, faults>>

-----------------------------------------------------------------------------
(* seek, to the block that holds call.offset.                              *)

Seeking == pc = "seek" /\ hnd.curr_blk # 0
Behind  == hnd.curr_pos > call.offset
Ahead   == hnd.curr_pos + DataLen <= call.offset

seek_back ==
  /\ Seeking /\ Behind
  /\ \/ /\ Fault
        /\ Returned
        /\ UNCHANGED <<hnd, blk_buf>>
     \/ /\ blk_buf' = disk[hnd.curr_blk]
        /\ IF blk_buf'.prev = 0
             THEN /\ tfs_last_error' = "UNEXP_EOF"
                  /\ Returned
                  /\ UNCHANGED <<hnd, faults>>
             ELSE /\ hnd' = [hnd EXCEPT !.curr_blk = blk_buf'.prev, !.curr_pos = @ - DataLen]
                  /\ NoFault
                  /\ UNCHANGED <<pc, call, loc>>
  /\ UNCHANGED <<disk, used, item, got, ret, before, slip>>

seek_forward ==
  /\ Seeking /\ ~Behind /\ Ahead
  /\ drive_read_block(hnd.curr_blk)
  /\ IF Failed THEN Returned /\ UNCHANGED hnd
     ELSE /\ hnd' = [hnd EXCEPT !.curr_blk = blk_buf'.next, !.curr_pos = @ + DataLen]
          /\ loc' = [loc EXCEPT !.last_blk = hnd.curr_blk, !.last_pos = hnd.curr_pos]
          /\ UNCHANGED <<pc, call>>
  /\ UNCHANGED <<disk, used, item, got, ret, before, slip>>

\* What a call does with the block it was looking for.
Found == CASE call.op = "write" -> IF call.len = 0 THEN "done" ELSE "fill"
           [] call.op = "read"  -> IF loc.len = 0 THEN "done" ELSE "copy"
           [] call.op = "trunc" -> "cut"

seek_ok ==
  /\ Seeking /\ ~Behind /\ ~Ahead
  /\ drive_read_block(hnd.curr_blk)
  /\ IF Failed THEN Returned
     ELSE Proceed(Found, [loc EXCEPT !.os = call.offset - hnd.curr_pos])
  /\ UNCHANGED <<disk, used, item, hnd, got, ret, before, slip>>

seek_eof ==
  /\ pc = "seek" /\ hnd.curr_blk = 0
  /\ call.op = "read"
  /\ Returned
  /\ UNCHANGED <<disk, used, item, hnd, blk_buf, tfs_last_error, got, ret, before, slip, faults>>

\* Faulty variant of LastPos, for the mutation runs: leaves curr_pos behind the end.
LastPosBlkOnly(h) == [h EXCEPT !.curr_blk = loc.last_blk]
\* Back to the last block, to add blocks after it.
LastPos(h) == [h EXCEPT !.curr_blk = loc.last_blk, !.curr_pos = loc.last_pos]

seek_append ==
  /\ pc = "seek" /\ hnd.curr_blk = 0
  /\ call.op # "read" /\ hnd.first_blk # 0
  /\ hnd' = LastPos(hnd)
  /\ pc' = "extend"
  /\ UNCHANGED <<disk, used, item, blk_buf, tfs_last_error, call, loc, got, ret, before, slip, faults>>

\* The first block of an empty file.
seek_first ==
  /\ pc = "seek" /\ hnd.curr_blk = 0
  /\ call.op # "read" /\ hnd.first_blk = 0
  /\ \E b \in Blocks \cup {0} :
       /\ alloc_block(b)
       /\ hnd' = IF b = 0 THEN [hnd EXCEPT !.first_blk = 0]
                 ELSE init_pos([hnd EXCEPT !.first_blk = b])
  /\ IF Failed THEN Returned /\ UNCHANGED blk_buf
     ELSE /\ blk_buf' = DataBlk(0, 0, Zeros)
          /\ pc' = "extend"
          /\ UNCHANGED <<call, loc>>
  /\ UNCHANGED <<disk, item, got, ret, before, slip>>

\* Faulty variant of NextBlk, for the mutation runs: the prev pointer of the block
\* before is left in the buffer.
NextBlkPrev == DataBlk(blk_buf.prev, 0, Zeros)
\* The buffer for the block that follows the current one.
NextBlk == DataBlk(hnd.curr_blk, 0, Zeros)

\* One more block after the current one: the current one is written also when
\* there is none.
seek_extend ==
  /\ pc = "extend" /\ Ahead
  /\ \E b \in Blocks \cup {0} :
       /\ alloc_block(b)
       /\ blk_buf' = [blk_buf EXCEPT !.next = b]
  /\ pc' = "link"
  /\ UNCHANGED <<disk, item, hnd, call, loc, got, ret, before, slip>>

seek_link ==
  /\ pc = "link"
  /\ drive_write_block(hnd.curr_blk, blk_buf)
  /\ IF Failed THEN Returned /\ UNCHANGED <<hnd, blk_buf>>
     ELSE /\ hnd' = [hnd EXCEPT !.curr_blk = blk_buf.next, !.curr_pos = @ + DataLen]
          /\ blk_buf' = NextBlk
          /\ pc' = "extend"
          /\ UNCHANGED <<call, loc>>
  /\ UNCHANGED <<used, item, got, ret, before, slip>>

\* SEEK_APPEND: the caller has to write the block.
Appended == CASE call.op = "write" -> IF call.len = 0 THEN "update" ELSE "fill"
              [] call.op = "trunc" -> "cutstore"

seek_done ==
  /\ pc = "extend" /\ ~Ahead
  /\ pc' = Appended
  /\ loc' = [loc EXCEPT !.append = TRUE, !.update_item = TRUE,
                        !.os = call.offset - hnd.curr_pos]
  /\ UNCHANGED <<disk, used, item, hnd, blk_buf, tfs_last_error, call, got, ret, before, slip, faults>>

-----------------------------------------------------------------------------
(* tfs_write: one block after the other is filled and written.             *)

\* The bytes of this call that go into or come from the current block.
ChunkLen == IF DataLen - loc.os > loc.len THEN loc.len ELSE DataLen - loc.os
\* Faulty variant of Chunk, for the mutation runs: one byte more.
ChunkWide == loc.os .. loc.os + ChunkLen
Chunk    == loc.os .. loc.os + ChunkLen - 1

write_fill ==
  /\ pc = "fill"
  /\ blk_buf' = [blk_buf EXCEPT !.data = [o \in Offs |-> IF o \in Chunk THEN call.v ELSE @[o]]]
  /\ loc' = [loc EXCEPT !.len = @ - ChunkLen, !.offset = @ + ChunkLen]
  /\ ret' = ret + ChunkLen
  /\ pc' = IF loc'.len > 0 /\ blk_buf.next = 0 THEN "prealloc" ELSE "store"
  /\ UNCHANGED <<disk, used, item, hnd, tfs_last_error, call, got, before, slip, faults>>

\* The next block is allocated before this one is written; when that fails this
\* one is written as the last one.
write_alloc ==
  /\ pc = "prealloc"
  /\ \E b \in Blocks \cup {0} :
       /\ alloc_block(b)
       /\ blk_buf' = [blk_buf EXCEPT !.next = b]
  /\ loc' = [loc EXCEPT !.append = TRUE]
  /\ pc' = "store"
  /\ UNCHANGED <<disk, item, hnd, call, got, ret, before, slip>>

Grown == loc.offset > hnd.size

write_store ==
  /\ pc = "store"
  /\ drive_write_block(hnd.curr_blk, blk_buf)
  /\ IF Failed THEN Returned /\ UNCHANGED <<hnd, blk_buf>>
     ELSE LET update == loc.update_item \/ Grown
              sized  == [hnd EXCEPT !.size = IF Grown THEN loc.offset ELSE @]
              l      == [loc EXCEPT !.update_item = update, !.os = 0]
          IN CASE loc.len = 0 ->
                    /\ Proceed(IF update THEN "update" ELSE "done", l)
                    /\ hnd' = sized
                    /\ UNCHANGED blk_buf
               [] loc.len # 0 /\ loc.append ->
                    /\ Proceed("fill", l)
                    /\ hnd' = [sized EXCEPT !.curr_blk = blk_buf.next, !.curr_pos = @ + DataLen]
                    /\ blk_buf' = NextBlk
               [] loc.len # 0 /\ ~loc.append ->
                    /\ Proceed("fetch", l)
                    /\ hnd' = [sized EXCEPT !.curr_blk = blk_buf.next]
                    /\ UNCHANGED blk_buf
  /\ UNCHANGED <<used, item, got, ret, before, slip>>

\* The next block of the chain; when it cannot be read tfs_write returns 0 and leaves
\* curr_blk ahead of curr_pos.
write_fetch ==
  /\ pc = "fetch"
  /\ drive_read_block(hnd.curr_blk)
  /\ IF Failed THEN Returned /\ ret' = 0 /\ slip' = slip + 1 /\ UNCHANGED hnd
     ELSE /\ hnd' = [hnd EXCEPT !.curr_pos = @ + DataLen]
          /\ Proceed("fill", loc)
          /\ UNCHANGED <<ret, slip>>
  /\ UNCHANGED <<disk, used, item, got, before>>

\* update_dir_item, after tfs_write and tfs_trunc.
update_dir_item ==
  /\ pc = "update"
  /\ LET new == [blk |-> hnd.first_blk, size |-> hnd.size] IN
     \/ item' = new /\ NoFault
     \/ Fault /\ item' \in {item, new}
  /\ Returned
  /\ UNCHANGED <<disk, used, hnd, blk_buf, got, ret, before, slip>>

-----------------------------------------------------------------------------
(* tfs_read.                                                               *)

read_copy ==
  /\ pc = "copy"
  /\ got' = got \o [i \in 1 .. ChunkLen |-> blk_buf.data[loc.os + i - 1]]
  /\ IF loc.len = ChunkLen THEN Returned /\ UNCHANGED hnd
     ELSE /\ hnd' = [hnd EXCEPT !.curr_blk = blk_buf.next, !.curr_pos = @ + DataLen]
          /\ Proceed(IF blk_buf.next = 0 THEN "done" ELSE "next",
                     [loc EXCEPT !.len = @ - ChunkLen, !.os = 0])
  /\ UNCHANGED <<disk, used, item, blk_buf, tfs_last_error, ret, before, slip, faults>>

\* tfs_read returns 0 when the next block cannot be read.
read_next ==
  /\ pc = "next"
  /\ drive_read_block(hnd.curr_blk)
  /\ IF Failed THEN Returned /\ got' = <<>>
     ELSE Proceed("copy", loc) /\ UNCHANGED got
  /\ UNCHANGED <<disk, used, item, hnd, ret, before, slip>>

-----------------------------------------------------------------------------
(* tfs_trunc.                                                              *)

\* Faulty variant of AfterCut, for the mutation runs: the block is not written.
AfterCutFreed == "freeing"
AfterCut == IF blk_buf.next # 0 THEN "cutstore" ELSE "freeing"

\* The chain ends with the block that holds the last byte asked for, or the byte
\* after it.
trunc_cut ==
  /\ pc = "cut"
  /\ blk_buf' = [blk_buf EXCEPT !.next = 0]
  /\ Proceed(AfterCut, [loc EXCEPT !.free_from = blk_buf.next])
  /\ UNCHANGED <<disk, used, item, hnd, tfs_last_error, got, ret, before, slip, faults>>

trunc_store ==
  /\ pc = "cutstore"
  /\ drive_write_block(hnd.curr_blk, blk_buf)
  /\ IF Failed THEN Returned ELSE Proceed("freeing", loc)
  /\ UNCHANGED <<used, item, hnd, blk_buf, got, ret, before, slip>>

\* Faulty variants of FreeRest, for the mutation runs: frees one block only, stays
\* where it is.
FreeRestNone(c) == 0
FreeRestSame(c) == loc.free_from
FreeRest(c) == c.next

\* free_file_blocks: a block is read for its next pointer and freed.
free_file_blocks ==
  /\ pc = "freeing" /\ loc.free_from # 0
  /\ \/ /\ Fault
        /\ used' \in {used, used \ {loc.free_from}}
        /\ Returned
        /\ UNCHANGED blk_buf
     \/ /\ NoFault
        /\ used' = used \ {loc.free_from}
        /\ blk_buf' = disk[loc.free_from]
        /\ Proceed("freeing", [loc EXCEPT !.free_from = FreeRest(blk_buf')])
  /\ disk' = [b \in Blocks |-> IF b \in used \ used' THEN Forgotten(disk[b]) ELSE disk[b]]
  /\ UNCHANGED <<item, hnd, got, ret, before, slip>>

trunc_freed ==
  /\ pc = "freeing" /\ loc.free_from = 0
  /\ hnd' = IF call.offset = 0 THEN init_pos([hnd EXCEPT !.first_blk = 0]) ELSE hnd
  /\ slip' = IF call.offset = 0 THEN 0 ELSE slip
  /\ pc' = "update"
  /\ UNCHANGED <<disk, used, item, blk_buf, tfs_last_error, call, loc, got, ret, before, faults>>

-----------------------------------------------------------------------------
\* A file just made, empty or by tfs_write_file: that leaves the bytes after the
\* end of the data in the block as they were in its buffer.
EmptyFile == /\ disk = [b \in Blocks |-> Junk]
             /\ used = {}
             /\ item = [blk |-> 0, size |-> 0]

WrittenFile == \E v \in Bytes :
  /\ disk = [b \in Blocks |->
              IF b = 1 THEN DataBlk(0, 0, [o \in Offs |-> IF o = 0 THEN v ELSE Stale]) ELSE Junk]
  /\ used = {1}
  /\ item = [blk |-> 1, size |-> 1]

Init ==
  /\ EmptyFile \/ (WrittenFiles /\ WrittenFile)
  /\ hnd = init_pos([size |-> item.size, first_blk |-> item.blk, curr_blk |-> 0, curr_pos |-> 0])
  /\ blk_buf = Junk
  /\ tfs_last_error = "OK"
  /\ pc = "idle" /\ call = NoCall /\ loc = NoLoc
  /\ got = <<>> /\ ret = 0
  /\ before = Snapshot(hnd, {}, FALSE)
  /\ slip = 0 /\ faults = 0

Call == \/ \E offset \in 0 .. MaxSize, len \in 0 .. MaxSize :
             /\ offset + len <= MaxSize
             /\ tfs_read(len, offset) \/ \E v \in Bytes : tfs_write(len, offset, v)
        \/ \E size \in 0 .. MaxSize : tfs_read_beyond(size) \/ tfs_trunc(size)
        \/ reopen

Step == \/ seek_back \/ seek_forward \/ seek_ok \/ seek_eof \/ seek_append
        \/ seek_first \/ seek_extend \/ seek_link \/ seek_done
        \/ write_fill \/ write_alloc \/ write_store \/ write_fetch \/ update_dir_item
        \/ read_copy \/ read_next
        \/ trunc_cut \/ trunc_store \/ free_file_blocks \/ trunc_freed

Next == Call \/ Step

Spec == Init /\ [][Next]_vars

\* A call runs on: it waits for nothing but the drive.
FairSpec == Spec /\ WF_vars(Step)
-----------------------------------------------------------------------------
(* Properties.                                                             *)

\* Every variable keeps its type.
TypeOK ==
  /\ used \subseteq Blocks
  /\ \A b \in Blocks : {disk[b].prev, disk[b].next} \subseteq Blocks \cup {0}
  /\ {hnd.first_blk, hnd.curr_blk, item.blk, loc.last_blk, loc.free_from} \subseteq Blocks \cup {0}
  /\ {hnd.curr_pos, loc.last_pos} \subseteq {DataLen * n : n \in 0 .. BlkCount}
  /\ hnd.size \in 0 .. MaxSize /\ item.size \in 0 .. MaxSize
  /\ pc \in {"fill", "copy"} => loc.os \in Offs
  /\ slip \in 0 .. MaxFaults /\ faults \in 0 .. MaxFaults

Bytes0 == Content(hnd.first_blk, hnd.size)
File == INSTANCE ByteFile WITH
          content <- IF pc = "idle" THEN Bytes0 ELSE before.bytes,
          got     <- IF pc = "idle" THEN got ELSE <<>>

\* With room on the drive an open file is a row of bytes: what tfs_write put
\* anywhere, in one block or across several, tfs_read gives back, gaps read as
\* zeros, and closing and opening the file changes nothing.
Implements == File!Spec

\* The handle knows where it is ("Maintains `curr_pos` to know which block we're
\* in"): between calls, whichever transfer has failed in them, curr_blk is the block of
\* the chain that curr_pos falls into, so the next seek may start from there; except
\* that it is one block ahead for each time tfs_write could not read the next block.
InPosition ==
  pc = "idle" /\ hnd.curr_blk # 0 /\ Usable =>
    hnd.curr_blk = BlkAt(hnd.first_blk)[hnd.curr_pos \div DataLen + slip]

\* Every variable keeps its type, and while no transfer fails the chain of the open
\* file stays sound, also after calls that ran into a full drive and after tfs_trunc.
ChainSound == TypeOK /\ (pc = "idle" /\ faults = 0 => SoundChain(hnd.first_blk))

\* While no transfer fails no call leaks a block and closing the file leaks none, unless
\* a call since tfs_open has found the drive full before the directory item had a block:
\* the blocks marked are those of the chain, and those that were lost that way before.
NoLeak == pc = "idle" /\ faults = 0 => used \ ChainBlks(hnd.first_blk) = before.lost

Returns == pc # "idle" /\ pc' = "idle"
IsWrite == call.op = "write"

\* The bytes that the running call is to write.
Asked(i) == i > call.offset /\ i <= call.offset + call.len

\* tfs_write touches the bytes it was asked to write and no others, whether it
\* succeeds, runs into a full drive or is cut short by a failed transfer; a byte
\* it was asked to write holds its old or its new value.  This is so in every call with
\* the handle until tfs_write could not read the next block, and again after a seek from
\* the beginning.
OthersIntact ==
  [][Returns /\ IsWrite /\ slip = 0 =>
       \A i \in 1 .. Len(before.bytes) :
         \/ before.bytes[i] = Stale
         \/ Bytes0'[i] = before.bytes[i]
         \/ Asked(i) /\ Bytes0'[i] = call.v]_vars

\* A call that is cut short leaves no block in the chain of the directory item
\* that is free on the drive; except tfs_trunc to nothing, which frees the chain
\* before the item lets go of it.
NoDanglingChain ==
  [][Returns /\ faults' # 0 /\ ~(call.op = "trunc" /\ call.offset = 0) =>
       ChainBlks(item.blk)' \subseteq used']_vars

\* Every call comes to its end: the loops over the chain in seek, tfs_write,
\* tfs_read and free_file_blocks end.
CallsReturn == pc # "idle" ~> pc = "idle"

\* "Changes the file size to the specified value."
TruncSetsSize ==
  [][Returns /\ call.op = "trunc" /\ tfs_last_error' = "OK" => hnd'.size = call.offset]_vars
-----------------------------------------------------------------------------
(* Inductive invariant, for callers that write no empty piece behind the   *)
(* blocks of the file.                                                     *)

Ptrs == Blocks \cup {0}
Blks == [known : BOOLEAN, prev : Ptrs, next : Ptrs, data : [Offs -> Bytes \cup {0, Stale}]]
Positions == {DataLen * n : n \in 0 .. BlkCount}
Labels == {"idle", "seek", "extend", "link", "fill", "prealloc", "store", "fetch", "update",
           "copy", "next", "cut", "cutstore", "freeing"}

Shapes ==
  /\ disk \in [Blocks -> Blks] /\ blk_buf \in Blks /\ used \subseteq Blocks
  /\ item \in [blk : Ptrs, size : 0 .. MaxSize]
  /\ hnd \in [size : 0 .. MaxSize, first_blk : Ptrs, curr_blk : Ptrs, curr_pos : Positions]
  /\ tfs_last_error \in {"OK", "IO", "DISK_FULL", "UNEXP_EOF"}
  /\ pc \in Labels
  /\ call \in [op : {"none", "write", "read", "trunc"}, len : 0 .. MaxSize, offset : 0 .. MaxSize,
               v : Bytes \cup {0}]
  /\ loc \in [last_blk : Ptrs, last_pos : Positions, len : 0 .. MaxSize, offset : 0 .. MaxSize,
              os : Int, append : BOOLEAN, update_item : BOOLEAN, free_from : Ptrs]
  /\ faults \in 0 .. MaxFaults /\ slip \in 0 .. faults
  /\ pc = "idle" <=> call.op = "none"
  /\ tfs_last_error = "IO" => faults > 0

\* The calls that come to a label, and the bytes they are at.
Calls ==
  /\ pc \notin {"idle", "link", "store"} => tfs_last_error = "OK"
  /\ pc \in {"link", "store"} => tfs_last_error # "UNEXP_EOF"
  /\ pc \in {"fill", "prealloc", "store", "fetch"} => call.op = "write"
  /\ pc \in {"copy", "next"} => call.op = "read"
  /\ pc \in {"cut", "cutstore", "freeing"} => call.op = "trunc"
  /\ pc \in {"extend", "link"} => call.op = "trunc" \/ (call.op = "write" /\ call.len # 0)
  /\ pc \notin {"idle", "freeing", "update"} => call.op # "trunc" \/ call.offset # 0
  /\ call.op = "write" => loc.offset + loc.len <= MaxSize
  /\ pc \in {"fill", "prealloc", "store", "fetch", "copy", "next"} => loc.os \in Offs
  /\ pc \in {"seek", "fetch"} => ~loc.append
  /\ pc = "prealloc" => loc.len # 0
  /\ pc \in {"seek", "extend", "link"} => loc.free_from = 0
  /\ pc = "extend" => hnd.curr_pos <= call.offset
  /\ pc = "link" => hnd.curr_pos + DataLen <= call.offset

\* The chain of the file; while tfs_trunc gives all of it back there is none.
Emptying == pc = "freeing" /\ call.offset = 0
First    == IF Emptying THEN 0 ELSE hnd.first_blk
At       == BlkAt(First)
Here     == hnd.curr_pos \div DataLen + slip

\* The handle can be used.
Live == pc # "idle" \/ Usable

\* The current block is a new last one, which nobody may have written yet.
Growing == pc \in {"extend", "link", "cutstore"} \/ (pc \in {"fill", "prealloc", "store"} /\ loc.append)

NoCycle(at) == /\ at[BlkCount] = 0
               /\ \A m, n \in 0 .. BlkCount : at[m] = at[n] /\ at[m] # 0 => m = n

Walkable ==
  /\ NoCycle(At)
  /\ \A n \in 0 .. BlkCount : At[n] # 0 =>
       /\ At[n] \in used
       /\ IF disk[At[n]].known THEN disk[At[n]].prev = IF n = 0 THEN 0 ELSE At[n - 1]
                               ELSE Growing /\ At[n] = hnd.curr_blk

\* Block b is the n-th of a chain.
Nth(at, n, b) == n <= BlkCount /\ b # 0 /\ b = at[n]

\* The place of the handle in the chain.
Placed ==
  /\ pc \in {"idle", "seek", "freeing", "update"} /\ ~Emptying /\ hnd.curr_blk # 0 => Nth(At, Here, hnd.curr_blk)
  /\ pc \in {"extend", "link", "fill", "prealloc", "store", "copy", "next", "cut", "cutstore"} =>
       Nth(At, Here, hnd.curr_blk)
  /\ pc = "fetch" => Here < BlkCount /\ At[Here] # 0 /\ Nth(At, Here + 1, hnd.curr_blk)
  /\ pc = "seek" /\ hnd.curr_blk = 0 /\ hnd.first_blk # 0 =>
       /\ Nth(At, loc.last_pos \div DataLen + slip, loc.last_blk)
       /\ disk[loc.last_blk].next = 0 /\ blk_buf = disk[loc.last_blk]
       /\ loc.last_pos + DataLen <= call.offset
  /\ pc = "seek" /\ call.op = "write" /\ call.len = 0 => InChain(call.offset, slip)
  /\ pc = "seek" /\ hnd.first_blk = 0 => slip = 0

\* A block that was allocated and is in no chain yet.
Fresh(b) == b \in used /\ ~disk[b].known /\ \A n \in 0 .. BlkCount : At[n] # b

\* What the buffer holds of the current block.
Buffered ==
  /\ pc \in {"extend", "link", "fill", "prealloc", "store", "cutstore"} =>
       blk_buf.known /\ blk_buf.prev = IF Here = 0 THEN 0 ELSE At[Here - 1]
  /\ pc \in {"cut", "copy"} => blk_buf = disk[hnd.curr_blk]
  /\ pc \in {"fill", "store"} /\ ~loc.append => blk_buf.next = disk[hnd.curr_blk].next
  /\ pc \in {"extend", "link", "prealloc"} \/ (pc \in {"fill", "store"} /\ loc.append) =>
       ~disk[hnd.curr_blk].known \/ disk[hnd.curr_blk].next = 0
  /\ pc \in {"extend", "prealloc", "cutstore"} \/ (pc = "fill" /\ loc.append) => blk_buf.next = 0
  /\ pc = "link" \/ (pc = "store" /\ loc.append) => blk_buf.next = 0 \/ Fresh(blk_buf.next)
  /\ pc = "link" => (blk_buf.next = 0 <=> tfs_last_error # "OK")
  /\ pc = "store" => IF loc.append THEN blk_buf.next = 0 <=> (tfs_last_error # "OK" \/ loc.len = 0)
                     ELSE tfs_last_error = "OK" /\ (loc.len # 0 => blk_buf.next # 0)
  /\ pc = "cutstore" => loc.free_from = IF disk[hnd.curr_blk].known THEN disk[hnd.curr_blk].next ELSE 0

\* The blocks that tfs_trunc has still to give back.
Cut ==
  LET rest == BlkAt(loc.free_from) IN
  pc = "freeing" =>
    /\ NoCycle(rest)
    /\ \A n \in 0 .. BlkCount : rest[n] # 0 =>
         rest[n] \in used /\ disk[rest[n]].known /\ \A m \in 0 .. BlkCount : At[m] # rest[n]

\* The marked blocks: those of the chain, those on their way into or out of it, and
\* those that were lost before the call.
Spare == CASE pc \in {"link", "store"} -> {blk_buf.next}
           [] pc = "freeing" -> ChainBlks(loc.free_from)
           [] OTHER -> {}
Accounted == faults = 0 => before.lost = used \ (ChainBlks(First) \cup Spare)

\* The directory item refers to the chain or, as long as it has not been told of the
\* first block, to none.  tfs_trunc to nothing comes to it last, when the first block is
\* free: that block is given back before all others.
Emptied   == pc = "update" /\ call.op = "trunc" /\ call.offset = 0
ItemRight ==
  IF Emptied THEN item.blk \notin used
  ELSE /\ item.blk \in {0, hnd.first_blk}
       /\ Emptying /\ hnd.first_blk \in used \cup {0} =>
            /\ loc.free_from = hnd.first_blk
            /\ hnd.curr_blk # 0 => Nth(BlkAt(hnd.first_blk), Here, hnd.curr_blk)

\* It has been told of the first block, or will be, unless the drive was full before.
Saved == \/ faults # 0 \/ item.blk = hnd.first_blk \/ Unsaved
         \/ pc \in {"extend", "link", "cutstore", "freeing", "update"}
         \/ pc \in {"fill", "prealloc", "store", "fetch"} /\ loc.update_item

Unmarked == \A b \in Blocks \ used : ~disk[b].known

IInv == /\ Shapes /\ Unmarked
        /\ Live => Calls /\ Walkable /\ Placed /\ Buffered /\ Cut /\ Accounted /\ ItemRight

-----------------------------------------------------------------------------
(* What OthersIntact needs in addition: where the bytes are.               *)

\* A file is not longer than its blocks may be.
Sized == /\ hnd.size <= BlkCount * DataLen /\ item.size <= BlkCount * DataLen
         /\ before.bytes \in Seq(Bytes \cup {0, Stale})

\* How far tfs_write has got: loc.offset, and loc.len bytes are left.
Progress ==
  IsWrite =>
    /\ pc \in {"seek", "extend", "link"} => loc.offset = call.offset /\ loc.len = call.len
    /\ pc \in {"fill", "prealloc", "store", "fetch"} =>
         call.offset <= loc.offset /\ loc.offset + loc.len = call.offset + call.len
    /\ pc = "fill" => hnd.curr_pos + loc.os = loc.offset
    /\ pc \in {"prealloc", "store"} => loc.offset <= hnd.curr_pos + DataLen
    /\ pc = "fetch" => loc.os = 0
    /\ pc = "fetch" \/ (pc \in {"prealloc", "store"} /\ loc.len # 0) =>
         loc.offset = hnd.curr_pos + DataLen

\* What may be found at place i of the file when it was written.
Kept(i, x) == \/ before.bytes[i] = Stale
              \/ x = before.bytes[i]
              \/ Asked(i) /\ x = call.v

\* The buffer holds the current block, which is to be written.
Buffers == {"extend", "link", "fill", "prealloc", "store"}

\* Each byte of the file is as it was or as it was asked for, on the drive and, of the
\* block that is to be written, in the buffer.
Intact ==
  IsWrite =>
    /\ Len(before.bytes) <= hnd.size
    /\ slip = 0 =>
         \A i \in 1 .. Len(before.bytes) :
           /\ Kept(i, Byte(disk, hnd.first_blk, i))
           /\ pc \in Buffers /\ (i - 1) \div DataLen = Here => Kept(i, blk_buf.data[(i - 1) % DataLen])

BInv == Sized /\ Progress /\ Intact

-----------------------------------------------------------------------------
(* What Implements needs in addition, while no transfer fails and there is *)
(* room on the drive: which bytes the file has, and will have.             *)

AllPlaces == 1 .. BlkCount * DataLen

\* The byte at place i of a chain on drive d; blocks that are not there are zeros.
Held(d, first, i) ==
  LET b == Walk(d, first)[(i - 1) \div DataLen] IN
  IF b = 0 THEN 0 ELSE d[b].data[(i - 1) % DataLen]

\* The byte that place i of the file has, once the buffer is written.
Now(i) == IF pc \in Buffers /\ (i - 1) \div DataLen = Here THEN blk_buf.data[(i - 1) % DataLen]
          ELSE Held(disk, hnd.first_blk, i)

\* The byte that it had before the call, and the one that it has to have now.
Old(i)    == IF i <= Len(before.bytes) THEN before.bytes[i] ELSE 0
Wanted(i) == IF IsWrite /\ i > call.offset /\ i <= loc.offset THEN call.v ELSE Old(i)

\* Behind the end of the file its blocks hold zeros.
Exact == IF pc = "idle" THEN \A i \in AllPlaces : i > hnd.size => Held(disk, hnd.first_blk, i) = 0
                        ELSE \A i \in AllPlaces : Now(i) = Wanted(i)

\* There is a block for every byte of the file.
Covered == \A n \in 0 .. BlkCount - 1 : DataLen * n < hnd.size => BlkAt(hnd.first_blk)[n] # 0

\* The directory item is that of the handle, or is going to be.
Told == \/ pc \in {"extend", "link", "update"}
        \/ pc \in {"fill", "prealloc", "store", "fetch"} /\ loc.update_item
        \/ item.blk = hnd.first_blk /\ item.size = hnd.size

\* The file gets as long as what has been written.
WriteSizes ==
  IsWrite => /\ got = <<>> /\ (pc # "seek" => call.len # 0)
             /\ pc \in {"seek", "extend", "link"} => hnd.size = Len(before.bytes)
             /\ hnd.size # Len(before.bytes) => Len(before.bytes) < hnd.size /\ hnd.size <= loc.offset
             /\ pc = "update" => loc.offset = call.offset + call.len /\ loc.offset <= hnd.size

\* tfs_read has read what is before its place.
ReadEnd == IF call.offset + call.len < hnd.size THEN call.offset + call.len ELSE hnd.size
ReadSizes ==
  call.op = "read" =>
    /\ pc # "update" /\ Len(before.bytes) = hnd.size /\ call.offset <= hnd.size
    /\ pc = "seek" => got = <<>> /\ loc.len = ReadEnd - call.offset
    /\ pc \in {"copy", "next"} => /\ loc.len > 0 /\ call.offset <= ReadEnd - loc.len
                                  /\ hnd.curr_pos + loc.os = ReadEnd - loc.len
                                  /\ got = SubSeq(before.bytes, call.offset + 1, ReadEnd - loc.len)

FInv == /\ tfs_last_error = "OK" /\ before.lost = {} /\ call.op # "trunc"
        /\ pc = "idle" => call = NoCall /\ loc = NoLoc
        /\ Exact /\ Covered /\ Told /\ WriteSizes /\ ReadSizes
=============================================================================
