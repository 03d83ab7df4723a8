------------------------ MODULE OpenFileBytesProofs -------------------------
(***************************************************************************)
(* What bytes are in an open file: tfs_write changes those it was asked to *)
(* write and no others, whatever transfers fail; and when none fails and   *)
(* there is room on the drive the file is a row of bytes (ByteFile).       *)
(***************************************************************************)
EXTENDS OpenFileProofs, SequenceTheorems

S == Bytes \cup {0, Stale}

\* The block and the place in it of a byte.
LEMMA DivMod ==
  ASSUME NEW d \in Nat \ {0}, NEW n \in Nat, NEW i \in Nat \ {0}
  PROVE  /\ (i - 1) \div d \in Nat /\ (i - 1) % d \in 0 .. d - 1
         /\ i = d * ((i - 1) \div d) + ((i - 1) % d) + 1
         /\ i <= n * d => (i - 1) \div d \in 0 .. n - 1
<1> DEFINE q == (i - 1) \div d
           r == (i - 1) % d
<1>1. i - 1 = d * q + r /\ q \in Nat /\ r \in 0 .. d - 1
  <2>1. i - 1 \in Nat
    OBVIOUS
  <2> QED BY <2>1
<1> HIDE DEF q, r
<1>2. d * q \in Nat
  BY <1>1
<1>3. i <= n * d => q \in 0 .. n - 1
  <2> SUFFICES ASSUME i <= n * d PROVE q \in 0 .. n - 1
    OBVIOUS
  <2>1. d * q < n * d
    BY <1>1, <1>2
  <2>2. q < n
    BY <1>1, <2>1
  <2> QED BY <1>1, <2>2
<1>4. i = d * q + r + 1
  BY <1>1, <1>2
<1> QED BY <1>1, <1>3, <1>4 DEF q, r

\* The block and the offset in it where byte i of a file is.
LEMMA PlaceOfByte ==
  ASSUME NEW i \in Nat \ {0}
  PROVE  /\ (i - 1) \div DataLen \in Nat /\ (i - 1) % DataLen \in Offs
         /\ i = DataLen * ((i - 1) \div DataLen) + ((i - 1) % DataLen) + 1
         /\ i <= BlkCount * DataLen => (i - 1) \div DataLen \in 0 .. BlkCount - 1
<1>1. BlkCount \in Nat /\ DataLen \in Nat \ {0}
  BY Sizes
<1> QED BY <1>1, DivMod DEF Offs

\* A byte of a file.
LEMMA ByteIs ==
  ASSUME NEW d \in [Blocks -> Blks], NEW f \in Ptrs, NEW i \in 1 .. BlkCount * DataLen
  PROVE  Byte(d, f, i) \in S
<1> DEFINE n == (i - 1) \div DataLen
           o == (i - 1) % DataLen
           b == Walk(d, f)[n]
<1>0. i \in Nat \ {0} /\ i <= BlkCount * DataLen
  <2>1. BlkCount * DataLen \in Nat
    BY Sizes
  <2> QED BY <2>1
<1>1. n \in 0 .. BlkCount - 1 /\ o \in Offs
  BY <1>0, PlaceOfByte
<1> HIDE DEF n, o
<1>2. b \in Ptrs
  BY <1>1, WalkType, Sizes
<1>3. b # 0 => d[b].data[o] \in S
  BY <1>1, <1>2 DEF Ptrs, Blks, S
<1> HIDE DEF b
<1>4. Byte(d, f, i) = IF b = 0 THEN Stale ELSE d[b].data[o]
  BY DEF Byte, b, n, o
<1> QED BY <1>3, <1>4 DEF S

\* The bytes that a call finds.
LEMMA SnapshotIs ==
  ASSUME Shapes, NEW h, NEW lost, NEW unsaved, h.first_blk \in Ptrs, h.size \in Nat, h.size <= BlkCount * DataLen
  PROVE  /\ Snapshot(h, lost, unsaved).bytes \in Seq(S)
         /\ Len(Snapshot(h, lost, unsaved).bytes) = h.size
         /\ \A i \in 1 .. h.size : Snapshot(h, lost, unsaved).bytes[i] = Byte(disk, h.first_blk, i)
<1> DEFINE b == Snapshot(h, lost, unsaved).bytes
<1>1. b = [i \in 1 .. h.size |-> Byte(disk, h.first_blk, i)]
  BY DEF Snapshot, Content
<1>2. \A i \in 1 .. h.size : Byte(disk, h.first_blk, i) \in S
  <2> TAKE i \in 1 .. h.size
  <2>1. i \in 1 .. BlkCount * DataLen
    <3>1. BlkCount * DataLen \in Nat
      BY Sizes
    <3> QED BY <3>1
  <2> QED BY <2>1, ByteIs DEF Shapes
<1> HIDE DEF b
<1> QED BY <1>1, <1>2 DEF b

-----------------------------------------------------------------------------
(* The current block is written.                                           *)

\* Its bytes are those of the buffer, and the others of the file are as before; except
\* behind it, where the file may have got a block.
LEMMA BytesStored ==
  ASSUME IInv, pc \in {"link", "store"}, disk' = [disk EXCEPT ![hnd.curr_blk] = blk_buf],
         hnd'.first_blk = hnd.first_blk, used' = used, pc' # "freeing",
         NEW i \in 1 .. BlkCount * DataLen
  PROVE  /\ (i - 1) \div DataLen = Here =>
              Byte(disk', hnd.first_blk, i) = blk_buf.data[(i - 1) % DataLen]
         /\ (i - 1) \div DataLen # Here =>
              \/ Byte(disk', hnd.first_blk, i) = Byte(disk, hnd.first_blk, i)
              \/ Byte(disk, hnd.first_blk, i) = Stale /\ (i - 1) \div DataLen > Here
<1> DEFINE n == (i - 1) \div DataLen
           o == (i - 1) % DataLen
           f == hnd.first_blk
<1>1. n \in 0 .. BlkCount - 1
  <2>1. BlkCount * DataLen \in Nat
    BY Sizes
  <2> QED BY <2>1, PlaceOfByte
<1>2. /\ Byte(disk, f, i) = IF Walk(disk, f)[n] = 0 THEN Stale ELSE disk[Walk(disk, f)[n]].data[o]
      /\ Byte(disk', f, i) = IF Walk(disk', f)[n] = 0 THEN Stale ELSE disk'[Walk(disk', f)[n]].data[o]
  BY DEF Byte
<1>3. /\ Shapes /\ Calls /\ Walkable /\ Placed /\ Buffered /\ ~Emptying /\ ~Emptying'
  BY DEF IInv, Live, Emptying
<1>4. First = f /\ First' = f /\ At = Walk(disk, f) /\ At' = Walk(disk', f)
  BY <1>3 DEF First, At, BlkAt
<1> HIDE DEF n, o, f
<1>5. /\ hnd.curr_blk # 0 /\ hnd.curr_blk = At[Here] /\ blk_buf.known
      /\ blk_buf.prev = IF Here = 0 THEN 0 ELSE At[Here - 1]
      /\ Nth(At, Here, hnd.curr_blk)
  BY <1>3 DEF Placed, Buffered, Nth
<1>6. Here \in 0 .. BlkCount /\ NoCycle(At) /\ hnd.curr_blk \in Blocks /\ disk \in [Blocks -> Blks]
  BY <1>3, <1>5, PlaceRange DEF Walkable, Shapes, Ptrs
<1>7. n # Here => At[n] # hnd.curr_blk
  BY <1>1, <1>5, <1>6, Sizes DEF NoCycle
<1>8. At[n] \in Ptrs
  BY <1>1, <1>3, AtFacts, Sizes
<1>9. CASE pc = "store" /\ ~loc.append
  <2>1. ~Growing /\ blk_buf.next = disk[hnd.curr_blk].next
    BY <1>3, <1>9 DEF Growing, Buffered
  <2>2. At' = At
    BY <1>3, <1>4, <1>5, <2>1, StoreAgain
  <2>3. n = Here => disk'[At'[n]] = blk_buf /\ At'[n] # 0
    BY <1>5, <1>6, <2>2
  <2>4. n # Here => At'[n] = At[n] /\ (At[n] # 0 => disk'[At[n]] = disk[At[n]])
    BY <1>6, <1>7, <1>8, <2>2 DEF Ptrs
  <2>5. n = Here => Byte(disk', f, i) = blk_buf.data[o]
    BY <1>2, <1>4, <2>3
  <2>6. n # Here => Byte(disk', f, i) = Byte(disk, f, i)
    BY <1>2, <1>4, <2>4
  <2> QED BY <2>5, <2>6 DEF n, o, f
<1>10. CASE pc = "link" \/ loc.append
  <2>1. /\ ~disk[hnd.curr_blk].known \/ disk[hnd.curr_blk].next = 0
        /\ blk_buf.next = 0 \/ Fresh(blk_buf.next)
    BY <1>3, <1>10 DEF Buffered
  <2>2. Here < BlkCount /\ (\A k \in 0 .. Here : At'[k] = At[k])
    BY <1>3, <1>4, <1>5, <2>1, StoreLast
  <2>3. n > Here => At[n] = 0
    <3> SUFFICES ASSUME n > Here PROVE At[n] = 0
      OBVIOUS
    <3>1. Here \in 0 .. BlkCount - 1 /\ Here + 1 \in 0 .. BlkCount /\ n \in 0 .. BlkCount /\ Here + 1 <= n
      BY <1>1, <1>6, <2>2, Sizes
    <3>2. At[Here + 1] = Follow(disk, At[Here])
      BY <1>3, <3>1, AtFacts
    <3>3. At[Here + 1] = 0
      BY <1>5, <2>1, <3>2 DEF Follow
    <3> QED BY <1>3, <3>1, <3>3, AtFacts
  <2>4. n = Here => disk'[At'[n]] = blk_buf /\ At'[n] # 0
    <3>1. Here \in 0 .. Here
      BY <1>6
    <3> QED BY <1>5, <1>6, <2>2, <3>1
  <2>5. n < Here => At'[n] = At[n] /\ (At[n] # 0 => disk'[At[n]] = disk[At[n]])
    <3>1. n < Here => n \in 0 .. Here
      BY <1>1, <1>6
    <3> QED BY <1>6, <1>7, <1>8, <2>2, <3>1 DEF Ptrs
  <2>6. n = Here => Byte(disk', f, i) = blk_buf.data[o]
    BY <1>2, <1>4, <2>4
  <2>7. n < Here => Byte(disk', f, i) = Byte(disk, f, i)
    BY <1>2, <1>4, <2>5
  <2>8. n > Here => Byte(disk, f, i) = Stale
    BY <1>2, <1>4, <2>3
  <2>9. n = Here \/ n < Here \/ n > Here
    BY <1>1, <1>6
  <2> QED BY <2>6, <2>7, <2>8, <2>9 DEF n, o, f
<1> QED BY <1>9, <1>10

-----------------------------------------------------------------------------
(* What tfs_write does to the bytes of the file at each of its steps.      *)

\* They are kept on the drive, also by a step that returns,
BytesKept == /\ before' = before
             /\ Len(before.bytes) <= hnd'.size /\ hnd'.size <= BlkCount * DataLen
             /\ slip = 0 => \A i \in 1 .. Len(before.bytes) : Kept(i, Byte(disk', hnd'.first_blk, i))

\* and in the buffer, when it is going to be written.
BufferKept == slip = 0 /\ pc' \in Buffers =>
                \A i \in 1 .. Len(before.bytes) :
                  (i - 1) \div DataLen = Here' => Kept(i, blk_buf'.data[(i - 1) % DataLen])

\* tfs_write is running.
Writing == IInv /\ BInv /\ IsWrite /\ pc # "idle"

\* What is known while tfs_write runs.
LEMMA WritingFacts ==
  ASSUME Writing
  PROVE  /\ Shapes /\ Calls /\ Walkable /\ Placed /\ Buffered /\ ~Emptying
         /\ First = hnd.first_blk /\ At = Walk(disk, hnd.first_blk)
         /\ before.bytes \in Seq(S) /\ Len(before.bytes) \in Nat
         /\ \A i \in 1 .. Len(before.bytes) :
              /\ i \in 1 .. BlkCount * DataLen
              /\ (i - 1) \div DataLen \in 0 .. BlkCount - 1 /\ (i - 1) % DataLen \in Offs
              /\ i = DataLen * ((i - 1) \div DataLen) + ((i - 1) % DataLen) + 1
              /\ slip = 0 => Kept(i, Byte(disk, hnd.first_blk, i))
         /\ Len(before.bytes) <= hnd.size /\ hnd.size <= BlkCount * DataLen
         /\ hnd.size \in Nat /\ BlkCount * DataLen \in Nat /\ call.v # Stale
<1>1. /\ Shapes /\ Calls /\ Walkable /\ Placed /\ Buffered /\ ~Emptying
      /\ First = hnd.first_blk /\ At = Walk(disk, hnd.first_blk)
  BY DEF Writing, IInv, Live, Calls, Emptying, IsWrite, First, At, BlkAt
<1>2. before.bytes \in Seq(S) /\ Len(before.bytes) \in Nat
  BY DEF Writing, BInv, Sized, S
<1>3. BlkCount * DataLen \in Nat
  BY Sizes
<1>4. Len(before.bytes) <= hnd.size /\ hnd.size <= BlkCount * DataLen /\ hnd.size \in Nat
  BY <1>1 DEF Writing, BInv, Sized, Intact, Shapes
<1>5. ASSUME NEW i \in 1 .. Len(before.bytes)
      PROVE  /\ i \in 1 .. BlkCount * DataLen
             /\ (i - 1) \div DataLen \in 0 .. BlkCount - 1 /\ (i - 1) % DataLen \in Offs
             /\ i = DataLen * ((i - 1) \div DataLen) + ((i - 1) % DataLen) + 1
             /\ slip = 0 => Kept(i, Byte(disk, hnd.first_blk, i))
  <2>1. i \in Nat \ {0} /\ i \in 1 .. BlkCount * DataLen /\ i <= BlkCount * DataLen
    BY <1>2, <1>3, <1>4
  <2>2. slip = 0 => Kept(i, Byte(disk, hnd.first_blk, i))
    BY DEF Writing, BInv, Intact
  <2> QED BY <2>1, <2>2, PlaceOfByte
<1>6. call.v # Stale
  <2>1. call \in CallSet
    BY <1>1 DEF Shapes, CallSet
  <2>2. call.v \in Bytes \cup {0}
    BY <2>1 DEF CallSet
  <2>3. \A x \in Bytes \cup {0} : x \in Nat
    BY ByteAssumption
  <2>4. \A x \in Nat : x # Stale
    BY DEF Stale
  <2> QED BY <2>2, <2>3, <2>4
<1> QED BY <1>1, <1>2, <1>3, <1>4, <1>5, <1>6

\* A step that changes neither drive nor size.
LEMMA QuietBytes ==
  ASSUME Writing, UNCHANGED <<disk, before>>,
         hnd'.first_blk = hnd.first_blk, hnd'.size = hnd.size
  PROVE  BytesKept
BY WritingFacts DEF BytesKept

\* A step to a block that has been read.
LEMMA ReadBytes ==
  ASSUME Writing, At[Here'] # 0, blk_buf' = disk[At[Here']]
  PROVE  BufferKept
<1> SUFFICES ASSUME slip = 0, NEW i \in 1 .. Len(before.bytes), (i - 1) \div DataLen = Here'
             PROVE  Kept(i, blk_buf'.data[(i - 1) % DataLen])
  BY DEF BufferKept
<1>1. Kept(i, Byte(disk, hnd.first_blk, i)) /\ At = Walk(disk, hnd.first_blk)
  BY WritingFacts
<1> QED BY <1>1 DEF Byte

\* A step to a block behind the end.
LEMMA NewBytes ==
  ASSUME Writing, At[Here'] = 0
  PROVE  BufferKept
<1> SUFFICES ASSUME slip = 0, NEW i \in 1 .. Len(before.bytes), (i - 1) \div DataLen = Here'
             PROVE  Kept(i, blk_buf'.data[(i - 1) % DataLen])
  BY DEF BufferKept
<1>1. Kept(i, Stale) /\ call.v # Stale
  <2>1. Kept(i, Byte(disk, hnd.first_blk, i)) /\ At = Walk(disk, hnd.first_blk)
    BY WritingFacts
  <2>2. call.v # Stale
    BY WritingFacts
  <2>3. Byte(disk, hnd.first_blk, i) = Stale
    BY <2>1 DEF Byte
  <2> QED BY <2>1, <2>2, <2>3
<1> QED BY <1>1 DEF Kept

\* A step that keeps buffer and place.
LEMMA SameBuffer ==
  ASSUME Writing, pc \in Buffers, Here' = Here, blk_buf'.data = blk_buf.data
  PROVE  BufferKept
BY DEF Writing, BInv, Intact, BufferKept

\* seek back changes no byte.
LEMMA SeekBackBytes ==
  ASSUME Writing, seek_back
  PROVE  BytesKept /\ BufferKept /\ Progress'
<1>1. /\ UNCHANGED <<disk, before>> /\ pc = "seek"
      /\ \/ Returned /\ UNCHANGED hnd
         \/ /\ hnd' = [hnd EXCEPT !.curr_blk = blk_buf'.prev, !.curr_pos = @ - DataLen]
            /\ UNCHANGED <<pc, call, loc>>
  BY DEF seek_back, Seeking
<1>2. hnd'.first_blk = hnd.first_blk /\ hnd'.size = hnd.size /\ pc' \in {"idle", "seek"}
  BY <1>1, WritingFacts DEF Shapes, Returned
<1>3. BufferKept
  BY <1>2 DEF BufferKept, Buffers
<1>4. Progress'
  BY <1>1 DEF Returned, NoCall, Writing, BInv, Progress, IsWrite
<1> QED BY <1>1, <1>2, <1>3, <1>4, QuietBytes

\* seek forward changes no byte.
LEMMA SeekForwardBytes ==
  ASSUME Writing, seek_forward
  PROVE  BytesKept /\ BufferKept /\ Progress'
<1>1. /\ UNCHANGED <<disk, before>> /\ pc = "seek"
      /\ \/ Returned /\ UNCHANGED hnd
         \/ /\ hnd' = [hnd EXCEPT !.curr_blk = blk_buf'.next, !.curr_pos = @ + DataLen]
            /\ loc' = [loc EXCEPT !.last_blk = hnd.curr_blk, !.last_pos = hnd.curr_pos]
            /\ UNCHANGED <<pc, call>>
  BY DEF seek_forward, Seeking
<1>2. hnd'.first_blk = hnd.first_blk /\ hnd'.size = hnd.size /\ pc' \in {"idle", "seek"}
  BY <1>1, WritingFacts DEF Shapes, Returned
<1>3. BufferKept
  BY <1>2 DEF BufferKept, Buffers
<1>4. Progress'
  BY <1>1, WritingFacts DEF Returned, NoCall, Writing, BInv, Progress, IsWrite, Shapes
<1> QED BY <1>1, <1>2, <1>3, <1>4, QuietBytes

\* seek has found the position.
LEMMA SeekOkBytes ==
  ASSUME Writing, seek_ok
  PROVE  BytesKept /\ BufferKept /\ Progress'
<1>1. /\ UNCHANGED <<disk, hnd, before, slip>> /\ pc = "seek" /\ hnd.curr_blk # 0
      /\ drive_read_block(hnd.curr_blk)
      /\ IF Failed THEN Returned
         ELSE Proceed(Found, [loc EXCEPT !.os = call.offset - hnd.curr_pos])
  BY DEF seek_ok, Seeking
<1>2. /\ Shapes /\ Calls /\ Placed /\ ~Emptying /\ loc \in Locs /\ call.op = "write"
  BY WritingFacts DEF Shapes, Locs, Writing, IsWrite
<1>3. Here' = Here /\ hnd.curr_blk = At[Here]
  BY <1>1, <1>2 DEF Here, Placed, Nth
<1>4. CASE Returned
  <2>1. pc' = "idle" /\ call'.op = "none"
    BY <1>4 DEF Returned, NoCall
  <2> QED BY <1>1, <2>1, QuietBytes DEF BufferKept, Buffers, Progress, IsWrite
<1>5. CASE ~Failed /\ ~Returned
  <2>1. /\ pc' = "fill" /\ loc' = [loc EXCEPT !.os = call.offset - hnd.curr_pos] /\ call' = call
    BY <1>1, <1>2, <1>5 DEF Proceed, Found
  <2>2. blk_buf' = disk[hnd.curr_blk]
    BY <1>1, <1>5 DEF Failed, drive_read_block, Fault
  <2>3. BufferKept
    BY <1>1, <1>3, <2>2, ReadBytes
  <2>4. Progress'
    <3>1. loc'.os = call.offset - hnd.curr_pos /\ loc'.offset = loc.offset /\ loc'.len = loc.len
      BY <1>2, <2>1 DEF Locs
    <3>2. loc.offset = call.offset /\ loc.len = call.len
      BY <1>1, <1>2 DEF Writing, BInv, Progress, IsWrite
    <3>3. call.offset \in Nat /\ call.len \in Nat /\ hnd.curr_pos \in Nat
      BY <1>2, HereFacts DEF Shapes
    <3> QED BY <1>1, <2>1, <3>1, <3>2, <3>3 DEF Progress
  <2> QED BY <1>1, <2>3, <2>4, QuietBytes
<1> QED BY <1>1, <1>4, <1>5

\* seek has come to the last block.
LEMMA SeekAppendBytes ==
  ASSUME Writing, seek_append
  PROVE  BytesKept /\ BufferKept /\ Progress'
<1>1. /\ pc = "seek" /\ hnd.curr_blk = 0 /\ hnd.first_blk # 0 /\ hnd' = LastPos(hnd) /\ pc' = "extend"
      /\ UNCHANGED <<disk, blk_buf, call, loc, before, slip>>
  BY DEF seek_append
<1>2. Shapes /\ Placed /\ hnd \in Hnds
  BY WritingFacts DEF Shapes, Hnds
<1>3. /\ hnd'.first_blk = hnd.first_blk /\ hnd'.size = hnd.size /\ hnd'.curr_pos = loc.last_pos
      /\ Here' = loc.last_pos \div DataLen + slip
  BY <1>1, <1>2 DEF LastPos, Hnds, Here
<1>4. At[Here'] # 0 /\ blk_buf' = disk[At[Here']]
  BY <1>1, <1>2, <1>3 DEF Placed, Nth
<1>5. Progress'
  BY <1>1 DEF Writing, BInv, Progress, IsWrite
<1> QED BY <1>1, <1>3, <1>4, <1>5, ReadBytes, QuietBytes

\* seek allocates the first block, which has nothing yet.
LEMMA SeekFirstBytes ==
  ASSUME Writing, seek_first
  PROVE  BytesKept /\ BufferKept /\ Progress'
<1>1. /\ pc = "seek" /\ hnd.first_blk = 0 /\ UNCHANGED <<disk, before>>
      /\ \/ Returned
         \/ pc' = "extend" /\ UNCHANGED <<call, loc>>
  BY DEF seek_first
<1>2. hnd'.size = hnd.size
  BY WritingFacts DEF seek_first, init_pos, Shapes
<1>3. ASSUME slip = 0
      PROVE  \A i \in 1 .. Len(before.bytes) : before.bytes[i] = Stale
  <2> TAKE i \in 1 .. Len(before.bytes)
  <2>1. slip = 0 /\ (i - 1) \div DataLen \in 0 .. BlkCount /\ Kept(i, Byte(disk, 0, i)) /\ call.v # Stale
    BY <1>1, <1>3, WritingFacts, Sizes
  <2>2. Byte(disk, 0, i) = Stale
    BY <2>1, WalkNone DEF Byte
  <2> QED BY <2>1, <2>2 DEF Kept
<1>4. BytesKept
  BY <1>1, <1>2, <1>3, WritingFacts DEF BytesKept, Kept
<1>5. BufferKept
  BY <1>3 DEF BufferKept, Kept
<1>6. Progress'
  BY <1>1 DEF Returned, NoCall, Writing, BInv, Progress, IsWrite
<1> QED BY <1>4, <1>5, <1>6

\* seek allocates a block behind the last.
LEMMA SeekExtendBytes ==
  ASSUME Writing, seek_extend
  PROVE  BytesKept /\ BufferKept /\ Progress'
<1>1. /\ pc = "extend" /\ pc' = "link" /\ UNCHANGED <<disk, hnd, call, loc, before, slip>>
      /\ \E b \in Blocks \cup {0} : blk_buf' = [blk_buf EXCEPT !.next = b]
  BY DEF seek_extend
<1>2. blk_buf'.data = blk_buf.data
  BY <1>1, WritingFacts DEF Shapes, Blks
<1>3. Progress'
  BY <1>1 DEF Writing, BInv, Progress, IsWrite
<1>4. Here' = Here
  BY <1>1 DEF Here
<1> QED BY <1>1, <1>2, <1>3, <1>4, SameBuffer, QuietBytes DEF Buffers

\* seek has filled the gap before the position.
LEMMA SeekDoneBytes ==
  ASSUME Writing, seek_done
  PROVE  BytesKept /\ BufferKept /\ Progress'
<1>1. /\ pc = "extend" /\ pc' = Appended /\ UNCHANGED <<disk, hnd, blk_buf, call, before, slip>>
      /\ loc' = [loc EXCEPT !.append = TRUE, !.update_item = TRUE, !.os = call.offset - hnd.curr_pos]
  BY DEF seek_done
<1>2. /\ Shapes /\ loc \in Locs /\ call.op = "write"
  BY WritingFacts DEF Shapes, Locs, Writing, IsWrite
<1>3. loc'.os = call.offset - hnd.curr_pos /\ loc'.offset = loc.offset /\ loc'.len = loc.len
  BY <1>1, <1>2 DEF Locs
<1>4. loc.offset = call.offset /\ loc.len = call.len
  BY <1>1 DEF Writing, BInv, Progress
<1>5. call.offset \in Nat /\ call.len \in Nat /\ hnd.curr_pos \in Nat
  BY <1>2, HereFacts DEF Shapes
<1>6. pc' \in {"update", "fill"}
  BY <1>1, <1>2 DEF Appended
<1>7. Progress'
  BY <1>1, <1>3, <1>4, <1>5, <1>6 DEF Progress
<1>8. Here' = Here
  BY <1>1 DEF Here
<1> QED BY <1>1, <1>7, <1>8, SameBuffer, QuietBytes DEF Buffers

\* A step that writes the current block.
LEMMA StoreBytes ==
  ASSUME Writing, pc \in {"link", "store"}, before' = before, used' = used, pc' # "freeing",
         disk' \in {disk, [disk EXCEPT ![hnd.curr_blk] = blk_buf]},
         hnd'.first_blk = hnd.first_blk, hnd.size <= hnd'.size, hnd'.size <= BlkCount * DataLen,
         hnd'.size \in Nat
  PROVE  BytesKept
<1>1. Len(before.bytes) <= hnd'.size
  BY WritingFacts
<1>2. ASSUME slip = 0, NEW i \in 1 .. Len(before.bytes)
      PROVE  Kept(i, Byte(disk', hnd.first_blk, i))
  <2>1. /\ i \in 1 .. BlkCount * DataLen /\ Kept(i, Byte(disk, hnd.first_blk, i))
        /\ call.v # Stale
    BY <1>2, WritingFacts
  <2>2. CASE disk' = disk
    BY <2>1, <2>2
  <2>3. CASE disk' = [disk EXCEPT ![hnd.curr_blk] = blk_buf]
    <3>1. /\ (i - 1) \div DataLen = Here =>
               Byte(disk', hnd.first_blk, i) = blk_buf.data[(i - 1) % DataLen]
          /\ (i - 1) \div DataLen # Here =>
               \/ Byte(disk', hnd.first_blk, i) = Byte(disk, hnd.first_blk, i)
               \/ Byte(disk, hnd.first_blk, i) = Stale
      BY <2>1, <2>3, BytesStored DEF Writing
    <3>2. (i - 1) \div DataLen = Here => Kept(i, blk_buf.data[(i - 1) % DataLen])
      BY <1>2 DEF Writing, BInv, Intact, Buffers
    <3>3. Byte(disk, hnd.first_blk, i) = Stale => Kept(i, Byte(disk', hnd.first_blk, i))
      BY <2>1 DEF Kept
    <3> QED BY <2>1, <3>1, <3>2, <3>3
  <2> QED BY <2>2, <2>3
<1> QED BY <1>1, <1>2 DEF BytesKept

\* Behind the current block there is none yet, when it is the last one.
LEMMA NothingBehind ==
  ASSUME Writing, pc = "link" \/ (pc = "store" /\ loc.append)
  PROVE  Here < BlkCount /\ At[Here + 1] = 0
<1>1. /\ Shapes /\ Walkable /\ hnd.curr_blk # 0 /\ hnd.curr_blk = At[Here] /\ Here \in 0 .. BlkCount
      /\ ~disk[hnd.curr_blk].known \/ disk[hnd.curr_blk].next = 0
  <2>1. Shapes /\ Walkable /\ Placed /\ Buffered
    BY WritingFacts
  <2>2. Nth(At, Here, hnd.curr_blk)
    BY <2>1 DEF Placed
  <2> QED BY <2>1, <2>2, PlaceRange DEF Buffered
<1>2. Here < BlkCount
  BY <1>1, Sizes DEF Walkable, NoCycle
<1>3. Here \in 0 .. BlkCount - 1
  BY <1>1, <1>2, Sizes
<1>4. At[Here + 1] = Follow(disk, At[Here])
  BY <1>1, <1>3, AtFacts
<1> QED BY <1>1, <1>2, <1>4 DEF Follow

\* The place after a step to the next block.
LEMMA NextHere ==
  ASSUME Shapes, Here < BlkCount, hnd'.curr_pos = hnd.curr_pos + DataLen, slip' = slip
  PROVE  Here' = Here + 1
BY HereFacts DEF Here

\* A link leaves the bytes of the block as they were.
LEMMA SeekLinkBytes ==
  ASSUME Writing, seek_link
  PROVE  BytesKept /\ BufferKept /\ Progress'
<1>1. /\ pc = "link" /\ drive_write_block(hnd.curr_blk, blk_buf) /\ UNCHANGED <<used, before, slip>>
      /\ \/ Returned /\ UNCHANGED hnd
         \/ /\ hnd' = [hnd EXCEPT !.curr_blk = blk_buf.next, !.curr_pos = @ + DataLen]
            /\ pc' = "extend" /\ UNCHANGED <<call, loc>>
  BY DEF seek_link
<1>2. hnd \in Hnds
  BY WritingFacts DEF Shapes, Hnds
<1>3. hnd'.first_blk = hnd.first_blk /\ hnd'.size = hnd.size
  BY <1>1, <1>2 DEF Hnds
<1>4. disk' \in {disk, [disk EXCEPT ![hnd.curr_blk] = blk_buf]} /\ pc' # "freeing"
  BY <1>1 DEF drive_write_block, Returned
<1>5. BytesKept
  BY <1>1, <1>3, <1>4, WritingFacts, StoreBytes
<1>6. BufferKept
  <2>1. CASE pc' = "idle"
    BY <2>1 DEF BufferKept, Buffers
  <2>2. CASE pc' # "idle"
    <3>1. hnd'.curr_pos = hnd.curr_pos + DataLen
      BY <1>1, <1>2, <2>2 DEF Returned, Hnds
    <3>2. Here < BlkCount /\ At[Here + 1] = 0
      BY <1>1, NothingBehind
    <3>3. Here' = Here + 1
      BY <1>1, <3>1, <3>2, WritingFacts, NextHere
    <3> QED BY <3>2, <3>3, NewBytes
  <2> QED BY <2>1, <2>2
<1>7. Progress'
  BY <1>1 DEF Returned, NoCall, Writing, BInv, Progress, IsWrite
<1> QED BY <1>5, <1>6, <1>7

\* tfs_write allocates the block behind the current one.
LEMMA WriteAllocBytes ==
  ASSUME Writing, write_alloc
  PROVE  BytesKept /\ BufferKept /\ Progress'
<1>1. /\ pc = "prealloc" /\ pc' = "store" /\ UNCHANGED <<disk, hnd, call, before, slip>>
      /\ loc' = [loc EXCEPT !.append = TRUE]
      /\ \E b \in Blocks \cup {0} : blk_buf' = [blk_buf EXCEPT !.next = b]
  BY DEF write_alloc
<1>2. blk_buf'.data = blk_buf.data /\ loc'.len = loc.len /\ loc'.offset = loc.offset
  BY <1>1, WritingFacts DEF Shapes, Blks
<1>3. Progress'
  BY <1>1, <1>2 DEF Writing, BInv, Progress, IsWrite
<1>4. Here' = Here
  BY <1>1 DEF Here
<1> QED BY <1>1, <1>2, <1>3, <1>4, SameBuffer, QuietBytes DEF Buffers

\* The buffer gets the bytes of the block that is changed in part.
LEMMA WriteFetchBytes ==
  ASSUME Writing, write_fetch
  PROVE  BytesKept /\ BufferKept /\ Progress'
<1>1. /\ pc = "fetch" /\ drive_read_block(hnd.curr_blk) /\ UNCHANGED <<disk, before>>
      /\ IF Failed THEN Returned /\ UNCHANGED hnd
         ELSE /\ hnd' = [hnd EXCEPT !.curr_pos = @ + DataLen] /\ Proceed("fill", loc)
              /\ slip' = slip
  BY DEF write_fetch
<1>2. Shapes /\ Calls /\ Placed /\ hnd \in Hnds
  BY WritingFacts DEF Shapes, Hnds
<1>3. hnd'.first_blk = hnd.first_blk /\ hnd'.size = hnd.size
  BY <1>1, <1>2 DEF Hnds
<1>4. CASE Failed
  <2>1. pc' = "idle" /\ call'.op = "none"
    BY <1>1, <1>4 DEF Returned, NoCall
  <2> QED BY <1>1, <1>3, <2>1, QuietBytes DEF BufferKept, Buffers, Progress, IsWrite
<1>5. CASE ~Failed
  <2>1. /\ pc' = "fill" /\ UNCHANGED <<loc, call>> /\ hnd'.curr_pos = hnd.curr_pos + DataLen
    BY <1>1, <1>2, <1>5 DEF Proceed, Hnds
  <2>2. blk_buf' = disk[hnd.curr_blk]
    BY <1>1, <1>5 DEF Failed, drive_read_block, Fault
  <2>3. hnd.curr_blk = At[Here + 1] /\ hnd.curr_blk # 0 /\ Here < BlkCount
    BY <1>1, <1>2 DEF Placed, Nth
  <2>4. Here' = Here + 1
    BY <1>1, <1>2, <1>5, <2>1, <2>3, NextHere
  <2>5. Progress'
    <3>1. loc.offset = hnd.curr_pos + DataLen /\ loc.offset \in Nat
      BY <1>1, <1>2 DEF Writing, BInv, Progress, Shapes
    <3>2. /\ call.offset <= loc.offset /\ loc.offset + loc.len = call.offset + call.len
      BY <1>1 DEF Writing, BInv, Progress
    <3>3. loc.os = 0
      BY <1>1, <1>2 DEF Writing, BInv, Progress
    <3> QED BY <2>1, <3>1, <3>2, <3>3 DEF Progress
  <2> QED BY <1>1, <1>3, <2>2, <2>3, <2>4, <2>5, ReadBytes, QuietBytes
<1> QED BY <1>4, <1>5

\* The bytes that go into the current block.
LEMMA ChunkFacts ==
  ASSUME Writing, pc = "fill"
  PROVE  /\ loc.os \in Nat /\ ChunkLen \in Nat /\ ChunkLen <= loc.len /\ loc.os + ChunkLen <= DataLen
         /\ ChunkLen # loc.len => loc.os + ChunkLen = DataLen
         /\ loc.offset \in Nat /\ loc.len \in Nat /\ call.offset \in Nat /\ call.len \in Nat
         /\ hnd.curr_pos \in Nat /\ (slip = 0 => hnd.curr_pos = DataLen * Here)
         /\ hnd.curr_pos + loc.os = loc.offset /\ call.offset <= loc.offset
         /\ loc.offset + loc.len = call.offset + call.len
<1>1. Shapes /\ Calls
  BY WritingFacts
<1>2. /\ loc.offset \in Nat /\ loc.len \in Nat /\ call.offset \in Nat /\ call.len \in Nat
      /\ loc.os \in Offs
  BY <1>1 DEF Shapes, Calls
<1>3. /\ hnd.curr_pos \in Nat /\ (slip = 0 => hnd.curr_pos = DataLen * Here)
  BY <1>1, HereFacts DEF Here
<1>4. /\ hnd.curr_pos + loc.os = loc.offset /\ call.offset <= loc.offset
      /\ loc.offset + loc.len = call.offset + call.len
  BY DEF Writing, BInv, Progress
<1>5. /\ loc.os \in Nat /\ ChunkLen \in Nat /\ ChunkLen <= loc.len /\ loc.os + ChunkLen <= DataLen
      /\ ChunkLen # loc.len => loc.os + ChunkLen = DataLen
  BY <1>2, Sizes DEF ChunkLen, Offs
<1> QED BY <1>2, <1>3, <1>4, <1>5

\* What was asked for goes into the buffer, and nowhere else in it.
LEMMA WriteFillBytes ==
  ASSUME Writing, write_fill
  PROVE  BytesKept /\ BufferKept /\ Progress'
<1>1. /\ pc = "fill" /\ pc' \in {"prealloc", "store"} /\ UNCHANGED <<disk, hnd, call, before, slip>>
      /\ blk_buf' = [blk_buf EXCEPT !.data = [o \in Offs |-> IF o \in Chunk THEN call.v ELSE @[o]]]
      /\ loc' = [loc EXCEPT !.len = @ - ChunkLen, !.offset = @ + ChunkLen]
  BY DEF write_fill
<1>2. blk_buf \in Blks /\ loc \in Locs
  BY WritingFacts DEF Shapes, Locs
<1>3. /\ \A o \in Offs : blk_buf'.data[o] = IF o \in Chunk THEN call.v ELSE blk_buf.data[o]
      /\ loc'.len = loc.len - ChunkLen /\ loc'.offset = loc.offset + ChunkLen
  <2>1. blk_buf'.data = [o \in Offs |-> IF o \in Chunk THEN call.v ELSE blk_buf.data[o]]
    BY <1>1, <1>2 DEF Blks
  <2>2. loc'.len = loc.len - ChunkLen /\ loc'.offset = loc.offset + ChunkLen
    BY <1>1, <1>2 DEF Locs
  <2> QED BY <2>1, <2>2
<1>4. Here' = Here
  BY <1>1 DEF Here
<1>5. ASSUME slip = 0, NEW i \in 1 .. Len(before.bytes), (i - 1) \div DataLen = Here
      PROVE  Kept(i, blk_buf'.data[(i - 1) % DataLen])
  <2> DEFINE o == (i - 1) % DataLen
  <2>1. o \in Offs /\ i = DataLen * Here + o + 1
    BY <1>5, WritingFacts
  <2>2. Kept(i, blk_buf.data[o])
    BY <1>1, <1>5 DEF Writing, BInv, Intact, Buffers
  <2> HIDE DEF o
  <2>3. CASE o \notin Chunk
    BY <1>3, <2>1, <2>2, <2>3 DEF o
  <2>4. CASE o \in Chunk
    <3>1. o \in Nat /\ loc.os <= o /\ o < loc.os + ChunkLen /\ i = hnd.curr_pos + o + 1
      <4>1. loc.os \in Nat /\ ChunkLen \in Nat /\ hnd.curr_pos = DataLen * Here
        BY <1>1, <1>5, ChunkFacts
      <4>2. o \in loc.os .. loc.os + ChunkLen - 1
        BY <2>4 DEF Chunk
      <4>3. o \in Nat /\ loc.os <= o /\ o < loc.os + ChunkLen
        BY <4>1, <4>2
      <4> QED BY <2>1, <4>1, <4>3
    <3>2. i > call.offset /\ i <= call.offset + call.len
      <4>1. /\ loc.os \in Nat /\ ChunkLen \in Nat /\ ChunkLen <= loc.len
            /\ loc.offset \in Nat /\ loc.len \in Nat /\ call.offset \in Nat /\ call.len \in Nat
            /\ hnd.curr_pos \in Nat /\ hnd.curr_pos + loc.os = loc.offset /\ call.offset <= loc.offset
            /\ loc.offset + loc.len = call.offset + call.len
        BY <1>1, ChunkFacts
      <4>2. i > hnd.curr_pos + loc.os
        BY <3>1, <4>1
      <4>3. i <= hnd.curr_pos + loc.os + ChunkLen
        BY <3>1, <4>1
      <4>4. i > call.offset
        BY <4>1, <4>2
      <4>5. i <= loc.offset + loc.len
        BY <4>1, <4>3
      <4> QED BY <4>1, <4>4, <4>5
    <3>3. blk_buf'.data[o] = call.v
      BY <1>3, <2>1, <2>4
    <3> QED BY <3>2, <3>3 DEF Kept, Asked, o
  <2> QED BY <2>3, <2>4
<1>6. BufferKept
  BY <1>4, <1>5 DEF BufferKept
<1>7. Progress'
  <2>1. /\ call'.offset <= loc'.offset /\ loc'.offset + loc'.len = call'.offset + call'.len
        /\ loc'.offset <= hnd'.curr_pos + DataLen
        /\ loc'.len # 0 => loc'.offset = hnd'.curr_pos + DataLen
    BY <1>1, <1>3, ChunkFacts, Sizes
  <2> QED BY <1>1, <2>1 DEF Progress
<1> QED BY <1>1, <1>6, <1>7, QuietBytes

\* The buffer goes to the current block.
LEMMA WriteStoreBytes ==
  ASSUME Writing, write_store
  PROVE  BytesKept /\ BufferKept /\ Progress'
<1> DEFINE sized == [hnd EXCEPT !.size = IF Grown THEN loc.offset ELSE @]
           l     == [loc EXCEPT !.update_item = loc.update_item \/ Grown, !.os = 0]
<1>1. /\ pc = "store" /\ drive_write_block(hnd.curr_blk, blk_buf) /\ UNCHANGED <<used, before, slip>>
      /\ \/ Returned /\ UNCHANGED hnd
         \/ /\ loc.len = 0 /\ hnd' = sized
            /\ Proceed(IF loc.update_item \/ Grown THEN "update" ELSE "done", l)
         \/ /\ loc.len # 0 /\ loc.append /\ Proceed("fill", l)
            /\ hnd' = [sized EXCEPT !.curr_blk = blk_buf.next, !.curr_pos = @ + DataLen]
         \/ /\ loc.len # 0 /\ ~loc.append /\ Proceed("fetch", l)
            /\ hnd' = [sized EXCEPT !.curr_blk = blk_buf.next]
  <2>1. loc.append \in BOOLEAN
    BY WritingFacts DEF Shapes
  <2> QED BY <2>1 DEF write_store
<1>2. hnd \in Hnds /\ loc \in Locs /\ Shapes
  BY WritingFacts DEF Shapes, Hnds, Locs
<1>3. /\ sized.first_blk = hnd.first_blk /\ sized.curr_pos = hnd.curr_pos
      /\ sized.size = IF Grown THEN loc.offset ELSE hnd.size
      /\ l.len = loc.len /\ l.offset = loc.offset /\ l.os = 0
  BY <1>2 DEF Hnds, Locs
<1>4. /\ hnd'.first_blk = hnd.first_blk /\ hnd'.size \in {hnd.size, IF Grown THEN loc.offset ELSE hnd.size}
      /\ (pc' = "fill" => hnd'.curr_pos = hnd.curr_pos + DataLen)
      /\ (pc' = "fetch" => hnd'.curr_pos = hnd.curr_pos)
  BY <1>1, <1>2 DEF Hnds, Proceed, Returned
<1> HIDE DEF sized
<1>5. Here < BlkCount
  <2>2. Walkable /\ Nth(At, Here, hnd.curr_blk)
    BY <1>1, WritingFacts DEF Placed
  <2>1. /\ Walkable /\ hnd.curr_blk # 0 /\ hnd.curr_blk = At[Here] /\ Here \in 0 .. BlkCount
    BY <1>2, <2>2, PlaceRange
  <2> QED BY <2>1, Sizes DEF Walkable, NoCycle
<1>6. hnd.size <= hnd'.size /\ hnd'.size <= BlkCount * DataLen /\ hnd'.size \in Nat
  <2>1. loc.offset <= BlkCount * DataLen
    <3>1. PICK k \in 0 .. BlkCount : hnd.curr_pos + DataLen = DataLen * k
      BY <1>2, <1>5, HereFacts DEF Positions
    <3>2. \A d, a, b \in Nat : a <= b => a * d <= b * d
      OBVIOUS
    <3>3. k \in Nat /\ k <= BlkCount /\ DataLen * k = k * DataLen
      BY Sizes
    <3>4. k * DataLen <= BlkCount * DataLen
      BY <3>2, <3>3, Sizes
    <3>5. loc.offset <= hnd.curr_pos + DataLen
      BY <1>1 DEF Writing, BInv, Progress
    <3>6. k * DataLen \in Nat /\ BlkCount * DataLen \in Nat /\ loc.offset \in Nat
      BY <1>2, <3>3, Sizes DEF Locs
    <3> QED BY <3>1, <3>3, <3>4, <3>5, <3>6
  <2>2. hnd.size \in Nat /\ loc.offset \in Nat /\ hnd.size <= BlkCount * DataLen
    BY <1>2, WritingFacts DEF Locs
  <2> QED BY <1>4, <2>1, <2>2 DEF Grown
<1>7. disk' \in {disk, [disk EXCEPT ![hnd.curr_blk] = blk_buf]} /\ pc' # "freeing"
  BY <1>1 DEF drive_write_block, Returned, Proceed
<1>8. BytesKept
  BY <1>1, <1>4, <1>6, <1>7, StoreBytes
<1>9. pc' \in {"idle", "update"} \/ (pc' = "fill" /\ loc.append) \/ pc' = "fetch"
  BY <1>1 DEF Returned, Proceed
<1>10. BufferKept
  <2>1. CASE pc' = "fill" /\ loc.append
    <3>1. At[Here + 1] = 0 /\ Here' = Here + 1
      BY <1>1, <1>2, <1>4, <1>5, <2>1, NothingBehind, NextHere
    <3> QED BY <3>1, NewBytes
  <2>2. CASE pc' # "fill"
    BY <1>9, <2>2 DEF BufferKept, Buffers
  <2> QED BY <1>9, <2>1, <2>2
<1>11. Progress'
  <2>1. CASE pc' \in {"fill", "fetch"}
    <3>1. loc' = l /\ call' = call /\ loc.len # 0
      BY <1>1, <2>1 DEF Returned, Proceed
    <3>2. /\ loc'.len = loc.len /\ loc'.offset = loc.offset /\ loc'.os = 0
      BY <1>3, <3>1
    <3>3. /\ call.offset <= loc.offset /\ loc.offset + loc.len = call.offset + call.len
          /\ loc.offset = hnd.curr_pos + DataLen /\ loc.offset \in Nat
      BY <1>1, <1>2, <3>1 DEF Writing, BInv, Progress, Locs
    <3>4. hnd'.curr_pos + 0 = hnd'.curr_pos \/ pc' # "fill"
      <4>1. hnd.curr_pos \in Nat /\ DataLen \in Nat
        BY <1>2, HereFacts, Sizes
      <4> QED BY <1>4, <4>1
    <3> QED BY <1>4, <2>1, <3>1, <3>2, <3>3, <3>4 DEF Progress
  <2>2. CASE pc' \in {"idle", "update"}
    BY <2>2 DEF Progress
  <2> QED BY <1>9, <2>1, <2>2
<1> QED BY <1>8, <1>10, <1>11

\* The item gets its size and first block.
LEMMA UpdateBytes ==
  ASSUME Writing, update_dir_item
  PROVE  BytesKept /\ BufferKept /\ Progress'
<1>1. UNCHANGED <<disk, hnd, before>> /\ pc' = "idle"
  BY DEF update_dir_item, Returned
<1> QED BY <1>1, QuietBytes DEF BufferKept, Buffers, Progress

-----------------------------------------------------------------------------
(* All steps.                                                              *)

\* Each step of tfs_write keeps every byte the old one or the one asked for.
LEMMA WriteSteps ==
  ASSUME Writing, Step
  PROVE  BytesKept /\ BufferKept /\ Progress'
<1>1. Calls /\ call.op = "write"
  BY WritingFacts DEF Writing, IsWrite
<1>2. ~(seek_eof \/ read_copy \/ read_next \/ trunc_cut \/ trunc_store \/ free_file_blocks \/ trunc_freed)
  BY <1>1 DEF Calls, seek_eof, read_copy, read_next, trunc_cut, trunc_store, free_file_blocks, trunc_freed
<1> QED BY <1>2, SeekBackBytes, SeekForwardBytes, SeekOkBytes, SeekAppendBytes, SeekFirstBytes,
           SeekExtendBytes, SeekLinkBytes, SeekDoneBytes, WriteFillBytes, WriteAllocBytes,
           WriteStoreBytes, WriteFetchBytes, UpdateBytes DEF Step

\* What no step but one of tfs_write changes, and what the item may become.
LEMMA SizeSteps ==
  ASSUME IInv, Step
  PROVE  /\ before' = before /\ pc # "idle" /\ call' \in {call, NoCall}
         /\ call.op = "write" \/ hnd'.size = hnd.size
         /\ item'.size \in {item.size, hnd.size}
         /\ call.op = "write" /\ call' # NoCall => slip' = slip
<1>1. Shapes /\ (pc # "idle" => Calls) /\ hnd \in Hnds
  BY DEF IInv, Live, Shapes, Hnds
<1>2. CASE seek_back \/ seek_forward \/ seek_ok \/ seek_eof
  BY <1>1, <1>2 DEF seek_back, seek_forward, seek_ok, seek_eof, Seeking, Returned, Proceed, Hnds
<1>3. CASE seek_append \/ seek_first \/ seek_extend \/ seek_link \/ seek_done
  BY <1>1, <1>3 DEF seek_append, seek_first, seek_extend, seek_link, seek_done, Returned, LastPos,
     init_pos, Hnds
<1>4. CASE write_fill \/ write_alloc \/ write_store \/ write_fetch
  <2>1. /\ UNCHANGED <<before, item>> /\ pc \in {"fill", "prealloc", "store", "fetch"}
        /\ call' \in {call, NoCall}
    BY <1>1, <1>4 DEF write_fill, write_alloc, write_store, write_fetch, Returned, Proceed, Shapes
  <2>2. call' # NoCall => slip' = slip
    BY <1>4 DEF write_fill, write_alloc, write_store, write_fetch, Returned
  <2> QED BY <1>1, <2>1, <2>2 DEF Calls
<1>5. CASE update_dir_item
  BY <1>1, <1>5 DEF update_dir_item, Returned
<1>6. CASE read_copy \/ read_next
  BY <1>1, <1>6 DEF read_copy, read_next, Returned, Proceed, Hnds
<1>7. CASE trunc_cut \/ trunc_store \/ free_file_blocks
  BY <1>1, <1>7 DEF trunc_cut, trunc_store, free_file_blocks, Returned, Proceed, AfterCut
<1>8. CASE trunc_freed
  BY <1>1, <1>8 DEF trunc_freed, init_pos, Hnds, Calls
<1> QED BY <1>2, <1>3, <1>4, <1>5, <1>6, <1>7, <1>8 DEF Step

\* Each step of any call does.
LEMMA StepBytes ==
  ASSUME IInv, BInv, Step
  PROVE  BInv'
<1>1. /\ before' = before /\ pc # "idle" /\ call' \in {call, NoCall}
      /\ call.op = "write" \/ hnd'.size = hnd.size
      /\ item'.size \in {item.size, hnd.size}
      /\ call.op = "write" /\ call' # NoCall => slip' = slip
  BY SizeSteps
<1>2. CASE IsWrite
  <2>1. BytesKept /\ BufferKept /\ Progress'
    BY <1>1, <1>2, WriteSteps DEF Writing
  <2>2. Sized'
    BY <1>1, <2>1 DEF BytesKept, BInv, Sized
  <2>3. Intact'
    <3>1. CASE call' = NoCall
      BY <3>1 DEF Intact, IsWrite, NoCall
    <3>2. CASE call' = call /\ call' # NoCall
      <4>1. \A i, x : Kept(i, x)' <=> (\/ before.bytes[i] = Stale
                                       \/ x' = before.bytes[i]
                                       \/ Asked(i) /\ x' = call.v)
        BY <1>1, <3>2 DEF Kept, Asked
      <4>2. slip' = slip
        BY <1>1, <1>2, <3>2 DEF IsWrite
      <4> QED BY <1>1, <2>1, <4>1, <4>2, <3>2 DEF Intact, BytesKept, BufferKept, Kept, Asked
    <3> QED BY <1>1, <3>1, <3>2
  <2> QED BY <2>1, <2>2, <2>3 DEF BInv
<1>3. CASE ~IsWrite
  <2>1. call'.op # "write"
    BY <1>1, <1>3 DEF IsWrite, NoCall
  <2>2. hnd'.size = hnd.size
    BY <1>1, <1>3 DEF IsWrite
  <2> QED BY <1>1, <2>1, <2>2 DEF BInv, Sized, Progress, Intact, IsWrite
<1> QED BY <1>2, <1>3

\* A call begins.
LEMMA EnterBytes ==
  ASSUME IInv, BInv, Enter, hnd'.size = hnd.size, hnd'.first_blk = hnd.first_blk
  PROVE  /\ Sized' /\ disk' = disk
         /\ Len(before'.bytes) = hnd'.size
         /\ \A i \in 1 .. Len(before'.bytes) : before'.bytes[i] = Byte(disk', hnd'.first_blk, i)
<1>1. /\ Shapes /\ hnd.first_blk \in Ptrs /\ hnd.size \in Nat /\ hnd.size <= BlkCount * DataLen
  BY DEF IInv, Shapes, BInv, Sized
<1>2. before' = Snapshot(hnd, before.lost, Unsaved) /\ disk' = disk /\ item' = item
  BY DEF Enter
<1> QED BY <1>1, <1>2, SnapshotIs DEF BInv, Sized, S

\* So it is when a call begins.
LEMMA CallBytes ==
  ASSUME IInv, BInv, Call
  PROVE  BInv'
<1>1. hnd \in Hnds
  BY DEF IInv, Shapes, Hnds
<1>2. ASSUME NEW offset \in 0 .. MaxSize, NEW len \in 0 .. MaxSize, NEW v \in Bytes,
             tfs_write(len, offset, v)
      PROVE  BInv'
  <2>1. /\ Enter /\ hnd' = StartPos(hnd, offset) /\ pc' = "seek"
        /\ call' = Arguments("write", len, offset, v)
        /\ loc' = [NoLoc EXCEPT !.len = len, !.offset = offset]
    BY <1>2 DEF tfs_write
  <2>2. hnd'.size = hnd.size /\ hnd'.first_blk = hnd.first_blk
    BY <1>1, <2>1, StartPosFacts
  <2>3. /\ Sized' /\ Len(before'.bytes) = hnd'.size
        /\ \A i \in 1 .. Len(before'.bytes) : before'.bytes[i] = Byte(disk', hnd'.first_blk, i)
    BY <2>1, <2>2, EnterBytes
  <2>4. Len(before'.bytes) <= hnd'.size
    BY <1>1, <2>2, <2>3, Sizes DEF Hnds
  <2>5. Progress'
    BY <2>1 DEF Progress, Arguments, NoLoc
  <2>6. Intact'
    BY <2>1, <2>3, <2>4 DEF Intact, Kept, Buffers
  <2> QED BY <2>3, <2>5, <2>6 DEF BInv
<1>3. ASSUME NEW offset, NEW len, tfs_read(len, offset)
      PROVE  BInv'
  <2>1. Enter /\ hnd' = StartPos(hnd, offset) /\ call'.op = "read"
    BY <1>3 DEF tfs_read, Arguments
  <2>2. hnd'.size = hnd.size /\ hnd'.first_blk = hnd.first_blk
    BY <1>1, <2>1, StartPosFacts
  <2> QED BY <2>1, <2>2, EnterBytes DEF BInv, Progress, Intact, IsWrite
<1>4. ASSUME NEW offset, tfs_read_beyond(offset)
      PROVE  BInv'
  <2>1. Enter /\ hnd' = hnd /\ call'.op # "write"
    BY <1>4 DEF tfs_read_beyond, Enter, IInv, Shapes
  <2> QED BY <2>1, EnterBytes DEF BInv, Progress, Intact, IsWrite
<1>5. ASSUME NEW size, tfs_trunc(size)
      PROVE  BInv'
  <2>1. Enter /\ (hnd' = hnd \/ hnd' = StartPos(hnd, size)) /\ call'.op = "trunc"
    BY <1>5 DEF tfs_trunc, Arguments
  <2>2. hnd'.size = hnd.size /\ hnd'.first_blk = hnd.first_blk
    BY <1>1, <2>1, StartPosFacts
  <2> QED BY <2>1, <2>2, EnterBytes DEF BInv, Progress, Intact, IsWrite
<1>6. CASE reopen
  <2> DEFINE h == [size |-> item.size, first_blk |-> item.blk, curr_blk |-> 0, curr_pos |-> 0]
  <2>1. /\ Shapes /\ item.size \in 0 .. MaxSize /\ item.blk \in Ptrs /\ item.size <= BlkCount * DataLen
    BY DEF IInv, Shapes, BInv, Sized
  <2>2. h \in Hnds /\ h.size = item.size /\ h.first_blk = item.blk
    BY <2>1, Constants0, Sizes DEF Hnds
  <2>3. hnd' = init_pos(h) /\ pc = "idle" /\ UNCHANGED <<disk, item, call>>
    BY <1>6 DEF reopen
  <2> HIDE DEF h
  <2>4. hnd'.size = item.size /\ hnd'.first_blk = item.blk
    BY <2>2, <2>3, StartPosFacts
  <2>5. before' = [bytes |-> [i \in 1 .. hnd'.size |-> Byte(disk, hnd'.first_blk, i)],
                   lost |-> IF Unsaved THEN used \ ChainBlks(item.blk) ELSE before.lost,
                   unsaved |-> FALSE]
    BY <1>6, <2>3 DEF reopen, Snapshot, Content
  <2>6. before'.bytes \in Seq(S)
    <3>1. hnd'.first_blk \in Ptrs /\ hnd'.size \in Nat /\ hnd'.size <= BlkCount * DataLen
      BY <2>1, <2>4
    <3>2. Snapshot(hnd', {}, FALSE).bytes \in Seq(S)
      BY <2>1, <3>1, SnapshotIs
    <3> QED BY <2>5, <3>2 DEF Snapshot, Content
  <2>7. call'.op # "write"
    BY <2>1, <2>3 DEF Shapes
  <2> QED BY <2>1, <2>3, <2>4, <2>6, <2>7 DEF BInv, Sized, Progress, Intact, IsWrite, S
<1> QED BY <1>2, <1>3, <1>4, <1>5, <1>6 DEF Call

\* And for a file that was opened.
LEMMA InitBytes ==
  ASSUME Init
  PROVE  BInv
<1>1. /\ EmptyFile \/ (WrittenFiles /\ WrittenFile)
      /\ call = NoCall /\ before = Snapshot(hnd, {}, FALSE)
      /\ hnd = init_pos([size |-> item.size, first_blk |-> item.blk, curr_blk |-> 0, curr_pos |-> 0])
  BY DEF Init
<1>2. Shapes
  BY InitInv DEF IInv
<1>3. item.size \in {0, 1}
  BY <1>1 DEF EmptyFile, WrittenFile
<1>4. hnd.size = item.size
  BY <1>1 DEF init_pos
<1>5. 1 <= BlkCount * DataLen /\ 0 <= BlkCount * DataLen /\ BlkCount * DataLen \in Nat
  <2>1. \A a, b \in Nat \ {0} : 1 <= a * b /\ a * b \in Nat
    OBVIOUS
  <2>2. 1 <= BlkCount * DataLen /\ BlkCount * DataLen \in Nat
    BY <2>1, Sizes
  <2> QED BY <2>2
<1>6. hnd.size <= BlkCount * DataLen /\ item.size <= BlkCount * DataLen /\ hnd.first_blk \in Ptrs
      /\ hnd.size \in Nat
  BY <1>2, <1>3, <1>4, <1>5 DEF Shapes
<1>7. before.bytes \in Seq(S)
  BY <1>1, <1>2, <1>6, SnapshotIs
<1> QED BY <1>1, <1>6, <1>7 DEF BInv, Sized, Progress, Intact, IsWrite, NoCall, S

\* Where the bytes of a file that is written are, at each step of tfs_write.
THEOREM BytesInvariance ==
  ASSUME EmptyAppends = FALSE
  PROVE  Spec => [](IInv /\ Saved /\ BInv)
<1>1. Init => IInv /\ Saved /\ BInv
  BY InitInv, InitBytes
<1>2. IInv /\ Saved /\ BInv /\ [Next]_vars => (IInv /\ Saved /\ BInv)'
  <2> SUFFICES ASSUME IInv, Saved, BInv, [Next]_vars PROVE (IInv /\ Saved /\ BInv)'
    OBVIOUS
  <2>1. IInv' /\ Saved'
    BY NextInv, SavedNext
  <2>2. ASSUME UNCHANGED vars PROVE BInv'
    <3>1. disk' = disk /\ item' = item /\ hnd' = hnd /\ blk_buf' = blk_buf /\ pc' = pc
          /\ call' = call /\ loc' = loc /\ before' = before /\ slip' = slip
      BY <2>2 DEF vars
    <3>2. Sized'
      BY <3>1 DEF BInv, Sized
    <3>3. Progress'
      BY <3>1 DEF BInv, Progress, IsWrite
    <3>4. Intact'
      BY <3>1 DEF BInv, Intact, Kept, Asked, IsWrite, Byte, Here
    <3> QED BY <3>2, <3>3, <3>4 DEF BInv
  <2>3. ASSUME Next PROVE BInv'
    BY <2>3, CallBytes, StepBytes DEF Next
  <2> QED BY <2>1, <2>2, <2>3
<1> QED BY <1>1, <1>2, PTL DEF Spec

\* Whatever tfs_write meets, a full drive or a transfer that fails at any of its steps, now or
\* in an earlier call with the same descriptor, it changes no byte that it was not asked to
\* write, and makes of the others nothing but what it was asked for; unless an earlier call
\* could not read its next block and has left the handle ahead of its position.
THEOREM OthersStayIntact ==
  ASSUME EmptyAppends = FALSE
  PROVE  Spec => OthersIntact
<1> DEFINE A == Returns /\ IsWrite /\ slip = 0 =>
                  \A i \in 1 .. Len(before.bytes) :
                    \/ before.bytes[i] = Stale
                    \/ Bytes0'[i] = before.bytes[i]
                    \/ Asked(i) /\ Bytes0'[i] = call.v
<1>1. IInv /\ Saved /\ BInv /\ [Next]_vars => [A]_vars
  <2> SUFFICES ASSUME IInv, Saved, BInv, Next, Returns, IsWrite, slip = 0, NEW i \in 1 .. Len(before.bytes)
               PROVE  \/ before.bytes[i] = Stale
                      \/ Bytes0'[i] = before.bytes[i]
                      \/ Asked(i) /\ Bytes0'[i] = call.v
    OBVIOUS
  <2>1. ~Call
    BY DEF Call, Returns, tfs_write, tfs_read, tfs_read_beyond, tfs_trunc, reopen, Enter
  <2>2. Step /\ Writing
    BY <2>1 DEF Next, Writing, Returns
  <2>3. BytesKept
    BY <2>2, WriteSteps
  <2>4. i \in 1 .. hnd'.size
    <3>1. Len(before.bytes) \in Nat /\ Len(before.bytes) <= hnd'.size
      BY <2>2, <2>3, WritingFacts DEF BytesKept
    <3>2. hnd'.size \in Nat
      <4>1. IInv'
        BY NextInv
      <4> QED BY <4>1 DEF IInv, Shapes
    <3> QED BY <3>1, <3>2
  <2>5. Bytes0'[i] = Byte(disk', hnd'.first_blk, i)
    BY <2>4 DEF Bytes0, Content
  <2>6. Kept(i, Byte(disk', hnd'.first_blk, i))
    BY <2>3 DEF BytesKept
  <2> QED BY <2>5, <2>6 DEF Kept
<1>2. Spec => [](IInv /\ Saved /\ BInv)
  BY BytesInvariance
<1> QED BY <1>1, <1>2, PTL DEF Spec, OthersIntact

-----------------------------------------------------------------------------
(* What the file is when nothing goes wrong.                               *)

\* No transfer fails, there is room for the bytes that are written, and the file is made
\* and changed by tfs_write alone.
Undisturbed ==
  /\ MaxFaults = 0 /\ MaxSize <= BlkCount * DataLen
  /\ Truncates = FALSE /\ WrittenFiles = FALSE /\ EmptyAppends = FALSE

\* A call is running.
Running == Undisturbed /\ IInv /\ BInv /\ FInv /\ pc # "idle"

\* What the invariants say of a running call, in one place.
LEMMA RunningFacts ==
  ASSUME Running
  PROVE  /\ Shapes /\ Calls /\ Walkable /\ Placed /\ Buffered /\ Accounted /\ ~Emptying
         /\ First = hnd.first_blk /\ At = Walk(disk, hnd.first_blk) /\ faults = 0 /\ slip = 0
         /\ hnd \in Hnds /\ loc \in Locs /\ call \in CallSet /\ call.op \in {"write", "read"}
         /\ Len(before.bytes) \in Nat /\ BlkCount * DataLen \in Nat
         /\ pc \notin {"cut", "cutstore", "freeing"}
         /\ \A i \in AllPlaces : Now(i) = Wanted(i)
<1>1. /\ Shapes /\ Calls /\ Walkable /\ Placed /\ Buffered /\ Accounted
      /\ hnd \in Hnds /\ loc \in Locs /\ call \in CallSet
  BY DEF Running, IInv, Live, Shapes, Hnds, Locs, CallSet
<1>2. call.op \in {"write", "read"} /\ pc \notin {"cut", "cutstore", "freeing"}
  BY <1>1 DEF Running, FInv, Shapes, Calls
<1>3. ~Emptying /\ First = hnd.first_blk /\ At = Walk(disk, hnd.first_blk)
  BY <1>2 DEF Emptying, First, At, BlkAt
<1>4. faults = 0 /\ slip = 0
  BY <1>1 DEF Running, Undisturbed, Shapes
<1>5. Len(before.bytes) \in Nat /\ BlkCount * DataLen \in Nat
  BY Sizes DEF Running, BInv, Sized
<1> QED BY <1>1, <1>2, <1>3, <1>4, <1>5 DEF Running, FInv, Exact

\* The handle has not slipped.
LEMMA HereNow ==
  ASSUME Running
  PROVE  /\ Here = hnd.curr_pos \div DataLen /\ Here \in 0 .. BlkCount /\ hnd.curr_pos = DataLen * Here
         /\ Here < BlkCount => /\ hnd.curr_pos + DataLen \in Positions
                               /\ (hnd.curr_pos + DataLen) \div DataLen = Here + 1
         /\ hnd.curr_pos # 0 => /\ Here > 0 /\ hnd.curr_pos - DataLen \in Positions
                                /\ (hnd.curr_pos - DataLen) \div DataLen = Here - 1
         /\ (pc = "seek" /\ hnd.curr_blk # 0) \/ pc \in {"extend", "link", "fill", "prealloc", "store", "copy", "next"} =>
              hnd.curr_blk # 0 /\ hnd.curr_blk = At[Here]
         /\ pc = "fetch" => Here < BlkCount /\ At[Here] # 0 /\ hnd.curr_blk # 0 /\ hnd.curr_blk = At[Here + 1]
         /\ pc = "seek" /\ hnd.curr_blk = 0 /\ hnd.first_blk # 0 =>
              /\ loc.last_blk # 0 /\ loc.last_blk = At[loc.last_pos \div DataLen]
              /\ disk[loc.last_blk].next = 0 /\ blk_buf = disk[loc.last_blk]
              /\ loc.last_pos + DataLen <= call.offset
<1>1. Shapes /\ Placed /\ slip = 0 /\ ~Emptying
  BY RunningFacts
<1>2. Here = hnd.curr_pos \div DataLen
  BY <1>1, HereFacts DEF Here
<1>3. /\ Here \in 0 .. BlkCount /\ hnd.curr_pos = DataLen * Here
      /\ Here < BlkCount => /\ hnd.curr_pos + DataLen \in Positions
                            /\ (hnd.curr_pos + DataLen) \div DataLen = Here + 1
      /\ hnd.curr_pos # 0 => /\ Here > 0 /\ hnd.curr_pos - DataLen \in Positions
                             /\ (hnd.curr_pos - DataLen) \div DataLen = Here - 1
  <2>1. hnd.curr_pos # 0 => (hnd.curr_pos - DataLen) \div DataLen + 0 = Here - 1
    BY <1>1, HereFacts
  <2>2. Here < BlkCount => (hnd.curr_pos + DataLen) \div DataLen + 0 = Here + 1
    BY <1>1, HereFacts
  <2>3. hnd.curr_pos \in Nat /\ (hnd.curr_pos # 0 => hnd.curr_pos - DataLen \in Positions)
        /\ (Here < BlkCount => hnd.curr_pos + DataLen \in Positions)
    BY <1>1, HereFacts
  <2>4. \A p \in Positions : p \in Nat /\ p \div DataLen \in 0 .. BlkCount /\ p \div DataLen + 0 = p \div DataLen
    <3> TAKE p \in Positions
    <3>1. PICK n \in 0 .. BlkCount : p = DataLen * n
      BY DEF Positions
    <3>2. p \div DataLen = n
      BY <3>1, DivMod, Sizes
    <3> QED BY <3>1, <3>2, Sizes
  <2> QED BY <1>1, <1>2, <2>1, <2>2, <2>3, <2>4, HereFacts
<1>4. (pc = "seek" /\ hnd.curr_blk # 0) \/ pc \in {"extend", "link", "fill", "prealloc", "store", "copy", "next"} =>
        hnd.curr_blk # 0 /\ hnd.curr_blk = At[Here]
  BY <1>1 DEF Placed, Nth
<1>5. pc = "fetch" => Here < BlkCount /\ At[Here] # 0 /\ hnd.curr_blk # 0 /\ hnd.curr_blk = At[Here + 1]
  BY <1>1 DEF Placed, Nth
<1>6. pc = "seek" /\ hnd.curr_blk = 0 /\ hnd.first_blk # 0 =>
        /\ loc.last_blk # 0 /\ loc.last_blk = At[loc.last_pos \div DataLen]
        /\ disk[loc.last_blk].next = 0 /\ blk_buf = disk[loc.last_blk]
        /\ loc.last_pos + DataLen <= call.offset
  <2>1. loc.last_pos \div DataLen + 0 = loc.last_pos \div DataLen
    <3>1. PICK n \in 0 .. BlkCount : loc.last_pos = DataLen * n
      BY <1>1 DEF Shapes, Positions
    <3>2. loc.last_pos \div DataLen = n
      BY <3>1, DivMod, Sizes
    <3> QED BY <3>2
  <2>2. pc = "seek" /\ hnd.curr_blk = 0 /\ hnd.first_blk # 0 =>
          /\ Nth(At, loc.last_pos \div DataLen + 0, loc.last_blk)
          /\ disk[loc.last_blk].next = 0 /\ blk_buf = disk[loc.last_blk]
          /\ loc.last_pos + DataLen <= call.offset
    BY <1>1 DEF Placed
  <2> QED BY <2>1, <2>2 DEF Nth
<1> QED BY <1>2, <1>3, <1>4, <1>5, <1>6

\* Every transfer succeeds.
LEMMA NoFaults ==
  ASSUME Running
  PROVE  /\ ~Fault
         /\ \A b, c : drive_write_block(b, c) => disk' = [disk EXCEPT ![b] = c] /\ ~Failed
         /\ \A b : drive_read_block(b) => blk_buf' = disk[b] /\ ~Failed
<1>1. ~Fault
  <2>1. faults = 0 /\ MaxFaults = 0
    BY RunningFacts DEF Running, Undisturbed
  <2> QED BY <2>1 DEF Fault
<1>2. tfs_last_error = "OK"
  BY DEF Running, FInv
<1> QED BY <1>1, <1>2 DEF drive_write_block, drive_read_block, Failed, NoFault

\* The places of bytes.
LEMMA PlaceFacts ==
  ASSUME NEW i \in AllPlaces
  PROVE  /\ i \in Nat \ {0} /\ i <= BlkCount * DataLen
         /\ (i - 1) \div DataLen \in 0 .. BlkCount - 1 /\ (i - 1) % DataLen \in Offs
         /\ i = DataLen * ((i - 1) \div DataLen) + ((i - 1) % DataLen) + 1
<1>1. BlkCount * DataLen \in Nat
  BY Sizes
<1>2. i \in Nat \ {0} /\ i <= BlkCount * DataLen
  BY <1>1 DEF AllPlaces
<1> QED BY <1>2, PlaceOfByte

\* A block that begins before position p is one of those on the drive.
LEMMA BlocksBefore ==
  ASSUME NEW n \in Nat, NEW p \in Nat, p <= BlkCount * DataLen, DataLen * n < p
  PROVE  n < BlkCount
<1>1. \A d, a, b \in Nat : d # 0 /\ d * a < b * d => a < b
  OBVIOUS
<1>2. DataLen * n < BlkCount * DataLen
  <2>1. DataLen * n \in Nat /\ BlkCount * DataLen \in Nat
    BY Sizes
  <2> QED BY <2>1
<1> QED BY <1>1, <1>2, Sizes

-----------------------------------------------------------------------------
(* Room on the drive.                                                      *)

\* As long as the chain does not take all blocks there is one that is not marked.
LEMMA RoomLeft ==
  ASSUME Running, pc \notin {"link", "store"}, NEW k \in 0 .. BlkCount - 1, At[k] = 0
  PROVE  Blocks \ used # {}
<1>1. used \subseteq ChainBlks(First)
  BY RunningFacts DEF Running, FInv, Accounted, Spare
<1>2. \A b \in used : \E n \in 0 .. k : At[n] = b /\ n # k
  <2> TAKE b \in used
  <2>1. ChainBlks(First) = {At[n] : n \in 0 .. BlkCount} \ {0}
    BY RunningFacts, AtFacts
  <2>2. PICK n \in 0 .. BlkCount : At[n] = b /\ b # 0
    BY <1>1, <2>1
  <2>3. ~(k <= n)
    BY <2>2, RunningFacts, AtFacts, Sizes
  <2> QED BY <2>2, <2>3, Sizes
<1> SUFFICES ASSUME Blocks \subseteq used PROVE FALSE
  OBVIOUS
<1> DEFINE f == [b \in Blocks |-> CHOOSE n \in 0 .. k - 1 : At[n] = b]
<1>3. \A b \in Blocks : f[b] \in 0 .. k - 1 /\ At[f[b]] = b
  <2> TAKE b \in Blocks
  <2>1. \E n \in 0 .. k - 1 : At[n] = b
    BY <1>2, Sizes
  <2> QED BY <2>1
<1>4. f \in Injection(Blocks, 0 .. k - 1)
  BY <1>3 DEF Injection, IsInjective
<1>5. IsFiniteSet(0 .. k - 1) /\ Cardinality(0 .. k - 1) = k
  BY FS_Interval, Sizes
<1>6. Cardinality(Blocks) = BlkCount
  <2>1. Cardinality(1 .. BlkCount) = BlkCount
    BY FS_Interval, Sizes
  <2> QED BY <2>1 DEF Blocks
<1> HIDE DEF f
<1>7. Cardinality(Blocks) <= k
  BY <1>4, <1>5, FS_Injection
<1> QED BY <1>6, <1>7, Sizes

\* The block asked for.
LEMMA BlockGiven ==
  ASSUME Running, pc \notin {"link", "store"}, NEW k \in 0 .. BlkCount - 1, At[k] = 0,
         NEW b \in Blocks \cup {0}, alloc_block(b)
  PROVE  /\ b # 0 /\ ~disk[b].known /\ b \in Blocks /\ tfs_last_error' = "OK"
         /\ used' = used \cup {b}
<1>1. b # 0
  <2>1. Blocks \ used # {} /\ ~Fault
    BY RoomLeft, NoFaults
  <2>2. b = Min(Blocks \ used)
    BY <2>1 DEF alloc_block
  <2>3. \E x \in Blocks \ used : \A y \in Blocks \ used : x <= y
    BY <2>1, LeastNumber, Sizes
  <2>4. Min(Blocks \ used) \in Blocks \ used
    BY <2>3 DEF Min
  <2> QED BY <2>2, <2>4, Sizes
<1>2. Shapes /\ Unmarked /\ tfs_last_error = "OK"
  BY DEF Running, IInv, FInv
<1> QED BY <1>1, <1>2, AllocFacts

\* The current block is written: what then is in which place of the chain.
LEMMA BlocksStored ==
  ASSUME IInv, pc \in {"link", "store"}, disk' = [disk EXCEPT ![hnd.curr_blk] = blk_buf],
         hnd'.first_blk = hnd.first_blk, used' = used, pc' # "freeing",
         NEW n \in 0 .. BlkCount - 1
  PROVE  /\ n = Here => At'[n] # 0 /\ disk'[At'[n]] = blk_buf
         /\ n < Here \/ (n > Here /\ pc = "store" /\ ~loc.append) =>
              At'[n] = At[n] /\ (At[n] # 0 => disk'[At[n]] = disk[At[n]])
         /\ n > Here /\ (pc = "link" \/ loc.append) =>
              At[n] = 0 /\ (n # Here + 1 \/ blk_buf.next = 0 => At'[n] = 0)
         /\ At = Walk(disk, hnd.first_blk) /\ At' = Walk(disk', hnd.first_blk)
<1>1. /\ Shapes /\ Calls /\ Walkable /\ Placed /\ Buffered /\ ~Emptying /\ ~Emptying'
  BY DEF IInv, Live, Emptying
<1>2. First' = First /\ At = Walk(disk, hnd.first_blk) /\ At' = Walk(disk', hnd.first_blk)
  BY <1>1 DEF First, At, BlkAt
<1>3. /\ hnd.curr_blk # 0 /\ hnd.curr_blk = At[Here] /\ blk_buf.known
      /\ blk_buf.prev = IF Here = 0 THEN 0 ELSE At[Here - 1]
      /\ Nth(At, Here, hnd.curr_blk)
  BY <1>1 DEF Placed, Buffered, Nth
<1>4. Here \in 0 .. BlkCount /\ NoCycle(At) /\ hnd.curr_blk \in Blocks /\ disk \in [Blocks -> Blks]
  BY <1>1, <1>3, PlaceRange DEF Walkable, Shapes, Ptrs
<1>5. n # Here => At[n] # hnd.curr_blk
  BY <1>3, <1>4, Sizes DEF NoCycle
<1>6. At[n] \in Ptrs
  BY <1>1, AtFacts, Sizes
<1>7. n # Here /\ At[n] # 0 => disk'[At[n]] = disk[At[n]]
  BY <1>4, <1>5, <1>6 DEF Ptrs
<1>8. n = Here /\ At'[n] = At[n] => At'[n] # 0 /\ disk'[At'[n]] = blk_buf
  BY <1>3, <1>4
<1>9. CASE pc = "store" /\ ~loc.append
  <2>1. ~Growing /\ blk_buf.next = disk[hnd.curr_blk].next
    BY <1>1, <1>9 DEF Growing, Buffered
  <2>2. At' = At
    BY <1>1, <1>2, <1>3, <2>1, StoreAgain
  <2> QED BY <1>2, <1>4, <1>7, <1>8, <1>9, <2>2
<1>10. CASE pc = "link" \/ loc.append
  <2>1. /\ ~disk[hnd.curr_blk].known \/ disk[hnd.curr_blk].next = 0
        /\ blk_buf.next = 0 \/ Fresh(blk_buf.next)
    BY <1>1, <1>10 DEF Buffered
  <2>2. /\ Here < BlkCount /\ (\A k \in 0 .. Here : At'[k] = At[k]) /\ At'[Here + 1] = blk_buf.next
        /\ \A k \in 0 .. BlkCount : At'[k] # 0 => k \in 0 .. Here + 1
    BY <1>1, <1>2, <1>3, <2>1, StoreLast
  <2>3. n > Here => At[n] = 0
    <3> SUFFICES ASSUME n > Here PROVE At[n] = 0
      OBVIOUS
    <3>1. Here \in 0 .. BlkCount - 1 /\ Here + 1 \in 0 .. BlkCount /\ n \in 0 .. BlkCount /\ Here + 1 <= n
      BY <1>4, <2>2, Sizes
    <3>2. At[Here + 1] = Follow(disk, At[Here])
      BY <1>1, <3>1, AtFacts
    <3>3. At[Here + 1] = 0
      BY <1>3, <2>1, <3>2 DEF Follow
    <3> QED BY <1>1, <3>1, <3>3, AtFacts
  <2>4. n <= Here => At'[n] = At[n]
    BY <1>4, <2>2
  <2>5. n > Here /\ (n # Here + 1 \/ blk_buf.next = 0) => At'[n] = 0
    <3>1. n > Here + 1 => ~(n \in 0 .. Here + 1)
      BY <1>4
    <3>2. n > Here => n = Here + 1 \/ n > Here + 1
      BY <1>4
    <3> QED BY <2>2, <3>1, <3>2, Sizes
  <2> QED BY <1>2, <1>4, <1>7, <1>8, <1>10, <2>3, <2>4, <2>5
<1> QED BY <1>9, <1>10

-----------------------------------------------------------------------------
(* Steps that change no byte of the file as it will be.                    *)

\* With drive and buffer;
LEMMA SameNow ==
  ASSUME disk' = disk, hnd'.first_blk = hnd.first_blk, pc \in Buffers <=> pc' \in Buffers,
         pc \in Buffers => Here' = Here /\ blk_buf'.data = blk_buf.data
  PROVE  \A i \in AllPlaces : Now(i)' = Now(i)
<1> SUFFICES ASSUME NEW i \in AllPlaces PROVE Now(i)' = Now(i)
  OBVIOUS
<1> QED BY DEF Now, Held

\* with a block that has been read;
LEMMA LoadNow ==
  ASSUME Running, disk' = disk, hnd'.first_blk = hnd.first_blk, pc \notin Buffers,
         At[Here'] # 0, blk_buf' = disk[At[Here']]
  PROVE  \A i \in AllPlaces : Now(i)' = Now(i)
<1> SUFFICES ASSUME NEW i \in AllPlaces PROVE Now(i)' = Now(i)
  OBVIOUS
<1>1. At = Walk(disk, hnd.first_blk)
  BY RunningFacts
<1> DEFINE n == (i - 1) \div DataLen
           o == (i - 1) % DataLen
<1>2. Now(i) = Held(disk, hnd.first_blk, i)
  BY DEF Now
<1>3. n = Here' => Held(disk, hnd.first_blk, i) = blk_buf'.data[o]
  BY <1>1 DEF Held
<1> QED BY <1>2, <1>3 DEF Now

\* and with the buffer that is written, after which comes no block, or a new one.
LEMMA StoreNow ==
  ASSUME Running, pc \in {"link", "store"}, disk' = [disk EXCEPT ![hnd.curr_blk] = blk_buf],
         hnd'.first_blk = hnd.first_blk, used' = used, pc' # "freeing",
         \/ pc = "store" /\ pc' \notin Buffers /\ (loc.append => blk_buf.next = 0)
         \/ (pc = "link" \/ loc.append) /\ pc' \in Buffers /\ Here' = Here + 1 /\ blk_buf'.data = Zeros
  PROVE  \A i \in AllPlaces : Now(i)' = Now(i)
<1> SUFFICES ASSUME NEW i \in AllPlaces PROVE Now(i)' = Now(i)
  OBVIOUS
<1> DEFINE n == (i - 1) \div DataLen
           o == (i - 1) % DataLen
<1>1. n \in 0 .. BlkCount - 1 /\ o \in Offs
  BY PlaceFacts
<1>2. Shapes /\ Here \in 0 .. BlkCount /\ loc.append \in BOOLEAN
  BY RunningFacts, HereNow DEF Locs
<1> HIDE DEF n, o
<1>3. /\ n = Here => At'[n] # 0 /\ disk'[At'[n]] = blk_buf
      /\ n < Here \/ (n > Here /\ pc = "store" /\ ~loc.append) =>
           At'[n] = At[n] /\ (At[n] # 0 => disk'[At[n]] = disk[At[n]])
      /\ n > Here /\ (pc = "link" \/ loc.append) =>
           At[n] = 0 /\ (n # Here + 1 \/ blk_buf.next = 0 => At'[n] = 0)
      /\ At = Walk(disk, hnd.first_blk) /\ At' = Walk(disk', hnd.first_blk)
  BY <1>1, BlocksStored DEF Running
<1>4. /\ Held(disk, hnd.first_blk, i) = IF At[n] = 0 THEN 0 ELSE disk[At[n]].data[o]
      /\ Held(disk', hnd'.first_blk, i) = IF At'[n] = 0 THEN 0 ELSE disk'[At'[n]].data[o]
  BY <1>3 DEF Held, n, o
<1>5. /\ Now(i) = IF n = Here THEN blk_buf.data[o] ELSE Held(disk, hnd.first_blk, i)
      /\ Now(i)' = IF pc' \in Buffers /\ n = Here' THEN blk_buf'.data[o]
                   ELSE Held(disk', hnd'.first_blk, i)
  BY DEF Now, Buffers, n, o
<1>6. n < Here \/ n = Here \/ n > Here
  BY <1>1, <1>2
<1>7. n < Here => n # Here + 1
  BY <1>1, <1>2
<1>8. n = Here => n # Here + 1
  BY <1>1, <1>2
<1>9. Zeros[o] = 0
  BY <1>1 DEF Zeros
<1>10. CASE pc = "store" /\ pc' \notin Buffers /\ (loc.append => blk_buf.next = 0)
  BY <1>2, <1>3, <1>4, <1>5, <1>6, <1>10
<1>11. CASE (pc = "link" \/ loc.append) /\ pc' \in Buffers /\ Here' = Here + 1 /\ blk_buf'.data = Zeros
  <2>1. CASE n = Here + 1
    BY <1>2, <1>3, <1>4, <1>5, <1>9, <1>11, <2>1
  <2>2. CASE n # Here + 1
    BY <1>2, <1>3, <1>4, <1>5, <1>6, <1>11, <2>2
  <2> QED BY <2>1, <2>2
<1> QED BY <1>10, <1>11

-----------------------------------------------------------------------------
(* Steps of a running call.                                                *)

\* The end of the bytes that tfs_write is asked for.
WriteEnd == call.offset + call.len

\* What the step has done that returns from tfs_write.
WriteFinished ==
  /\ hnd'.size = IF call.len # 0 /\ Len(before.bytes) < WriteEnd THEN WriteEnd ELSE Len(before.bytes)
  /\ \A i \in AllPlaces : Now(i)' = IF Asked(i) THEN call.v ELSE Old(i)
  /\ got' = <<>>
\* What the step has done that returns from tfs_read.
ReadFinished ==
  /\ UNCHANGED disk /\ hnd'.first_blk = hnd.first_blk /\ hnd'.size = hnd.size
  /\ got' = SubSeq(before.bytes, call.offset + 1, ReadEnd)

\* A step keeps the invariant, and what returns has done what it was called for.
Onward == FInv' /\ (pc' = "idle" => IF IsWrite THEN WriteFinished ELSE ReadFinished)

\* A step that changes no byte,
LEMMA GoesOn ==
  ASSUME Running, UNCHANGED <<before, call>>, pc' # "idle", tfs_last_error' = "OK",
         \A i \in AllPlaces : Now(i)' = Now(i), IsWrite => loc'.offset = loc.offset,
         Covered', Told', WriteSizes', ReadSizes'
  PROVE  Onward
<1>1. Exact'
  <2>1. \A i \in AllPlaces : Wanted(i)' = Wanted(i)
    BY DEF Wanted, IsWrite, Old
  <2>2. \A i \in AllPlaces : Now(i) = Wanted(i)
    BY RunningFacts
  <2> QED BY <2>1, <2>2 DEF Exact
<1>2. before'.lost = {} /\ call'.op # "trunc"
  BY DEF Running, FInv
<1> QED BY <1>1, <1>2 DEF FInv, Onward

\* nor the drive.
LEMMA Moved ==
  ASSUME Running, UNCHANGED <<disk, before, call>>, pc' # "idle", tfs_last_error' = "OK",
         hnd'.first_blk = hnd.first_blk, hnd'.size = hnd.size,
         \A i \in AllPlaces : Now(i)' = Now(i), IsWrite => loc'.offset = loc.offset,
         Told', WriteSizes', ReadSizes'
  PROVE  Onward
<1>1. Covered'
  BY DEF Running, FInv, Covered, BlkAt
<1> QED BY <1>1, GoesOn

\* A step back to idle that changes no drive.
LEMMA Returns0 ==
  ASSUME Running, Returned, UNCHANGED <<disk, before, used, item>>, tfs_last_error' = "OK",
         hnd'.first_blk = hnd.first_blk, hnd'.size = hnd.size,
         item.blk = hnd.first_blk /\ item.size = hnd.size,
         \A i \in AllPlaces : i > hnd.size => Held(disk, hnd.first_blk, i) = 0
  PROVE  FInv'
<1>1. Exact'
  BY DEF Exact, Returned, Held
<1>2. Covered'
  BY DEF Running, FInv, Covered, BlkAt
<1>3. before'.lost = {} /\ call' = NoCall /\ loc' = NoLoc /\ call'.op # "trunc"
  BY DEF Running, FInv, Returned, NoCall
<1>4. Told' /\ WriteSizes' /\ ReadSizes'
  BY <1>3 DEF Told, WriteSizes, ReadSizes, IsWrite, NoCall
<1> QED BY <1>1, <1>2, <1>3, <1>4 DEF FInv

\* A file that is read has zeros behind its end.
LEMMA ReadTail ==
  ASSUME Running, call.op = "read"
  PROVE  /\ \A i \in AllPlaces : Held(disk, hnd.first_blk, i) = Old(i)
         /\ \A i \in AllPlaces : i > hnd.size => Held(disk, hnd.first_blk, i) = 0
         /\ Len(before.bytes) = hnd.size /\ item.blk = hnd.first_blk /\ item.size = hnd.size
         /\ pc \in {"seek", "copy", "next"}
<1>1. pc \in {"seek", "copy", "next"} \/ pc = "update"
  BY RunningFacts DEF Calls, Shapes, Labels, Running
<1>2. pc # "update"
  BY DEF Running, FInv, ReadSizes
<1>3. /\ Len(before.bytes) = hnd.size /\ item.blk = hnd.first_blk /\ item.size = hnd.size
  BY <1>1, <1>2 DEF Running, FInv, Told, ReadSizes
<1>4. ASSUME NEW i \in AllPlaces PROVE Held(disk, hnd.first_blk, i) = Old(i)
  BY <1>1, <1>2, RunningFacts DEF Now, Buffers, Wanted, IsWrite
<1>5. ASSUME NEW i \in AllPlaces, i > hnd.size PROVE Old(i) = 0
  <2>1. ~(i <= Len(before.bytes))
    BY <1>3, <1>5, PlaceFacts, RunningFacts
  <2> QED BY <2>1 DEF Old
<1> QED BY <1>1, <1>2, <1>3, <1>4, <1>5

\* seek goes to the block before: neither drive nor buffered bytes change.
LEMMA OnwardSeekBack ==
  ASSUME Running, seek_back
  PROVE  Onward
<1>1. /\ pc = "seek" /\ hnd.curr_blk # 0 /\ hnd.curr_pos > call.offset
      /\ UNCHANGED <<disk, used, item, got, ret, before, slip>>
      /\ blk_buf' = disk[hnd.curr_blk]
      /\ IF blk_buf'.prev = 0
           THEN tfs_last_error' = "UNEXP_EOF" /\ Returned /\ UNCHANGED <<hnd, faults>>
           ELSE /\ hnd' = [hnd EXCEPT !.curr_blk = blk_buf'.prev, !.curr_pos = @ - DataLen]
                /\ NoFault /\ UNCHANGED <<pc, call, loc>>
  BY NoFaults DEF seek_back, Seeking, Behind
<1>2. /\ Shapes /\ Walkable /\ Placed /\ ~Growing /\ ~Emptying /\ hnd \in Hnds /\ call \in CallSet
  BY <1>1, RunningFacts DEF Growing
<1>3. /\ Here \in 0 .. BlkCount /\ Here > 0 /\ hnd.curr_blk = At[Here]
  <2>1. hnd.curr_pos # 0
    BY <1>1, <1>2, HereNow DEF CallSet
  <2> QED BY <2>1, <1>1, <1>2, HereNow
<1>4. disk[hnd.curr_blk].prev = At[Here - 1] /\ At[Here - 1] # 0
  <2>1. Here - 1 \in 0 .. BlkCount /\ Here - 1 <= Here
    BY <1>3, Sizes
  <2> QED BY <1>1, <1>2, <1>3, <2>1, AtFacts DEF Walkable
<1>5. /\ hnd'.first_blk = hnd.first_blk /\ hnd'.size = hnd.size /\ UNCHANGED <<pc, call, loc>>
      /\ tfs_last_error' = "OK"
  BY <1>1, <1>2, <1>4 DEF Hnds, NoFault, Running, FInv
<1>6. \A i \in AllPlaces : Now(i)' = Now(i)
  BY <1>1, <1>5, SameNow DEF Buffers
<1>7. Told' /\ WriteSizes' /\ ReadSizes'
  BY <1>1, <1>5 DEF Running, FInv, Told, WriteSizes, ReadSizes, ReadEnd, IsWrite
<1> QED BY <1>1, <1>5, <1>6, <1>7, Moved

\* seek goes to the block after, and remembers the one it leaves.
LEMMA OnwardSeekForward ==
  ASSUME Running, seek_forward
  PROVE  Onward
<1>1. /\ pc = "seek" /\ UNCHANGED <<disk, used, item, got, ret, before, pc, call>>
      /\ hnd' = [hnd EXCEPT !.curr_blk = blk_buf'.next, !.curr_pos = @ + DataLen]
      /\ loc' = [loc EXCEPT !.last_blk = hnd.curr_blk, !.last_pos = hnd.curr_pos]
      /\ ~Failed
  BY NoFaults DEF seek_forward, Seeking
<1>2. hnd \in Hnds /\ loc \in Locs
  BY RunningFacts
<1>3. /\ hnd'.first_blk = hnd.first_blk /\ hnd'.size = hnd.size /\ tfs_last_error' = "OK"
      /\ loc'.offset = loc.offset /\ loc'.len = loc.len /\ loc'.update_item = loc.update_item
  BY <1>1, <1>2 DEF Hnds, Locs, Failed
<1>4. \A i \in AllPlaces : Now(i)' = Now(i)
  BY <1>1, <1>3, SameNow DEF Buffers
<1>5. Told' /\ WriteSizes' /\ ReadSizes'
  BY <1>1, <1>3 DEF Running, FInv, Told, WriteSizes, ReadSizes, ReadEnd, IsWrite
<1> QED BY <1>1, <1>3, <1>4, <1>5, Moved

\* A write returns that has written all bytes: the handle has its size.
LEMMA WriteReturns ==
  ASSUME Running, IsWrite, pc' = "idle", Returned, UNCHANGED <<before, got>>, tfs_last_error' = "OK",
         \A i \in AllPlaces : Now(i)' = Now(i),
         loc.offset = WriteEnd, Covered', item'.blk = hnd'.first_blk, item'.size = hnd'.size,
         hnd'.size = IF call.len # 0 /\ Len(before.bytes) < WriteEnd THEN WriteEnd ELSE Len(before.bytes)
  PROVE  Onward
<1>1. /\ call \in CallSet /\ Len(before.bytes) \in Nat /\ call.len \in Nat /\ call.offset \in Nat
      /\ \A i \in AllPlaces : Now(i) = Wanted(i)
  BY RunningFacts DEF CallSet
<1>2. \A i \in AllPlaces : Now(i)' = IF Asked(i) THEN call.v ELSE Old(i)
  BY <1>1 DEF Wanted, Asked, WriteEnd
<1>3. got = <<>>
  BY DEF Running, FInv, WriteSizes
<1>4. Exact'
  <2> SUFFICES ASSUME NEW i \in AllPlaces, i > hnd'.size PROVE Held(disk', hnd'.first_blk, i) = 0
    BY DEF Exact, AllPlaces
  <2>1. i \in Nat
    BY PlaceFacts
  <2>2. ~Asked(i) /\ ~(i <= Len(before.bytes))
    BY <1>1, <2>1 DEF Asked, WriteEnd
  <2>3. Now(i)' = Held(disk', hnd'.first_blk, i)
    BY DEF Now, Buffers
  <2> QED BY <1>2, <2>2, <2>3 DEF Old
<1>5. before'.lost = {} /\ call' = NoCall /\ loc' = NoLoc /\ call'.op # "trunc"
  BY DEF Running, FInv, Returned, NoCall
<1>6. Told' /\ WriteSizes' /\ ReadSizes'
  BY <1>5 DEF Told, WriteSizes, ReadSizes, IsWrite, NoCall
<1>7. FInv'
  BY <1>4, <1>5, <1>6 DEF FInv
<1> QED BY <1>2, <1>3, <1>7 DEF Onward, WriteFinished

\* A read returns.
LEMMA ReadReturns ==
  ASSUME Running, call.op = "read", pc' = "idle", Returned,
         UNCHANGED <<disk, used, item, before>>, tfs_last_error' = "OK",
         hnd'.first_blk = hnd.first_blk, hnd'.size = hnd.size,
         got' = SubSeq(before.bytes, call.offset + 1, ReadEnd)
  PROVE  Onward
<1>1. FInv'
  BY ReadTail, Returns0
<1> QED BY <1>1 DEF Onward, ReadFinished, IsWrite

\* A call that reads and a call that writes nothing ends in seek.
LEMMA OnwardSeekOk ==
  ASSUME Running, seek_ok
  PROVE  Onward
<1> DEFINE l == [loc EXCEPT !.os = call.offset - hnd.curr_pos]
<1>1. /\ pc = "seek" /\ hnd.curr_blk # 0 /\ UNCHANGED <<disk, used, item, hnd, got, ret, before, slip>>
      /\ blk_buf' = disk[hnd.curr_blk] /\ ~Failed /\ Proceed(Found, l)
  BY NoFaults DEF seek_ok, Seeking
<1>2. /\ Shapes /\ Placed /\ hnd \in Hnds /\ loc \in Locs /\ call \in CallSet /\ ~Emptying
      /\ call.op \in {"write", "read"} /\ before.bytes \in Seq(S) /\ Len(before.bytes) \in Nat
  BY RunningFacts DEF Running, BInv, Sized, S
<1>3. /\ hnd.curr_blk = At[Here] /\ Here' = Here /\ tfs_last_error' = "OK"
      /\ call.offset \in Nat /\ call.len \in Nat /\ loc.len \in Nat /\ hnd.curr_pos \in Nat
  <2>1. hnd.curr_blk = At[Here] /\ Here' = Here
    BY <1>1, HereNow DEF Here
  <2> QED BY <1>1, <1>2, <2>1, HereFacts DEF Failed, CallSet, Locs
<1>4. /\ l.offset = loc.offset /\ l.len = loc.len /\ l.update_item = loc.update_item
      /\ l.os = call.offset - hnd.curr_pos
  BY <1>2 DEF Locs
<1> HIDE DEF l
<1>5. \A i \in AllPlaces : Now(i)' = Now(i)
  BY <1>1, <1>3, LoadNow DEF Buffers
<1>6. CASE call.op = "write"
  <2>1. /\ loc.offset = call.offset /\ loc.len = call.len /\ hnd.size = Len(before.bytes)
        /\ item.blk = hnd.first_blk /\ item.size = hnd.size /\ got = <<>>
    BY <1>1, <1>6 DEF Running, FInv, BInv, Progress, Told, WriteSizes, IsWrite
  <2>2. CASE call.len = 0
    <3>1. Returned /\ pc' = "idle"
      BY <1>1, <1>6, <2>2 DEF Found, Proceed, Returned
    <3>2. Covered'
      BY <1>1 DEF Running, FInv, Covered, BlkAt
    <3> QED BY <1>1, <1>3, <1>5, <1>6, <2>1, <2>2, <3>1, <3>2, WriteReturns DEF WriteEnd, IsWrite
  <2>3. CASE call.len # 0
    <3>1. pc' = "fill" /\ loc' = l /\ call' = call
      BY <1>1, <1>6, <2>3 DEF Found, Proceed
    <3>2. Told' /\ WriteSizes' /\ ReadSizes'
      BY <1>1, <1>4, <1>6, <2>1, <2>3, <3>1 DEF Told, WriteSizes, ReadSizes, IsWrite
    <3> QED BY <1>1, <1>3, <1>4, <1>5, <3>1, <3>2, Moved
  <2> QED BY <2>2, <2>3
<1>7. CASE call.op = "read"
  <2>1. /\ got = <<>> /\ loc.len = ReadEnd - call.offset /\ Len(before.bytes) = hnd.size
        /\ call.offset <= hnd.size /\ item.blk = hnd.first_blk /\ item.size = hnd.size
    BY <1>1, <1>7 DEF Running, FInv, Told, ReadSizes
  <2>2. ReadEnd \in Nat
    BY <1>2, <1>3, <2>1 DEF ReadEnd
  <2>3. SubSeq(before.bytes, call.offset + 1, call.offset) = <<>>
    BY <1>2, <1>3, SubSeqEmpty
  <2>4. CASE loc.len = 0
    <3>1. Returned /\ pc' = "idle"
      BY <1>1, <1>7, <2>4 DEF Found, Proceed, Returned
    <3>2. ReadEnd = call.offset
      BY <1>3, <2>1, <2>2, <2>4
    <3> QED BY <1>1, <1>3, <1>7, <2>1, <2>3, <3>1, <3>2, ReadReturns
  <2>5. CASE loc.len # 0
    <3>1. pc' = "copy" /\ loc' = l /\ call' = call
      BY <1>1, <1>7, <2>5 DEF Found, Proceed
    <3>2. /\ ReadEnd - loc.len = call.offset /\ call.offset <= ReadEnd - loc.len /\ loc.len > 0
          /\ hnd.curr_pos + (call.offset - hnd.curr_pos) = call.offset
      BY <1>3, <2>1, <2>2, <2>5
    <3>3. ReadEnd' = ReadEnd
      BY <1>1, <3>1 DEF ReadEnd
    <3>4. Told' /\ WriteSizes' /\ ReadSizes'
      BY <1>1, <1>4, <1>7, <2>1, <2>3, <3>1, <3>2, <3>3 DEF Told, WriteSizes, ReadSizes, IsWrite
    <3> QED BY <1>1, <1>3, <1>4, <1>5, <3>1, <3>4, Moved
  <2> QED BY <2>4, <2>5
<1> QED BY <1>2, <1>6, <1>7

\* A read that meets the end of the chain asked for bytes behind the end of the file.
LEMMA OnwardSeekEof ==
  ASSUME Running, seek_eof
  PROVE  Onward
<1>1. /\ pc = "seek" /\ hnd.curr_blk = 0 /\ call.op = "read" /\ Returned /\ pc' = "idle"
      /\ UNCHANGED <<disk, used, item, hnd, blk_buf, tfs_last_error, got, ret, before, slip, faults>>
  BY DEF seek_eof, Returned
<1>2. /\ Shapes /\ Placed /\ hnd \in Hnds /\ loc \in Locs /\ call \in CallSet
      /\ before.bytes \in Seq(S) /\ At = Walk(disk, hnd.first_blk) /\ First = hnd.first_blk
  BY RunningFacts DEF Running, BInv, Sized, S
<1>3. /\ got = <<>> /\ tfs_last_error = "OK" /\ Covered /\ call.offset <= hnd.size
      /\ call.offset \in Nat /\ hnd.size \in Nat /\ hnd.size <= BlkCount * DataLen /\ call.len \in Nat
  BY <1>1, <1>2 DEF Running, FInv, ReadSizes, BInv, Sized, CallSet, Hnds
<1>4. ASSUME NEW n \in Nat, n = 0 \/ (n - 1 \in Nat /\ At[n - 1] # 0 /\ disk[At[n - 1]].next = 0),
             n = 0 => hnd.first_blk = 0
      PROVE  ~(DataLen * n < hnd.size)
  <2> SUFFICES ASSUME DataLen * n < hnd.size PROVE FALSE
    OBVIOUS
  <2>1. n \in 0 .. BlkCount - 1
    BY <1>3, BlocksBefore, Sizes
  <2>2. At[n] # 0
    BY <1>2, <1>3, <2>1 DEF Covered, BlkAt
  <2>3. CASE n = 0
    BY <1>2, <1>4, <2>2, <2>3, AtFacts
  <2>4. CASE n # 0
    <3>1. n - 1 \in 0 .. BlkCount - 1 /\ (n - 1) + 1 = n
      BY <1>4, <2>1, <2>4, Sizes
    <3>2. At[n] = Follow(disk, At[n - 1])
      BY <1>2, <3>1, AtFacts
    <3> QED BY <1>4, <2>2, <2>4, <3>2 DEF Follow
  <2> QED BY <2>3, <2>4
<1>5. hnd.size <= call.offset
  <2>1. CASE hnd.first_blk = 0
    <3>1. ~(DataLen * 0 < hnd.size)
      BY <1>4, <2>1
    <3> QED BY <1>3, <3>1, Sizes
  <2>2. CASE hnd.first_blk # 0
    <3> DEFINE k == loc.last_pos \div DataLen
    <3>1. /\ loc.last_pos + DataLen <= call.offset /\ loc.last_blk # 0 /\ loc.last_blk = At[k]
          /\ disk[loc.last_blk].next = 0
      BY <1>1, <1>2, <2>2, HereNow
    <3>2. k \in Nat /\ loc.last_pos = DataLen * k
      <4>1. loc.last_pos \in Positions
        BY <1>2 DEF Locs
      <4> QED BY <4>1, PositionFacts, Sizes
    <3> HIDE DEF k
    <3>3. ~(DataLen * (k + 1) < hnd.size)
      <4>1. k + 1 \in Nat /\ (k + 1) - 1 = k /\ k + 1 # 0
        BY <3>2
      <4> QED BY <1>4, <3>1, <3>2, <4>1
    <3>4. DataLen * (k + 1) = loc.last_pos + DataLen /\ DataLen * (k + 1) \in Nat
      <4>1. k + 1 \in Nat
        BY <3>2
      <4> QED BY <3>2, <4>1, PlaceOf
    <3> QED BY <1>3, <3>1, <3>3, <3>4
  <2> QED BY <2>1, <2>2
<1>6. ReadEnd = call.offset
  BY <1>3, <1>5 DEF ReadEnd
<1>7. got' = SubSeq(before.bytes, call.offset + 1, ReadEnd)
  BY <1>1, <1>2, <1>3, <1>6, SubSeqEmpty
<1> QED BY <1>1, <1>3, <1>7, ReadReturns

\* seek has met the end of the chain and takes up the last block, which is in the buffer.
LEMMA OnwardSeekAppend ==
  ASSUME Running, seek_append
  PROVE  Onward
<1>1. /\ pc = "seek" /\ hnd.curr_blk = 0 /\ call.op # "read" /\ hnd.first_blk # 0
      /\ hnd' = LastPos(hnd) /\ pc' = "extend"
      /\ UNCHANGED <<disk, used, item, blk_buf, tfs_last_error, call, loc, got, ret, before, slip, faults>>
  BY DEF seek_append
<1>2. /\ Shapes /\ Placed /\ hnd \in Hnds /\ call.op = "write"
  BY <1>1, RunningFacts
<1>3. /\ hnd'.first_blk = hnd.first_blk /\ hnd'.size = hnd.size
      /\ Here' = loc.last_pos \div DataLen /\ tfs_last_error = "OK"
  <2>1. /\ hnd'.first_blk = hnd.first_blk /\ hnd'.size = hnd.size /\ hnd'.curr_pos = loc.last_pos
        /\ tfs_last_error = "OK"
    BY <1>1, <1>2 DEF LastPos, Hnds, Running, FInv
  <2>2. slip' = 0
    BY <1>1, RunningFacts
  <2>3. loc.last_pos \div DataLen + 0 = loc.last_pos \div DataLen
    <3>1. PICK n \in 0 .. BlkCount : loc.last_pos = DataLen * n
      BY <1>2 DEF Shapes, Positions
    <3>2. loc.last_pos \div DataLen = n
      BY <3>1, DivMod, Sizes
    <3> QED BY <3>2
  <2> QED BY <2>1, <2>2, <2>3 DEF Here
<1>4. At[Here'] # 0 /\ blk_buf' = disk[At[Here']]
  BY <1>1, <1>2, <1>3, HereNow
<1>5. \A i \in AllPlaces : Now(i)' = Now(i)
  BY <1>1, <1>3, <1>4, LoadNow DEF Buffers
<1>6. call.len # 0
  <2>1. IInv'
    BY SeekAppend DEF Running
  <2> QED BY <1>1, <1>2, <2>1 DEF IInv, Live, Calls
<1>7. Told' /\ WriteSizes' /\ ReadSizes'
  BY <1>1, <1>2, <1>3, <1>6 DEF Running, FInv, Told, WriteSizes, ReadSizes, IsWrite
<1> QED BY <1>1, <1>3, <1>5, <1>7, Moved

\* The first block of an empty file: zeros in the buffer, and nothing behind it.
LEMMA OnwardSeekFirst ==
  ASSUME Running, seek_first
  PROVE  Onward
<1>1. /\ pc = "seek" /\ hnd.curr_blk = 0 /\ call.op # "read" /\ hnd.first_blk = 0
      /\ UNCHANGED <<disk, item, got, ret, before, slip>>
      /\ IF Failed THEN Returned /\ UNCHANGED blk_buf
         ELSE blk_buf' = DataBlk(0, 0, Zeros) /\ pc' = "extend" /\ UNCHANGED <<call, loc>>
  BY DEF seek_first
<1>2. PICK b \in Blocks \cup {0} :
        /\ alloc_block(b)
        /\ hnd' = IF b = 0 THEN [hnd EXCEPT !.first_blk = 0]
                  ELSE init_pos([hnd EXCEPT !.first_blk = b])
  BY DEF seek_first
<1>3. /\ Shapes /\ Placed /\ hnd \in Hnds /\ call \in CallSet /\ call.op = "write"
      /\ At = Walk(disk, 0) /\ Len(before.bytes) \in Nat
  BY <1>1, RunningFacts
<1>4. b # 0 /\ ~disk[b].known /\ b \in Blocks /\ tfs_last_error' = "OK"
  <2>1. 0 \in 0 .. BlkCount - 1 /\ At[0] = 0
    BY <1>3, WalkSteps, Sizes
  <2> QED BY <1>1, <1>2, <2>1, BlockGiven
<1>5. blk_buf' = DataBlk(0, 0, Zeros) /\ pc' = "extend" /\ UNCHANGED <<call, loc>>
  BY <1>1, <1>4 DEF Failed
<1>6. /\ hnd'.first_blk = b /\ hnd'.size = hnd.size /\ hnd'.curr_pos = 0 /\ Here' = 0
  <2>1. hnd' = init_pos([hnd EXCEPT !.first_blk = b])
    BY <1>2, <1>4
  <2>2. [hnd EXCEPT !.first_blk = b] \in Hnds
    BY <1>3, <1>4, Sizes DEF Hnds
  <2>3. hnd'.curr_pos = 0
    BY <2>1, <2>2, StartPosFacts
  <2>4. 0 \div DataLen = 0 /\ slip' = 0
    BY <1>1, RunningFacts, Sizes
  <2> QED BY <1>3, <1>4, <2>1, <2>2, <2>3, <2>4, StartPosFacts DEF Here, Hnds
<1>7. \A i \in AllPlaces : Now(i)' = Now(i)
  <2> SUFFICES ASSUME NEW i \in AllPlaces PROVE Now(i)' = Now(i)
    OBVIOUS
  <2> DEFINE n == (i - 1) \div DataLen
             o == (i - 1) % DataLen
  <2>1. n \in 0 .. BlkCount - 1 /\ o \in Offs
    BY PlaceFacts
  <2>2. Walk(disk, 0)[n] = 0
    BY <2>1, WalkNone, Sizes
  <2>3. n # 0 => Walk(disk, b)[n] = 0
    BY <1>4, <2>1, WalkNew, Sizes
  <2>4. blk_buf'.data[o] = 0
    BY <1>5, <2>1 DEF DataBlk, Zeros
  <2>5. Now(i) = Held(disk, 0, i)
    BY <1>1 DEF Now, Buffers
  <2>6. Held(disk, 0, i) = 0
    BY <2>2 DEF Held
  <2>7. Now(i)' = IF n = 0 THEN blk_buf'.data[o] ELSE Held(disk, b, i)
    BY <1>1, <1>5, <1>6 DEF Now, Buffers
  <2>8. n # 0 => Held(disk, b, i) = 0
    BY <2>3 DEF Held
  <2> QED BY <2>4, <2>5, <2>6, <2>7, <2>8
<1>8. hnd.size = 0
  <2>1. ~(DataLen * 0 < hnd.size)
    <3>1. 0 \in 0 .. BlkCount - 1 /\ BlkAt(hnd.first_blk)[0] = 0
      BY <1>1, WalkSteps, Sizes DEF BlkAt
    <3> QED BY <3>1 DEF Running, FInv, Covered
  <2> QED BY <1>3, <2>1, Sizes DEF Hnds
<1>9. Covered'
  <2>1. \A n \in 0 .. BlkCount - 1 : ~(DataLen * n < 0)
    BY PlaceOf, Sizes
  <2> QED BY <1>6, <1>8, <2>1 DEF Covered
<1>10. call.len # 0
  <2>1. IInv'
    BY SeekFirst DEF Running
  <2> QED BY <1>3, <1>5, <2>1 DEF IInv, Live, Calls
<1>11. Told' /\ WriteSizes' /\ ReadSizes'
  BY <1>1, <1>3, <1>5, <1>6, <1>10 DEF Running, FInv, Told, WriteSizes, ReadSizes, IsWrite
<1> QED BY <1>1, <1>4, <1>5, <1>7, <1>9, <1>11, GoesOn

\* The place behind the last block, when there is one left for it on the drive.
LEMMA PlaceBehind ==
  ASSUME Running, pc \in {"extend", "prealloc"},
         NEW p \in Nat, p <= MaxSize, hnd.curr_pos + DataLen < p
  PROVE  Here + 1 \in 0 .. BlkCount - 1 /\ At[Here + 1] = 0
<1>1. /\ Shapes /\ Placed /\ Buffered /\ Here \in 0 .. BlkCount /\ hnd.curr_pos = DataLen * Here
  BY RunningFacts, HereNow
<1>2. ~disk[hnd.curr_blk].known \/ disk[hnd.curr_blk].next = 0
  BY <1>1 DEF Buffered
<1>3. Here + 1 \in Nat /\ DataLen * (Here + 1) < p
  <2>1. Here \in Nat
    BY <1>1, Sizes
  <2> QED BY <1>1, <2>1, PlaceOf
<1>4. p <= BlkCount * DataLen
  <2>1. MaxSize <= BlkCount * DataLen /\ BlkCount * DataLen \in Nat /\ MaxSize \in Nat
    BY Sizes DEF Running, Undisturbed
  <2> QED BY <2>1
<1>5. Here + 1 \in 0 .. BlkCount - 1 /\ Here \in 0 .. BlkCount - 1
  BY <1>1, <1>3, <1>4, BlocksBefore, Sizes
<1>6. At[Here + 1] = Follow(disk, At[Here]) /\ hnd.curr_blk = At[Here]
  BY <1>1, <1>5, AtFacts, HereNow
<1> QED BY <1>2, <1>5, <1>6 DEF Follow

\* One more block is marked, which there is, as the call ends where the drive has room.
LEMMA OnwardSeekExtend ==
  ASSUME Running, seek_extend
  PROVE  Onward
<1>1. /\ pc = "extend" /\ hnd.curr_pos + DataLen <= call.offset /\ pc' = "link"
      /\ UNCHANGED <<disk, item, hnd, call, loc, got, ret, before, slip>>
  BY DEF seek_extend, Ahead
<1>2. PICK b \in Blocks \cup {0} : alloc_block(b) /\ blk_buf' = [blk_buf EXCEPT !.next = b]
  BY DEF seek_extend
<1>3. /\ Shapes /\ Calls /\ hnd \in Hnds /\ call \in CallSet /\ loc \in Locs /\ call.op = "write"
      /\ call.len # 0 /\ blk_buf \in Blks /\ hnd.curr_pos \in Nat
  <2>1. /\ Shapes /\ Calls /\ hnd \in Hnds /\ call \in CallSet /\ loc \in Locs /\ call.op \in {"write", "read"}
    BY RunningFacts
  <2> QED BY <1>1, <2>1, HereFacts DEF Calls, Shapes
<1>4. call.offset + call.len \in Nat /\ call.offset + call.len <= MaxSize /\ call.offset < call.offset + call.len
  <2>1. call.offset \in Nat /\ call.len \in Nat /\ loc.offset = call.offset /\ loc.len = call.len
    BY <1>1, <1>3 DEF CallSet, Running, BInv, Progress, IsWrite
  <2> QED BY <1>3, <2>1 DEF Calls
<1>5. Here + 1 \in 0 .. BlkCount - 1 /\ At[Here + 1] = 0
  <2>1. hnd.curr_pos + DataLen < call.offset + call.len
    BY <1>1, <1>3, <1>4, Sizes DEF CallSet
  <2> QED BY <1>1, <1>4, <2>1, PlaceBehind
<1>6. tfs_last_error' = "OK"
  BY <1>1, <1>2, <1>5, BlockGiven
<1>7. blk_buf'.data = blk_buf.data /\ Here' = Here
  BY <1>1, <1>2, <1>3 DEF Blks, Here
<1>8. \A i \in AllPlaces : Now(i)' = Now(i)
  BY <1>1, <1>7, SameNow DEF Buffers
<1>9. Told' /\ WriteSizes' /\ ReadSizes'
  BY <1>1, <1>3 DEF Running, FInv, Told, WriteSizes, ReadSizes, IsWrite
<1> QED BY <1>1, <1>6, <1>8, <1>9, Moved

\* The block that is written takes none from the file.
LEMMA StoreCovers ==
  ASSUME Running, pc \in {"link", "store"}, disk' = [disk EXCEPT ![hnd.curr_blk] = blk_buf],
         hnd'.first_blk = hnd.first_blk, used' = used, pc' # "freeing"
  PROVE  \A n \in 0 .. BlkCount - 1 :
           DataLen * n < hnd.size \/ n <= Here => BlkAt(hnd.first_blk)'[n] # 0
<1> SUFFICES ASSUME NEW n \in 0 .. BlkCount - 1, DataLen * n < hnd.size \/ n <= Here
             PROVE  BlkAt(hnd.first_blk)'[n] # 0
  OBVIOUS
<1>1. /\ Shapes /\ Placed /\ Here \in 0 .. BlkCount /\ loc.append \in BOOLEAN
  BY RunningFacts, HereNow DEF Locs
<1>2. hnd.curr_blk # 0 /\ hnd.curr_blk = At[Here]
  BY <1>1, HereNow
<1>3. /\ n = Here => At'[n] # 0
      /\ n < Here \/ (n > Here /\ pc = "store" /\ ~loc.append) => At'[n] = At[n]
      /\ n > Here /\ (pc = "link" \/ loc.append) => At[n] = 0
      /\ At = Walk(disk, hnd.first_blk) /\ At' = Walk(disk', hnd.first_blk)
  BY BlocksStored DEF Running
<1>4. n < Here => At[n] # 0
  <2>1. n < Here => n <= Here /\ n \in 0 .. BlkCount
    BY <1>1, Sizes
  <2> QED BY <1>1, <1>2, <2>1, AtFacts
<1>5. DataLen * n < hnd.size => At[n] # 0
  BY <1>3 DEF Running, FInv, Covered, BlkAt
<1>6. At'[n] # 0
  BY <1>1, <1>3, <1>4, <1>5
<1> QED BY <1>3, <1>6 DEF BlkAt

\* The last block is written with its new pointer, and the new one is zeros.
LEMMA OnwardSeekLink ==
  ASSUME Running, seek_link
  PROVE  Onward
<1>1. /\ pc = "link" /\ disk' = [disk EXCEPT ![hnd.curr_blk] = blk_buf] /\ ~Failed
      /\ hnd' = [hnd EXCEPT !.curr_blk = blk_buf.next, !.curr_pos = @ + DataLen]
      /\ blk_buf' = NextBlk /\ pc' = "extend" /\ UNCHANGED <<call, loc, used, item, got, ret, before, slip>>
  BY NoFaults DEF seek_link
<1>2. /\ Shapes /\ Calls /\ hnd \in Hnds /\ call.op \in {"write", "read"}
  BY RunningFacts
<1>3. /\ hnd'.first_blk = hnd.first_blk /\ hnd'.size = hnd.size /\ hnd'.curr_pos = hnd.curr_pos + DataLen
      /\ call.op = "write" /\ call.len # 0 /\ tfs_last_error' = "OK"
  BY <1>1, <1>2 DEF Hnds, Calls, Failed
<1>4. Here' = Here + 1
  <2>1. Here < BlkCount
    BY <1>1, <1>3, NothingBehind DEF Running, Writing, IsWrite
  <2> QED BY <1>1, <1>2, <1>3, <2>1, NextHere
<1>5. blk_buf'.data = Zeros
  BY <1>1 DEF NextBlk, DataBlk
<1>6. \A i \in AllPlaces : Now(i)' = Now(i)
  BY <1>1, <1>3, <1>4, <1>5, StoreNow DEF Buffers
<1>7. Covered'
  BY <1>1, <1>3, StoreCovers DEF Covered, BlkAt
<1>8. Told' /\ WriteSizes' /\ ReadSizes'
  BY <1>1, <1>3 DEF Running, FInv, Told, WriteSizes, ReadSizes, IsWrite
<1> QED BY <1>1, <1>3, <1>6, <1>7, <1>8, GoesOn

\* The block asked for is in the buffer, and the item is to be written.
LEMMA OnwardSeekDone ==
  ASSUME Running, seek_done
  PROVE  Onward
<1>1. /\ pc = "extend" /\ pc' = Appended
      /\ loc' = [loc EXCEPT !.append = TRUE, !.update_item = TRUE, !.os = call.offset - hnd.curr_pos]
      /\ UNCHANGED <<disk, used, item, hnd, blk_buf, tfs_last_error, call, got, ret, before, slip, faults>>
  BY DEF seek_done
<1>2. /\ Shapes /\ Calls /\ loc \in Locs /\ call.op \in {"write", "read"}
  BY RunningFacts
<1>3. call.op = "write" /\ call.len # 0 /\ pc' = "fill"
  BY <1>1, <1>2 DEF Calls, Appended
<1>4. loc'.offset = loc.offset /\ loc'.update_item /\ tfs_last_error' = "OK"
  BY <1>1, <1>2 DEF Locs, Running, FInv
<1>5. \A i \in AllPlaces : Now(i)' = Now(i)
  BY <1>1, <1>3, SameNow DEF Buffers, Here
<1>6. Told' /\ WriteSizes' /\ ReadSizes'
  BY <1>1, <1>3, <1>4 DEF Running, FInv, Told, WriteSizes, ReadSizes, IsWrite
<1> QED BY <1>1, <1>3, <1>4, <1>5, <1>6, Moved

\* A block ends before a later one begins.
LEMMA EndsBefore ==
  ASSUME NEW m \in Nat, NEW n \in Nat, m < n
  PROVE  DataLen * m + DataLen <= DataLen * n
<1> DEFINE c == n - m - 1
<1>1. c \in Nat /\ n = m + 1 + c
  OBVIOUS
<1> HIDE DEF c
<1>2. \A d \in Nat : d * (m + 1 + c) = d * m + d + d * c /\ d * c \in Nat /\ d * m \in Nat
  BY <1>1
<1> QED BY <1>1, <1>2, Sizes

\* What holds in the middle of tfs_write.
LEMMA WriteFacts ==
  ASSUME Running, pc \in {"fill", "prealloc", "store", "fetch"}
  PROVE  /\ call.op = "write" /\ IsWrite /\ call.len # 0 /\ loc.os \in Offs
         /\ call \in CallSet /\ loc \in Locs /\ hnd \in Hnds /\ blk_buf \in Blks
         /\ {loc.offset, loc.len, call.offset, call.len, hnd.size, hnd.curr_pos, DataLen, Here} \subseteq Nat
         /\ loc.append \in BOOLEAN /\ loc.update_item \in BOOLEAN
         /\ Len(before.bytes) \in Nat
         /\ call.offset <= loc.offset /\ loc.offset + loc.len = WriteEnd /\ loc.offset + loc.len <= MaxSize
         /\ pc = "fill" => hnd.curr_pos + loc.os = loc.offset
         /\ pc \in {"prealloc", "store"} => loc.offset <= hnd.curr_pos + DataLen
         /\ pc = "fetch" => loc.os = 0
         /\ pc = "fetch" \/ (pc \in {"prealloc", "store"} /\ loc.len # 0) =>
              loc.offset = hnd.curr_pos + DataLen
         /\ hnd.size # Len(before.bytes) => Len(before.bytes) < hnd.size /\ hnd.size <= loc.offset
         /\ loc.update_item \/ (item.blk = hnd.first_blk /\ item.size = hnd.size)
         /\ got = <<>> /\ Len(before.bytes) <= hnd.size
         /\ tfs_last_error = "OK" /\ Shapes /\ Placed /\ Buffered
         /\ hnd.curr_pos = DataLen * Here /\ Here <= BlkCount
<1>1. /\ Shapes /\ Calls /\ Placed /\ Buffered /\ loc \in Locs /\ hnd \in Hnds /\ call \in CallSet
      /\ Len(before.bytes) \in Nat
  BY RunningFacts
<1>2. call.op = "write" /\ IsWrite /\ loc.os \in Offs
  BY <1>1 DEF Calls, IsWrite
<1>3. /\ {loc.offset, loc.len, call.offset, call.len, hnd.size, hnd.curr_pos, DataLen, Here} \subseteq Nat
      /\ loc.append \in BOOLEAN /\ loc.update_item \in BOOLEAN /\ blk_buf \in Blks
      /\ hnd.curr_pos = DataLen * Here /\ Here <= BlkCount
  BY <1>1, HereNow, Sizes DEF Locs, Hnds, CallSet, Shapes
<1>4. Progress /\ WriteSizes /\ Told /\ tfs_last_error = "OK"
  BY DEF Running, BInv, FInv
<1>5. /\ call.offset <= loc.offset /\ loc.offset + loc.len = WriteEnd
      /\ pc = "fill" => hnd.curr_pos + loc.os = loc.offset
      /\ pc \in {"prealloc", "store"} => loc.offset <= hnd.curr_pos + DataLen
      /\ pc = "fetch" => loc.os = 0
      /\ pc = "fetch" \/ (pc \in {"prealloc", "store"} /\ loc.len # 0) =>
           loc.offset = hnd.curr_pos + DataLen
  BY <1>2, <1>4 DEF Progress, WriteEnd
<1>6. /\ hnd.size # Len(before.bytes) => Len(before.bytes) < hnd.size /\ hnd.size <= loc.offset
      /\ loc.update_item \/ (item.blk = hnd.first_blk /\ item.size = hnd.size)
      /\ call.len # 0 /\ got = <<>>
  BY <1>2, <1>4 DEF WriteSizes, Told
<1>7. loc.offset + loc.len <= MaxSize
  BY <1>1, <1>2 DEF Calls
<1>8. Len(before.bytes) <= hnd.size
  BY <1>1, <1>3, <1>6
<1> QED BY <1>1, <1>2, <1>3, <1>4, <1>5, <1>6, <1>7, <1>8

\* A step within tfs_write keeps the sizes.
LEMMA WritesOn ==
  ASSUME Running, pc \in {"fill", "prealloc", "store", "fetch"},
         pc' \in {"fill", "prealloc", "store", "fetch"}, UNCHANGED <<call, before, got>>,
         loc'.offset \in Nat, hnd'.size \in Nat, hnd'.first_blk = hnd.first_blk, item' = item,
         loc.offset <= loc'.offset,
         hnd'.size = hnd.size \/ (hnd.size < hnd'.size /\ hnd'.size = loc'.offset /\ loc'.update_item),
         loc.update_item => loc'.update_item
  PROVE  Told' /\ WriteSizes' /\ ReadSizes'
<1>1. /\ call.op = "write" /\ call.len # 0 /\ got = <<>> /\ {loc.offset, hnd.size} \subseteq Nat
      /\ Len(before.bytes) \in Nat /\ Len(before.bytes) <= hnd.size
      /\ hnd.size # Len(before.bytes) => Len(before.bytes) < hnd.size /\ hnd.size <= loc.offset
      /\ loc.update_item \/ (item.blk = hnd.first_blk /\ item.size = hnd.size)
  BY WriteFacts
<1>2. hnd'.size # Len(before.bytes) => Len(before.bytes) < hnd'.size /\ hnd'.size <= loc'.offset
  BY <1>1
<1>3. Told'
  BY <1>1 DEF Told
<1>4. WriteSizes' /\ ReadSizes'
  BY <1>1, <1>2 DEF WriteSizes, ReadSizes
<1> QED BY <1>3, <1>4

\* The bytes of this block are put into the buffer.
LEMMA OnwardWriteFill ==
  ASSUME Running, write_fill
  PROVE  Onward
<1>1. /\ pc = "fill" /\ pc' \in {"prealloc", "store"}
      /\ blk_buf' = [blk_buf EXCEPT !.data = [o \in Offs |-> IF o \in Chunk THEN call.v ELSE @[o]]]
      /\ loc' = [loc EXCEPT !.len = @ - ChunkLen, !.offset = @ + ChunkLen]
      /\ UNCHANGED <<disk, used, item, hnd, tfs_last_error, call, got, before, slip, faults>>
  BY DEF write_fill
<1>2. /\ IsWrite /\ loc \in Locs /\ blk_buf \in Blks /\ hnd \in Hnds /\ loc.os \in Offs
      /\ {loc.offset, loc.len, call.offset, call.len, hnd.size, hnd.curr_pos, DataLen, Here} \subseteq Nat
      /\ hnd.curr_pos + loc.os = loc.offset /\ call.offset <= loc.offset /\ tfs_last_error = "OK"
      /\ hnd.curr_pos = DataLen * Here
  BY <1>1, WriteFacts
<1>3. /\ ChunkLen \in Nat /\ loc.os \in Nat /\ loc.os + ChunkLen <= DataLen
      /\ \A o \in Offs : o \in Chunk <=> loc.os <= o /\ o < loc.os + ChunkLen
  BY <1>2 DEF ChunkLen, Chunk, Offs
<1>4. loc'.offset = loc.offset + ChunkLen /\ loc'.update_item = loc.update_item
  BY <1>1, <1>2 DEF Locs
<1>5. \A o \in Offs : blk_buf'.data[o] = IF o \in Chunk THEN call.v ELSE blk_buf.data[o]
  BY <1>1, <1>2 DEF Blks
<1>6. ASSUME NEW i \in AllPlaces
      PROVE  Now(i)' = IF i > loc.offset /\ i <= loc.offset + ChunkLen THEN call.v ELSE Now(i)
  <2> DEFINE n == (i - 1) \div DataLen
             o == (i - 1) % DataLen
  <2>1. n \in Nat /\ o \in Offs /\ i = DataLen * n + o + 1 /\ i \in Nat
    BY PlaceFacts
  <2>2. /\ Now(i) = IF n = Here THEN blk_buf.data[o] ELSE Held(disk, hnd.first_blk, i)
        /\ Now(i)' = IF n = Here THEN blk_buf'.data[o] ELSE Held(disk, hnd.first_blk, i)
    BY <1>1 DEF Now, Buffers, Here, Held
  <2> HIDE DEF n, o
  <2>3. o \in Nat /\ o < DataLen
    BY <1>2, <2>1 DEF Offs
  <2>4. CASE n = Here
    <3>1. i = hnd.curr_pos + o + 1
      BY <1>2, <2>1, <2>4
    <3>2. i > loc.offset /\ i <= loc.offset + ChunkLen <=> o \in Chunk
      BY <1>2, <1>3, <2>1, <2>3, <3>1
    <3> QED BY <1>5, <2>1, <2>2, <2>4, <3>2
  <2>5. CASE n < Here
    <3>1. DataLen * n + DataLen <= DataLen * Here /\ DataLen * n \in Nat
      BY <1>2, <2>1, <2>5, EndsBefore, PlaceOf
    <3>2. ~(i > loc.offset)
      BY <1>2, <1>3, <2>1, <2>3, <3>1
    <3> QED BY <2>2, <2>5, <3>2, <1>2, <2>1
  <2>6. CASE n > Here
    <3>1. DataLen * Here + DataLen <= DataLen * n /\ DataLen * n \in Nat
      BY <1>2, <2>1, <2>6, EndsBefore, PlaceOf
    <3>2. ~(i <= loc.offset + ChunkLen)
      BY <1>2, <1>3, <2>1, <2>3, <3>1
    <3> QED BY <2>2, <2>6, <3>2, <1>2, <2>1
  <2> QED BY <1>2, <2>1, <2>4, <2>5, <2>6
<1>7. Exact'
  <2> SUFFICES ASSUME NEW i \in AllPlaces PROVE Now(i)' = Wanted(i)'
    BY <1>1 DEF Exact, AllPlaces
  <2>1. i \in Nat
    BY PlaceFacts
  <2>2. Now(i) = Wanted(i)
    BY RunningFacts
  <2>3. /\ Wanted(i) = IF i > call.offset /\ i <= loc.offset THEN call.v ELSE Old(i)
        /\ Wanted(i)' = IF i > call.offset /\ i <= loc.offset + ChunkLen THEN call.v ELSE Old(i)
    BY <1>1, <1>2, <1>4 DEF Wanted, IsWrite, Old
  <2> QED BY <1>2, <1>3, <1>6, <2>1, <2>2, <2>3
<1>8. Covered'
  BY <1>1 DEF Running, FInv, Covered, BlkAt
<1>9. Told' /\ WriteSizes' /\ ReadSizes'
  BY <1>1, <1>2, <1>3, <1>4, WritesOn
<1>10. before'.lost = {} /\ call'.op # "trunc"
  BY <1>1 DEF Running, FInv
<1> QED BY <1>1, <1>2, <1>7, <1>8, <1>9, <1>10 DEF Onward, FInv

\* The next block is marked before this one is written.
LEMMA OnwardWriteAlloc ==
  ASSUME Running, write_alloc
  PROVE  Onward
<1>1. /\ pc = "prealloc" /\ loc' = [loc EXCEPT !.append = TRUE] /\ pc' = "store"
      /\ UNCHANGED <<disk, item, hnd, call, got, ret, before, slip>>
  BY DEF write_alloc
<1>2. PICK b \in Blocks \cup {0} : alloc_block(b) /\ blk_buf' = [blk_buf EXCEPT !.next = b]
  BY DEF write_alloc
<1>3. /\ loc \in Locs /\ blk_buf \in Blks
      /\ {loc.offset, loc.len, hnd.curr_pos, DataLen, hnd.size} \subseteq Nat
      /\ loc.offset + loc.len <= MaxSize /\ loc.len # 0 /\ loc.offset = hnd.curr_pos + DataLen
  <2>1. loc.len # 0
    BY <1>1, RunningFacts DEF Calls
  <2> QED BY <1>1, <2>1, WriteFacts
<1>4. Here + 1 \in 0 .. BlkCount - 1 /\ At[Here + 1] = 0
  <2>1. loc.offset + loc.len \in Nat /\ hnd.curr_pos + DataLen < loc.offset + loc.len
    BY <1>3
  <2> QED BY <1>1, <1>3, <2>1, PlaceBehind
<1>5. tfs_last_error' = "OK"
  BY <1>1, <1>2, <1>4, BlockGiven
<1>6. /\ blk_buf'.data = blk_buf.data /\ Here' = Here
      /\ loc'.offset = loc.offset /\ loc'.update_item = loc.update_item
  BY <1>1, <1>2, <1>3 DEF Blks, Here, Locs
<1>7. \A i \in AllPlaces : Now(i)' = Now(i)
  BY <1>1, <1>6, SameNow DEF Buffers
<1>8. Told' /\ WriteSizes' /\ ReadSizes'
  BY <1>1, <1>3, <1>6, WritesOn
<1> QED BY <1>1, <1>5, <1>6, <1>7, <1>8, Moved

\* The next block of the chain is read into the buffer.
LEMMA OnwardWriteFetch ==
  ASSUME Running, write_fetch
  PROVE  Onward
<1>1. /\ pc = "fetch" /\ blk_buf' = disk[hnd.curr_blk] /\ ~Failed
      /\ hnd' = [hnd EXCEPT !.curr_pos = @ + DataLen] /\ Proceed("fill", loc)
      /\ UNCHANGED <<disk, used, item, got, before>> /\ slip' = slip
  BY NoFaults DEF write_fetch
<1>2. pc' = "fill" /\ loc' = loc /\ call' = call /\ tfs_last_error' = "OK"
  BY <1>1 DEF Proceed, Failed
<1>3. /\ Shapes /\ Placed /\ hnd \in Hnds /\ {loc.offset, hnd.size, hnd.curr_pos} \subseteq Nat
  BY <1>1, WriteFacts
<1>4. Here < BlkCount /\ hnd.curr_blk # 0 /\ hnd.curr_blk = At[Here + 1]
  BY <1>1, <1>3, HereNow
<1>5. hnd'.first_blk = hnd.first_blk /\ hnd'.size = hnd.size /\ hnd'.curr_pos = hnd.curr_pos + DataLen
  BY <1>1, <1>3 DEF Hnds
<1>6. Here' = Here + 1
  BY <1>1, <1>3, <1>4, <1>5, NextHere
<1>7. \A i \in AllPlaces : Now(i)' = Now(i)
  BY <1>1, <1>4, <1>5, <1>6, LoadNow DEF Buffers
<1>8. Told' /\ WriteSizes' /\ ReadSizes'
  BY <1>1, <1>2, <1>3, <1>5, WritesOn
<1> QED BY <1>1, <1>2, <1>5, <1>7, <1>8, Moved

\* The directory item is written, and tfs_write returns.
LEMMA OnwardUpdate ==
  ASSUME Running, update_dir_item
  PROVE  Onward
<1>1. /\ pc = "update" /\ item' = [blk |-> hnd.first_blk, size |-> hnd.size] /\ NoFault
      /\ Returned /\ pc' = "idle" /\ UNCHANGED <<disk, used, hnd, blk_buf, got, ret, before, slip>>
  BY NoFaults DEF update_dir_item, Returned
<1>2. call.op = "write" /\ IsWrite /\ tfs_last_error = "OK"
  BY <1>1, RunningFacts DEF Running, FInv, ReadSizes, IsWrite
<1>3. /\ loc.offset = WriteEnd /\ loc.offset <= hnd.size /\ call.len # 0
      /\ hnd.size # Len(before.bytes) => Len(before.bytes) < hnd.size /\ hnd.size <= loc.offset
  BY <1>1, <1>2 DEF Running, FInv, WriteSizes, WriteEnd
<1>4. hnd.size \in Nat /\ Len(before.bytes) \in Nat /\ loc.offset \in Nat
  BY RunningFacts DEF Hnds, Locs
<1>5. hnd'.size = IF call.len # 0 /\ Len(before.bytes) < WriteEnd THEN WriteEnd ELSE Len(before.bytes)
  BY <1>1, <1>3, <1>4
<1>6. \A i \in AllPlaces : Now(i)' = Now(i)
  BY <1>1, SameNow DEF Buffers
<1>7. Covered'
  BY <1>1 DEF Running, FInv, Covered, BlkAt
<1> QED BY <1>1, <1>2, <1>3, <1>5, <1>6, <1>7, WriteReturns DEF NoFault

\* The size that the write of a block gives to the handle.
LEMMA StoreSize ==
  ASSUME Running, pc = "store", disk' = [disk EXCEPT ![hnd.curr_blk] = blk_buf], used' = used,
         pc' # "freeing", hnd'.first_blk = hnd.first_blk,
         hnd'.size = IF Grown THEN loc.offset ELSE hnd.size
  PROVE  /\ hnd'.size \in Nat
         /\ hnd'.size = hnd.size \/ (Grown /\ hnd.size < hnd'.size /\ hnd'.size = loc.offset)
         /\ Covered'
         /\ loc.len = 0 => /\ loc.offset = WriteEnd
                           /\ hnd'.size = IF call.len # 0 /\ Len(before.bytes) < WriteEnd THEN WriteEnd
                                          ELSE Len(before.bytes)
<1>1. /\ {loc.offset, loc.len, hnd.size, hnd.curr_pos, DataLen, Here} \subseteq Nat
      /\ loc.offset <= hnd.curr_pos + DataLen /\ hnd.curr_pos = DataLen * Here
      /\ loc.offset + loc.len = WriteEnd /\ call.len # 0 /\ Len(before.bytes) \in Nat
      /\ hnd.size # Len(before.bytes) => Len(before.bytes) < hnd.size /\ hnd.size <= loc.offset
  BY WriteFacts
<1>2. hnd'.size = hnd.size \/ (Grown /\ hnd.size < hnd'.size /\ hnd'.size = loc.offset)
  BY <1>1 DEF Grown
<1>3. ASSUME NEW n \in 0 .. BlkCount - 1, DataLen * n < hnd'.size
      PROVE  BlkAt(hnd.first_blk)'[n] # 0
  <2>1. DataLen * n < hnd.size \/ n <= Here
    <3> SUFFICES ASSUME DataLen * n < loc.offset, ~(n <= Here) PROVE FALSE
      BY <1>2, <1>3
    <3>1. n \in Nat /\ Here < n
      BY <1>1, Sizes
    <3>2. DataLen * Here + DataLen <= DataLen * n /\ DataLen * n \in Nat
      BY <1>1, <3>1, EndsBefore, PlaceOf
    <3> QED BY <1>1, <3>2
  <2> QED BY <2>1, StoreCovers
<1>4. loc.len = 0 => /\ loc.offset = WriteEnd
                     /\ hnd'.size = IF call.len # 0 /\ Len(before.bytes) < WriteEnd THEN WriteEnd
                                    ELSE Len(before.bytes)
  BY <1>1 DEF Grown
<1> QED BY <1>1, <1>2, <1>3, <1>4 DEF Covered, BlkAt

\* The block is written: the file has grown to what has been written, and the call goes on
\* with the next block, writes the directory item or returns.
LEMMA OnwardWriteStore ==
  ASSUME Running, write_store
  PROVE  Onward
<1> DEFINE update == loc.update_item \/ Grown
           sized  == [hnd EXCEPT !.size = IF Grown THEN loc.offset ELSE @]
           l      == [loc EXCEPT !.update_item = update, !.os = 0]
<1>1. /\ pc = "store" /\ disk' = [disk EXCEPT ![hnd.curr_blk] = blk_buf] /\ ~Failed
      /\ UNCHANGED <<used, item, got, ret, before, slip>>
      /\ \/ /\ loc.len = 0 /\ Proceed(IF update THEN "update" ELSE "done", l) /\ hnd' = sized
            /\ UNCHANGED blk_buf
         \/ /\ loc.len # 0 /\ loc.append /\ Proceed("fill", l)
            /\ hnd' = [sized EXCEPT !.curr_blk = blk_buf.next, !.curr_pos = @ + DataLen]
            /\ blk_buf' = NextBlk
         \/ /\ loc.len # 0 /\ ~loc.append /\ Proceed("fetch", l)
            /\ hnd' = [sized EXCEPT !.curr_blk = blk_buf.next] /\ UNCHANGED blk_buf
  BY NoFaults, RunningFacts DEF write_store, Locs
<1>2. /\ loc \in Locs /\ hnd \in Hnds /\ Shapes /\ Buffered /\ call.op = "write" /\ IsWrite
      /\ {loc.offset, loc.len, hnd.size} \subseteq Nat /\ loc.append \in BOOLEAN
      /\ loc.update_item \/ (item.blk = hnd.first_blk /\ item.size = hnd.size)
      /\ got = <<>> /\ loc.update_item \in BOOLEAN
  BY <1>1, WriteFacts
<1>3. /\ l.offset = loc.offset /\ l.update_item = update
      /\ sized.first_blk = hnd.first_blk /\ sized.size = (IF Grown THEN loc.offset ELSE hnd.size)
      /\ sized.curr_pos = hnd.curr_pos
      /\ sized \in [size : Nat, first_blk : Ptrs, curr_blk : Ptrs, curr_pos : Positions]
  BY <1>2 DEF Locs, Hnds
<1> HIDE DEF l, sized
<1>4. /\ hnd'.first_blk = hnd.first_blk /\ hnd'.size = (IF Grown THEN loc.offset ELSE hnd.size)
      /\ pc' # "freeing" /\ tfs_last_error' = "OK"
      /\ loc.len # 0 /\ loc.append => hnd'.curr_pos = hnd.curr_pos + DataLen
  <2>1. pc' # "freeing" /\ tfs_last_error' = "OK"
    BY <1>1 DEF Proceed, Returned, Failed
  <2>2. CASE hnd' = sized /\ loc.len = 0
    BY <1>3, <2>1, <2>2
  <2>3. CASE hnd' = [sized EXCEPT !.curr_blk = blk_buf.next, !.curr_pos = @ + DataLen]
    BY <1>3, <2>1, <2>3
  <2>4. CASE hnd' = [sized EXCEPT !.curr_blk = blk_buf.next] /\ ~loc.append
    BY <1>3, <2>1, <2>4
  <2> QED BY <1>1, <2>2, <2>3, <2>4
<1>5. /\ hnd'.size \in Nat /\ Covered'
      /\ hnd'.size = hnd.size \/ (Grown /\ hnd.size < hnd'.size /\ hnd'.size = loc.offset)
      /\ loc.len = 0 => /\ loc.offset = WriteEnd
                        /\ hnd'.size = IF call.len # 0 /\ Len(before.bytes) < WriteEnd THEN WriteEnd
                                       ELSE Len(before.bytes)
  BY <1>1, <1>4, StoreSize
<1>6. before'.lost = {} /\ call.op # "trunc"
  BY <1>1, <1>2 DEF Running, FInv
<1>7. CASE loc.len = 0
  <2>1. loc.append => blk_buf.next = 0
    BY <1>1, <1>2, <1>7 DEF Buffered
  <2>2. Proceed(IF update THEN "update" ELSE "done", l) /\ hnd' = sized
    BY <1>1, <1>7
  <2>3. pc' \in {"update", "idle"}
    BY <2>2 DEF Proceed, Returned
  <2>4. \A i \in AllPlaces : Now(i)' = Now(i)
    BY <1>1, <1>4, <2>1, <2>3, StoreNow DEF Buffers
  <2>5. CASE update
    <3>1. pc' = "update" /\ loc' = l /\ call' = call
      BY <2>2, <2>5 DEF Proceed
    <3>2. Told' /\ ReadSizes'
      BY <1>2, <3>1 DEF Told, ReadSizes
    <3>3. /\ Len(before.bytes) \in Nat /\ call.len # 0 /\ WriteEnd \in Nat /\ Len(before.bytes) <= hnd.size
          /\ hnd.size # Len(before.bytes) => Len(before.bytes) < hnd.size /\ hnd.size <= loc.offset
      BY <1>1, <1>2, <1>5, <1>7, WriteFacts
    <3>4. WriteSizes'
      <4>1. loc'.offset = WriteEnd /\ loc'.offset <= hnd'.size
        BY <1>2, <1>3, <1>4, <1>5, <1>7, <3>1, <3>3 DEF Grown
      <4>2. hnd'.size # Len(before.bytes) => Len(before.bytes) < hnd'.size /\ hnd'.size <= loc'.offset
        BY <1>5, <1>7, <3>3, <4>1
      <4> QED BY <1>1, <1>2, <3>1, <3>3, <4>1, <4>2 DEF WriteSizes, WriteEnd
    <3> QED BY <1>1, <1>3, <1>4, <1>5, <2>4, <3>1, <3>2, <3>4, GoesOn
  <2>6. CASE ~update
    <3>1. Returned /\ pc' = "idle"
      BY <2>2, <2>6 DEF Proceed, Returned
    <3>2. item'.blk = hnd'.first_blk /\ item'.size = hnd'.size
      BY <1>1, <1>2, <1>4, <2>6
    <3> QED BY <1>1, <1>2, <1>4, <1>5, <1>7, <2>4, <3>1, <3>2, WriteReturns
  <2> QED BY <2>5, <2>6
<1>8. CASE loc.len # 0
  <2>1. /\ pc' \in {"fill", "fetch"} /\ loc' = l /\ call' = call
    BY <1>1, <1>8 DEF Proceed
  <2>2. Told' /\ WriteSizes' /\ ReadSizes'
    <3>1. /\ loc'.offset \in Nat /\ loc.offset <= loc'.offset /\ (loc.update_item => loc'.update_item)
          /\ hnd'.size = hnd.size \/ (hnd.size < hnd'.size /\ hnd'.size = loc'.offset /\ loc'.update_item)
      <4>1. loc'.offset = loc.offset /\ (update => loc'.update_item)
        BY <1>3, <2>1, Zenon
      <4>2. (loc.update_item => loc'.update_item) /\ (Grown => loc'.update_item)
        BY <4>1
      <4> QED BY <1>2, <1>5, <4>1, <4>2
    <3>2. pc \in {"fill", "prealloc", "store", "fetch"} /\ pc' \in {"fill", "prealloc", "store", "fetch"}
      BY <1>1, <2>1
    <3> HIDE DEF update
    <3> QED BY <1>1, <1>4, <1>5, <2>1, <3>1, <3>2, WritesOn
  <2>3. \A i \in AllPlaces : Now(i)' = Now(i)
    <3>1. CASE loc.append
      <4>1. pc' = "fill" /\ blk_buf' = NextBlk /\ hnd'.curr_pos = hnd.curr_pos + DataLen
        BY <1>1, <1>4, <1>8, <3>1 DEF Proceed
      <4>2. Here' = Here + 1
        <5>1. Here < BlkCount
          BY <1>1, <1>2, <3>1, NothingBehind DEF Running, Writing
        <5> QED BY <1>1, <1>2, <4>1, <5>1, NextHere
      <4>3. blk_buf'.data = Zeros
        BY <4>1 DEF NextBlk, DataBlk
      <4> QED BY <1>1, <1>4, <3>1, <4>1, <4>2, <4>3, StoreNow DEF Buffers
    <3>2. CASE ~loc.append
      <4>1. pc' = "fetch"
        BY <1>1, <1>8, <3>2 DEF Proceed
      <4> QED BY <1>1, <1>4, <3>2, <4>1, StoreNow DEF Buffers
    <3> QED BY <3>1, <3>2
  <2> QED BY <1>1, <1>3, <1>4, <1>5, <2>1, <2>2, <2>3, GoesOn
<1> QED BY <1>7, <1>8

\* A number taken apart.
LEMMA DivRest ==
  ASSUME NEW d \in Nat \ {0}, NEW k \in Nat, NEW r \in 0 .. d - 1
  PROVE  (d * k + r) \div d = k /\ (d * k + r) % d = r
OBVIOUS

\* The bytes of this block are what the file has from here, and reading goes on behind them.
LEMMA OnwardReadCopy ==
  ASSUME Running, read_copy
  PROVE  Onward
<1> DEFINE p == ReadEnd - loc.len
           q == p + ChunkLen
           piece == [i \in 1 .. ChunkLen |-> blk_buf.data[loc.os + i - 1]]
<1>1. /\ pc = "copy" /\ got' = got \o piece
      /\ IF loc.len = ChunkLen THEN Returned /\ UNCHANGED hnd
         ELSE /\ hnd' = [hnd EXCEPT !.curr_blk = blk_buf.next, !.curr_pos = @ + DataLen]
              /\ Proceed(IF blk_buf.next = 0 THEN "done" ELSE "next",
                         [loc EXCEPT !.len = @ - ChunkLen, !.os = 0])
      /\ UNCHANGED <<disk, used, item, blk_buf, tfs_last_error, ret, before, slip, faults>>
  BY DEF read_copy
<1>2. /\ Shapes /\ Calls /\ Placed /\ Buffered /\ Walkable /\ hnd \in Hnds /\ loc \in Locs /\ call \in CallSet
      /\ At = Walk(disk, hnd.first_blk) /\ Len(before.bytes) \in Nat /\ BlkCount * DataLen \in Nat
      /\ ~Growing
  BY <1>1, RunningFacts DEF Growing
<1>3. call.op = "read" /\ tfs_last_error = "OK" /\ ReadSizes /\ Covered /\ hnd.size <= BlkCount * DataLen
  BY <1>1, <1>2 DEF Calls, Running, FInv, BInv, Sized
<1>4. /\ loc.len \in Nat /\ loc.os \in Nat /\ hnd.size \in Nat /\ hnd.curr_pos \in Nat
      /\ call.offset \in Nat /\ call.len \in Nat /\ DataLen \in Nat \ {0} /\ Here \in Nat
      /\ loc.os < DataLen /\ hnd.curr_pos = DataLen * Here
  <2>1. loc.os \in Offs
    BY <1>1, <1>2 DEF Calls
  <2>2. loc.len \in Nat /\ hnd.size \in Nat /\ call.offset \in Nat /\ call.len \in Nat
    BY <1>2, Sizes DEF Locs, Hnds, CallSet
  <2>3. Here \in Nat /\ hnd.curr_pos \in Nat /\ hnd.curr_pos = DataLen * Here
    <3>1. hnd.curr_pos \in Positions
      BY <1>2 DEF Hnds
    <3>2. hnd.curr_pos \in Nat
      BY <3>1, PositionFacts
    <3>3. Here \in 0 .. BlkCount /\ hnd.curr_pos = DataLen * Here
      BY HereNow
    <3> QED BY <3>2, <3>3, Sizes
  <2>4. loc.os \in Nat /\ loc.os < DataLen
    BY <2>1, Sizes DEF Offs
  <2> QED BY <2>2, <2>3, <2>4, Sizes
<1>5. /\ Len(before.bytes) = hnd.size /\ call.offset <= hnd.size /\ loc.len > 0
      /\ hnd.curr_pos + loc.os = p /\ got = SubSeq(before.bytes, call.offset + 1, p)
      /\ item.blk = hnd.first_blk /\ item.size = hnd.size
  BY <1>1, <1>3, ReadTail DEF ReadSizes
<1>6. /\ ReadEnd \in Nat /\ ReadEnd <= hnd.size
      /\ ChunkLen \in Nat /\ ChunkLen <= loc.len /\ ChunkLen > 0 /\ loc.os + ChunkLen <= DataLen
      /\ loc.len # ChunkLen => loc.os + ChunkLen = DataLen
      /\ p \in Nat /\ q \in Nat /\ q <= ReadEnd /\ q = p + ChunkLen /\ call.offset <= p
  <2>1. ReadEnd \in Nat /\ ReadEnd <= hnd.size
    BY <1>4, <1>5 DEF ReadEnd
  <2>2. /\ ChunkLen \in Nat /\ ChunkLen <= loc.len /\ ChunkLen > 0 /\ loc.os + ChunkLen <= DataLen
        /\ loc.len # ChunkLen => loc.os + ChunkLen = DataLen
    BY <1>4, <1>5 DEF ChunkLen
  <2>3. call.offset <= p
    BY <1>1, <1>3 DEF ReadSizes
  <2>4. p \in Nat
    BY <1>4, <1>5
  <2> QED BY <1>4, <2>1, <2>2, <2>3, <2>4
<1>7. before.bytes \in Seq(S)
  BY DEF Running, BInv, Sized, S
<1>8. hnd.curr_blk # 0 /\ hnd.curr_blk = At[Here] /\ blk_buf = disk[hnd.curr_blk] /\ disk[hnd.curr_blk].known
  <2>1. hnd.curr_blk # 0 /\ hnd.curr_blk = At[Here] /\ blk_buf = disk[hnd.curr_blk]
    BY <1>1, <1>2, HereNow DEF Buffered
  <2> QED BY <2>1, <1>2, HereNow DEF Walkable
<1> HIDE DEF p, q, piece
<1>9. \A i \in 1 .. ChunkLen : blk_buf.data[loc.os + i - 1] = before.bytes[p + i]
  <2> TAKE i \in 1 .. ChunkLen
  <2>0. i \in Nat \ {0} /\ i <= ChunkLen /\ p = hnd.curr_pos + loc.os
    BY <1>5, <1>6
  <2>1. loc.os + i - 1 \in Offs /\ (p + i) - 1 = DataLen * Here + (loc.os + i - 1)
    <3>1. loc.os + i - 1 \in 0 .. DataLen - 1
      BY <1>4, <1>6, <2>0
    <3>2. (p + i) - 1 = hnd.curr_pos + (loc.os + i - 1)
      BY <1>4, <2>0
    <3> QED BY <1>4, <3>1, <3>2 DEF Offs
  <2>2. p + i \in AllPlaces /\ p + i <= Len(before.bytes)
    <3>1. p + i \in Nat \ {0} /\ p + i <= hnd.size
      BY <1>4, <1>6, <2>0
    <3>2. p + i <= BlkCount * DataLen
      BY <1>2, <1>3, <1>4, <3>1
    <3> QED BY <1>2, <1>5, <3>1, <3>2 DEF AllPlaces
  <2>3. ((p + i) - 1) \div DataLen = Here /\ ((p + i) - 1) % DataLen = loc.os + i - 1
    <3>1. DataLen \in Nat \ {0} /\ Here \in Nat /\ loc.os + i - 1 \in 0 .. DataLen - 1
      BY <1>4, <2>1, Sizes DEF Offs
    <3> QED BY <2>1, <3>1, DivRest
  <2>4. Held(disk, hnd.first_blk, p + i) = blk_buf.data[loc.os + i - 1]
    <3>1. Walk(disk, hnd.first_blk)[Here] # 0 /\ disk[Walk(disk, hnd.first_blk)[Here]] = blk_buf
      BY <1>2, <1>8
    <3> DEFINE j == p + i
    <3>2. (j - 1) \div DataLen = Here /\ (j - 1) % DataLen = loc.os + i - 1
      BY <2>3
    <3> HIDE DEF j
    <3>3. Held(disk, hnd.first_blk, j) = blk_buf.data[loc.os + i - 1]
      BY <3>1, <3>2 DEF Held
    <3> QED BY <3>3 DEF j
  <2>5. Held(disk, hnd.first_blk, p + i) = before.bytes[p + i]
    BY <1>3, <2>2, ReadTail DEF Old
  <2> QED BY <2>4, <2>5
<1>10. got' = SubSeq(before.bytes, call.offset + 1, q)
  <2>1. \A i \in p + 1 .. q : before.bytes[i] \in S
    <3>1. \A i \in p + 1 .. q : i \in 1 .. Len(before.bytes)
      <4>1. p \in Nat /\ q \in Nat /\ Len(before.bytes) \in Nat /\ q <= Len(before.bytes)
        BY <1>2, <1>4, <1>5, <1>6
      <4> QED BY <4>1
    <3> QED BY <1>7, <3>1
  <2>2. SubSeq(before.bytes, p + 1, q) = piece
    <3>1. /\ SubSeq(before.bytes, p + 1, q) \in Seq(S)
          /\ Len(SubSeq(before.bytes, p + 1, q)) = ChunkLen
          /\ \A i \in 1 .. ChunkLen : SubSeq(before.bytes, p + 1, q)[i] = before.bytes[p + i]
      <4>1. p + 1 \in Int /\ q \in Int /\ p + 1 <= q /\ q - (p + 1) + 1 = ChunkLen
            /\ \A i \in 1 .. ChunkLen : (p + 1) + i - 1 = p + i
        BY <1>6
      <4> QED BY <2>1, <4>1, SubSeqProperties
    <3>2. \A i \in 1 .. ChunkLen : before.bytes[p + i] \in S
      BY <1>6, <2>1
    <3>3. piece \in Seq(S) /\ Len(piece) = ChunkLen /\ \A i \in 1 .. ChunkLen : piece[i] = before.bytes[p + i]
      BY <1>6, <1>9, <3>2 DEF piece
    <3> QED BY <3>1, <3>3, SeqEqual
  <2>3. SubSeq(before.bytes, call.offset + 1, p) \o SubSeq(before.bytes, p + 1, q)
          = SubSeq(before.bytes, call.offset + 1, q)
    <3>1. /\ call.offset + 1 \in 1 .. Len(before.bytes) + 1 /\ p \in (call.offset + 1) - 1 .. Len(before.bytes)
          /\ q \in p .. Len(before.bytes)
      <4>1. call.offset <= p /\ p <= q /\ q <= hnd.size /\ (call.offset + 1) - 1 = call.offset
        BY <1>4, <1>6
      <4>2. q \in Nat /\ p \in Nat /\ call.offset \in Nat /\ Len(before.bytes) = hnd.size /\ hnd.size \in Nat
        BY <1>4, <1>5, <1>6
      <4>3. /\ call.offset + 1 \in 1 .. hnd.size + 1 /\ p \in call.offset .. hnd.size /\ q \in p .. hnd.size
        BY <4>1, <4>2
      <4> QED BY <4>1, <4>2, <4>3
    <3> QED BY <1>7, <3>1, ConcatAdjacentSubSeq
  <2> QED BY <1>1, <1>5, <2>2, <2>3
<1>11. CASE loc.len = ChunkLen
  <2>1. q = ReadEnd
    BY <1>4, <1>6, <1>11 DEF p
  <2>2. Returned /\ pc' = "idle" /\ hnd' = hnd
    BY <1>1, <1>11 DEF Returned
  <2> QED BY <1>1, <1>3, <1>10, <2>1, <2>2, ReadReturns
<1>12. CASE loc.len # ChunkLen
  <2> DEFINE l == [loc EXCEPT !.len = @ - ChunkLen, !.os = 0]
  <2>1. q = hnd.curr_pos + DataLen /\ q < ReadEnd /\ q = ReadEnd - (loc.len - ChunkLen)
    <3>1. p = ReadEnd - loc.len /\ p = hnd.curr_pos + loc.os /\ q = p + ChunkLen
      BY <1>5, <1>6 DEF p
    <3> QED BY <1>4, <1>6, <1>12, <3>1
  <2>2. blk_buf.next # 0
    <3>1. DataLen * (Here + 1) = q
      BY <1>4, <2>1, PlaceOf
    <3>2. Here + 1 \in 0 .. BlkCount - 1
      <4>1. DataLen * (Here + 1) < hnd.size /\ Here + 1 \in Nat
        BY <1>4, <1>6, <2>1, <3>1
      <4> QED BY <1>3, <1>4, <4>1, BlocksBefore, Sizes
    <3>3. At[Here + 1] # 0
      BY <1>2, <1>3, <1>4, <1>6, <2>1, <3>1, <3>2 DEF Covered, BlkAt
    <3>4. Nth(At, Here, hnd.curr_blk)
      BY <1>1, RunningFacts DEF Placed
    <3> QED BY <1>2, <1>8, <3>3, <3>4, NextPlace
  <2>3. hnd' = [hnd EXCEPT !.curr_blk = blk_buf.next, !.curr_pos = @ + DataLen] /\ Proceed("next", l)
    BY <1>1, <1>12, <2>2
  <2>4. /\ l.len = loc.len - ChunkLen /\ l.os = 0 /\ l.offset = loc.offset
        /\ hnd'.first_blk = hnd.first_blk /\ hnd'.size = hnd.size /\ hnd'.curr_pos = q
    BY <1>2, <2>1, <2>3 DEF Locs, Hnds
  <2> HIDE DEF l
  <2>5. pc' = "next" /\ loc' = l /\ call' = call
    BY <2>3 DEF Proceed
  <2>6. \A i \in AllPlaces : Now(i)' = Now(i)
    BY <1>1, <2>4, <2>5, SameNow DEF Buffers
  <2>7. Told' /\ WriteSizes'
    BY <1>1, <1>3, <1>5, <2>4, <2>5 DEF Told, WriteSizes, IsWrite
  <2>8. ReadSizes'
    <3>1. /\ ReadEnd' = ReadEnd /\ q = ReadEnd - loc'.len /\ loc'.len > 0 /\ call.offset <= q
          /\ hnd'.curr_pos + loc'.os = q
      <4>1. ReadEnd' = ReadEnd
        BY <2>4, <2>5 DEF ReadEnd
      <4>2. q = ReadEnd - loc'.len /\ loc'.len > 0 /\ call.offset <= q /\ hnd'.curr_pos + loc'.os = q
        BY <1>4, <1>6, <1>12, <2>1, <2>4, <2>5
      <4> QED BY <4>1, <4>2
    <3> QED BY <1>1, <1>3, <1>5, <1>10, <2>4, <2>5, <3>1 DEF ReadSizes
  <2>9. IsWrite => loc'.offset = loc.offset
    BY <1>3 DEF IsWrite
  <2> QED BY <1>1, <1>3, <2>4, <2>5, <2>6, <2>7, <2>8, <2>9, Moved
<1> QED BY <1>11, <1>12

\* The next block of the chain is read.
LEMMA OnwardReadNext ==
  ASSUME Running, read_next
  PROVE  Onward
<1>1. /\ pc = "next" /\ ~Failed /\ Proceed("copy", loc) /\ UNCHANGED <<disk, used, item, hnd, got, ret, before, slip>>
  BY NoFaults DEF read_next
<1>2. pc' = "copy" /\ loc' = loc /\ call' = call /\ tfs_last_error' = "OK"
  BY <1>1 DEF Proceed, Failed
<1>3. call.op = "read"
  BY <1>1, RunningFacts DEF Calls
<1>4. \A i \in AllPlaces : Now(i)' = Now(i)
  BY <1>1, <1>2, SameNow DEF Buffers
<1>5. Told' /\ WriteSizes' /\ ReadSizes'
  BY <1>1, <1>2, <1>3 DEF Running, FInv, Told, WriteSizes, ReadSizes, ReadEnd, IsWrite
<1> QED BY <1>1, <1>2, <1>4, <1>5, Moved

\* Every step of a running call.
LEMMA StepsOnward ==
  ASSUME Running, Step
  PROVE  Onward
<1>1. ~(trunc_cut \/ trunc_store \/ free_file_blocks \/ trunc_freed)
  BY RunningFacts DEF trunc_cut, trunc_store, free_file_blocks, trunc_freed
<1> QED BY <1>1, OnwardSeekBack, OnwardSeekForward, OnwardSeekOk, OnwardSeekEof, OnwardSeekAppend,
           OnwardSeekFirst, OnwardSeekExtend, OnwardSeekLink, OnwardSeekDone, OnwardWriteFill,
           OnwardWriteAlloc, OnwardWriteStore, OnwardWriteFetch, OnwardUpdate, OnwardReadCopy,
           OnwardReadNext DEF Step

-----------------------------------------------------------------------------
(* Between calls.                                                          *)

\* The bytes of a file that has a block for each of them.
LEMMA ByteHeld ==
  ASSUME NEW d, NEW f, NEW s \in Nat, s <= BlkCount * DataLen,
         \A n \in 0 .. BlkCount - 1 : DataLen * n < s => Walk(d, f)[n] # 0,
         NEW i \in 1 .. s
  PROVE  i \in AllPlaces /\ Byte(d, f, i) = Held(d, f, i)
<1>1. BlkCount * DataLen \in Nat /\ i \in Nat \ {0} /\ i <= s
  BY Sizes
<1>2. i \in AllPlaces
  BY <1>1 DEF AllPlaces
<1> DEFINE n == (i - 1) \div DataLen
           o == (i - 1) % DataLen
<1>3. n \in 0 .. BlkCount - 1 /\ o \in Offs /\ i = DataLen * n + o + 1
  BY <1>2, PlaceFacts
<1>4. Byte(d, f, i) = (IF Walk(d, f)[n] = 0 THEN Stale ELSE d[Walk(d, f)[n]].data[o])
      /\ Held(d, f, i) = (IF Walk(d, f)[n] = 0 THEN 0 ELSE d[Walk(d, f)[n]].data[o])
  BY DEF Byte, Held
<1> HIDE DEF n, o
<1>5. DataLen * n < s
  <2>1. DataLen * n \in Nat /\ o \in Nat
    BY <1>3, PlaceOf, Sizes DEF Offs
  <2> QED BY <1>1, <1>3, <2>1
<1> QED BY <1>2, <1>3, <1>4, <1>5

\* No call is running.
Resting == Undisturbed /\ IInv /\ BInv /\ FInv /\ pc = "idle"

\* What the invariants say of a file that no call uses.
LEMMA RestingFacts ==
  ASSUME Resting
  PROVE  /\ Shapes /\ hnd \in Hnds /\ tfs_last_error = "OK" /\ call = NoCall /\ loc = NoLoc
         /\ hnd.size \in Nat /\ hnd.size <= BlkCount * DataLen
         /\ item.blk = hnd.first_blk /\ item.size = hnd.size
         /\ used \subseteq ChainBlks(hnd.first_blk)
         /\ \A i \in 1 .. hnd.size : Byte(disk, hnd.first_blk, i) = Held(disk, hnd.first_blk, i)
         /\ \A i \in AllPlaces : i > hnd.size => Held(disk, hnd.first_blk, i) = 0
         /\ Covered /\ call.op = "none" /\ before.lost = {}
<1>1. /\ Shapes /\ tfs_last_error = "OK" /\ call = NoCall /\ loc = NoLoc /\ Covered
      /\ \A i \in AllPlaces : i > hnd.size => Held(disk, hnd.first_blk, i) = 0
  BY DEF Resting, IInv, FInv, Exact
<1>2. hnd \in Hnds /\ hnd.size \in Nat /\ hnd.size <= BlkCount * DataLen
  BY <1>1 DEF Shapes, Hnds, Resting, BInv, Sized
<1>3. item.blk = hnd.first_blk /\ item.size = hnd.size
  BY DEF Resting, FInv, Told
<1>4. used \subseteq ChainBlks(hnd.first_blk)
  <2>1. faults = 0
    BY <1>1 DEF Shapes, Resting, Undisturbed
  <2>2. Usable
    BY <2>1 DEF Usable
  <2>3. before.lost = used \ ChainBlks(First) /\ First = hnd.first_blk
    BY <2>1, <2>2, IdleChain DEF Resting
  <2> QED BY <2>3 DEF Resting, FInv
<1>5. \A i \in 1 .. hnd.size : Byte(disk, hnd.first_blk, i) = Held(disk, hnd.first_blk, i)
  BY <1>1, <1>2, ByteHeld DEF Covered, BlkAt
<1> QED BY <1>1, <1>2, <1>3, <1>4, <1>5 DEF NoCall, Resting, FInv

\* A call begins.
LEMMA CallBegins ==
  ASSUME Resting, Enter, hnd'.first_blk = hnd.first_blk, hnd'.size = hnd.size, pc' = "seek",
         call'.op \in {"write", "read"}, loc'.offset = call'.offset, call'.offset \in Nat,
         call'.op = "read" => /\ call'.len \in Nat /\ call'.offset <= hnd.size
                              /\ loc'.len = IF call'.len > hnd.size - call'.offset
                                              THEN hnd.size - call'.offset ELSE call'.len
  PROVE  FInv'
<1>1. /\ Shapes /\ hnd.size \in Nat /\ hnd.size <= BlkCount * DataLen /\ hnd.first_blk \in Ptrs
      /\ item.blk = hnd.first_blk /\ item.size = hnd.size /\ Covered
      /\ used \subseteq ChainBlks(hnd.first_blk)
      /\ \A i \in 1 .. hnd.size : Byte(disk, hnd.first_blk, i) = Held(disk, hnd.first_blk, i)
      /\ \A i \in AllPlaces : i > hnd.size => Held(disk, hnd.first_blk, i) = 0
  BY RestingFacts DEF Hnds
<1>2. /\ tfs_last_error' = "OK" /\ got' = <<>> /\ before' = Snapshot(hnd, before.lost, Unsaved)
      /\ UNCHANGED <<disk, used, item, blk_buf, faults>>
  BY DEF Enter
<1>3. /\ before'.lost = {} /\ Len(before'.bytes) = hnd.size
      /\ \A i \in 1 .. hnd.size : before'.bytes[i] = Byte(disk, hnd.first_blk, i)
  <2>1. before'.lost = {}
    BY <1>2, RestingFacts DEF Snapshot
  <2> QED BY <1>1, <1>2, <2>1, SnapshotIs
<1>4. Exact'
  <2> SUFFICES ASSUME NEW i \in AllPlaces PROVE Now(i)' = Wanted(i)'
    BY DEF Exact, AllPlaces
  <2>1. i \in Nat \ {0}
    BY PlaceFacts
  <2>2. Now(i)' = Held(disk, hnd.first_blk, i)
    BY <1>2 DEF Now, Buffers, Held
  <2>3. Wanted(i)' = IF i <= hnd.size THEN before'.bytes[i] ELSE 0
    BY <1>3, <2>1 DEF Wanted, Old
  <2> QED BY <1>1, <1>3, <2>1, <2>2, <2>3
<1>5. Covered'
  BY <1>1, <1>2 DEF Covered, BlkAt
<1>6. Told' /\ WriteSizes'
  BY <1>1, <1>2, <1>3 DEF Told, WriteSizes, IsWrite
<1>7. ReadSizes'
  <2>1. call'.op = "read" => loc'.len = ReadEnd' - call'.offset
    BY <1>1 DEF ReadEnd
  <2> QED BY <1>1, <1>2, <1>3, <2>1 DEF ReadSizes
<1> QED BY <1>2, <1>3, <1>4, <1>5, <1>6, <1>7 DEF FInv

\* The file is as before, and no call is running.
LEMMA RestsOn ==
  ASSUME Resting, UNCHANGED <<disk, used, item, pc, call, loc>>, tfs_last_error' = "OK", got' = <<>>,
         NEW unsaved, before' = Snapshot(hnd', {}, unsaved), hnd'.first_blk = hnd.first_blk, hnd'.size = hnd.size
  PROVE  FInv'
<1>2. before'.lost = {}
  BY DEF Snapshot
<1>3. Exact' /\ Covered'
  BY DEF Resting, FInv, Exact, Covered, BlkAt, Held
<1>4. Told' /\ WriteSizes' /\ ReadSizes' /\ call'.op # "trunc"
  BY RestingFacts DEF Told, WriteSizes, ReadSizes, IsWrite
<1> QED BY <1>2, <1>3, <1>4, RestingFacts DEF FInv, Resting

\* A call is made, or the file closed and opened: its bytes stay.
Begins ==
  /\ FInv' /\ got' = <<>> /\ UNCHANGED disk /\ pc = "idle"
  /\ hnd'.first_blk = hnd.first_blk /\ hnd'.size = hnd.size
  /\ before'.bytes = Content(hnd.first_blk, hnd.size)
  /\ \/ UNCHANGED <<pc, call>>
     \/ pc' # "idle" /\ call' \in File!Arguments

\* Every call that can be made does so.
LEMMA CallsBegin ==
  ASSUME Resting, Call
  PROVE  Begins
<1>1. Shapes /\ hnd \in Hnds /\ pc = "idle" /\ item.blk = hnd.first_blk /\ item.size = hnd.size
  BY RestingFacts DEF Resting
<1>2. Enter => before'.bytes = Content(hnd.first_blk, hnd.size) /\ got' = <<>> /\ disk' = disk
  BY DEF Enter, Snapshot
<1>3. \A p : StartPos(hnd, p).first_blk = hnd.first_blk /\ StartPos(hnd, p).size = hnd.size
  BY <1>1, StartPosFacts
<1>4. ASSUME NEW offset \in 0 .. MaxSize, NEW len \in 0 .. MaxSize, NEW v \in Bytes,
             tfs_write(len, offset, v)
      PROVE  Begins
  <2>1. /\ Enter /\ hnd' = StartPos(hnd, offset) /\ pc' = "seek" /\ call' = Arguments("write", len, offset, v)
        /\ loc' = [NoLoc EXCEPT !.len = len, !.offset = offset]
    BY <1>4 DEF tfs_write
  <2>2. /\ call'.op = "write" /\ call'.offset = offset /\ loc'.offset = offset
        /\ call' \in File!Arguments
    BY <2>1 DEF Arguments, File!Arguments, NoLoc
  <2>3. FInv'
    <3>1. offset \in Nat
      BY Sizes
    <3> QED BY <1>3, <2>1, <2>2, <3>1, CallBegins
  <2> QED BY <1>1, <1>2, <1>3, <2>1, <2>2, <2>3 DEF Begins
<1>5. ASSUME NEW offset \in 0 .. MaxSize, NEW len \in 0 .. MaxSize, tfs_read(len, offset)
      PROVE  Begins
  <2>1. /\ Enter /\ hnd' = StartPos(hnd, offset) /\ pc' = "seek" /\ call' = Arguments("read", len, offset, 0)
        /\ offset <= hnd.size
        /\ loc' = [NoLoc EXCEPT !.len = IF len > hnd.size - offset THEN hnd.size - offset ELSE len,
                                !.offset = offset]
    BY <1>5 DEF tfs_read
  <2>2. /\ call'.op = "read" /\ call'.offset = offset /\ call'.len = len /\ loc'.offset = offset
        /\ loc'.len = IF len > hnd.size - offset THEN hnd.size - offset ELSE len
        /\ call' \in File!Arguments
    BY <2>1 DEF Arguments, File!Arguments, NoLoc
  <2>3. FInv'
    <3>1. offset \in Nat /\ len \in Nat
      BY Sizes
    <3> QED BY <1>3, <2>1, <2>2, <3>1, CallBegins
  <2> QED BY <1>1, <1>2, <1>3, <2>1, <2>2, <2>3 DEF Begins
<1>6. ASSUME NEW offset, tfs_read_beyond(offset)
      PROVE  Begins
  <2>1. /\ Enter /\ UNCHANGED <<hnd, pc, call, loc, disk, used, item>> /\ tfs_last_error' = "OK"
        /\ before' = Snapshot(hnd', {}, Unsaved)
    BY <1>6, RestingFacts DEF tfs_read_beyond, Enter
  <2>2. FInv'
    BY <1>2, <2>1, RestsOn
  <2> QED BY <1>1, <1>2, <2>1, <2>2 DEF Begins
<1>7. CASE reopen
  <2> DEFINE h == [size |-> item.size, first_blk |-> item.blk, curr_blk |-> 0, curr_pos |-> 0]
  <2>1. /\ hnd' = init_pos(h) /\ tfs_last_error' = "OK" /\ got' = <<>>
        /\ before' = Snapshot(hnd', IF Unsaved THEN used \ ChainBlks(item.blk) ELSE before.lost, FALSE)
        /\ UNCHANGED <<disk, used, item, pc, call, loc>>
    BY <1>7 DEF reopen
  <2>2. h \in Hnds /\ h.first_blk = item.blk /\ h.size = item.size
    BY <1>1, Constants0, Sizes DEF Hnds, Shapes
  <2> HIDE DEF h
  <2>3. hnd'.first_blk = hnd.first_blk /\ hnd'.size = hnd.size
    BY <1>1, <2>1, <2>2, StartPosFacts
  <2>4. before'.bytes = Content(hnd.first_blk, hnd.size)
    BY <2>1, <2>3 DEF Snapshot, Content
  <2>5. before' = Snapshot(hnd', {}, FALSE)
    <3>1. (IF Unsaved THEN used \ ChainBlks(item.blk) ELSE before.lost) = {}
      BY RestingFacts
    <3> QED BY <2>1, <3>1
  <2>6. FInv'
    BY <2>1, <2>3, <2>5, RestsOn
  <2> QED BY <1>1, <2>1, <2>3, <2>4, <2>6 DEF Begins
<1>8. ~ \E size : tfs_trunc(size)
  BY DEF tfs_trunc, Resting, Undisturbed
<1> QED BY <1>4, <1>5, <1>6, <1>7, <1>8 DEF Call

-----------------------------------------------------------------------------
(* The invariant.                                                          *)

\* A file just made is empty, and its item says so.
LEMMA InitRests ==
  ASSUME Init, Undisturbed
  PROVE  FInv /\ hnd.size = 0 /\ pc = "idle" /\ call = NoCall /\ got = <<>>
<1>1. /\ used = {} /\ item = [blk |-> 0, size |-> 0]
      /\ hnd = init_pos([size |-> item.size, first_blk |-> item.blk, curr_blk |-> 0, curr_pos |-> 0])
      /\ tfs_last_error = "OK" /\ pc = "idle" /\ call = NoCall /\ loc = NoLoc /\ got = <<>>
      /\ before = Snapshot(hnd, {}, FALSE)
  BY DEF Init, EmptyFile, Undisturbed
<1>2. hnd.size = 0 /\ hnd.first_blk = 0 /\ item.blk = 0 /\ item.size = 0
  BY <1>1 DEF init_pos
<1>3. before.lost = {}
  BY <1>1 DEF Snapshot
<1>4. Exact
  <2> SUFFICES ASSUME NEW i \in AllPlaces PROVE Held(disk, 0, i) = 0
    BY <1>1, <1>2 DEF Exact
  <2>1. (i - 1) \div DataLen \in 0 .. BlkCount
    BY PlaceFacts, Sizes
  <2> QED BY <2>1, WalkNone DEF Held
<1>5. Covered
  <2>1. \A n \in 0 .. BlkCount - 1 : ~(DataLen * n < 0)
    BY PlaceOf, Sizes
  <2> QED BY <1>2, <2>1 DEF Covered
<1>6. Told /\ WriteSizes /\ ReadSizes /\ call.op # "trunc"
  BY <1>1, <1>2 DEF Told, WriteSizes, ReadSizes, IsWrite, NoCall
<1> QED BY <1>1, <1>2, <1>3, <1>4, <1>5, <1>6 DEF FInv

\* What does not change keeps the invariant.
LEMMA StutterKeeps ==
  ASSUME FInv, UNCHANGED vars
  PROVE  FInv'
<1>1. /\ disk' = disk /\ item' = item /\ hnd' = hnd /\ blk_buf' = blk_buf /\ pc' = pc /\ got' = got
      /\ call' = call /\ loc' = loc /\ before' = before /\ slip' = slip /\ tfs_last_error' = tfs_last_error
  BY DEF vars
<1>2. Exact'
  BY <1>1 DEF FInv, Exact, Now, Wanted, Old, IsWrite, Held, Here
<1>3. Covered'
  BY <1>1 DEF FInv, Covered, BlkAt
<1>4. Told' /\ WriteSizes' /\ ReadSizes'
  BY <1>1 DEF FInv, Told, WriteSizes, ReadSizes, ReadEnd, IsWrite
<1> QED BY <1>1, <1>2, <1>3, <1>4 DEF FInv

\* While no transfer fails and there is room on the drive, the bytes of the file, on the drive
\* and in the buffer, are at every step those that the calls so far ask for, its size is
\* what has been written, and the directory item follows.
THEOREM FileInvariance ==
  ASSUME Undisturbed
  PROVE  Spec => [](IInv /\ BInv /\ FInv)
<1>1. Init => FInv
  BY InitRests
<1>2. IInv /\ BInv /\ FInv /\ [Next]_vars => FInv'
  <2> SUFFICES ASSUME IInv, BInv, FInv, [Next]_vars PROVE FInv'
    OBVIOUS
  <2>1. CASE UNCHANGED vars
    BY <2>1, StutterKeeps
  <2>2. CASE Call
    <3>1. pc = "idle"
      BY <2>2 DEF Call, tfs_write, tfs_read, tfs_read_beyond, tfs_trunc, reopen, Enter
    <3> QED BY <2>2, <3>1, CallsBegin DEF Resting, Begins
  <2>3. CASE Step
    BY <2>3, SizeSteps, StepsOnward DEF Running, Onward
  <2> QED BY <2>1, <2>2, <2>3 DEF Next
<1>3. Spec => [](IInv /\ BInv)
  BY BytesInvariance DEF Undisturbed
<1> QED BY <1>1, <1>2, <1>3, PTL DEF Spec

-----------------------------------------------------------------------------
(* Every step is one of ByteFile.                                          *)

\* A call that begins;
LEMMA CallMaps ==
  ASSUME Resting, Call
  PROVE  File!Call \/ UNCHANGED File!vars
<1>1. Begins /\ call = NoCall
  BY CallsBegin, RestingFacts
<1>2. Bytes0 = Content(hnd.first_blk, hnd.size)
  BY DEF Bytes0
<1>3. Bytes0' = [i \in 1 .. hnd'.size |-> Byte(disk, hnd.first_blk, i)]
  BY <1>1 DEF Begins, Bytes0, Content, Byte
<1>4. (IF pc = "idle" THEN Bytes0 ELSE before.bytes)' = Bytes0
  <2>1. Bytes0 = [i \in 1 .. hnd.size |-> Byte(disk, hnd.first_blk, i)]
    BY DEF Bytes0, Content
  <2>2. Bytes0' = Bytes0 /\ before'.bytes = Bytes0
    BY <1>1, <1>2, <1>3, <2>1 DEF Begins
  <2> QED BY <2>2
<1>5. call' \in File!Arguments
  BY <1>1 DEF Begins, File!Arguments, File!NoCall, NoCall
<1>6. (IF pc = "idle" THEN got ELSE <<>>)' = <<>>
  BY <1>1 DEF Begins
<1> QED BY <1>1, <1>4, <1>5, <1>6 DEF File!Call, File!NoCall, NoCall, Begins

\* a step in the middle of a call;
LEMMA MiddleMaps ==
  ASSUME Running, Step, IInv', pc' # "idle"
  PROVE  UNCHANGED File!vars
<1>1. before' = before /\ call' \in {call, NoCall}
  BY SizeSteps DEF Running
<1>2. call' # NoCall
  BY DEF IInv, Shapes, NoCall
<1> QED BY <1>1, <1>2 DEF File!vars, Running

\* A step that returns leaves the bytes of the file in its blocks.
LEMMA ReturnedBytes ==
  ASSUME Onward, IInv', BInv', pc' = "idle"
  PROVE  /\ hnd'.size \in Nat
         /\ Bytes0' = [i \in 1 .. hnd'.size |-> Now(i)']
         /\ \A i \in 1 .. hnd'.size : i \in AllPlaces /\ i \in Nat \ {0}
         /\ call' = NoCall
<1>1. hnd'.size \in Nat /\ hnd'.size <= BlkCount * DataLen
  BY Sizes DEF IInv, Shapes, BInv, Sized
<1>2. Covered' /\ call' = NoCall
  BY DEF Onward, FInv
<1>3. \A i \in 1 .. hnd'.size : i \in AllPlaces /\ Byte(disk', hnd'.first_blk, i) = Held(disk', hnd'.first_blk, i)
  BY <1>1, <1>2, ByteHeld DEF Covered, BlkAt
<1>4. \A i : Now(i)' = Held(disk', hnd'.first_blk, i)
  BY DEF Now, Buffers, Held
<1>5. Bytes0' = [i \in 1 .. hnd'.size |-> Byte(disk', hnd'.first_blk, i)]
  BY DEF Bytes0, Content, Byte
<1>6. Bytes0' = [i \in 1 .. hnd'.size |-> Now(i)']
  BY <1>3, <1>4, <1>5
<1> QED BY <1>1, <1>2, <1>3, <1>6, PlaceFacts

\* the return of tfs_write;
LEMMA WriteMaps ==
  ASSUME Running, Step, IInv', BInv', pc' = "idle", IsWrite
  PROVE  File!Write
<1> DEFINE len  == Len(before.bytes)
           size == IF call.len # 0 /\ len < WriteEnd THEN WriteEnd ELSE len
<1>1. Onward /\ WriteFinished /\ pc # "idle"
  BY StepsOnward DEF Onward, Running
<1>2. /\ hnd'.size = size /\ got' = <<>>
      /\ \A i \in AllPlaces : Now(i)' = IF Asked(i) THEN call.v ELSE Old(i)
  BY <1>1 DEF WriteFinished
<1>3. /\ Bytes0' = [i \in 1 .. hnd'.size |-> Now(i)'] /\ call' = NoCall
      /\ \A i \in 1 .. hnd'.size : i \in AllPlaces /\ i \in Nat \ {0}
  BY <1>1, ReturnedBytes
<1>4. Bytes0' = [i \in 1 .. size |-> IF Asked(i) THEN call.v ELSE Old(i)]
  BY <1>2, <1>3
<1>5. call \in CallSet /\ len \in Nat /\ before.bytes \in Seq(S)
  BY RunningFacts DEF Running, BInv, Sized, S
<1>6. Bytes0' = IF call.len = 0 THEN before.bytes ELSE File!Written(call.offset, call.len, call.v)
  <2>1. CASE call.len = 0
    <3>1. \A i \in 1 .. len : ~Asked(i) /\ Old(i) = before.bytes[i]
      <4> TAKE i \in 1 .. len
      <4>1. i \in Nat /\ i <= len
        BY <1>5
      <4> QED BY <1>5, <2>1, <4>1 DEF Asked, Old, CallSet
    <3>2. Bytes0' = [i \in 1 .. len |-> before.bytes[i]]
      BY <1>4, <2>1, <3>1
    <3> QED BY <1>5, <2>1, <3>2, LenProperties
  <2>2. CASE call.len # 0
    <3>1. size = IF call.offset + call.len > len THEN call.offset + call.len ELSE len
      BY <1>5, <2>2 DEF WriteEnd, CallSet
    <3>2. Bytes0' = [i \in 1 .. (IF call.offset + call.len > len THEN call.offset + call.len ELSE len) |->
                       IF Asked(i) THEN call.v ELSE Old(i)]
      BY <1>4, <3>1
    <3> QED BY <1>1, <2>2, <3>2 DEF Asked, Old, File!Written, File!ByteAt
  <2> QED BY <2>1, <2>2
<1> QED BY <1>1, <1>2, <1>3, <1>6 DEF File!Write, File!NoCall, NoCall, IsWrite

\* and that of tfs_read.
LEMMA ReadMaps ==
  ASSUME Running, Step, IInv', BInv', pc' = "idle", ~IsWrite
  PROVE  File!Read
<1>1. Onward /\ ReadFinished /\ pc # "idle" /\ call.op = "read"
  BY StepsOnward, RunningFacts DEF Onward, Running, IsWrite
<1>2. /\ disk' = disk /\ hnd'.first_blk = hnd.first_blk /\ hnd'.size = hnd.size
      /\ got' = SubSeq(before.bytes, call.offset + 1, ReadEnd)
  BY <1>1 DEF ReadFinished
<1>3. /\ Bytes0' = [i \in 1 .. hnd'.size |-> Now(i)'] /\ call' = NoCall
      /\ \A i \in 1 .. hnd'.size : i \in AllPlaces /\ i \in Nat \ {0}
  BY <1>1, ReturnedBytes
<1>4. /\ \A i \in AllPlaces : Held(disk, hnd.first_blk, i) = Old(i)
      /\ Len(before.bytes) = hnd.size
  BY <1>1, ReadTail
<1>5. \A i \in 1 .. hnd.size : Now(i)' = before.bytes[i]
  <2> TAKE i \in 1 .. hnd.size
  <2>1. i \in AllPlaces /\ i <= Len(before.bytes)
    <3>1. i <= hnd.size
      BY RunningFacts DEF Hnds
    <3> QED BY <1>2, <1>3, <1>4, <3>1
  <2>2. Now(i)' = Held(disk, hnd.first_blk, i)
    BY <1>2 DEF Now, Buffers, Held
  <2> QED BY <1>4, <2>1, <2>2 DEF Old
<1>6. Bytes0' = before.bytes
  <2>1. Bytes0' = [i \in 1 .. Len(before.bytes) |-> before.bytes[i]]
    BY <1>2, <1>3, <1>4, <1>5
  <2>2. before.bytes \in Seq(S)
    BY DEF Running, BInv, Sized, S
  <2> QED BY <2>1, <2>2, LenProperties
<1>7. File!Least(call.offset + call.len, Len(before.bytes)) = ReadEnd
  BY <1>4 DEF File!Least, ReadEnd
<1> QED BY <1>1, <1>2, <1>3, <1>6, <1>7 DEF File!Read, File!NoCall, NoCall

\* While no transfer fails and there is room on the drive, an open file is a row of bytes:
\* what tfs_write puts anywhere, across blocks and behind the end, tfs_read gives
\* back, wherever the handle was before, and closing and opening changes nothing.
THEOREM FileImplements ==
  ASSUME Undisturbed
  PROVE  Spec => Implements
<1>1. Init => File!Init
  <2> SUFFICES ASSUME Init PROVE File!Init
    OBVIOUS
  <2>1. hnd.size = 0 /\ pc = "idle" /\ call = NoCall /\ got = <<>>
    BY InitRests
  <2>2. Bytes0 = <<>>
    BY <2>1 DEF Bytes0, Content
  <2> QED BY <2>1, <2>2 DEF File!Init, File!NoCall, NoCall
<1>2. IInv /\ BInv /\ FInv /\ (IInv /\ BInv /\ FInv)' /\ [Next]_vars => [File!Next]_(File!vars)
  <2> SUFFICES ASSUME IInv, BInv, FInv, IInv', BInv', [Next]_vars
               PROVE  File!Next \/ UNCHANGED File!vars
    OBVIOUS
  <2>1. CASE UNCHANGED vars
    BY <2>1 DEF vars, File!vars, Bytes0, Content, Byte
  <2>2. CASE Call
    <3>1. pc = "idle"
      BY <2>2 DEF Call, tfs_write, tfs_read, tfs_read_beyond, tfs_trunc, reopen, Enter
    <3> QED BY <2>2, <3>1, CallMaps DEF Resting, File!Next
  <2>3. CASE Step
    <3>1. Running
      BY <2>3, SizeSteps DEF Running
    <3> QED BY <2>3, <3>1, MiddleMaps, WriteMaps, ReadMaps DEF File!Next
  <2> QED BY <2>1, <2>2, <2>3 DEF Next
<1>3. Spec => [](IInv /\ BInv /\ FInv)
  BY FileInvariance
<1> QED BY <1>1, <1>2, <1>3, PTL DEF Spec, Implements, File!Spec
=============================================================================
