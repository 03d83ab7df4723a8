------------------------------- MODULE TinyFs -------------------------------
(***************************************************************************)
(* The directory and whole-file routines of filesys.c, on a drive whose    *)
(* bitmap fits into one block: find_file, write_dir_cleanup,               *)
(* free_file_blocks, tfs_format, tfs_read_dir, tfs_change_dir*,            *)
(* tfs_create_dir, tfs_write_file, tfs_read_file, tfs_delete, tfs_rename.  *)
(*                                                                         *)
(* The code is sequential, so a call is one action: it computes the list   *)
(* of block writes it does, in their order, and what it returns.  A call   *)
(* ends well with all of its writes on the drive, or is cut short by a     *)
(* failed transfer or a loss of power after any number of them.            *)
(*                                                                         *)
(* alloc_block and free_block are the ones of module BlockAlloc: here the  *)
(* allocator takes the first clear bit of the cached bitmap and refuses    *)
(* when there is none.                                                     *)
(***************************************************************************)
EXTENDS Integers, Sequences, SequencesExt, FiniteSets, FiniteSetsExt

CONSTANTS
  BlkCount,     \* tfs_drive_info.blk_count
  DirItems,     \* TFS_DIR_BLK_ITEMS
  DataLen,      \* TFS_DATA_LEN
  WordBits,     \* bits of a block number on the drive (32 in the code)
  Names, NoName,  \* names callers use, and the empty name
  Payloads, Lens, \* what they write, and the lengths they ask for
  MaxEntries,   \* bound: files and directories at a time
  MaxFaults     \* bound: calls cut short in a behaviour

ASSUME SizeAssumption == /\ BlkCount \in Nat /\ BlkCount >= 2
                         /\ DirItems \in Nat \ {0} /\ DataLen \in Nat \ {0}
                         /\ Lens \subseteq Nat /\ MaxEntries \in Nat /\ MaxFaults \in Nat

TFS_ROOT_DIR_BLK == 1
Blocks == 1 .. BlkCount - 1

VARIABLES
  disk,             \* drive: content of every block but the bitmap block
  map,              \* drive: set bits of the bitmap block
  bitmap_blk,       \* RAM: set bits of the cached bitmap block
  current_dir_blk,
  tfs_last_error,
  arguments,        \* ghost: the last call with its arguments
  faults

vars == <<disk, map, bitmap_blk, current_dir_blk, tfs_last_error, arguments, faults>>

FREE == "free"
DIR  == "dir"
FILE == "file"

FreeItem == [type |-> FREE, name |-> NoName, blk |-> 0, size |-> 0]
DirBlk(prev, next, parent, items) ==
  [kind |-> "dir", prev |-> prev, next |-> next, parent |-> parent, items |-> items]
DataBlk(prev, next, data) ==
  [kind |-> "data", prev |-> prev, next |-> next, data |-> data]
NoItems == [i \in 1 .. DirItems |-> FreeItem]

\* What a block holds that nobody has written since it was allocated.
Junk == [kind |-> "junk"]

\* A call of op, with the names and the other arguments it is given.
Arguments(op, names, args) == [op |-> op, names |-> names, args |-> args]

-----------------------------------------------------------------------------
(* Writes of a call, and their effect.                                     *)

\* alt: what the code still writes when this write fails.
Put(b, c) == [op |-> "put", blk |-> b, val |-> c, alt |-> <<>>]
Alloc(b)  == [op |-> "alloc", blk |-> b, val |-> Junk, alt |-> <<>>]
Free(b)   == [op |-> "free", blk |-> b, val |-> Junk, alt |-> <<>>]
Wipe      == [op |-> "wipe", blk |-> 0, val |-> Junk, alt |-> <<>>]

\* A change of the bitmap is made in RAM and the RAM copy stored.
InRam(ram, w) == CASE w.op = "alloc" -> ram \cup {w.blk}
                   [] w.op = "free"  -> ram \ {w.blk}
                   [] w.op = "wipe"  -> {0}
                   [] OTHER -> ram

Apply(s, w) ==
  [disk |-> CASE w.op = "wipe" -> [b \in Blocks |-> Junk]
              [] w.op \in {"put", "free"} -> [s.disk EXCEPT ![w.blk] = w.val]
              [] OTHER -> s.disk,
   ram  |-> InRam(s.ram, w),
   map  |-> IF w.op = "put" THEN s.map ELSE InRam(s.ram, w)]

\* What a list of writes makes of s.
Run(s, writes) ==
  LET after[n \in 0 .. Len(writes)] ==
        IF n = 0 THEN s ELSE Apply(after[n - 1], writes[n])
  IN after[Len(writes)]

After(writes) == Run([disk |-> disk, ram |-> bitmap_blk, map |-> map], writes)

-----------------------------------------------------------------------------
(* Reading chains of blocks.                                               *)

\* The blocks of a chain, from block b on.  The pointer in a block of unknown
\* content is not followed; no call reads such a block in an operable state.
Follow(d, b) == IF d[b] = Junk THEN 0 ELSE d[b].next
Chain(d, b) ==
  LET from[n \in 0 .. BlkCount - 1] ==
        [c \in 0 .. BlkCount - 1 |-> IF n = 0 \/ c = 0 THEN <<>>
                                     ELSE <<c>> \o from[n - 1][Follow(d, c)]]
  IN from[BlkCount - 1][b]

\* The blocks alloc_block returns in turn, for a bitmap.
FreeBlocks(ram, n) ==
  LET given[k \in 0 .. n] ==
        IF k = 0 THEN <<>>
        ELSE LET bs    == given[k - 1]
                 clear == (0 .. BlkCount - 1) \ (ram \cup Range(bs))
             IN IF clear = {} THEN bs ELSE Append(bs, Min(clear))
  IN given[n]

-----------------------------------------------------------------------------
(* find_file.                                                              *)

\* The items of the current directory by block and index.
CurrentDir == Chain(disk, current_dir_blk)
Items == LET ch == CurrentDir IN
         [s \in (1 .. Len(ch)) \X (1 .. DirItems) |->
            [blk |-> ch[s[1]], idx |-> s[2], item |-> disk[ch[s[1]]].items[s[2]]]]
Before(s, t) == s[1] < t[1] \/ (s[1] = t[1] /\ s[2] <= t[2])
First(S) == CHOOSE s \in S : \A t \in S : Before(s, t)

\* Where the items named n are among the given ones, and the free ones.
Named(n, items)  == {s \in DOMAIN items : items[s].item.type # FREE /\ items[s].item.name = n}
FreeSlots(items) == {s \in DOMAIN items : items[s].item.type = FREE}
Matches(n) == LET items == Items IN Named(n, items)

\* find_file(name, 0): the item, or an item of no type when there is none.
find_item(n) ==
  LET items == Items
      hits  == Named(n, items)
  IN IF hits = {} THEN [blk |-> 0, idx |-> 0, item |-> FreeItem] ELSE items[First(hits)]

\* find_file(name, 1): the item, else the first free item, else the first item
\* of a block that is added to the directory.  dir is the content of the block.
find_slot(n) ==
  LET items == Items
      hits  == Named(n, items)
      slots == IF hits # {} THEN hits ELSE FreeSlots(items)
      tail  == Last(CurrentDir)
      new   == FreeBlocks(bitmap_blk, 1)
  IN IF slots # {}
       THEN LET s == items[First(slots)] IN
            [err |-> "OK", blk |-> s.blk, idx |-> s.idx, dir |-> disk[s.blk], writes |-> <<>>]
     ELSE IF new = <<>>
       THEN [err |-> "DISK_FULL", blk |-> 0, idx |-> 0, dir |-> Junk, writes |-> <<>>]
     ELSE LET empty == DirBlk(tail, 0, disk[tail].parent, NoItems) IN
          [err |-> "OK", blk |-> new[1], idx |-> 1, dir |-> empty,
           writes |-> <<Alloc(new[1]),
                        Put(tail, [disk[tail] EXCEPT !.next = new[1]]),
                        Put(new[1], empty)>>]

\* Faulty variants of write_dir_cleanup, for the mutation runs: empty blocks
\* stay, the block after the one removed keeps its prev, the block is freed
\* before it leaves the chain.
write_dir_keep(b, c) == <<Put(b, c)>>

write_dir_cleanup_prev(b, c) ==
  IF (c.prev = 0 /\ c.next = 0) \/ \E i \in 1 .. DirItems : c.items[i].type # FREE
    THEN <<Put(b, c)>>
  ELSE IF c.prev = 0
    THEN <<Put(b, [disk[c.next] EXCEPT !.prev = 0]), Free(c.next)>>
  ELSE <<Put(c.prev, [disk[c.prev] EXCEPT !.next = disk[b].next]), Free(b)>>

write_dir_cleanup_early(b, c) ==
  IF (c.prev = 0 /\ c.next = 0) \/ \E i \in 1 .. DirItems : c.items[i].type # FREE
    THEN <<Put(b, c)>>
  ELSE IF c.prev = 0
    THEN <<Free(c.next), Put(b, [disk[c.next] EXCEPT !.prev = 0])>>
  ELSE <<Free(b), Put(c.prev, [disk[c.prev] EXCEPT !.next = disk[b].next])>>

\* write_dir_cleanup: block b gets content c, unless c holds no item and b is
\* not the only block of the directory: then b leaves the chain.  The head of
\* the chain stays where it is and takes over the content of the next block.
write_dir_cleanup(b, c) ==
  IF (c.prev = 0 /\ c.next = 0) \/ \E i \in 1 .. DirItems : c.items[i].type # FREE
    THEN <<Put(b, c)>>
  ELSE LET head == c.prev = 0
           to   == IF head THEN b ELSE c.prev
           gone == IF head THEN c.next ELSE b
           next == disk[gone].next
       IN <<Put(to, IF head THEN [disk[gone] EXCEPT !.prev = 0]
                            ELSE [disk[to] EXCEPT !.next = next])>>
          \o (IF next = 0 THEN <<>> ELSE <<Put(next, [disk[next] EXCEPT !.prev = to])>>)
          \o <<Free(gone)>>

\* Faulty variant: the walk starts at the block after the first.
free_file_blocks_tail(b) ==
  LET ch == Chain(disk, b) IN SubSeq([i \in 1 .. Len(ch) |-> Free(ch[i])], 2, Len(ch))

\* free_file_blocks: the blocks of a file go back in the order of the chain.
free_file_blocks(b) == LET ch == Chain(disk, b) IN [i \in 1 .. Len(ch) |-> Free(ch[i])]

-----------------------------------------------------------------------------
(* Calls.  A plan is the writes of a call, its status, the directory it    *)
(* leaves current.                                                         *)

Plan(writes, err) ==
  [writes |-> writes, err |-> err, cwd |-> current_dir_blk]

NamePlan(n, plan) == IF n = NoName THEN Plan(<<>>, "NO_NAME") ELSE plan

\* tfs_format, on this one bitmap block.
format_plan ==
  [writes |-> <<Wipe, Alloc(TFS_ROOT_DIR_BLK), Put(TFS_ROOT_DIR_BLK, DirBlk(0, 0, 0, NoItems))>>,
   err |-> "OK", cwd |-> TFS_ROOT_DIR_BLK]

\* tfs_read_dir: the handler is shown every item of every block; it may stop.
read_dir_plan == Plan(<<>>, "OK")

change_dir_parent_plan ==
  LET up == disk[current_dir_blk].parent IN
  IF up = 0 THEN Plan(<<>>, "NOT_EXIST") ELSE [Plan(<<>>, "OK") EXCEPT !.cwd = up]

change_dir_plan(n) ==
  LET f == find_item(n) IN
  IF f.item.type # DIR THEN Plan(<<>>, "NOT_EXIST")
                       ELSE [Plan(<<>>, "OK") EXCEPT !.cwd = f.item.blk]

\* Storing item it in the slot that find_slot returned.
PutItem(s, it) == Put(s.blk, [s.dir EXCEPT !.items[s.idx] = it])

\* Faulty variant: the parent is the block that holds the new item.
NewDirBlkInSlot(s) == DirBlk(0, 0, s.blk, NoItems)

\* The block of a directory created in slot s: its parent is the first block.
NewDirBlk(s) == DirBlk(0, 0, current_dir_blk, NoItems)

create_dir_plan(n) ==
  LET s   == find_slot(n)
      new == FreeBlocks(After(s.writes).ram, 1)
  IN CASE s.err # "OK" -> Plan(<<>>, s.err)
       [] s.err = "OK" /\ s.dir.items[s.idx].type # FREE -> Plan(<<>>, "FILE_EXIST")
       [] s.err = "OK" /\ s.dir.items[s.idx].type = FREE /\ new = <<>> ->
            Plan(s.writes, "DISK_FULL")
       [] OTHER ->
            Plan(s.writes \o
                 <<Alloc(new[1]),
                   PutItem(s, [type |-> DIR, name |-> n, blk |-> new[1], size |-> 0]),
                   Put(new[1], NewDirBlk(s))>>, "OK")

NChunks(len) == (len + DataLen - 1) \div DataLen

\* The data blocks of a new file: the next block is allocated before a block is
\* written, and when that fails the block is written as the last one.
DataWrites(bs, v) ==
  LET n == Len(bs)
      prev(i) == IF i = 1 THEN 0 ELSE bs[i - 1]
      next(i) == IF i = n THEN 0 ELSE bs[i + 1]
      Chunk(i, to) == Put(bs[i], DataBlk(prev(i), to, <<v, i>>))
  IN [k \in 1 .. 2 * n - 1 |->
        LET i == (k + 1) \div 2 IN
        IF k % 2 = 1 /\ i # n THEN [Alloc(next(i)) EXCEPT !.alt = <<Chunk(i, 0)>>]
        ELSE Chunk(i, next(i))]

write_file_plan(n, v, len, overwrite) ==
  LET s     == find_slot(n)
      old   == s.dir.items[s.idx]
      freed == IF old.type = FILE THEN free_file_blocks(old.blk) ELSE <<>>
      bs    == FreeBlocks(After(s.writes \o freed).ram, NChunks(len))
      item  == [type |-> FILE, name |-> n, size |-> len,
                blk |-> IF len = 0 THEN 0 ELSE bs[1]]
  IN IF s.err # "OK" THEN Plan(<<>>, s.err)
     ELSE IF old.type # FREE /\ ~(overwrite /\ old.type = FILE)
       THEN Plan(<<>>, "FILE_EXIST")
     ELSE IF len # 0 /\ bs = <<>> THEN Plan(s.writes \o freed, "DISK_FULL")
     ELSE Plan(s.writes \o freed
               \o (IF len = 0 THEN <<>> ELSE <<Alloc(bs[1])>>)
               \o <<PutItem(s, item)>>
               \o DataWrites(bs, v),
               IF Len(bs) = NChunks(len) THEN "OK" ELSE "DISK_FULL")

\* The field next of the bitmap block when it is taken for a data block.
BitmapNext == FoldSet(LAMBDA b, sum : sum + 2 ^ (b - WordBits), 0,
                      map \cap (WordBits .. 2 * WordBits - 1))

\* tfs_read_file follows the chain to its end, whatever length is asked for.
\* The chain of an empty file starts at block 0, the bitmap block, and goes on
\* wherever BitmapNext leads.
ReadStatus(it, wanted, stored) ==
  CASE it.blk # 0 -> IF stored >= wanted THEN {"OK"} ELSE {"UNEXP_EOF"}
    [] it.blk = 0 /\ BitmapNext = 0 -> {"OK"}
    [] it.blk = 0 /\ BitmapNext >= BlkCount -> {"IO"}
    [] OTHER -> {"OK", "IO"}

read_file_plans(n, max_len) ==
  LET it     == find_item(n).item
      wanted == NChunks(IF it.size > max_len THEN max_len ELSE it.size)
  IN IF it.type # FILE THEN {Plan(<<>>, "NOT_EXIST")}
     ELSE {Plan(<<>>, e) : e \in ReadStatus(it, wanted, Len(Chain(disk, it.blk)))}

\* The other fields of an item that is free are never read.
delete_plan(n, types) ==
  LET f    == find_item(n)
      rest == [disk[f.blk] EXCEPT !.items[f.idx] = FreeItem]
      sub  == disk[f.item.blk]
  IN CASE f.item.type \notin types -> Plan(<<>>, "NOT_EXIST")
       [] f.item.type \in types /\ f.item.type = FILE ->
            Plan(write_dir_cleanup(f.blk, rest) \o free_file_blocks(f.item.blk), "OK")
       [] OTHER ->
            IF sub.next # 0 \/ \E i \in 1 .. DirItems : sub.items[i].type # FREE
              THEN Plan(<<>>, "NOT_EMPTY")
              ELSE Plan(write_dir_cleanup(f.blk, rest) \o <<Free(f.item.blk)>>, "OK")

\* Faulty variant: the new name may be in use.
rename_plan_over(from, to) ==
  LET f == find_item(from) IN
  IF f.item.type = FREE THEN Plan(<<>>, "NOT_EXIST")
  ELSE Plan(<<Put(f.blk, [disk[f.blk] EXCEPT !.items[f.idx].name = to])>>, "OK")

rename_plan(from, to) ==
  LET f == find_item(from) IN
  CASE Matches(to) # {} -> Plan(<<>>, "FILE_EXIST")
    [] Matches(to) = {} /\ from = NoName -> Plan(<<>>, "NO_NAME")
    [] Matches(to) = {} /\ from # NoName /\ f.item.type = FREE -> Plan(<<>>, "NOT_EXIST")
    [] OTHER -> Plan(<<Put(f.blk, [disk[f.blk] EXCEPT !.items[f.idx].name = to])>>, "OK")

-----------------------------------------------------------------------------
(* What is on a drive d, read from the root directory.                     *)

\* The entries of the directory whose own entry is e, and the entry that the
\* root directory would have.
ItemsOf(d, e) ==
  LET dirs == {b \in Range(Chain(d, e.item.blk)) : d[b].kind = "dir"} IN
  {[path |-> Append(e.path, it.name), item |-> it]
     : it \in {it \in UNION {Range(d[b].items) : b \in dirs} : it.type # FREE}}
RootEntry == [path |-> <<>>, item |-> [FreeItem EXCEPT !.type = DIR, !.blk = TFS_ROOT_DIR_BLK]]

\* The heads of all chains with the kind of block they must hold: the entries
\* found level by level below the root, those with the longest paths entered next.
\* The paths in skip are not entered.
HeadsWithout(d, skip) ==
  LET below(e) == IF e.item.type = DIR THEN {f \in ItemsOf(d, e) : f.path \notin skip} ELSE {}
      upto[n \in 0 .. BlkCount - 1] ==
        IF n = 0 THEN {RootEntry}
        ELSE UNION {{e} \cup (IF Len(e.path) = n - 1 THEN below(e) ELSE {}) : e \in upto[n - 1]}
  IN upto[Cardinality({b \in Blocks : d[b].kind = "dir"})]
Heads(d) == HeadsWithout(d, {})

EntriesWithout(d, skip) == HeadsWithout(d, skip) \ {RootEntry}
Entries(d) == EntriesWithout(d, {})

\* The tree a caller sees, without the paths in skip.
Content(d, it) ==
  LET ch == IF it.type = FILE THEN Chain(d, it.blk) ELSE <<>> IN
  [i \in 1 .. Len(ch) |-> IF d[ch[i]].kind = "data" THEN d[ch[i]].data ELSE <<"?">>]

TreeWithout(d, skip) ==
  {[path |-> e.path, type |-> e.item.type, size |-> e.item.size, data |-> Content(d, e.item)]
     : e \in EntriesWithout(d, skip)}
Tree(d) == TreeWithout(d, {})

\* The blocks that each of these heads occupies.
Occupied(d, heads) == UNION {{<<e.path, b>> : b \in Range(Chain(d, e.item.blk))} : e \in heads}
BlocksOf(d, heads) == {o[2] : o \in Occupied(d, heads)}
InUse(d) == BlocksOf(d, Heads(d))

\* No block is shared, and every one holds what its entry says.
NoSharing(d, heads) ==
  LET occ == Occupied(d, heads) IN Cardinality(occ) = Cardinality({o[2] : o \in occ})
KindsRight(d, heads) ==
  \A e \in heads : \A b \in Range(Chain(d, e.item.blk)) :
    d[b].kind = IF e.item.type = DIR THEN "dir" ELSE "data"

\* prev points back along every chain, parent from every directory block to the
\* first block of the directory above.
LinksRight(d, heads) ==
  \A e \in heads :
    LET ch == Chain(d, e.item.blk) IN
    \A i \in 1 .. Len(ch) :
      /\ d[ch[i]].prev = IF i = 1 THEN 0 ELSE ch[i - 1]
      /\ e.item.type = DIR =>
           \/ e.path = <<>> /\ d[ch[i]].parent = 0
           \/ \E up \in heads : /\ e.path # <<>>
                                /\ up.path = SubSeq(e.path, 1, Len(e.path) - 1)
                                /\ d[ch[i]].parent = up.item.blk

SoundHeads(d, heads) == NoSharing(d, heads) /\ KindsRight(d, heads) /\ LinksRight(d, heads)
Sound(d) == LET heads == Heads(d) IN SoundHeads(d, heads)

\* There is no repair program: callers go on after a failure as long as the
\* structure is sound, its blocks are marked and their current directory is part
\* of it; else they start again with tfs_init or tfs_format.
OperableWith(d, used, cwd) ==
  \E heads \in {Heads(d)} :
    /\ SoundHeads(d, heads)
    /\ BlocksOf(d, heads) \subseteq used
    /\ \E e \in heads : e.item.type = DIR /\ e.item.blk = cwd

Operable == OperableWith(disk, map \cap bitmap_blk, current_dir_blk)

-----------------------------------------------------------------------------
(* A call runs to its end, or is cut short.                                *)

\* A value is bound by a quantifier over it alone where TLC would compute it
\* once for every use otherwise.

Complete(plan) ==
  /\ \E s \in {After(plan.writes)} :
       disk' = s.disk /\ bitmap_blk' = s.ram /\ map' = s.map
  /\ current_dir_blk' = plan.cwd
  /\ tfs_last_error' = plan.err
  /\ UNCHANGED faults

CutShort == faults < MaxFaults /\ faults' = faults + 1

\* A transfer after the first k writes fails and the call returns TFS_ERR_IO: a
\* read, or the next write, which may have reached the drive all the same.  If
\* that is a write to the bitmap, RAM has the change and the drive may not.
FailAfter(plan, k) ==
  LET done    == SubSeq(plan.writes, 1, k)
      s       == After(done)
      pending == {plan.writes[i] : i \in {k + 1} \cap DOMAIN plan.writes}
  IN
  /\ \/ /\ \A w \in pending : w.op # "wipe"
        /\ disk' = s.disk /\ map' = s.map /\ bitmap_blk' = s.ram
     \/ \E w \in pending, reached \in BOOLEAN :
        /\ w.op # "put"
        /\ LET t == After((IF reached THEN Append(done, w) ELSE done) \o w.alt) IN
           disk' = t.disk /\ map' = t.map
        /\ bitmap_blk' = InRam(s.ram, w)
  /\ tfs_last_error' = "IO"
  /\ UNCHANGED current_dir_blk

\* Power is lost after the first k writes and tfs_init runs again.
PowerLossAfter(plan, k) ==
  LET s == After(SubSeq(plan.writes, 1, k)) IN
  /\ disk' = s.disk /\ map' = s.map /\ bitmap_blk' = s.map
  /\ current_dir_blk' = TFS_ROOT_DIR_BLK
  /\ tfs_last_error' = "OK"

Perform(call, plans) ==
  /\ arguments' = call
  /\ \E plan \in plans :
    \/ Complete(plan)
    \/ /\ CutShort
       /\ \E k \in 0 .. Len(plan.writes) : FailAfter(plan, k) \/ PowerLossAfter(plan, k)

tfs_init ==
  /\ bitmap_blk' = map
  /\ current_dir_blk' = TFS_ROOT_DIR_BLK
  /\ tfs_last_error' = "OK"
  /\ arguments' = Arguments("init", <<>>, <<>>)
  /\ UNCHANGED <<disk, map, faults>>

tfs_format == Perform(Arguments("format", <<>>, <<>>), {format_plan})

tfs_read_dir == Perform(Arguments("read_dir", <<>>, <<>>), {read_dir_plan})

\* No transfer, and tfs_last_error keeps its value.
tfs_change_dir_root ==
  /\ current_dir_blk' = TFS_ROOT_DIR_BLK
  /\ arguments' = Arguments("change_dir_root", <<>>, <<>>)
  /\ UNCHANGED <<disk, map, bitmap_blk, tfs_last_error, faults>>

tfs_change_dir_parent ==
  Perform(Arguments("change_dir_parent", <<>>, <<>>), {change_dir_parent_plan})

tfs_change_dir(n) ==
  Perform(Arguments("change_dir", <<n>>, <<>>), {NamePlan(n, change_dir_plan(n))})

tfs_create_dir(n) ==
  Perform(Arguments("create_dir", <<n>>, <<>>), {NamePlan(n, create_dir_plan(n))})

tfs_write_file(n, v, len, overwrite) ==
  Perform(Arguments("write_file", <<n>>, <<v, len, overwrite>>),
          {NamePlan(n, write_file_plan(n, v, len, overwrite))})

tfs_read_file(n, max_len) ==
  Perform(Arguments("read_file", <<n>>, <<max_len>>),
          {NamePlan(n, plan) : plan \in read_file_plans(n, max_len)})

tfs_delete(n, types) ==
  Perform(Arguments("delete", <<n>>, <<types>>), {NamePlan(n, delete_plan(n, types))})

tfs_rename(from, to) ==
  Perform(Arguments("rename", <<from, to>>, <<>>), {NamePlan(to, rename_plan(from, to))})

-----------------------------------------------------------------------------
\* A drive that tfs_format has just prepared and tfs_init has opened.
Init ==
  /\ disk = [b \in Blocks |-> IF b = TFS_ROOT_DIR_BLK THEN DirBlk(0, 0, 0, NoItems) ELSE Junk]
  /\ map = {0, TFS_ROOT_DIR_BLK} /\ bitmap_blk = map
  /\ current_dir_blk = TFS_ROOT_DIR_BLK
  /\ tfs_last_error = "OK"
  /\ arguments = Arguments("init", <<>>, <<>>)
  /\ faults = 0

WithinBound == Cardinality(Entries(disk)) < MaxEntries

GivenNames == Names \cup {NoName}

Call ==
  \/ tfs_read_dir
  \/ tfs_change_dir_root \/ tfs_change_dir_parent
  \/ \E n \in GivenNames :
       \/ tfs_change_dir(n)
       \/ /\ WithinBound \/ Matches(n) # {}
          /\ \/ tfs_create_dir(n)
             \/ \E v \in Payloads, len \in Lens, ow \in BOOLEAN : tfs_write_file(n, v, len, ow)
       \/ \E max_len \in Lens : tfs_read_file(n, max_len)
       \/ \E types \in {{DIR}, {FILE}, {DIR, FILE}} : tfs_delete(n, types)
       \/ \E to \in GivenNames : tfs_rename(n, to)

Next == tfs_init \/ tfs_format \/ (Operable /\ Call)

Spec == Init /\ [][Next]_vars

-----------------------------------------------------------------------------
(* Properties.                                                             *)

\* Every variable keeps its type.
TypeOK ==
  /\ map \subseteq 0 .. BlkCount - 1 /\ bitmap_blk \subseteq 0 .. BlkCount - 1
  /\ current_dir_blk \in Blocks
  /\ DOMAIN disk = Blocks /\ \A b \in Blocks : disk[b].kind \in {"dir", "data", "junk"}
  /\ tfs_last_error \in {"OK", "IO", "DISK_FULL", "FILE_EXIST", "NOT_EXIST", "NOT_EMPTY",
                         "NO_NAME", "UNEXP_EOF"}
  /\ faults \in 0 .. MaxFaults

\* While nothing fails, after every call the blocks marked as used are exactly
\* the bitmap block and the blocks that the directory tree refers to: nothing
\* leaks and nothing dangles, also after calls that ran into a full drive.
NoLeak == faults = 0 => map = {0} \cup InUse(disk) /\ bitmap_blk = map

\* Every variable keeps its type, and while nothing fails the chains stay sound: no block belongs to two entries,
\* every block holds what its entry says, prev and parent pointers are right
\* after blocks were added, removed and moved.
StructureSound == TypeOK /\ (faults = 0 => Sound(disk))

\* An empty directory has one block only, so tfs_delete, which looks no further
\* than the first block, never refuses to remove an empty directory.
EmptyDirIsOneBlock ==
  faults = 0 =>
    \A e \in Heads(disk) :
      (e.item.type = DIR /\ ItemsOf(disk, e) = {}) => Len(Chain(disk, e.item.blk)) = 1

\* The path of the directory whose first block is b.
PathOf(d, b) == (CHOOSE e \in Heads(d) : e.item.type = DIR /\ e.item.blk = b).path
CwdPath == PathOf(disk, current_dir_blk)

state == <<disk, map, bitmap_blk, current_dir_blk>>

\* A step that cuts a call short and leaves a trace, and the paths of the names it
\* was given.
IsCut(ops) == faults' # faults /\ arguments'.op \in ops /\ state' # state
Targets == {Append(CwdPath, arguments'.names[i]) : i \in 1 .. Len(arguments'.names)}

\* Whatever call is cut short wherever, every file and directory it was not
\* asked about is still there with its data, and its blocks are still marked as
\* used on the drive and in RAM.
BystandersIntact ==
  [][IsCut({"create_dir", "write_file", "delete", "rename"}) =>
       \A given \in {Targets} :
       /\ TreeWithout(disk', given) = TreeWithout(disk, given)
       /\ \A e \in EntriesWithout(disk', given) :
            Range(Chain(disk', e.item.blk)) \subseteq (map' \cap bitmap_blk')]_vars

\* tfs_delete and tfs_rename are atomic: cut short anywhere, they leave the tree
\* as it was or as it should become, and no entry refers to a freed block.
DeleteRenameAtomic ==
  [][IsCut({"delete", "rename"}) =>
       \A from \in {Append(CwdPath, arguments'.names[1])},
          to   \in {Append(CwdPath, arguments'.names[Len(arguments'.names)])} :
       LET moved(p) == IF Len(p) >= Len(from) /\ SubSeq(p, 1, Len(from)) = from
                         THEN to \o SubSeq(p, Len(from) + 1, Len(p)) ELSE p
           target == IF arguments'.op = "delete" THEN TreeWithout(disk, {from})
                     ELSE {[e EXCEPT !.path = moved(@)] : e \in Tree(disk)}
       IN /\ Tree(disk') \in {Tree(disk), target}
          /\ NoSharing(disk', Heads(disk')) /\ KindsRight(disk', Heads(disk'))
          /\ InUse(disk') \subseteq map']_vars

\* Leaked blocks and a bitmap in RAM that is ahead of the drive do no harm: a
\* call that runs to its end on an operable drive leaves it operable.
StaysOperable ==
  [][faults' = faults /\ state' # state => Operable' \/ ~Operable]_vars
=============================================================================
