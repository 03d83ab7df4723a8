----------------------------- MODULE HandleTable -----------------------------
(***************************************************************************)
(* The table of open files of filesys.c (TFS_EXTENDED_API) against one     *)
(* directory that grows, shrinks and moves its items: tfs_open, tfs_close, *)
(* tfs_touch, tfs_stat and the part that tfs_write, tfs_read, tfs_trunc,   *)
(* tfs_write_file, tfs_delete, tfs_rename, tfs_init and tfs_format have in *)
(* it.                                                                     *)
(*                                                                         *)
(* A handle names its file by a directory block and a place in it, nothing *)
(* else; the ghosts say which file the callers believe to have opened.     *)
(* The code is sequential: a call is one action.  Pointers between blocks, *)
(* data of several blocks and failing transfers are the subject of TinyFs  *)
(* and OpenFile: here a directory is the sequence of its blocks, and a     *)
(* file has no data or one block of it, which goes with its size.          *)
(***************************************************************************)
EXTENDS Integers, Sequences, SequencesExt, FiniteSets, FiniteSetsExt

CONSTANTS
  Names,        \* names of files
  BlkCount,     \* blocks of the drive, the bitmap block left out
  DirBlkItems,  \* TFS_DIR_BLK_ITEMS
  MaxFds,       \* TFS_MAX_FDS
  UsageMod,     \* values of usage_count: 256 in the code, an uint8_t
  MaxHeld,      \* bound: descriptors the callers hold at a time
  GoOn          \* callers go on when a handle and its file have come apart

ASSUME SizeAssumption ==
  /\ IsFiniteSet(Names)
  /\ BlkCount \in Nat \ {0} /\ DirBlkItems \in Nat \ {0} /\ MaxFds \in Nat \ {0}
  /\ UsageMod \in Nat /\ UsageMod >= 2
  /\ MaxHeld \in Nat
  /\ GoOn \in BOOLEAN

Blocks == 1 .. BlkCount
Slots  == 0 .. DirBlkItems - 1
Fds    == 0 .. MaxFds - 1
TFS_ROOT_DIR_BLK == 1

\* Enough identities for every file of the directory and every file held open.
Files == 1 .. Cardinality(Names) + MaxHeld
NoFile == 0

VARIABLES
  chain,    \* drive: the blocks of the directory, in order
  dir,      \* drive: the items in each block of the directory
  data,     \* drive: blocks marked in the bitmap for data of files
  handles,  \* RAM: the table
  held,     \* ghost: how often callers hold descriptor fd for file id
  spoiled,  \* ghost: what has come between a handle and its file so far
  last      \* ghost: the last call, the file it was about and its status

vars == <<chain, dir, data, handles, held, spoiled, last>>

Hazards == {"moved", "wrapped", "overrun", "formatted"}

FreeItem == [file |-> NoFile, name |-> "", blk |-> 0]
NoItems  == [s \in Slots |-> FreeItem]
NoHandle == [usage_count |-> 0, dir_blk |-> 0, dir_item |-> -1, first_blk |-> 0]

-----------------------------------------------------------------------------
(* The directory.                                                          *)

\* Block and place of the items, in the order in which find_file meets them.
Place(i) == [blk |-> chain[((i - 1) \div DirBlkItems) + 1], slot |-> (i - 1) % DirBlkItems]
Places == 1 .. Len(chain) * DirBlkItems
ItemAt(p) == dir[p.blk][p.slot]
IsFree(p) == ItemAt(p).file = NoFile

\* find_file without want_free_item: the place of the name, as a set of at most one.
find_file(n) ==
  LET hits == {i \in Places : ~IsFree(Place(i)) /\ ItemAt(Place(i)).name = n}
  IN IF hits = {} THEN {} ELSE {Place(Min(hits))}

\* Blocks that alloc_block may hand out when the directory has the blocks of c and
\* files those of d; it takes the first one.
Unused(c, d) == Blocks \ (ToSet(c) \cup d)

\* The first free place of the directory; a full directory gets a new block.
FreePlaces == {i \in Places : IsFree(Place(i))}
GrownDir == [chain |-> Append(chain, Min(Unused(chain, data))),
             place |-> [blk |-> Min(Unused(chain, data)), slot |-> 0],
             items |-> [dir EXCEPT ![Min(Unused(chain, data))] = NoItems]]
find_free ==
  CASE FreePlaces # {} -> {[chain |-> chain, place |-> Place(Min(FreePlaces)), items |-> dir]}
    [] FreePlaces = {} /\ Unused(chain, data) # {} -> {GrownDir}
    [] OTHER -> {}

\* The directory blocks after place p has become free.  An empty block leaves the
\* chain: a head takes over the items of the second block, which is freed instead.
\* What a block holds that is not in the directory is not looked at.
EmptyBut(p) == \A s \in Slots \ {p.slot} : dir[p.blk][s].file = NoFile
Cleared(p) == [dir EXCEPT ![p.blk][p.slot] = FreeItem]

Index(b) == CHOOSE k \in DOMAIN chain : chain[k] = b

write_dir_cleanup(p) ==
  CASE Len(chain) = 1 \/ ~EmptyBut(p) -> [chain |-> chain, items |-> Cleared(p)]
    [] Len(chain) > 1 /\ EmptyBut(p) /\ p.blk = chain[1] ->
         [chain |-> RemoveAt(chain, 2), items |-> [dir EXCEPT ![p.blk] = dir[chain[2]], ![chain[2]] = NoItems]]
    [] OTHER -> [chain |-> RemoveAt(chain, Index(p.blk)), items |-> Cleared(p)]

-----------------------------------------------------------------------------
(* Handles and what callers hold of them.                                  *)

HeldFiles(fd) == {id \in Files : held[fd][id] > 0}
OpenFiles     == UNION {HeldFiles(fd) : fd \in Fds}

\* What callers hold of one descriptor, and of all of them, one by one.
Uses(h)    == {u \in Files \X (1 .. MaxHeld) : u[2] <= h[u[1]]}
AllUses(h) == {u \in Fds \X (Files \X (1 .. MaxHeld)) : u[2] \in Uses(h[u[1]])}
Holders(fd) == Cardinality(Uses(held[fd]))
AllHeld     == Cardinality(AllUses(held))

Key(h)    == [blk |-> h.dir_blk, slot |-> h.dir_item]
InUse(fd) == handles[fd].usage_count > 0

\* Faulty variant, for the mutation runs: the block of the directory is not compared.
item_usage_count_slot(p) ==
  LET same == {fd \in Fds : handles[fd].dir_item = p.slot}
  IN IF same = {} THEN 0 ELSE handles[Min(same)].usage_count

\* item_usage_count: the first handle with the place counts, also if it is not in use.
item_usage_count(p) ==
  LET same == {fd \in Fds : Key(handles[fd]) = p}
  IN IF same = {} THEN 0 ELSE handles[Min(same)].usage_count

NewFile == Min(Files \ ({ItemAt(Place(i)).file : i \in Places} \cup OpenFiles))

\* The place handle h names holds the item of file id.
Refers(h, id) == h.dir_blk \in ToSet(chain) /\ dir[h.dir_blk][h.dir_item].file = id

\* An open file other than id is at another place when the directory has the blocks
\* of c with items d.
Moved(id, c, d) == \E fd \in Fds : \E other \in HeldFiles(fd) \ {id} :
  /\ Refers(handles[fd], other)
  /\ ~(handles[fd].dir_blk \in ToSet(c) /\ d[handles[fd].dir_blk][handles[fd].dir_item].file = other)

Spoil(h, if) == spoiled' = IF if THEN spoiled \cup {h} ELSE spoiled
Answer(op, id, status) == last' = [op |-> op, file |-> id, status |-> status]
Refused(op, id, status) == /\ Answer(op, id, status)
                           /\ UNCHANGED <<chain, dir, data, handles, held, spoiled>>

-----------------------------------------------------------------------------
(* Calls by name.                                                          *)

tfs_stat(n) == LET found == find_file(n) IN
  Refused("stat", IF found = {} THEN NoFile ELSE ItemAt(CHOOSE p \in found : TRUE).file, "OK")

\* An existing name is left as it is, also the name of a directory.
tfs_touch(n) ==
  \/ find_file(n) # {} /\ Refused("touch", NoFile, "OK")
  \/ find_file(n) = {} /\ find_free = {} /\ Refused("touch", NoFile, "DISK_FULL")
  \/ /\ find_file(n) = {}
     /\ \E f \in find_free :
          /\ chain' = f.chain
          /\ dir' = [f.items EXCEPT ![f.place.blk][f.place.slot] =
                       [file |-> NewFile, name |-> n, blk |-> 0]]
     /\ Answer("touch", NewFile, "OK")
     /\ UNCHANGED <<data, handles, held, spoiled>>

\* The first blocks for len bytes, when the directory has the blocks of c and files
\* those of d: none are needed for no bytes, and there may be none.
FirstBlk(len, c, d) == IF len = 0 THEN {0}
                       ELSE {b \in Unused(c, d) : b = Min(Unused(c, d))}

\* Item i is stored at place p of items, for len bytes, or there is no room for them.
write_item(p, i, items, len, c, kept) ==
  /\ chain' = c
  /\ \/ /\ FirstBlk(len, c, kept) = {}
        /\ dir' = items /\ data' = kept
        /\ Answer("write_file", i.file, "DISK_FULL")
     \/ \E b \in FirstBlk(len, c, kept) :
          /\ dir' = [items EXCEPT ![p.blk][p.slot] = [i EXCEPT !.blk = b]]
          /\ data' = kept \cup ({b} \ {0})
          /\ Answer("write_file", i.file, "OK")
  /\ UNCHANGED <<handles, held, spoiled>>

\* Without room for its data the new block of the directory stays; overwriting frees
\* the old data before it looks for room.
tfs_write_file(n, len, overwrite) ==
  \/ /\ find_file(n) = {}
     /\ \/ find_free = {} /\ Refused("write_file", NoFile, "DISK_FULL")
        \/ \E f \in find_free :
             write_item(f.place, [file |-> NewFile, name |-> n, blk |-> 0], f.items, len, f.chain, data)
  \/ \E p \in find_file(n) :
       CASE ~overwrite -> Refused("write_file", ItemAt(p).file, "FILE_EXIST")
         [] overwrite /\ item_usage_count(p) > 0 -> Refused("write_file", ItemAt(p).file, "BUSY")
         [] OTHER -> write_item(p, ItemAt(p), dir, len, chain, data \ {ItemAt(p).blk})

tfs_delete(n) ==
  \/ find_file(n) = {} /\ Refused("delete", NoFile, "NOT_EXIST")
  \/ \E p \in find_file(n) :
       IF item_usage_count(p) > 0 THEN Refused("delete", ItemAt(p).file, "BUSY")
       ELSE \E after \in {write_dir_cleanup(p)} :
            /\ chain' = after.chain
            /\ dir' = after.items
            /\ data' = data \ {ItemAt(p).blk}
            /\ Spoil("moved", Moved(ItemAt(p).file, after.chain, after.items))
            /\ Answer("delete", ItemAt(p).file, "OK")
            /\ UNCHANGED <<handles, held>>

\* The item keeps its place, so open files may be renamed.
tfs_rename(from, to) ==
  \/ find_file(to) # {} /\ Refused("rename", NoFile, "FILE_EXIST")
  \/ find_file(to) = {} /\ find_file(from) = {} /\ Refused("rename", NoFile, "NOT_EXIST")
  \/ /\ find_file(to) = {}
     /\ \E p \in find_file(from) :
          /\ dir' = [dir EXCEPT ![p.blk][p.slot].name = to]
          /\ Answer("rename", ItemAt(p).file, "OK")
     /\ UNCHANGED <<chain, data, handles, held, spoiled>>

\* The handle of an open file at place p, as a set of at most one.
\* Faulty variant: a handle that is not in use any more is taken as well.
SharedStale(p) == LET same == {fd \in Fds : Key(handles[fd]) = p}
                  IN IF same = {} THEN {} ELSE {Min(same)}

Shared(p) == LET same == {fd \in Fds : Key(handles[fd]) = p /\ InUse(fd)}
             IN IF same = {} THEN {} ELSE {Min(same)}

Idle == {fd \in Fds : ~InUse(fd)}

\* Faulty variant: the search starts at the end of the table.
FreeFdLast == Max(Idle)

FreeFd == Min(Idle)

\* One more user of a shared handle, counted in UsageMod values.
open_shared(fd, id) ==
  /\ handles' = [handles EXCEPT ![fd].usage_count = (@ + 1) % UsageMod]
  /\ held' = [held EXCEPT ![fd][id] = @ + 1]
  /\ Spoil("wrapped", handles'[fd].usage_count = 0)
  /\ Answer("open", id, "OK")

open_new(fd, p) ==
  /\ handles' = [handles EXCEPT ![fd] = [usage_count |-> 1, dir_blk |-> p.blk, dir_item |-> p.slot,
                                         first_blk |-> ItemAt(p).blk]]
  /\ held' = [held EXCEPT ![fd][ItemAt(p).file] = @ + 1]
  /\ Answer("open", ItemAt(p).file, "OK")
  /\ UNCHANGED spoiled

\* All handles are in use: the search looks at the memory behind the table.  Where
\* that is not zero it ends with an error, otherwise it initialises that memory and
\* returns the descriptor TFS_MAX_FDS, which every other call refuses.
open_full(id) ==
  /\ \/ Answer("open", id, "NO_FREE_FD") /\ UNCHANGED spoiled
     \/ Answer("open", id, "OK") /\ Spoil("overrun", TRUE)
  /\ UNCHANGED <<handles, held>>

tfs_open(n) ==
  \/ find_file(n) = {} /\ Refused("open", NoFile, "NOT_EXIST")
  \/ /\ AllHeld < MaxHeld
     /\ \E p \in find_file(n) :
          CASE Shared(p) # {} -> \E fd \in Shared(p) : open_shared(fd, ItemAt(p).file)
            [] Shared(p) = {} /\ Idle # {} -> open_new(FreeFd, p)
            [] OTHER -> open_full(ItemAt(p).file)
     /\ UNCHANGED <<chain, dir, data>>

-----------------------------------------------------------------------------
(* Calls by descriptor.                                                    *)

\* Any of these calls with a descriptor that is closed; tfs_close of one that
\* callers hold is below.
invalid_fd(fd) ==
  /\ ~InUse(fd)
  /\ \E op \in {"close", "write", "trunc", "read"} : Refused(op, NoFile, "INVAL_FD")

\* Faulty variant: a close frees the handle whoever else uses it.
ClosedAll(h) == [h EXCEPT !.usage_count = 0]

Closed(h) == [h EXCEPT !.usage_count = @ - 1]

\* A caller closes a descriptor it holds.
tfs_close(fd, id) ==
  /\ held[fd][id] > 0
  /\ held' = [held EXCEPT ![fd][id] = @ - 1]
  /\ IF InUse(fd) THEN /\ handles' = [handles EXCEPT ![fd] = Closed(@)]
                       /\ Answer("close", id, "OK")
                  ELSE /\ Answer("close", id, "INVAL_FD")
                       /\ UNCHANGED handles
  /\ UNCHANGED <<chain, dir, data, spoiled>>

\* update_dir_item: the items after handle h has been stored at its place.  A free
\* item is not seen; a block that left the directory is not seen either.
update_dir_item(h) ==
  IF h.dir_blk \in ToSet(chain) /\ dir[h.dir_blk][h.dir_item].file # NoFile
    THEN [dir EXCEPT ![h.dir_blk][h.dir_item].blk = h.first_blk]
    ELSE dir

\* The first byte of a file needs a block; the item is stored when the file has grown
\* or has got a block.
tfs_write(fd, id) ==
  /\ held[fd][id] > 0
  /\ InUse(fd)
  /\ LET h == handles[fd]
         room == Unused(chain, data) IN
     CASE h.first_blk = 0 /\ room = {} -> Refused("write", id, "DISK_FULL")
       [] h.first_blk = 0 /\ room # {} ->
            /\ data' = data \cup {Min(room)}
            /\ handles' = [handles EXCEPT ![fd].first_blk = Min(room)]
            /\ dir' = update_dir_item(handles'[fd])
            /\ Answer("write", id, "OK")
            /\ UNCHANGED <<chain, held, spoiled>>
       [] OTHER -> Refused("write", id, "OK")

\* tfs_trunc to nothing.
tfs_trunc(fd, id) ==
  /\ held[fd][id] > 0
  /\ InUse(fd)
  /\ data' = data \ {handles[fd].first_blk}
  /\ handles' = [handles EXCEPT ![fd].first_blk = 0]
  /\ dir' = update_dir_item(handles'[fd])
  /\ Answer("trunc", id, "OK")
  /\ UNCHANGED <<chain, held, spoiled>>

tfs_read(fd, id) == held[fd][id] > 0 /\ InUse(fd) /\ Refused("read", id, "OK")

-----------------------------------------------------------------------------
(* The drive as a whole.                                                   *)

NothingHeld == [fd \in Fds |-> [id \in Files |-> 0]]

\* The table is cleared, and descriptors with it; what handles of other files have
\* done to the drive stays.
tfs_init ==
  /\ handles' = [fd \in Fds |-> NoHandle]
  /\ held' = NothingHeld
  /\ spoiled' = IF GoOn THEN spoiled ELSE {}
  /\ Answer("init", NoFile, "OK")
  /\ UNCHANGED <<chain, dir, data>>

\* The table stays as it is.
tfs_format ==
  /\ chain' = <<TFS_ROOT_DIR_BLK>>
  /\ dir' = [b \in Blocks |-> NoItems]
  /\ data' = {}
  /\ Spoil("formatted", OpenFiles # {})
  /\ Answer("format", NoFile, "OK")
  /\ UNCHANGED <<handles, held>>

Init ==
  /\ chain = <<TFS_ROOT_DIR_BLK>>
  /\ dir = [b \in Blocks |-> NoItems]
  /\ data = {}
  /\ handles = [fd \in Fds |-> NoHandle]
  /\ held = NothingHeld
  /\ spoiled = {}
  /\ last = [op |-> "init", file |-> NoFile, status |-> "OK"]

\* Handles and files belong together.
Sane == spoiled \subseteq {"overrun"}

Call ==
  \/ \E n \in Names : \/ tfs_stat(n) \/ tfs_touch(n) \/ tfs_delete(n) \/ tfs_open(n)
                      \/ \E len \in 0 .. 1, overwrite \in BOOLEAN : tfs_write_file(n, len, overwrite)
                      \/ \E to \in Names : tfs_rename(n, to)
  \/ \E fd \in Fds, id \in Files : \/ tfs_write(fd, id) \/ tfs_trunc(fd, id)
                                   \/ tfs_read(fd, id)
  \/ \E fd \in Fds : invalid_fd(fd)
  \/ tfs_format

\* When they do not, callers close their files and take the drive into use again, or
\* go on.
Next == \/ (Sane \/ GoOn) /\ Call
        \/ \E fd \in Fds, id \in Files : tfs_close(fd, id)
        \/ tfs_init

Spec == Init /\ [][Next]_vars

\* What TLC tells states apart by: the answer is read only in the step that gives it,
\* and of a handle that is not in use only its place.
View == <<chain, dir, data, [fd \in Fds |-> IF InUse(fd) THEN handles[fd] ELSE Key(handles[fd])],
          held, spoiled>>

-----------------------------------------------------------------------------
(* Properties.                                                             *)

\* Every variable keeps its type; the directory starts at its first block.
TypeOK ==
  /\ ToSet(chain) \subseteq Blocks /\ chain[1] = TFS_ROOT_DIR_BLK
  /\ \A b \in Blocks, s \in Slots :
       /\ dir[b][s].file \in Files \cup {NoFile}
       /\ dir[b][s].blk \in Blocks \cup {0}
  /\ data \subseteq Blocks
  /\ \A fd \in Fds : /\ handles[fd].usage_count \in 0 .. UsageMod - 1
                     /\ handles[fd].dir_blk \in Blocks \cup {0}
                     /\ handles[fd].first_blk \in Blocks \cup {0}
  /\ held \in [Fds -> [Files -> 0 .. MaxHeld]]
  /\ spoiled \subseteq Hazards

\* usage_count of a handle is the number of descriptors callers hold of it, through
\* every order of opening, sharing and closing, until it overflows.
UsageCounted ==
  "wrapped" \notin spoiled => \A fd \in Fds : handles[fd].usage_count = Holders(fd)

\* Every variable keeps its type, and a place of the directory has one handle in use, and no handle before it in the
\* table names that place: so the first one that item_usage_count meets is the right
\* one, whatever has been opened and closed, moved and counted over before.
UsedHandleFirst ==
  /\ TypeOK
  /\ \A f, g \in Fds : f < g /\ Key(handles[f]) = Key(handles[g]) => ~InUse(g)

\* As long as no open file has been moved by write_dir_cleanup, no drive formatted
\* under it and no count overflowed, a descriptor refers to the file that was opened,
\* and all openings of a file share one handle.
DescriptorsRight ==
  Sane =>
    \A fd \in Fds : \A id \in HeldFiles(fd) :
      /\ InUse(fd) /\ Refers(handles[fd], id)
      /\ \A g \in Fds \ {fd} : id \notin HeldFiles(g)

\* Until then tfs_delete and tfs_write_file answer TFS_FILE_BUSY for the files that
\* callers have open, and for no others.
BusyExact ==
  [][/\ Sane
     /\ last'.op \in {"delete", "write_file"} /\ last'.file # NoFile
     /\ last'.status # "FILE_EXIST"
     => (last'.status = "BUSY" <=> last'.file \in OpenFiles)]_vars

\* Until then the data of every file is its own: no block is in two files or in a
\* file and the directory, none is lost, and handle and item agree on it.
DataOwned ==
  Sane =>
    LET items == {ItemAt(Place(i)) : i \in {j \in Places : ~IsFree(Place(j))}} IN
    /\ data = {i.blk : i \in items} \ {0}
    /\ data \cap ToSet(chain) = {}
    /\ \A i, j \in items : i.blk = j.blk /\ i.blk # 0 => i = j
    /\ \A fd \in Fds : InUse(fd) => handles[fd].first_blk = dir[handles[fd].dir_blk][handles[fd].dir_item].blk

\* tfs_delete: "Sets `tfs_last_error = TFS_FILE_BUSY` if file is open".
BusyFilesStay ==
  [][last'.op = "delete" /\ last'.status = "OK" => last'.file \notin OpenFiles]_vars

-----------------------------------------------------------------------------
(* The inductive invariant.                                                *)

\* The places of a directory with blocks c and items d that are not free.
Used(c, d) == {p \in [blk : ToSet(c), slot : Slots] : d[p.blk][p.slot].file # NoFile}
At(d, p)   == d[p.blk][p.slot]

Items    == [file : Files \cup {NoFile}, name : Names \cup {""}, blk : Blocks \cup {0}]
DirItems == [Blocks -> [Slots -> Items]]
Chains   == {c \in Seq(Blocks) : /\ c # <<>> /\ c[1] = TFS_ROOT_DIR_BLK
                                 /\ \A j, k \in DOMAIN c : c[j] = c[k] => j = k}
Handles  == {h \in [usage_count : 0 .. UsageMod - 1, dir_blk : Blocks \cup {0},
                    dir_item : Slots \cup {-1}, first_blk : Blocks \cup {0}] :
               h.dir_blk # 0 => h.dir_item \in Slots}

Typed ==
  /\ chain \in Chains /\ dir \in DirItems /\ data \subseteq Blocks
  /\ handles \in [Fds -> Handles]
  /\ held \in [Fds -> [Files -> 0 .. MaxHeld]] /\ AllHeld <= MaxHeld
  /\ spoiled \subseteq Hazards

\* A name is in the directory once, and so is a file.
Distinct(c, d) ==
  /\ \A p \in Used(c, d) : At(d, p).name \in Names
  /\ \A p, q \in Used(c, d) :
       At(d, p).name = At(d, q).name \/ At(d, p).file = At(d, q).file => p = q

\* The blocks in b are those of the files, one for each that has data.
Owned(c, d, b) ==
  /\ b = {At(d, p).blk : p \in Used(c, d)} \ {0}
  /\ b \cap ToSet(c) = {}
  /\ \A p, q \in Used(c, d) : At(d, p).blk = At(d, q).blk /\ At(d, p).blk # 0 => p = q

\* No handle in use is behind another one for its place.
FirstUsed == \A f, g \in Fds : f < g /\ Key(handles[f]) = Key(handles[g]) => ~InUse(g)

\* A handle and the item of its file agree on the block.
Agreed == \A fd \in Fds : InUse(fd) =>
            handles[fd].first_blk = dir[handles[fd].dir_blk][handles[fd].dir_item].blk

\* The inductive invariant.  When callers do not go on, the directory itself is sound
\* also after a handle and its file have come apart.
IInv ==
  /\ Typed /\ Distinct(chain, dir)
  /\ Sane \/ ~GoOn => Owned(chain, dir, data)
  /\ UsageCounted /\ FirstUsed /\ DescriptorsRight
  /\ Sane => Agreed
=============================================================================
