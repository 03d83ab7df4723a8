# TinyFS in TLA+

TLA+ models of TinyFS (`src/filesys.c`), a file system for microcontrollers with an SD card,
of its card driver and its front ends, with TLC runs that check them on small instances, and
TLAPS proofs about the block allocator, directories and whole files, open files, the table of
handles, the card driver and the front ends.

## The system

| Part | Source | State | Operations |
|---|---|---|---|
| Block allocator | `filesys.c` 61-190, 370-544 | bitmap blocks on the drive (every 4096th block), one bitmap block cached in RAM (`bitmap_blk`, `loaded_bitmap_blk`) | `tfs_init`, `alloc_block`, `free_block`, `tfs_format`, `tfs_get_used` |
| Directories and whole files | `filesys.c` 192-368, 546-1012 | chains of directory blocks with 20 items each and a parent pointer, chains of data blocks, `current_dir_blk` | `tfs_read_dir`, `tfs_change_dir*`, `tfs_create_dir`, `tfs_write_file`, `tfs_read_file`, `tfs_delete`, `tfs_rename` |
| Open files (`TFS_EXTENDED_API`) | `filesys.c` 1014-1541 | table of handles: user count, directory block and item, size, first block, current block and position | `tfs_open`, `tfs_close`, `tfs_touch`, `tfs_stat`, `tfs_trunc`, `tfs_write`, `tfs_read` |
| Card driver | `mmc.c` (`linux/drive.c` for images) | kind of card and block count in `tfs_drive_info`, the card's own state | `drive_init`, `drive_read_block`, `drive_write_block` |
| FUSE front end | `linux/tfs_fuse.c`, `linux/err_handler.c` | none but the file system's; the kernel holds descriptors | a walk along the path, then one to three calls, for each request |
| Console of the AVR | `avr/main.c`, `avr/uart.c` | the line being typed | read, trim and split a line, one call per command |
| LOAD and SAVE of the ZX81 | `zx81/main.c`, `zx81/term.c` | `term_buf`, counters of the listing | one call per form of the name |

Everything is one thread: FUSE is run by `fuse_main_st`, the boards have no scheduler. Parts
interact by calls, through one block buffer (`blk_buf`), one cached bitmap block and the
global `tfs_last_error`. A call clears that error, except after `TFS_ERR_NO_DEV`, when it does
nothing. What is hard here is therefore not concurrency but

- the order of block writes: a transfer can fail, or power be lost, between any two of them;
- state kept across calls (cached bitmap block, current directory, position of a handle) that
  every early return has to leave right;
- a drive that fills up in the middle of a call;
- chains with pointers in both directions that grow, shrink and move;
- boundaries: bits of the bitmap past the end of the drive, positions at multiples of the
  block length, files and directories without content, names and lines of the greatest length;
- handles that keep the place of an item while directories shrink under them;
- a global error that outlives the call it belongs to;
- a card that answers late, not at all, or with a refusal.

`PROJECT.json` lists these hazards at their lines with the properties aimed at them.

## Modules

| Module | What it is |
|---|---|
| `Allocator` | what an allocator promises: a set of taken blocks, a request is granted a free block or refused when all are taken |
| `BlockAlloc` | the allocator of `filesys.c`, one action per block transfer |
| `BlockAllocProofs` | theorems about `BlockAlloc`: whatever fails, and while nothing fails |
| `FileTree` | what the basic API promises: a tree of named files and directories, and a status for every call |
| `TinyFs` | the basic API on the blocks of the drive, one action per call |
| `MCTinyFs`, `MCTinyFsFaults` | `TinyFs` for TLC: symmetry, view, the refinement of `FileTree` |
| `TinyFsProofs` | theorems about `TinyFs`: the structure of the drive, and types |
| `ByteFile` | what an open file promises: a row of bytes |
| `OpenFile` | `tfs_write`, `tfs_read` and `tfs_trunc` on one open file, one action per block transfer |
| `OpenFileProofs`, `OpenFileBytesProofs` | theorems about `OpenFile`: handle and chain; the bytes, and that it implements `ByteFile` |
| `HandleTable`, `MCHandleTable` | the table of handles against a directory of several blocks, one action per call |
| `HandleTableProofs` | theorems about `HandleTable` |
| `Mmc`, `MCMmc` | the driver and a card, one action per command or wait |
| `MmcProofs` | theorems about `Mmc` |
| `PathTree` | what a mounted file system promises the kernel: files and directories by path |
| `Fuse`, `MCFuse` | the requests of `tfs_fuse.c`, one action per request |
| `FuseProofs` | theorems about `Fuse`: no handle leaks, and that it implements `PathTree` |
| `Consoles`, `MCConsoles` | the AVR console and LOAD and SAVE of the ZX81, one action per command |
| `ConsolesProofs` | theorems about `Consoles` |

Definitions have the names of the source where there is one; `map` in `PROJECT.json` gives the
lines of each. Operators called a faulty variant are not used by any specification: they are
the plausible mistakes that show that the properties notice them.

### BlockAlloc

`map` is the set of marked blocks on the drive, `bitmap_blk` the set of marked offsets in the
cached bitmap block. Every action ends with at most one transfer; `pc` says which comes next.
A transfer succeeds, or fails with `TFS_ERR_IO` (a failed write may have reached the drive all
the same), up to `MaxFaults` times, power losses included. The rest of the file system is a
client which frees only what it holds; the ghost `owned` is what it holds. `formatted` and
`aborted` record whether the drive has a complete file system and whether a `tfs_format` was
given up. `UseAfterFailedFormat` says whether callers go on after such a `tfs_format` without
`tfs_init`. Widths (8 bits, 512 bytes) are the constants `ByteBits` and `BlockBytes`.

### TinyFs

The code is sequential, so a call is one action: it computes the ordered list of its writes
(`*_plan`) and either all of them happen (`Complete`), or a transfer fails after any number of
them (`FailAfter`), or power is lost there (`PowerLossAfter`). When a failed allocation is
followed by one more write in the code (`tfs_write_file`, line 775) the write is in `alt`. The
drive has one bitmap block; several are the subject of `BlockAlloc`, and so is the marker of a
full drive, which `InvalMeansFull` shows to mean just that while nothing fails. The ghost
`arguments` is the last call, so that `FileTree` can say which status answers which call. Names and
payloads are model values; a data block holds the payload and its index in the file. A freed
or newly allocated block holds `Junk`. There is no repair program, so callers go on after a
failure only in states where the structure is sound (`Operable`), or begin again with
`tfs_init` or `tfs_format`.

What is on a drive is read from the root: a chain of blocks (`Chain`) is followed for at most
as many steps as there are blocks, and the tree (`Heads`) is entered for as many levels as there
are directory blocks, so that both are defined for every content of the drive, damaged ones
too.

`tfs_read_file` of an empty file reads block 0, the bitmap, as data: `BitmapNext` computes the
pointer it then follows from the bits, `WordBits` wide. It may end with `TFS_ERR_IO` on a drive
without faults, so `FileTree` does not promise that a file of no bytes can be read.

### OpenFile

All openings of a file share one handle, so one file has one handle: `hnd`. `disk`, `used` and
`item` are its blocks, the marked blocks and its directory item. `pc` follows the loops of
`seek`, `tfs_write`, `tfs_read`, `tfs_trunc` and `free_file_blocks`, one transfer at a time.
Allocation and freeing are single steps here. `Stale` is a byte nobody wrote through the
handle. Constants say what callers do: whether they truncate (`Truncates`), write no bytes
behind the last block (`EmptyAppends`), open files made by `tfs_write_file` (`WrittenFiles`).
After an I/O error they may keep their descriptor, as `tfs_fuse.c` does, or close and open the
file (`reopen`), as long as its chain is sound (`Usable`).

Two ghosts record what the code gets wrong. `slip` is the number of blocks that `curr_blk` is
ahead of `curr_pos`: one for each `tfs_write` that could not read the next block (line 1429)
since the last seek from the start. `InPosition` says that the handle is ahead by this much and
never by anything else, and `OthersIntact` speaks of the calls it has not slipped before.
`before` is the file when the running call began: its bytes; `lost`, the blocks that are marked
and in no file; and `unsaved`, whether a call since `tfs_open` has met a full drive before the
directory item had a block (`Unsaved`; lines 1105 and 1409, which leave `update_dir_item` out).
Closing the file then loses the blocks that the handle alone knew, and `reopen` adds them to
`lost`. `NoLeak` says that nothing else is ever added, neither by a call nor by closing.

### HandleTable

`chain` and `dir` are one directory of several blocks with its items, `handles` the table,
`data` the blocks of files. A file has at most one block: what matters is whether item and
handle agree on it. Items carry the identity of their file, a ghost, so that it can be said
which file a descriptor was opened for; `held` is how many descriptors of a file callers have
from a handle. Four things the code does not guard against are recorded in `spoiled`: an item
of an open file was moved by `write_dir_cleanup`, a user count has wrapped around, a full
table was overrun (line 1227 looks at `handles[TFS_MAX_FDS]` first; the outcome is whatever is
there), the drive was formatted under an open file. `UsageCounted` holds until a count wraps
around and `UsedHandleFirst` always; the others hold as long as nothing but an overrun has
happened. With `GoOn` callers go on after that.

### Mmc

`it` is the card in the socket (kind, size registers, how long it takes to get ready), `card`
what it is doing; the operators of the card (`Obey`, `Target`, ...) are the environment. `pc` is
the next command or wait of the driver. An answer comes in time, is lost, is a refusal, or
comes late, when it is taken for the answer to the next command (`shifted`); up to `MaxFaults`
times. Numbers have `WordBits` bits, blocks are `2^BlkWidth` bytes. `BlocksReachable` and
`TransfersRight` are about runs without a shifted answer and cards whose registers describe them as the driver reads them (`Described`): the driver takes
`CSD_STRUCTURE` 1 for the layout of an SD card of version 2 also on an MMC card (line 412).

### Fuse and PathTree

The tree is a set of numbered items, each at a place, a block and a slot (`place`). Handles know
files by their place, as `item_usage_count` does: `usage` is the user count of the handle at a
place, in `UsageMod` values for the 256 of the code, `held` the descriptors that the kernel has
of it. A deletion may move the items of another block of the directory into the block of the
deleted one (`write_dir_cleanup`). When that moves the item of an open file, or a count comes to
`UsageMod`, the handle no longer belongs to its file; `spoiled` records it. `Implements` and
`FailsForAReason` are about what comes before; what the code does to the files then is the
subject of `HandleTable` and of its run `handles_moved`. `NoHandleLeak` ends at a wrapped count
only.

A request walks from the root with `travel_path` and makes its calls; every call may fail, with
each error of `err_handler.c` that it can have. `tfs_last_error` stays between requests, because
`tfs_change_dir_root` does not clear it: after a request that fails, every request by path
fails with the same error until one comes that does not walk (`statfs`, or one by
descriptor). `FailsForAReason` says exactly that, and `Implements` that such a request changes
nothing and all others do what `PathTree` says of the path they name. Names longer than
`TFS_NAME_LEN` are in `Names`, `Cut` maps them to what an item keeps of them.

### Consoles

One of three builds: the AVR console, the ZX81, and the ZX81 with 16K, which is built without
`TFS_ENABLE_FORMAT`, so that SAVE ":$" falls through to the rejection below it. Names are
sequences of characters since the boards compare them differently: `strncmp` on the AVR,
`filename_cmp`, which ignores case, on the ZX81. Item places are numbered in the order of
`find_file`. For the AVR a command takes the keys typed; `read_line` makes the line of them.
`shown` is what the command has put on the screen: the line, the summary of a listing and its
numbers (counters of `CountMod` values, 65536 in the code), whether an error message stands
under it, the digits of a number. A `tfs_format` that fails behind its first write leaves a
drive of which nothing is known (`cwd = Unknown`): calls find anything there until a format
succeeds. Ghosts: `named`, the names in the command;
`ready`, whether `tfs_init` has found a card; `touched`, whether the drive was accessed
without; `forgotten`, whether a rejected SAVE has written over `TFS_ERR_NO_DEV`; `overlong`,
whether the ZX81 has stored a name that was too long.

## Runs

Passing:

| Run | Instance | What it shows |
|---|---|---|
| `alloc` | 10 blocks of which 3 bitmap blocks, the last partial; two failed transfers or power losses | `NoDoubleAlloc`, `OwnedMarked`, `RootInPlace`, `CallsReturn`, the inductive invariants `IInv` and `IExact`; while nothing has failed, `Allocator` is implemented and `NoLeak`, `UsedExact`, `InvalMeansFull` hold |
| `tree` | 6 blocks that fill up, 2 items a directory block, empty and longer files; no faults | every call does what `FileTree` says of it and returns the status it says |
| `chains` | 6 blocks that fill up, directories of up to 3 blocks, one failure or power loss after any write of any call | `NoLeak`, `StructureSound`, `EmptyDirIsOneBlock` as long as nothing fails; `BystandersIntact`, `DeleteRenameAtomic`, `StaysOperable` |
| `open_file` | 3 blocks of 2 bytes, 5 bytes, 2 values | an open file implements `ByteFile` |
| `open_file_full` | 2 blocks of 2 bytes, positions up to 5, `tfs_trunc`, files made by `tfs_write_file`, one failed transfer anywhere, after which the descriptor is kept or the file opened again | `InPosition`, `ChainSound`, `NoLeak`, `OthersIntact`, `NoDanglingChain`, `CallsReturn` |
| `handles` | 3 names, 4 blocks, one item a directory block, a table of 2 handles, 3 descriptors, user counts modulo 3 | `UsageCounted`, `UsedHandleFirst`, `DescriptorsRight`, `DataOwned`, `BusyExact` |
| `mmc` | 11 cards of the four kinds, ready at once, at the last try or too late; words of 5 bits; two answers lost, late or timed out | `BlocksReachable`, `GoodCardWorks`, `TransfersRight`, `CallsReturn` |
| `fuse` | three names, one too long, paths of up to 2 components, 3 items in 3 directory blocks of one item, a table of 1 handle, 2 descriptors, user counts modulo 3; any call may fail | `PathTree` is implemented, `NoHandleLeak`, `FailsForAReason` |
| `consoles` | three builds, names of 1 to 4 characters of which 2 are kept, 3 items, lines of up to 11 keys in a buffer of 8, counters of listings modulo 3 | `NamesUnique`, `OnlyNamed`, `NoDeviceNoAccess`, `ScreenTrue` |

`TypeOK` of a module is checked by itself or as part of the first invariant of its runs.

Violated, each by what the code does against a sentence of the documentation (`findings` in
`PROJECT.json` quotes it):

| Run | What happens |
|---|---|
| `trunc_size` | `tfs_trunc` leaves the size as it was |
| `handles_moved` | a deletion makes `write_dir_cleanup` move the item of an open file; `tfs_delete` then removes the open file |
| `mmc_rejected` | the card rejects the data of a block and `drive_write_block` reports success |

Seen while modelling and not given a run:

- A drive of a multiple of 4096 blocks: `tfs_format` writes `bitmap_blk[512]`, one past its end
  (line 437). The modules take the bits of the buffer as a set and do not see it.
- When the first write of `tfs_format` fails the blank bitmap stays in RAM as if it had been
  loaded, and blocks of the old files are handed out again (line 445). `NoDoubleAlloc` fails
  with `UseAfterFailedFormat`.
- A read that fails within `tfs_write` leaves `curr_blk` one block ahead of `curr_pos` (line
  1429); the next write with the same descriptor goes to the wrong block. The behaviour is in
  `OpenFile` (`slip`); `InPosition` and `OthersIntact` say which calls it concerns.
- After a `tfs_write` that ran into a full drive the item stays behind the handle (line 1409),
  and later writes that do not grow the file do not store it (`API_REFERENCE.md` 969). When the
  file was empty the item has no block at all, and closing the file leaks those of the handle
  without any transfer having failed. `NoLeak` says that this is the only way to lose one.
- The AVR's `ls` prints its summary also when `tfs_read_dir` has failed (lines 186-192); the
  error comes after the numbers, which are then those of the part that was read.
- `tfs_read_file` of an empty file follows block 0 and may report `TFS_ERR_IO` (line 835).
- A failed read of a bitmap block leaves the marker that also means a full drive (line 92), so
  later calls report `TFS_ERR_DISK_FULL`; the comment at line 106 knows the second meaning only.
- `tfs_write_file` that runs into a full drive (line 774) leaves an item longer than its chain;
  reading it gives `TFS_ERR_UNEXP_EOF`, described as corruption (`API_REFERENCE.md` 658).
- `tfs_write_file` stores the item before the data, and `tfs_delete` removes the item before it
  frees the blocks; `ARCHITECTURE.md` 258-273 has both the other way round.
- A gap in a file made by `tfs_write_file` shows what was in the block buffer behind the end of
  its data (line 783), not zeros (`USAGE_EXAMPLES.md` 416).
- On a full drive `tfs_write` returns a count that includes bytes that are not in the file (line
  1408; `API_REFERENCE.md` 962).
- `tfs_write` of no bytes behind the last block links a block that it never writes (line 1380,
  against the comment at 1139). `EmptyAppends` leaves such writes out of the other runs.
- FUSE: one failed request, a look at a file that is not there in a directory that is not there
  for instance, makes all requests by path fail until `tfs_last_error` is cleared by another
  kind of request. `API_REFERENCE.md` 1080 says that all functions set it, 478 that
  `tfs_change_dir_root` does not. A truncation that fails is not sticky: `tfs_close` clears the
  error.
- `mmc.c`: an answer that comes after its timeout is taken for that to the next command; a card
  of the second version may then be taken for an SDHC card, and a transfer for that of another
  block. A standard card of 4 GB has a block count of 0 in 32-bit byte arithmetic (line 428).
- ZX81: `filename_cmp` never finds a name of more than `TFS_NAME_LEN` characters, and the item
  keeps the first of them, so each SAVE under such a name adds another file of the same name. A
  SAVE that is rejected takes the place of `TFS_ERR_NO_DEV`, and later commands access a card
  that is not there.
- AVR: `cd`, `md` and `rm` without a name use address 0 as the name.
- LOAD ":/", LOAD ":?" and `cd /` make no call that clears the error, so the one of an earlier
  command is reported again.

### Bounds

Block and item counts are the smallest at which each case of the code happens: three bitmap
blocks so that the search has a first, a middle and a last one and wraps around; a last bitmap
block with bits past the end; one item a directory block in `chains` and
two in `tree`, so that two or three entries need a chain and `write_dir_cleanup` meets the head, the middle and the end of one; three data blocks
so that a chain has a middle; two bytes a block so that positions fall on and between block
boundaries. One fault is enough where the property speaks of the call that is cut short, as no
later call depends on the fault itself; `alloc` allows two because the allocator
keeps RAM state that an earlier fault has changed. Larger instances of the allocator are
covered by the proofs. In `handles` three files make a directory whose
first, middle and last block can become empty, two handles are less than the files, and counts
modulo 3 wrap around with three descriptors. In `mmc` the sizes are the largest that 5 bits hold and the
first that they do not; two tries stand for the 512 and 32768 of the code.

In `fuse` a table of one handle is full at once and two descriptors share it or overrun it;
two components make a walk with a step that can fail in the middle; with one item a block every
further item of a directory is in another block and moves when one is deleted, under an open
handle or not; counts modulo 3 wrap around when two descriptors are open and `op_truncate` opens
the file once more. Nothing is claimed behind a wrap, so `MCSound` ends behaviours there. In `consoles` a name is
kept to its second character, so there is one that is too short, one that fits exactly, and two
that are cut; the buffer holds 7 of the keys typed; a page holds two items of three; numbers
have three binary digits, so zeros lead, stand within and end them.

The states that TLC tells apart leave out (`VIEW`) what no action reads: in `fuse` the last
request, where its walk has ended and the numbers of the items, in `consoles` the last command, what it has shown, `memory`, and which error there is
other than `TFS_ERR_NO_DEV`. What is said of these is said of steps, and TLC checks every step.

Deadlock is checked except where the system may really stop: in `open_file_full`, when a fault
has left a chain that no call may be made on any more, and in `consoles` after `exit`.

### Fairness

`WF_vars(Step)` in `BlockAlloc` and `OpenFile`: the code is one thread that does not wait for
anything but the driver, and the driver returns (it has timeouts), so a call that has a next
step takes it. `WF_vars(Step)` in `Mmc` is for the driver's own steps: it polls, and counts its
tries, so that `CallsReturn` there is what the other modules rest on. No fairness is put on
callers, faults, power losses or the card, which may never answer.

## Proofs

| Module | Theorem | States | Assumes |
|---|---|---|---|
| `BlockAllocProofs` | `Invariant`, `TypeCorrect`, `HeldBlocksMarked`, `RootBlock`, `NoBlockTwice` | `IInv`, `TypeOK`, `OwnedMarked`, `RootInPlace`, `NoDoubleAlloc` | `UseAfterFailedFormat = FALSE` |
| | `Exact`, `NoBlockLost`, `RefusalMeansFull`, `CountCorrect`, `KeepsPromise` | `IExact`, `NoLeak`, `InvalMeansFull`, `UsedExact`, `ImplementsSafely` | the same |
| `HandleTableProofs` | `TableSound`, `UsageCorrect`, `FirstHandleRight`, `DescriptorsCorrect`, `DataCorrect`, `BusyCorrect` | `IInv`, `UsageCounted`, `UsedHandleFirst`, `DescriptorsRight`, `DataOwned`, `BusyExact` | - |
| `MmcProofs` | `DriverSound`, `AddressingCorrect`, `GoodCardAccepted`, `NoWrongBlock` | `IInv`, `BlocksReachable`, `GoodCardWorks`, `TransfersRight` | - |
| `TinyFsProofs` | `NeatAlways`, `NoLeakAlways`, `EmptyDirAlways`, `TypeAlways`, `StructureSoundAlways` | `NeatInv`, `NoLeak`, `EmptyDirIsOneBlock`, `TypeInv`, `StructureSound` | - |
| `OpenFileProofs` | `Invariance`, `HandleInPosition`, `ChainStaysSound`, `NoBlockLeaks`, `NoDanglingChainHolds` | `IInv /\ Saved`, `InPosition`, `ChainSound`, `NoLeak`, `NoDanglingChain` | `EmptyAppends = FALSE` |
| `OpenFileBytesProofs` | `BytesInvariance`, `OthersStayIntact` | `IInv /\ Saved /\ BInv`, `OthersIntact` | the same |
| | `FileInvariance`, `FileImplements` | `FInv`, `Implements` | `Undisturbed`, below |
| `FuseProofs` | `NoHandleLeaks`, `FuseInvariant`, `FuseImplements`, `FuseFailsForAReason` | `NoHandleLeak`, `FInv`, `Implements`, `FailsForAReason` | - |
| `ConsolesProofs` | `Invariance`, `NamesStayUnique`, `NothingWithoutDevice`, `OnlyNamedChanges`, `ScreenStaysTrue` | `IInv`, `NamesUnique`, `NoDeviceNoAccess`, `OnlyNamed`, `ScreenTrue` | - |

Each is a theorem about `Spec`, for every value of the constants that satisfies the
assumptions of the module: sizes are positive, a set of names is finite, and so on. TLC
checks those assumptions, and it has checked every inductive invariant on the instance of the
component's run: `IInv` and `IExact` of `BlockAlloc` are part of run `alloc`; `IInv` of
`HandleTable`, `Mmc` and `Consoles`, and `IInv`, `Saved` and `BInv` of `OpenFile`, can be put into
`HandleTable.cfg`, `Mmc.cfg`, `Consoles.cfg` and `OpenFileFull.cfg` as an `INVARIANT`, and
`FInv` of `OpenFile` into `OpenFile.cfg`. `Neat` of `TinyFs` says that functions exist; TLC
has checked it on the instances of `TinyFs.cfg` and `TinyFsChains.cfg`, without faults, for the
functions that the tree of each state gives.
`NoHandleLeak` of `Fuse` is inductive itself. `NeatTree`, which `FInv` adds to it, says that paths
exist; TLC has checked it on the instance of `Fuse.cfg`, where `spoiled` is empty, for the paths that `PathOf`
gives.

### BlockAlloc

`UseAfterFailedFormat = FALSE` says that callers run `tfs_init` or a successful `tfs_format`
after a `tfs_format` that failed. Without it the statements are false: TLC finds
`NoDoubleAlloc` violated with `UseAfterFailedFormat = TRUE`.

`OwnedMarked` is not inductive: it says nothing of the copy in RAM that `alloc_block` stores
over the bitmap block, nor of the phases of `tfs_format`. `IInv` adds `Marked` (what is held or
already given to the root directory is marked on the drive), `Cached` (outside of `tfs_format`
the RAM copy of the bitmap block that counts as loaded has every bit of a held block) and one
conjunct for each routine that relates `pos`, `start` and the cached block (`ScanPhase`,
`FreePhase`, `FormatPhase`, `RunPhase`). This holds whatever transfers fail.

That nothing else is marked holds only while none has failed, and `IExact` says it of each
place: the drive (`DriveExact`), the cached block (`CacheExact`), the blocks a search has left
behind (`SearchExact`), the bits counted (`CountExact`). `NoBlockLost` and `CountCorrect`
follow at once; `RefusalMeansFull` because a search that comes back to its start has left all
bitmap blocks behind, which for the block it started from needs the interval it wraps around
(`Searched`). `KeepsPromise` is the refinement of `Allocator`: initial states and steps; the
fairness part stays with TLC.

### TinyFs

`NoLeak`, `StructureSound` and `EmptyDirIsOneBlock` speak of the tree read from the root, and
a call changes one block at a time somewhere in it. `Struct` says the same block by block,
with four functions from blocks that describe how they hang together: `h`, the first block of
the chain a block is in; `r`, a number that grows along every chain and from an item to the
chain it refers to, so that nothing goes round in a circle; `o` and `k`, the block and place of
the item that refers to a chain, of which there is one only. `Neat` says that there are such
functions for the set of blocks that are marked, on the drive and in RAM, that `current_dir_blk`
is the first block of a directory, and (`OneEmpty`) that no directory has two blocks without
items, which is what makes one call of `write_dir_cleanup` for each deletion enough.

Every call is shown to lead from such functions to such functions: for a new chain of an item
(`Attaches`, `tfs_create_dir` and `tfs_write_file`), one that an item loses (`Detaches`,
`tfs_delete`, and `tfs_write_file` when it overwrites), a directory longer by a block
(`Extended`, `find_file`), and shorter by its last, a middle or its first block
(`MiddleRemoved`, `HeadRemoved`, `write_dir_cleanup`); when its first block is removed, the
second is moved into its place, and items keep their chains but change owners. The two
meet when a file is deleted: its item goes, the directory shrinks, its blocks are freed, in this
order, and blocks of both are gone in between. A file that is being written on a drive that
fills up ends in the block that was written last (`DataRun`).

From `Struct` back to the tree: `Heads` finds every chain. A directory that is `n` levels
down has `n` directories above it with smaller numbers `r`, so counting directory blocks is
counting levels (`Depth`), and the levels that `Heads` enters are enough. Two entries with one
block would be one item; `Cardinality` in `NoSharing` follows from a bijection.

`TypeInv` holds in every state, whatever calls were cut short: pointers point to blocks of the
drive even where the structure is lost. Nothing of this depends on which names are in use,
so that names need no assumption: that names are unique is a property of `FileTree`, below.

### HandleTable

`IInv` needs the directory itself to be sound (`Typed`, `Distinct`, `Owned`), handles to come in
an order (`FirstUsed`), and handle and item to agree (`Agreed`). `DescriptorsRight` is carried
by `Distinct`: two descriptors with one place are descriptors of one file. `Owned` is kept also
when a handle and its file have come apart, as long as callers do not go on (`~GoOn`): the
call that breaks them apart leaves the directory itself sound, and no other call follows. The
largest part of the proof is `write_dir_cleanup`: that the directory of one block less has the
same items, each in one place (`CleanupIs`). It, `find_file` and the search for a free
handle are proved from what they return and not from how they loop. That a file that is not in
the directory has an identity to be given (`NewFile`) is a count of items against places.

### Mmc

`Phase` says what the driver has learnt when it takes each step, `Addressed` what holds of the
addressing as long as no late answer was taken for another one, `Healthy` where `drive_init` stands
with a card whose answers all come: how long the card still takes against the tries that are
left. `PowerAssumption` only says that powers of two are positive, which the provers do not
know; `CardAssumption` says what cards there are: any subset of the registers' ranges with a
capacity that is not zero.

### OpenFile

`EmptyAppends = FALSE`: callers write no empty piece behind the last block. Otherwise a block that
nobody writes gets into the chain (above), so the statements need it. Faults, full drives,
`tfs_trunc`, files made by `tfs_write_file` and descriptors that are kept after an I/O error are
all in the theorems.

Between two calls `InPosition` and `ChainSound` say enough, but not between two transfers: a
chain that grows ends for a moment in a block that was never written, one that is cut is in
two pieces of which one is being freed, and the handle is one block ahead. `IInv` says for each
place in the code where the handle is in the chain (`Placed`; with `slip`, which moves along
with it until a seek from the start), what the buffer has of the
current block (`Buffered`), which blocks are on their way into or out of the chain (`Spare`,
`Cut`), that every marked block is one of the chain, one of those, or was lost before
(`Accounted`), and that the item refers to the chain or to none (`ItemRight`). It is claimed as
long as the handle can be used (`Live`): a call that was cut short by an I/O error may leave a
broken chain, and where it does not, the next call with the same descriptor finds `IInv` again.
`Saved` is needed for closing: while no transfer fails the item has been told of the first
block, or a call is on its way to tell it, or the drive was full before (`Unsaved`).

A chain is the function `Walk` of the drive. What a recursive function computes is known to
the provers only one step at a time, so lemmas about chains are proved by least counterexample:
the first place where two walks differ has a place before it where they do not. `WalkSame`
(blocks that are not in a chain do not change it), `WalkGrown`, `WalkCut` and `WalkTail` say
what each write of a block does to a chain; every action uses one of them.

`OthersIntact` speaks of the moment `tfs_write` returns, and it returns from any of its
transfers. `BInv` is about all of them: `Intact` says that at each place of the file before the
call there is the old byte, one nobody wrote (`Stale`), or the one asked for there, on the drive
and also in the buffer while it holds a block that is to be written (`Buffers`); `Progress` says
how far the loop has come, so that a chunk goes where the call asked for it and nowhere else;
`Sized` that size and chain are of the same order, which the arithmetic of places needs. The
places are those of a handle that has not slipped, so `Intact` is claimed for `slip = 0`.
`ByteAssumption`, that bytes are numbers, only makes them differ from `Stale`.

`Implements` says more, that what is asked for is done, and holds of fewer behaviours; those are
`Undisturbed`: no transfer fails (`MaxFaults = 0`), calls end where the drive has room for the
file (`MaxSize <= BlkCount * DataLen`; one file has all the drive), and the file is made and
changed by `tfs_write` alone. None can be left out: after a transfer that fails, or on a
full drive, a call is cut short; `tfs_trunc` does not set the size (`TruncSetsSize`, above), and
with `tfs_write_file` the bytes behind the end of the data are not zeros. `OpenFile.cfg` is an
instance. `FInv` compares the file with `before`: each byte of the drive, with the buffer in the
place of the block that it is going to be written to (`Now`), is what it was before the call or,
up to where `tfs_write` has got, what was asked for (`Wanted`). `Exact` claims it of all places
there may ever be, not of those of the file only: behind the end are zeros, and a block that is
not there counts as zeros, so that a gap needs no case of its own and allocating a block changes
nothing. `Covered` gives every byte of the file a block, so `seek` meets the end of the chain in
`tfs_read` only behind the end of the file; `RoomLeft` counts the blocks of the chain to show that
one is free when one is asked for. The step that returns is the one where the abstract call takes
effect, every other step of a call is a stutter: `content` is `before.bytes` until then.

### Fuse

That the users a handle counts are the descriptors the kernel holds needs nothing but types to
be inductive; what is to be proved is that every way through a request keeps the two in step,
`op_truncate` above all, which opens and closes within one request and may fail at each of its
calls. That a walk along a path of any length ends in a directory (`travel_path`, a recursive
function over the path) is proved by least counterexample, as for chains below the handles.

`Implements` and `FailsForAReason` compare two pictures of the drive: the code has items, each in
a directory under a name, and finds one by a walk; `PathTree` has a function from paths. Both
hold only if the items are a tree, so `NeatTree` says that there is a row of names `P` for every
item, its directory's and its own (`PathsAre`), that directories are directories, names are short
and none comes twice in a directory (`Fine`), that every item has a place of its own and where
a handle is open there is a file (`Placed`), and that `spoiled` is empty. A rank is not
needed: paths get longer on the way down, so nothing is inside itself. `FInv` is `NoHandleLeak`,
and `NeatTree` as long as `spoiled` is empty.

`UsersAre` makes users of places into users of items. `CleanupIs` is about a deletion: what it
moves lands in a block where the deleted item was the only one, whose place nobody has open, so
items keep places of their own and, unless an open file was among them, their users. `OpenedIs`
and `ClosedIs` are the counting modulo `UsageMod`; `SpoiledStays` says that no step takes
anything out of `spoiled`, so a state that is not spoiled has no spoiled state behind it.

From `TreeOk` follow that no two items have one path (`PathsDiffer`, by least counterexample: of
two with a shortest such path, the directories have a shorter one), that `PathOf` is `P`, and that
what lies on the way to an item is there (`AllAbove`). `WalkReaches` is the walk: after
each component it is in the directory of what it has walked, or no directory has that path and
the error is `TFS_ERR_NOT_EXIST`; if `tfs_last_error` was there before, it is that. `Travels` adds
the drive that fails on the way. That is where a request by path gets its reasons from; `Owns`
and `FailKept` turn each into one that `Own` lists.

What a request that succeeds does to `P` is shown for a new item (`NewTree`), one that goes
(`GoneTree`) and one that gets a new name (`RenamedTree`). The last changes the path of every item
below the renamed one: `Renamed` moves each of them, `PathTree` moves paths that are there and looks up where a new
one was before, and the lemmas on `Moved` show that the two ways are each other's inverse
(`MovedIs`, `MovedBelow`, `MovedBack`). `NamedOnce` makes the rest short: a function by paths is known from its
values at the items, so a step of the promise is shown item by item.

Nothing is assumed of the constants that `FuseAssumption` does not say; paths, items, blocks, descriptors
and the table may be of any number. That the kernel holds a finite number of descriptors
is part of `Neat`, for the comparison with `MaxFds`.

### Consoles

`NamesUnique` is not inductive on the ZX81: it lets two names differ in a capital letter only,
and `filename_cmp`, which takes them for one, would then rename or overwrite either of them to
the other. `Distinct` says that names differ as the board compares them. `Shapes` adds that no
item is its own directory and that what is in a directory is not free, so that `tfs_delete` of
an empty directory, which is not where the command runs, takes nothing else away. `NoDevice`
follows `tfs_last_error` from `tfs_init`: it is `TFS_ERR_NO_DEV` until a device is found or a
rejected SAVE has written over it. `OnlyNamed` holds for names that are too long too: what is
changed is what is found under the names as they are stored.

`NameAssumption` says that the character after the end of a name is in no name, and that no key
of the ZX81 is a capital letter (`zx2ascii` in `term.c` gives none). What is typed on the AVR, the names
on the card, the lengths of buffers and names are arbitrary. That what `read_line` leaves in the
buffer, trimmed and split, is a row of characters without `NUL` is part of the proof, by least
counterexample over the keys typed.

`ScreenTrue` is about what a single command shows. The line comes from the proof about
`read_line`. A listing shows the items of the directory in their order; when it is done it has
shown as many as there are, which are all, since the items of a drive are finite in number; one
that stopped with an error has shown some of them, and `print_error` follows the summary
(`ListTrue`). The numbers are those counted unless a directory has `CountMod` files or more (`CountedWell`). The digits of a number need an invariant of each printing loop: what is left and
the value of the digits that are out make up the number. In `uart_putdw_dec`, which goes from the
left, what is left is less than the place the loop has come to, so each digit is less than the
base and nothing is left after the last place; in `term_putul`, which goes from the right, what is
left has as many places as the loop has passes.

### What is only model-checked

- Liveness (`CallsReturn`, the fairness in `Implements` of `BlockAlloc`): out of the prover's
  reach.
- The refinement of `FileTree` by `TinyFs`: that each call changes the entry of its name and no
  other needs, besides `Struct`, that no directory has two entries of one name, and the path of
  every entry after every change of a block.
- `BystandersIntact`, `DeleteRenameAtomic` and `StaysOperable`: they are about the structure
  between two writes of a call and after a fault, where `Struct` does not hold; an invariant of
  all these places would be several times as long as the one for complete calls.

## Not modelled, and the plan

Next are proofs: that `TinyFs` implements `FileTree` while nothing fails, from `Struct` and unique
names; then `StaysOperable`, from what each of its plans leaves after each write.

Left out for good: SPI and UART registers (`avr/spi.c`, `zx81/spi.c`, `uart_init` and the polling
of `uart.c`), which are instructions to hardware and keep no state of their own; `zx81/crt0.s`, the ROM
listings and the circuit board; option parsing and the opening of the image in `linux/`;
texts of messages and layout of the screen; attributes other than the type in `tfs_fuse.c`.
`mktfs.c` is `tfs_init` and `tfs_format`, which are modelled, and messages.
