--------------------------------- MODULE Fuse ---------------------------------
(***************************************************************************)
(* The FUSE front end, linux/tfs_fuse.c: the requests of the kernel, each  *)
(* a walk from the root by travel_path and calls of the extended API.      *)
(*                                                                         *)
(* FUSE is run by fuse_loop in one thread, so a request is one action.  Of *)
(* the file system there are its items, the open handles, the current      *)
(* directory and tfs_last_error; a call may fail with an I/O error or find *)
(* the drive full at any time, before its change to the items or behind    *)
(* it: what this does to the blocks is the subject of TinyFs and OpenFile. *)
(*                                                                         *)
(* An item has a place, a block and a slot in it, by which a handle knows  *)
(* its file; a deletion may move items.  What a handle does once its file  *)
(* has been moved, or its users have been counted over, is the subject of  *)
(* HandleTable: here it is noted in spoiled.                               *)
(***************************************************************************)
EXTENDS Integers, Sequences, SequencesExt, FiniteSets, FiniteSetsExt, Functions

CONSTANTS
  Names,    \* components of paths
  Cut,      \* what find_file and items keep of a name: TFS_NAME_LEN characters
  Depth,    \* bound: components of a path
  Ids,      \* bound: items, numbered
  Blks, Slots,  \* bound: blocks of directories; TFS_DIR_BLK_ITEMS items in each
  MaxFds,   \* TFS_MAX_FDS
  UsageMod, \* values of usage_count: 256 in the code, an uint8_t
  MaxHeld   \* bound: files the kernel has open

ASSUME FuseAssumption ==
  /\ Names # {} /\ Cut \in [Names -> Names] /\ Ids \subseteq Nat \ {0}
  /\ Blks \subseteq Nat \ {0} /\ Slots \subseteq Nat /\ Blks # {} /\ Slots # {}
  /\ {Depth, MaxFds, UsageMod} \subseteq Nat \ {0} /\ MaxHeld \in Nat

Long(n) == Cut[n] # n
Paths   == SeqOf(Names, Depth)
ROOT    == 0        \* the root directory has no item
Places  == [blk : Blks, slot : Slots]
BadFd   == [blk |-> 0, slot |-> 0]  \* the descriptor that tfs_open may return from a full table

VARIABLES
  tree,             \* the items: directory, name and type
  place,            \* where they are
  current_dir,      \* current_dir_blk
  tfs_last_error,
  usage,            \* the users of the handle of the file at a place
  held,             \* ghost: the descriptors the kernel has of it
  spoiled,          \* ghost: what has come between a handle and its file so far
  req, result, answer   \* the last request and what it has returned

vars == <<tree, place, current_dir, tfs_last_error, usage, held, spoiled, req, result, answer>>

FreeItem == [dir |-> ROOT, name |-> CHOOSE n \in Names : TRUE, type |-> "FREE"]
Item(d, n) == {id \in Ids : tree[id].type # "FREE" /\ tree[id].dir = d /\ tree[id].name = Cut[n]}
Existing == {id \in Ids : tree[id].type # "FREE"}
InBlk(b) == {id \in Existing : place[id].blk = b}
ItemOf(d, n, types) == {id \in Item(d, n) : tree[id].type \in types}

-----------------------------------------------------------------------------
(* Requests.                                                               *)

\* check_error: the error numbers of err_handler.c.
errors == [OK |-> "OK", NO_DEV |-> "ENODEV", IO |-> "EIO", DISK_FULL |-> "ENOSPC",
           FILE_EXIST |-> "EEXIST", NOT_EXIST |-> "ENOENT", NOT_EMPTY |-> "ENOTEMPTY",
           NO_NAME |-> "EINVAL", NAME_INVAL |-> "EINVAL", UNEXP_EOF |-> "ESPIPE",
           NO_FREE_FD |-> "EMFILE", INVAL_FD |-> "EBADF", BUSY |-> "ETXTBSY"]

Request(op, p, to) == req' = [op |-> op, path |-> p, to |-> to]
Reply(res, found)  == result' = res /\ answer' = found

\* A call has returned e, and so does the request.
check_error(e) == tfs_last_error' = e /\ Reply(errors[e], {})

\* A call that has not come to its change of the items.
Failed(e) == check_error(e) /\ UNCHANGED <<tree, place, usage, held, spoiled>>

\* It has; a transfer behind that may fail.
Written == \E e \in {"OK", "IO"} : check_error(e)

\* tfs_change_dir: from the directory of t to n in it, or the error that ends the walk.
Enter(t, n) ==
  LET sub == ItemOf(t.dir, n, {"DIR"})
  IN IF t.err # "OK" THEN t
     ELSE IF Long(n) \/ sub = {} THEN [t EXCEPT !.err = "NOT_EXIST"]
     ELSE [t EXCEPT !.dir = CHOOSE id \in sub : TRUE]

\* Faulty variant, for the mutation runs: a walk begins where the last one has ended.
StartHere == current_dir

Start == ROOT

\* tfs_change_dir_root does not clear tfs_last_error: with an error of an earlier
\* request no walk gets further than that.
Walk(dirs) ==
  LET walk[n \in 0 .. Len(dirs)] == IF n = 0 THEN [dir |-> Start, err |-> tfs_last_error]
                                    ELSE Enter(walk[n - 1], dirs[n])
  IN walk

travel_path(p) ==
  LET dirs == Front(p)
      walk == Walk(dirs)
  IN {walk[Len(dirs)]}
     \cup {[walk[n] EXCEPT !.err = "IO"] : n \in {m \in 0 .. Len(dirs) - 1 : walk[m].err = "OK"}}

\* A request by path: its last component is left to Call.
ByPath(op, p, to, Call(_, _)) ==
  /\ Request(op, p, to)
  /\ \E t \in travel_path(p) :
       \/ t.err # "OK" /\ Failed(t.err) /\ current_dir' = t.dir
       \/ /\ t.err = "OK" /\ Long(Last(p))
          /\ Reply("ENAMETOOLONG", {})
          /\ current_dir' = t.dir
          /\ UNCHANGED <<tree, place, usage, held, spoiled, tfs_last_error>>
       \/ t.err = "OK" /\ ~Long(Last(p)) /\ Call(t.dir, Last(p))

-----------------------------------------------------------------------------
(* Requests about items.                                                   *)

tfs_stat(d, n) ==
  /\ \/ Failed("IO")
     \/ /\ tfs_last_error' = "OK"
        /\ IF Item(d, n) = {} THEN Reply("ENOENT", {})
           ELSE \E id \in Item(d, n) : Reply("OK", {tree[id].type})
        /\ UNCHANGED <<tree, place, usage, held, spoiled>>
  /\ current_dir' = d

\* The root directory has no item: its attributes are made up.
op_getattr(p) ==
  IF p = <<>> THEN /\ Request("getattr", p, p) /\ Reply("OK", {"DIR"})
                   /\ UNCHANGED <<tree, place, usage, held, spoiled, current_dir, tfs_last_error>>
  ELSE ByPath("getattr", p, p, tfs_stat)

tfs_read_dir(d) ==
  /\ \/ Failed("IO")
     \/ /\ tfs_last_error' = "OK"
        /\ Reply("OK", {tree[id].name : id \in {i \in Ids : tree[i].type # "FREE" /\ tree[i].dir = d}})
        /\ UNCHANGED <<tree, place, usage, held, spoiled>>
  /\ current_dir' = d

\* tfs_change_dir to the directory itself comes first, unless it is the root.
enter_and_read(d, n) ==
  \/ Failed("IO") /\ current_dir' = d
  \/ ItemOf(d, n, {"DIR"}) = {} /\ Failed("NOT_EXIST") /\ current_dir' = d
  \/ \E id \in ItemOf(d, n, {"DIR"}) : tfs_read_dir(id)

op_readdir(p) ==
  IF p # <<>> THEN ByPath("readdir", p, p, enter_and_read)
  ELSE /\ Request("readdir", p, p)
       /\ \E t \in travel_path(p) : \/ t.err # "OK" /\ Failed(t.err) /\ current_dir' = t.dir
                                    \/ t.err = "OK" /\ tfs_read_dir(t.dir)

\* Places for an item in directory d, also in a block that it gets for it.
FreePlaces(d) == {q \in Places : /\ \A i \in Existing : place[i] # q
                                 /\ \A i \in InBlk(q.blk) : tree[i].dir = d}

\* tfs_create_dir, and tfs_write_file of no bytes without overwriting.
Create(d, n, type) ==
  /\ \/ Failed("IO")
     \/ Item(d, n) # {} /\ Failed("FILE_EXIST")
     \/ Item(d, n) = {} /\ Failed("DISK_FULL")
     \/ /\ Item(d, n) = {} /\ Ids \ Existing # {}
        /\ LET id == Min(Ids \ Existing)
           IN /\ tree' = [tree EXCEPT ![id] = [dir |-> d, name |-> Cut[n], type |-> type]]
              /\ \E q \in FreePlaces(d) : place' = [place EXCEPT ![id] = q]
        /\ Written
        /\ UNCHANGED <<usage, held, spoiled>>
  /\ current_dir' = d
tfs_create_dir(d, n) == Create(d, n, "DIR")
tfs_write_file(d, n) == Create(d, n, "FILE")

op_mkdir(p) == ByPath("mkdir", p, p, tfs_create_dir)
op_mknod(p) == ByPath("mknod", p, p, tfs_write_file)

\* item_usage_count
InUse(id) == usage[place[id]] > 0

\* The places when item id has been deleted: the items of another block of the directory
\* may move to its block, if nothing else was there.
write_dir_cleanup(id) ==
  LET b == place[id].blk
      From(c) == [i \in Ids |-> IF i \in InBlk(c) THEN [blk |-> b, slot |-> place[i].slot] ELSE place[i]]
  IN {place} \cup {From(c) : c \in {x \in Blks \ {b} : /\ InBlk(b) = {id}
                                                     /\ \A i \in InBlk(x) : tree[i].dir = tree[id].dir}}

Spoil(h, if) == spoiled' = IF if THEN spoiled \cup {h} ELSE spoiled

tfs_delete(d, n, type) ==
  /\ \/ Failed("IO")
     \/ ItemOf(d, n, {type}) = {} /\ Failed("NOT_EXIST")
     \/ \E id \in ItemOf(d, n, {type}) :
          \/ InUse(id) /\ Failed("BUSY")
          \/ ~InUse(id) /\ (\E i \in Ids : tree[i].type # "FREE" /\ tree[i].dir = id) /\ Failed("NOT_EMPTY")
          \/ /\ ~InUse(id) /\ \A i \in Ids : tree[i].type = "FREE" \/ tree[i].dir # id
             /\ tree' = [tree EXCEPT ![id] = FreeItem]
             /\ place' \in write_dir_cleanup(id)
             /\ Spoil("moved", \E i \in Existing : place'[i] # place[i] /\ InUse(i))
             /\ Written
             /\ UNCHANGED <<usage, held>>
  /\ current_dir' = d
delete_file(d, n) == tfs_delete(d, n, "FILE")
delete_dir(d, n)  == tfs_delete(d, n, "DIR")

op_unlink(p) == ByPath("unlink", p, p, delete_file)
op_rmdir(p)  == ByPath("rmdir", p, p, delete_dir)

tfs_rename(d, n, to) ==
  \/ Failed("IO")
  \/ Item(d, to) # {} /\ Failed("FILE_EXIST")
  \/ Item(d, to) = {} /\ Item(d, n) = {} /\ Failed("NOT_EXIST")
  \/ /\ Item(d, to) = {}
     /\ \E id \in Item(d, n) : tree' = [tree EXCEPT ![id].name = Cut[to]]
     /\ Written
     /\ UNCHANGED <<place, usage, held, spoiled>>

\* Only within a directory; what has been walked is that of the old path.
op_rename(p, to) ==
  LET Refuse(e) == Reply(e, {}) /\ UNCHANGED <<tree, place, usage, held, spoiled, tfs_last_error>>
      Call(d, n) == /\ \/ Front(p) # Front(to) /\ Refuse("EINVAL")
                       \/ Front(p) = Front(to) /\ Long(Last(to)) /\ Refuse("ENAMETOOLONG")
                       \/ Front(p) = Front(to) /\ ~Long(Last(to)) /\ tfs_rename(d, n, Last(to))
                    /\ current_dir' = d
  IN ByPath("rename", p, to, Call)

-----------------------------------------------------------------------------
(* Requests about open files.                                              *)

Handles == {q \in Places : usage[q] > 0}

\* The outcomes of tfs_open: the descriptor and the error.  A full table may be overrun.
tfs_open(d, n) ==
  LET file == {place[id] : id \in ItemOf(d, n, {"FILE"})}
      full == Cardinality(Handles) >= MaxFds /\ file \cap Handles = {}
      Outcomes(fds, errs) == [fd : fds, err : errs]
  IN Outcomes({BadFd}, {"IO"}) \cup
     (CASE file = {} -> Outcomes({BadFd}, {"NOT_EXIST"})
        [] file # {} /\ full -> Outcomes({BadFd}, {"OK", "NO_FREE_FD"})
        [] file # {} /\ ~full -> Outcomes(file, {"OK"}))

\* One user more, counted in UsageMod values.
Opened(u, fd) == IF fd = BadFd THEN u ELSE [u EXCEPT ![fd] = (@ + 1) % UsageMod]
Wraps(fd)     == fd # BadFd /\ Opened(usage, fd)[fd] = 0

\* Calls with a descriptor that is open, the error one of errs, or not.
Valid(u, fd)  == fd # BadFd /\ u[fd] > 0
Closed(u, fd) == IF Valid(u, fd) THEN [u EXCEPT ![fd] = @ - 1] ELSE u
FdErrors(u, fd, errs) == IF Valid(u, fd) THEN errs ELSE {"INVAL_FD"}

op_open(p) ==
  LET Call(d, n) == \E r \in tfs_open(d, n) :
        /\ current_dir' = d
        /\ \/ r.err # "OK" /\ Failed(r.err)
           \/ /\ r.err = "OK" /\ MapThenSumSet(LAMBDA fd : held[fd], DOMAIN held) < MaxHeld
              /\ usage' = Opened(usage, r.fd)
              /\ held' = [held EXCEPT ![r.fd] = @ + 1]
              /\ Spoil("wrapped", Wraps(r.fd))
              /\ check_error("OK")
              /\ UNCHANGED <<tree, place>>
  IN ByPath("open", p, p, Call)

\* Faulty variant: the handle is closed only after a tfs_trunc that has succeeded.
AfterTruncGood(u, fd, e) == IF e = "OK" THEN Closed(u, fd) ELSE u

AfterTrunc(u, fd, e) == Closed(u, fd)

\* A seek may miss a block on the way back.
Reading == {"OK", "IO", "UNEXP_EOF"}
Writing == Reading \cup {"DISK_FULL"}

\* tfs_open, tfs_trunc and tfs_close, which has the last word in tfs_last_error.
op_truncate(p) ==
  LET Call(d, n) == \E r \in tfs_open(d, n) :
        /\ current_dir' = d
        /\ \/ r.err # "OK" /\ Failed(r.err)
           \/ /\ r.err = "OK"
              /\ \E e \in FdErrors(Opened(usage, r.fd), r.fd, Writing) :
                   /\ Reply(errors[e], {})
                   /\ usage' = AfterTrunc(Opened(usage, r.fd), r.fd, e)
              /\ \E c \in FdErrors(Opened(usage, r.fd), r.fd, {"OK"}) : tfs_last_error' = c
              /\ Spoil("wrapped", Wraps(r.fd))
              /\ UNCHANGED <<tree, place, held>>
  IN ByPath("truncate", p, p, Call)

\* The path of an item.
PathOf(id) == LET up[i \in Ids] == IF tree[i].dir = ROOT THEN <<tree[i].name>>
                                   ELSE Append(up[tree[i].dir], tree[i].name)
              IN up[id]

\* What is open with a descriptor.
PathAt(fd) == LET at == {id \in Existing : place[id] = fd}
              IN IF at = {} THEN <<>> ELSE PathOf(CHOOSE id \in at : TRUE)

ByFd(op, fd, errs) ==
  /\ held[fd] > 0
  /\ Request(op, PathAt(fd), <<>>)
  /\ \E e \in FdErrors(usage, fd, errs) : check_error(e)
  /\ UNCHANGED <<tree, place, spoiled, current_dir>>

op_ftruncate(fd) == ByFd("ftruncate", fd, Writing) /\ UNCHANGED <<usage, held>>
op_read(fd)      == ByFd("read", fd, Reading) /\ UNCHANGED <<usage, held>>
op_write(fd)     == ByFd("write", fd, Writing) /\ UNCHANGED <<usage, held>>

\* The kernel has done with the descriptor whatever the request returns.
op_release(fd) ==
  /\ ByFd("release", fd, {"OK"})
  /\ usage' = Closed(usage, fd)
  /\ held' = [held EXCEPT ![fd] = @ - 1]

op_statfs ==
  /\ Request("statfs", <<>>, <<>>)
  /\ check_error("OK") \/ check_error("IO")
  /\ UNCHANGED <<tree, place, usage, held, spoiled, current_dir>>

-----------------------------------------------------------------------------
\* main has called tfs_init, and goes on only if that has succeeded.
Init ==
  /\ tree = [id \in Ids |-> FreeItem]
  /\ place = [id \in Ids |-> CHOOSE q \in Places : TRUE]
  /\ current_dir = ROOT /\ tfs_last_error = "OK"
  /\ usage = [q \in Places |-> 0]
  /\ held = [fd \in Places \cup {BadFd} |-> 0]
  /\ spoiled = {}
  /\ req = [op |-> "none", path |-> <<>>, to |-> <<>>]
  /\ result = "OK" /\ answer = {}

Next ==
  \/ \E p \in Paths : op_getattr(p) \/ op_readdir(p)
  \/ \E p \in Paths \ {<<>>} : \/ op_mkdir(p) \/ op_mknod(p) \/ op_unlink(p) \/ op_rmdir(p)
                               \/ op_open(p) \/ op_truncate(p)
                               \/ \E to \in Paths \ {<<>>} : op_rename(p, to)
  \/ \E fd \in Places \cup {BadFd} : op_ftruncate(fd) \/ op_read(fd) \/ op_write(fd) \/ op_release(fd)
  \/ op_statfs

Spec == Init /\ [][Next]_vars

-----------------------------------------------------------------------------
(* Properties.                                                             *)

\* Every variable keeps its type.
TypeOK ==
  /\ tree \in [Ids -> [dir : Ids \cup {ROOT}, name : Names, type : {"FREE", "FILE", "DIR"}]]
  /\ current_dir \in Ids \cup {ROOT}
  /\ tfs_last_error \in DOMAIN errors
  /\ place \in [Ids -> Places]
  /\ usage \in [Places -> 0 .. UsageMod - 1] /\ held \in [Places \cup {BadFd} -> Nat]
  /\ spoiled \subseteq {"moved", "wrapped"}

\* Every variable keeps its type, and every user that a handle counts is a descriptor of the kernel: op_open and op_release
\* pair up and op_truncate closes what it opens, whatever fails in between, until a count
\* has come to UsageMod.
NoHandleLeak == TypeOK /\ ("wrapped" \in spoiled \/ \A q \in Places : usage[q] = held[q])

\* By path, from the root: what requests did, found and refused.
ByName(f) == [p \in {PathOf(id) : id \in Existing} |-> f[CHOOSE id \in Existing : PathOf(id) = p]]
Users == [id \in Ids |-> held[place[id]]]
Promise == INSTANCE PathTree WITH
  nodes  <- ByName([id \in Ids |-> tree[id].type]),
  opened <- ByName(Users)

\* Wherever the last walk has ended, however long names are, whatever has failed before:
\* a request that succeeds has done to the path it names what its name says, and one
\* that fails has done nothing, or all of that when it is an I/O error; as long as no
\* deletion has moved an open file and no count has come to UsageMod.
Implements == Promise!PInit /\ [][spoiled' = {} => Promise!PNext]_(Promise!pvars)

\* The errors that the paths and the files the kernel has open give reason for.
Own(r) ==
  LET p == r.path
      there(q) == \E id \in Existing : PathOf(id) = q
      full == Cardinality({q \in Places : held[q] > 0}) >= MaxFds
      long(q) == q # <<>> /\ Long(Last(q))
      reasons ==
        {<<"EIO", TRUE>>,
         <<"ENOSPC", r.op \in {"mkdir", "mknod", "write", "truncate", "ftruncate"}>>,
         <<"ESPIPE", r.op \in {"read", "write", "truncate", "ftruncate"}>>,
         <<"ENOENT", ~there(p)>>,
         <<"ENOENT", r.op \in {"readdir", "rmdir"} /\ Promise!IsFile(p)>>,
         <<"ENOENT", r.op \in {"unlink", "open", "truncate"} /\ Promise!IsDir(p)>>,
         <<"ENAMETOOLONG", long(p) \/ long(r.to)>>,
         <<"EEXIST", r.op \in {"mkdir", "mknod"} /\ there(p)>>,
         <<"EEXIST", r.op = "rename" /\ there(r.to)>>,
         <<"EINVAL", r.op = "rename" /\ Front(p) # Front(r.to)>>,
         <<"ENOTEMPTY", r.op = "rmdir" /\ Promise!Inside(p) # {}>>,
         <<"ETXTBSY", r.op = "unlink" /\ Promise!OpenIn(p) > 0>>,
         <<"EMFILE", r.op \in {"open", "truncate"} /\ full>>,
         <<"EBADF", r.op = "truncate" /\ full>>,
         <<"EBADF", r.op \in {"read", "write", "ftruncate", "release"} /\ held[BadFd] > 0>>}
  IN {x[1] : x \in {y \in reasons : y[2]}}

\* A request fails for a reason of its own, or with the error that an earlier one has
\* left in tfs_last_error; after one that succeeds or goes by descriptor none is left.
\* As long as no open file has been moved and no count has come to UsageMod.
FailsForAReason ==
  [][spoiled' = {} /\ result' # "OK" =>
       \/ result' \in Own(req')
       \/ /\ req'.op \notin {"read", "write", "ftruncate", "release", "statfs"}
          /\ tfs_last_error # "OK" /\ result' = errors[tfs_last_error]]_vars
=============================================================================
