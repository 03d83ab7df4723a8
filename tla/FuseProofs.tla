------------------------------ MODULE FuseProofs ------------------------------
(***************************************************************************)
(* Proofs about the FUSE front end, for paths and trees of every size, any *)
(* number of descriptors, and calls that fail at any time: no handle leaks *)
(* (NoHandleLeaks), every request does what PathTree promises of paths     *)
(* (FuseImplements), and one that fails has a reason to                    *)
(* (FuseFailsForAReason).                                                  *)
(***************************************************************************)
EXTENDS Fuse, SequenceTheorems, FiniteSetTheorems, WellFoundedInduction, TLAPS

-----------------------------------------------------------------------------
(* Numbers.                                                                *)

\* A set of numbers that is not empty has a least one.
LEMMA LeastNumber ==
  ASSUME NEW S \in SUBSET Nat, S # {}
  PROVE  \E x \in S : \A y \in S : x <= y
<1>1. \E x \in S : \A y \in S : ~(<<y, x>> \in OpToRel(<, Nat))
  BY NatLessThanWellFounded, WFMin
<1>2. \A x, y \in S : ~(<<y, x>> \in OpToRel(<, Nat)) => x <= y
  <2> SUFFICES ASSUME NEW x \in S, NEW y \in S, ~(x <= y)
               PROVE  <<y, x>> \in OpToRel(<, Nat)
    OBVIOUS
  <2>1. y < x /\ x \in Nat /\ y \in Nat
    OBVIOUS
  <2> QED BY <2>1 DEF OpToRel
<1> QED BY <1>1, <1>2

\* What holds at 0 and, with one number, at the next, holds up to k.
LEMMA UpTo ==
  ASSUME NEW k \in Nat, NEW S, 0 \in S,
         \A n \in 0 .. k - 1 : n \in S => n + 1 \in S
  PROVE  \A n \in 0 .. k : n \in S
<1> DEFINE Bad == {n \in 0 .. k : n \notin S}
<1> SUFFICES ASSUME Bad # {} PROVE FALSE
  OBVIOUS
<1>1. PICK x \in Bad : \A y \in Bad : x <= y
  <2>1. Bad \in SUBSET Nat
    OBVIOUS
  <2> HIDE DEF Bad
  <2> QED BY <2>1, LeastNumber
<1>2. x # 0 /\ x - 1 \in 0 .. k - 1
  OBVIOUS
<1>3. x - 1 \notin Bad
  BY <1>1, <1>2
<1>4. x - 1 \in S
  BY <1>2, <1>3
<1>5. (x - 1) + 1 \in S
  BY <1>2, <1>4
<1> QED BY <1>5

\* The least number is the one that Min chooses.
LEMMA MinIs ==
  ASSUME NEW S \in SUBSET Nat, S # {}
  PROVE  Min(S) \in S /\ \A y \in S : Min(S) <= y
<1>1. \E x \in S : \A y \in S : x <= y
  BY LeastNumber
<1> QED BY <1>1 DEF Min

-----------------------------------------------------------------------------
(* Walks.                                                                  *)

Dirs  == Ids \cup {ROOT}
Codes == {"OK", "NO_DEV", "IO", "DISK_FULL", "FILE_EXIST", "NOT_EXIST", "NOT_EMPTY", "NO_NAME",
          "NAME_INVAL", "UNEXP_EOF", "NO_FREE_FD", "INVAL_FD", "BUSY"}
Spots == [dir : Dirs, err : Codes]

\* Every code of the file system has an error number.
LEMMA CodesAre ==
  DOMAIN errors = Codes
BY DEF errors, Codes

\* Walk enters one directory after the other.
LEMMA WalkSteps ==
  ASSUME NEW dirs, Len(dirs) \in Nat
  PROVE  /\ Walk(dirs)[0] = [dir |-> Start, err |-> tfs_last_error]
         /\ \A n \in 0 .. Len(dirs) - 1 : Walk(dirs)[n + 1] = Enter(Walk(dirs)[n], dirs[n + 1])
<1> DEFINE First == [dir |-> Start, err |-> tfs_last_error]
           L == Len(dirs)
           G(g) == [n \in 0 .. L |-> IF n = 0 THEN First ELSE Enter(g[n - 1], dirs[n])]
           Part(k, g) == g[0] = First /\ \A n \in 0 .. k - 1 : g[n + 1] = Enter(g[n], dirs[n + 1])
           S == {k \in 0 .. L : \E g : Part(k, g)}
<1>0. L \in Nat
  OBVIOUS
<1>1. Walk(dirs) = CHOOSE g : g = G(g)
  BY DEF Walk
<1> HIDE DEF First, L
<1>2. 0 \in S
  <2>1. Part(0, [n \in {0} |-> First])
    OBVIOUS
  <2>2. 0 \in 0 .. L
    BY <1>0
  <2> HIDE DEF Part
  <2> QED BY <2>1, <2>2
<1>3. ASSUME NEW k \in 0 .. L - 1, k \in S
      PROVE  k + 1 \in S
  <2>1. PICK g : Part(k, g)
    BY <1>3
  <2> DEFINE h == [n \in 0 .. k + 1 |-> IF n = k + 1 THEN Enter(g[k], dirs[k + 1]) ELSE g[n]]
  <2>2. h[0] = First
    BY <2>1, <1>3, <1>0
  <2>3. \A n \in 0 .. (k + 1) - 1 : h[n + 1] = Enter(h[n], dirs[n + 1])
    <3> TAKE n \in 0 .. (k + 1) - 1
    <3>1. h[n] = g[n]
      BY <1>3, <1>0
    <3>2. CASE n = k
      BY <3>1, <3>2, <1>3, <1>0
    <3>3. CASE n # k
      <4>1. n \in 0 .. k - 1 /\ n + 1 \in 0 .. k + 1 /\ n + 1 # k + 1
        BY <3>3, <1>3, <1>0
      <4>2. h[n + 1] = g[n + 1]
        BY <4>1
      <4> QED BY <4>1, <4>2, <3>1, <2>1
    <3> QED BY <3>2, <3>3
  <2>4. Part(k + 1, h)
    BY <2>2, <2>3
  <2>5. k + 1 \in 0 .. L
    BY <1>3, <1>0
  <2> HIDE DEF h, Part
  <2> QED BY <2>4, <2>5
<1>4. L \in S
  <2> HIDE DEF S
  <2>1. \A n \in 0 .. L : n \in S
    BY <1>0, <1>2, <1>3, UpTo
  <2> QED BY <2>1, <1>0
<1>5. PICK g : Part(L, g)
  BY <1>4
<1> DEFINE r == [n \in 0 .. L |-> g[n]]
<1>6. r = G(r)
  <2> SUFFICES ASSUME NEW n \in 0 .. L PROVE r[n] = G(r)[n]
    OBVIOUS
  <2>1. CASE n = 0
    BY <2>1, <1>5
  <2>2. CASE n # 0
    <3>1. n - 1 \in 0 .. L - 1 /\ n - 1 \in 0 .. L /\ (n - 1) + 1 = n
      BY <2>2, <1>0
    <3>2. g[n] = Enter(g[n - 1], dirs[n])
      BY <3>1, <1>5
    <3>3. r[n - 1] = g[n - 1] /\ r[n] = g[n]
      BY <3>1
    <3> QED BY <3>2, <3>3, <2>2
  <2> QED BY <2>1, <2>2
<1> DEFINE w == Walk(dirs)
<1>7. w = G(w)
  <2> HIDE DEF G, r
  <2> QED BY <1>6, <1>1
<1> HIDE DEF w
<1>8. w[0] = First
  BY <1>7, <1>0
<1>9. ASSUME NEW n \in 0 .. L - 1
      PROVE  w[n + 1] = Enter(w[n], dirs[n + 1])
  <2>1. n + 1 \in 0 .. L /\ n + 1 # 0 /\ (n + 1) - 1 = n
    BY <1>0
  <2> QED BY <2>1, <1>7
<1> QED BY <1>8, <1>9 DEF w, First, L

\* A directory entered is there.
LEMMA EnterType ==
  ASSUME NEW t \in Spots, NEW n
  PROVE  Enter(t, n) \in Spots
<1> DEFINE sub == ItemOf(t.dir, n, {"DIR"})
<1>1. sub \subseteq Ids
  BY DEF ItemOf, Item
<1>2. sub # {} => (CHOOSE id \in sub : TRUE) \in Ids
  BY <1>1
<1> QED BY <1>2 DEF Enter, Spots, Dirs, Codes

\* travel_path ends in a directory, or at the root.
LEMMA TravelType ==
  ASSUME TypeOK, NEW p \in Seq(Names), NEW t \in travel_path(p)
  PROVE  t \in Spots
<1> DEFINE dirs == Front(p)
           w == Walk(dirs)
           S == {n \in 0 .. Len(dirs) : w[n] \in Spots}
<1>1. Len(dirs) \in Nat
  <2>1. p \in Seq(Names) /\ Len(p) \in Nat
    OBVIOUS
  <2>2. \A i \in 1 .. Len(p) - 1 : p[i] \in Names
    BY <2>1
  <2> QED BY <2>1, <2>2, SubSeqProperties DEF Front
<1> HIDE DEF dirs
<1>2. 0 \in S
  <2>1. [dir |-> Start, err |-> tfs_last_error] \in Spots
    <3>1. tfs_last_error \in Codes
      BY CodesAre DEF TypeOK
    <3> QED BY <3>1 DEF Spots, Dirs, Start
  <2>2. w[0] \in Spots
    BY <1>1, <2>1, WalkSteps
  <2> HIDE DEF w
  <2> QED BY <1>1, <2>2
<1>3. \A n \in 0 .. Len(dirs) - 1 : n \in S => n + 1 \in S
  <2> TAKE n \in 0 .. Len(dirs) - 1
  <2>1. w[n + 1] = Enter(w[n], dirs[n + 1])
    BY <1>1, WalkSteps
  <2>2. n + 1 \in 0 .. Len(dirs)
    BY <1>1
  <2> HIDE DEF w
  <2> QED BY <2>1, <2>2, EnterType
<1>4. \A n \in 0 .. Len(dirs) : w[n] \in Spots
  <2> HIDE DEF w
  <2>1. \A n \in 0 .. Len(dirs) : n \in S
    <3> HIDE DEF S
    <3> QED BY <1>1, <1>2, <1>3, UpTo
  <2> QED BY <2>1
<1>5. t = w[Len(dirs)] \/ \E n \in 0 .. Len(dirs) - 1 : t = [w[n] EXCEPT !.err = "IO"]
  BY DEF travel_path, dirs
<1> HIDE DEF w
<1> QED BY <1>1, <1>4, <1>5 DEF Spots, Codes

-----------------------------------------------------------------------------
(* Requests.                                                               *)

Nodes == [dir : Dirs, name : Names, type : {"FREE", "FILE", "DIR"}]
Counts == 0 .. UsageMod - 1
Hazards == {"moved", "wrapped"}

\* There are places, and the bad descriptor is none.
LEMMA PlacesAre == Places # {} /\ BadFd \notin Places
<1>1. PICK b \in Blks, q \in Slots : TRUE
  BY FuseAssumption
<1>2. [blk |-> b, slot |-> q] \in Places
  BY DEF Places
<1> QED BY <1>2, FuseAssumption DEF Places, BadFd

\* What is noted in spoiled stays there.
LEMMA SpoilIs ==
  ASSUME NEW h \in Hazards, NEW if, Spoil(h, if), spoiled \subseteq Hazards
  PROVE  spoiled \subseteq spoiled' /\ spoiled' \subseteq Hazards /\ (if => h \in spoiled')
BY DEF Spoil, Hazards

\* A path is a row of names.
LEMMA PathNames ==
  ASSUME NEW p \in Paths
  PROVE  p \in Seq(Names) /\ (p # <<>> => Last(p) \in Names)
<1>1. PICK m \in 0 .. Depth : p \in [1 .. m -> Names]
  BY DEF Paths, SeqOf
<1>2. m \in Nat
  BY FuseAssumption
<1> QED BY <1>1, <1>2 DEF Last

\* The parts of the type invariant that hold by themselves.
LEMMA TypeIs ==
  TypeOK <=> /\ tree \in [Ids -> Nodes] /\ current_dir \in Dirs /\ tfs_last_error \in Codes
             /\ place \in [Ids -> Places] /\ usage \in [Places -> Counts]
             /\ held \in [Places \cup {BadFd} -> Nat] /\ spoiled \subseteq Hazards
BY CodesAre DEF TypeOK, Nodes, Dirs, Counts, Hazards

\* The same after a request.
LEMMA TypeIsNext ==
  ASSUME /\ tree' \in [Ids -> Nodes] /\ current_dir' \in Dirs /\ tfs_last_error' \in Codes
         /\ place' \in [Ids -> Places] /\ usage' \in [Places -> Counts]
         /\ held' \in [Places \cup {BadFd} -> Nat] /\ spoiled' \subseteq Hazards
  PROVE  TypeOK'
<1>1. (DOMAIN errors)' = Codes
  BY CodesAre DEF errors
<1> QED BY <1>1 DEF TypeOK, Nodes, Dirs, Counts, Hazards, Places

\* A request that opens and closes nothing.
LEMMA Quiet ==
  ASSUME NoHandleLeak, UNCHANGED <<usage, held>>, tree' \in [Ids -> Nodes], place' \in [Ids -> Places],
         current_dir' \in Dirs, tfs_last_error' \in Codes,
         spoiled \subseteq spoiled', spoiled' \subseteq Hazards
  PROVE  NoHandleLeak'
<1>1. TypeOK'
  BY TypeIs, TypeIsNext DEF NoHandleLeak
<1> QED BY <1>1 DEF NoHandleLeak

\* A request that fails leaks no handle.
LEMMA Fails ==
  ASSUME NoHandleLeak, NEW e \in Codes, Failed(e), current_dir' \in Dirs
  PROVE  NoHandleLeak'
BY Quiet, TypeIs DEF NoHandleLeak, Failed, check_error

\* What a request that writes leaves in tfs_last_error is a code.
LEMMA WrittenCodes ==
  Written => tfs_last_error' \in Codes
BY DEF Written, check_error, Codes

\* The codes, one by one.
LEMMA CodesIn ==
  /\ "OK" \in Codes /\ "IO" \in Codes /\ "DISK_FULL" \in Codes /\ "FILE_EXIST" \in Codes
  /\ "NOT_EXIST" \in Codes /\ "NOT_EMPTY" \in Codes /\ "NO_FREE_FD" \in Codes
  /\ "INVAL_FD" \in Codes /\ "BUSY" \in Codes /\ "UNEXP_EOF" \in Codes
BY DEF Codes

\* What a request by path does before it comes to its last component.
Walked(p, t) ==
  \/ t.err # "OK" /\ Failed(t.err) /\ current_dir' = t.dir
  \/ current_dir' = t.dir /\ UNCHANGED <<tree, place, usage, held, spoiled, tfs_last_error>>

\* The walk of a path leaks no handle.
LEMMA WalkedKeeps ==
  ASSUME NoHandleLeak, NEW p \in Paths, NEW t \in travel_path(p), Walked(p, t)
  PROVE  NoHandleLeak'
<1>1. t \in Spots
  BY PathNames, TravelType DEF NoHandleLeak
<1>2. t.dir \in Dirs /\ t.err \in Codes
  BY <1>1 DEF Spots
<1>3. CASE Failed(t.err) /\ current_dir' = t.dir
  BY <1>2, <1>3, Fails
<1>4. CASE current_dir' = t.dir /\ UNCHANGED <<tree, place, usage, held, spoiled, tfs_last_error>>
  BY <1>2, <1>4, Quiet, TypeIs DEF NoHandleLeak
<1> QED BY <1>3, <1>4 DEF Walked

\* Making a node leaks no handle: the new item has no users.
LEMMA CreateKeeps ==
  ASSUME NoHandleLeak, NEW d \in Dirs, NEW n \in Names, NEW type \in {"FILE", "DIR"}, Create(d, n, type)
  PROVE  NoHandleLeak'
<1>0. current_dir' = d
  BY DEF Create
<1>1. CASE Failed("IO") \/ Failed("FILE_EXIST") \/ Failed("DISK_FULL")
  BY <1>0, <1>1, CodesIn, Fails
<1> DEFINE F == Ids \ Existing
           x == [dir |-> d, name |-> Cut[n], type |-> type]
<1>2. ASSUME F # {}, tree' = [tree EXCEPT ![Min(F)] = x], NEW q \in Places,
             place' = [place EXCEPT ![Min(F)] = q], Written, UNCHANGED <<usage, held, spoiled>>
      PROVE  NoHandleLeak'
  <2>1. F \in SUBSET Nat
    BY FuseAssumption
  <2>2. Min(F) \in Ids
    BY <1>2, <2>1, MinIs
  <2>3. x \in Nodes
    BY FuseAssumption DEF Nodes
  <2>4. tree \in [Ids -> Nodes] /\ place \in [Ids -> Places] /\ spoiled \subseteq Hazards
    BY TypeIs DEF NoHandleLeak
  <2> HIDE DEF F, x
  <2>5. tree' \in [Ids -> Nodes] /\ place' \in [Ids -> Places]
    BY <1>2, <2>2, <2>3, <2>4
  <2> QED BY <1>0, <1>2, <2>4, <2>5, WrittenCodes, Quiet
<1> QED BY <1>1, <1>2 DEF Create, FreePlaces

\* The places after a deletion.
LEMMA CleanupType ==
  ASSUME place \in [Ids -> Places], NEW id \in Ids, place' \in write_dir_cleanup(id)
  PROVE  place' \in [Ids -> Places]
<1>1. ASSUME NEW c, place' = [i \in Ids |-> IF i \in InBlk(c) THEN [blk |-> place[id].blk, slot |-> place[i].slot]
                                             ELSE place[i]]
      PROVE  place' \in [Ids -> Places]
  <2>1. \A i \in Ids : [blk |-> place[id].blk, slot |-> place[i].slot] \in Places
    BY DEF Places
  <2> QED BY <1>1, <2>1
<1> QED BY <1>1 DEF write_dir_cleanup

\* A file that is deleted has no handle, and its item keeps none.
LEMMA DeleteKeeps ==
  ASSUME NoHandleLeak, NEW d \in Dirs, NEW n, NEW type, tfs_delete(d, n, type)
  PROVE  NoHandleLeak'
<1>0. current_dir' = d
  BY DEF tfs_delete
<1>1. CASE Failed("IO") \/ Failed("NOT_EXIST") \/ Failed("BUSY") \/ Failed("NOT_EMPTY")
  BY <1>0, <1>1, CodesIn, Fails
<1>2. ASSUME NEW id \in ItemOf(d, n, {type}), tree' = [tree EXCEPT ![id] = FreeItem], Written,
             place' \in write_dir_cleanup(id), NEW if, Spoil("moved", if), UNCHANGED <<usage, held>>
      PROVE  NoHandleLeak'
  <2>1. FreeItem \in Nodes
    BY FuseAssumption DEF FreeItem, Nodes, Dirs
  <2>2. tree \in [Ids -> Nodes] /\ place \in [Ids -> Places] /\ spoiled \subseteq Hazards /\ id \in Ids
    BY TypeIs DEF NoHandleLeak, ItemOf, Item
  <2>3. tree' \in [Ids -> Nodes]
    BY <1>2, <2>1, <2>2
  <2>4. place' \in [Ids -> Places]
    BY <1>2, <2>2, CleanupType
  <2>5. spoiled \subseteq spoiled' /\ spoiled' \subseteq Hazards
    BY <1>2, <2>2, SpoilIs DEF Hazards
  <2> QED BY <1>0, <1>2, <2>3, <2>4, <2>5, WrittenCodes, Quiet
<1> QED BY <1>1, <1>2 DEF tfs_delete

\* A new name leaves the handle of the item as it was.
LEMMA RenameKeeps ==
  ASSUME NoHandleLeak, NEW d \in Dirs, NEW n, NEW to \in Names, tfs_rename(d, n, to), current_dir' = d
  PROVE  NoHandleLeak'
<1>1. CASE Failed("IO") \/ Failed("NOT_EXIST") \/ Failed("FILE_EXIST")
  BY <1>1, CodesIn, Fails
<1>2. ASSUME NEW id \in Item(d, n), tree' = [tree EXCEPT ![id].name = Cut[to]], Written,
             UNCHANGED <<place, usage, held, spoiled>>
      PROVE  NoHandleLeak'
  <2>1. Cut[to] \in Names
    BY FuseAssumption
  <2>2. tree \in [Ids -> Nodes] /\ id \in Ids
    BY <1>2, TypeIs DEF NoHandleLeak, Item
  <2>3. tree[id] \in Nodes /\ [tree[id] EXCEPT !.name = Cut[to]] \in Nodes
    BY <2>1, <2>2 DEF Nodes
  <2>4. tree' \in [Ids -> Nodes]
    BY <1>2, <2>2, <2>3
  <2> QED BY <1>2, <2>4, WrittenCodes, Quiet, TypeIs DEF NoHandleLeak
<1> QED BY <1>1, <1>2 DEF tfs_rename

\* Reading a directory leaks no handle.
LEMMA ReadDirKeeps ==
  ASSUME NoHandleLeak, NEW d \in Dirs, tfs_read_dir(d)
  PROVE  NoHandleLeak'
<1>1. CASE Failed("IO")
  BY <1>1, CodesIn, Fails DEF tfs_read_dir
<1>2. CASE tfs_last_error' = "OK" /\ UNCHANGED <<tree, place, usage, held, spoiled>>
  BY <1>2, CodesIn, Quiet, TypeIs DEF NoHandleLeak, tfs_read_dir
<1> QED BY <1>1, <1>2 DEF tfs_read_dir

\* What tfs_open may return.
LEMMA OpenType ==
  ASSUME place \in [Ids -> Places], NEW d, NEW n, NEW r \in tfs_open(d, n)
  PROVE  r.fd \in Places \cup {BadFd} /\ r.err \in Codes
<1> DEFINE file == {place[id] : id \in ItemOf(d, n, {"FILE"})}
           full == Cardinality(Handles) >= MaxFds /\ file \cap Handles = {}
           O(fds, errs) == [fd : fds, err : errs]
<1>1. file \subseteq Places
  BY DEF ItemOf, Item
<1>2. r \in O({BadFd}, {"IO"}) \/ r \in O({BadFd}, {"NOT_EXIST"}) \/ r \in O({BadFd}, {"OK", "NO_FREE_FD"})
      \/ r \in O(file, {"OK"})
  <2>1. tfs_open(d, n) = O({BadFd}, {"IO"}) \cup
          (CASE file = {} -> O({BadFd}, {"NOT_EXIST"})
             [] file # {} /\ full -> O({BadFd}, {"OK", "NO_FREE_FD"})
             [] file # {} /\ ~full -> O(file, {"OK"}))
    BY DEF tfs_open
  <2> HIDE DEF O, full, file
  <2>2. CASE file = {}
    BY <2>1, <2>2
  <2>3. CASE file # {} /\ full
    BY <2>1, <2>3
  <2>4. CASE file # {} /\ ~full
    BY <2>1, <2>4
  <2> QED BY <2>2, <2>3, <2>4
<1> HIDE DEF file
<1> QED BY <1>1, <1>2, CodesIn

\* One user more of a handle that is not counted over.
LEMMA OpenedIs ==
  ASSUME usage \in [Places -> Counts], NEW fd \in Places \cup {BadFd}, NEW u, u = Opened(usage, fd)
  PROVE  /\ u \in [Places -> Counts]
         /\ fd = BadFd => u = usage /\ ~Wraps(fd)
         /\ fd # BadFd => u = [usage EXCEPT ![fd] = u[fd]]
         /\ fd # BadFd /\ ~Wraps(fd) => u[fd] = usage[fd] + 1
         /\ fd # BadFd /\ Wraps(fd) => u[fd] = 0
<1>1. BadFd \notin Places
  BY PlacesAre
<1>2. CASE fd = BadFd
  BY <1>1, <1>2 DEF Opened, Wraps
<1>3. CASE fd \in Places
  <2> DEFINE c == usage[fd]
             m == (c + 1) % UsageMod
  <2>1. c \in Counts /\ UsageMod \in Nat \ {0}
    BY <1>3, FuseAssumption
  <2>2. c \in Nat /\ c + 1 \in 1 .. UsageMod
    BY <2>1 DEF Counts
  <2>3. m \in Counts /\ (m # 0 => m = c + 1)
    <3>1. \A x, y \in Nat : y # 0 => x % y \in 0 .. y - 1
      OBVIOUS
    <3>2. \A x, y \in Nat : x < y => x % y = x
      OBVIOUS
    <3>3. \A y \in Nat : y # 0 => y % y = 0
      OBVIOUS
    <3>4. c + 1 < UsageMod \/ c + 1 = UsageMod
      BY <2>1, <2>2
    <3>5. m \in Counts
      <4>1. c + 1 \in Nat /\ UsageMod \in Nat /\ UsageMod # 0
        BY <2>1, <2>2
      <4>2. m \in 0 .. UsageMod - 1
        BY <3>1, <4>1, Zenon
      <4> QED BY <4>2 DEF Counts
    <3>6. CASE c + 1 < UsageMod
      <4>1. m = c + 1
        BY <2>1, <2>2, <3>2, <3>6
      <4> QED BY <3>5, <4>1
    <3>7. CASE c + 1 = UsageMod
      <4>1. m = 0
        BY <2>1, <3>3, <3>7
      <4> QED BY <3>5, <4>1
    <3> QED BY <3>4, <3>6, <3>7
  <2>4. u = [usage EXCEPT ![fd] = m]
    BY <1>1, <1>3 DEF Opened
  <2> HIDE DEF m, c
  <2>5. u[fd] = m /\ u \in [Places -> Counts] /\ (Wraps(fd) <=> m = 0)
    BY <1>1, <1>3, <2>3, <2>4 DEF Wraps
  <2> QED BY <1>1, <1>3, <2>3, <2>4, <2>5 DEF c
<1> QED BY <1>2, <1>3

\* A user less.
LEMMA ClosedIs ==
  ASSUME NEW u \in [Places -> Counts], NEW fd \in Places \cup {BadFd}
  PROVE  /\ Closed(u, fd) \in [Places -> Counts]
         /\ fd = BadFd \/ u[fd] = 0 => Closed(u, fd) = u
         /\ fd # BadFd /\ u[fd] # 0 => Closed(u, fd) = [u EXCEPT ![fd] = @ - 1]
<1>1. BadFd \notin Places
  BY PlacesAre
<1>2. CASE fd = BadFd
  BY <1>2 DEF Closed, Valid
<1>3. CASE fd \in Places
  <2>1. u[fd] \in Counts /\ UsageMod \in Nat
    BY <1>3, FuseAssumption
  <2>2. u[fd] > 0 <=> u[fd] # 0
    BY <2>1 DEF Counts
  <2>3. u[fd] # 0 => u[fd] - 1 \in Counts
    BY <2>1 DEF Counts
  <2>4. Closed(u, fd) = IF u[fd] # 0 THEN [u EXCEPT ![fd] = @ - 1] ELSE u
    BY <1>1, <1>3, <2>2 DEF Closed, Valid
  <2> QED BY <1>1, <1>3, <2>3, <2>4
<1> QED BY <1>2, <1>3

\* What NoHandleLeak says, part by part.
LeakFree ==
  /\ tree \in [Ids -> Nodes] /\ current_dir \in Dirs /\ tfs_last_error \in Codes
  /\ place \in [Ids -> Places] /\ usage \in [Places -> Counts]
  /\ held \in [Places \cup {BadFd} -> Nat] /\ spoiled \subseteq Hazards
  /\ ("wrapped" \in spoiled \/ \A q \in Places : usage[q] = held[q])
LEMMA LeakIs == NoHandleLeak <=> LeakFree
BY TypeIs DEF NoHandleLeak, LeakFree

\* A descriptor opened for the kernel.
LEMMA OpenedKeeps ==
  ASSUME NoHandleLeak, NEW fd \in Places \cup {BadFd}, usage' = Opened(usage, fd),
         held' = [held EXCEPT ![fd] = @ + 1], Spoil("wrapped", Wraps(fd)), UNCHANGED <<tree, place>>,
         tfs_last_error' \in Codes, current_dir' \in Dirs
  PROVE  NoHandleLeak'
<1>1. BadFd \notin Places
  BY PlacesAre
<1>2. LeakFree
  BY LeakIs
<1>3. usage' \in [Places -> Counts] /\ held' \in [Places \cup {BadFd} -> Nat]
  <2>1. held[fd] + 1 \in Nat
    BY <1>2 DEF LeakFree
  <2> QED BY <1>2, <2>1, OpenedIs DEF LeakFree
<1>4. spoiled \subseteq spoiled' /\ spoiled' \subseteq Hazards /\ (Wraps(fd) => "wrapped" \in spoiled')
  BY <1>2, SpoilIs DEF Hazards, LeakFree
<1>5. TypeOK'
  BY <1>2, <1>3, <1>4, TypeIsNext DEF LeakFree
<1>6. ASSUME "wrapped" \notin spoiled', NEW q \in Places PROVE usage'[q] = held'[q]
  <2>1. ~Wraps(fd) /\ usage[q] = held[q]
    BY <1>2, <1>4, <1>6 DEF LeakFree
  <2>2. CASE fd = BadFd
    <3>1. usage' = usage
      BY <1>2, <2>2, OpenedIs DEF LeakFree
    <3>2. held'[q] = held[q]
      BY <1>1, <1>2, <1>6, <2>2 DEF LeakFree
    <3> QED BY <2>1, <3>1, <3>2
  <2>3. CASE fd \in Places
    <3>1. usage'[fd] = usage[fd] + 1 /\ usage' = [usage EXCEPT ![fd] = usage'[fd]]
      BY <1>1, <1>2, <2>1, <2>3, OpenedIs DEF LeakFree
    <3>2. q # fd => usage'[q] = usage[q] /\ held'[q] = held[q]
      BY <1>2, <1>6, <3>1 DEF LeakFree
    <3>3. held'[fd] = held[fd] + 1
      BY <1>2, <2>3 DEF LeakFree
    <3> QED BY <2>1, <3>1, <3>2, <3>3
  <2> QED BY <2>2, <2>3
<1> QED BY <1>5, <1>6 DEF NoHandleLeak

\* open: one user more of the handle, one descriptor more in the kernel, or neither.
LEMMA OpenKeeps ==
  ASSUME NoHandleLeak, NEW p \in Paths, op_open(p)
  PROVE  NoHandleLeak'
<1>1. PICK t \in travel_path(p) :
        \/ Walked(p, t)
        \/ \E r \in tfs_open(t.dir, Last(p)) :
             /\ current_dir' = t.dir
             /\ \/ r.err # "OK" /\ Failed(r.err)
                \/ /\ usage' = Opened(usage, r.fd) /\ held' = [held EXCEPT ![r.fd] = @ + 1]
                   /\ Spoil("wrapped", Wraps(r.fd)) /\ check_error("OK") /\ UNCHANGED <<tree, place>>
  BY Zenon DEF op_open, ByPath, Walked
<1>2. t.dir \in Dirs /\ place \in [Ids -> Places]
  BY PathNames, TravelType, TypeIs DEF NoHandleLeak, Spots
<1>3. CASE Walked(p, t)
  BY <1>3, WalkedKeeps
<1>4. ASSUME NEW r \in tfs_open(t.dir, Last(p)), current_dir' = t.dir, Failed(r.err)
      PROVE  NoHandleLeak'
  BY <1>2, <1>4, OpenType, Fails
<1>5. ASSUME NEW r \in tfs_open(t.dir, Last(p)), current_dir' = t.dir,
             usage' = Opened(usage, r.fd), held' = [held EXCEPT ![r.fd] = @ + 1],
             Spoil("wrapped", Wraps(r.fd)), check_error("OK"), UNCHANGED <<tree, place>>
      PROVE  NoHandleLeak'
  <2>1. tfs_last_error' \in Codes /\ r.fd \in Places \cup {BadFd}
    BY <1>2, <1>5, CodesIn, OpenType DEF check_error
  <2> QED BY <1>2, <1>5, <2>1, OpenedKeeps
<1> QED BY <1>1, <1>3, <1>4, <1>5

\* The handle that op_truncate opens is closed, whatever tfs_trunc has returned, if it has not
\* been counted over.
LEMMA TruncPairs ==
  ASSUME usage \in [Places -> Counts], NEW fd \in Places \cup {BadFd}, NEW e
  PROVE  /\ AfterTrunc(Opened(usage, fd), fd, e) \in [Places -> Counts]
         /\ ~Wraps(fd) => AfterTrunc(Opened(usage, fd), fd, e) = usage
<1> DEFINE u == Opened(usage, fd)
<1>1. /\ u \in [Places -> Counts]
      /\ fd = BadFd => u = usage /\ ~Wraps(fd)
      /\ fd # BadFd => u = [usage EXCEPT ![fd] = u[fd]]
      /\ fd # BadFd /\ ~Wraps(fd) => u[fd] = usage[fd] + 1
  BY OpenedIs
<1>2. AfterTrunc(u, fd, e) = Closed(u, fd)
  BY DEF AfterTrunc
<1> HIDE DEF u
<1>3. AfterTrunc(u, fd, e) \in [Places -> Counts]
  BY <1>1, <1>2, ClosedIs
<1>4. ASSUME ~Wraps(fd) PROVE Closed(u, fd) = usage
  <2>1. CASE fd = BadFd
    BY <1>1, <2>1, ClosedIs
  <2>2. CASE fd # BadFd
    <3>1. fd \in Places /\ usage[fd] \in Nat /\ u[fd] = usage[fd] + 1
      BY <1>1, <1>4, <2>2 DEF Counts
    <3>2. Closed(u, fd) = [u EXCEPT ![fd] = u[fd] - 1]
      BY <1>1, <2>2, <3>1, ClosedIs
    <3>3. \A q \in Places : Closed(u, fd)[q] = usage[q]
      BY <1>1, <2>2, <3>1, <3>2
    <3>4. Closed(u, fd) \in [Places -> Counts]
      BY <1>1, ClosedIs
    <3> QED BY <3>3, <3>4
  <2> QED BY <2>1, <2>2
<1> QED BY <1>2, <1>3, <1>4 DEF u

\* truncate closes what it opens, whatever tfs_trunc answers.
LEMMA TruncateKeeps ==
  ASSUME NoHandleLeak, NEW p \in Paths, op_truncate(p)
  PROVE  NoHandleLeak'
<1>1. PICK t \in travel_path(p) :
        \/ Walked(p, t)
        \/ \E r \in tfs_open(t.dir, Last(p)) :
             /\ current_dir' = t.dir
             /\ \/ r.err # "OK" /\ Failed(r.err)
                \/ /\ \E e : usage' = AfterTrunc(Opened(usage, r.fd), r.fd, e)
                   /\ \E c \in FdErrors(Opened(usage, r.fd), r.fd, {"OK"}) : tfs_last_error' = c
                   /\ Spoil("wrapped", Wraps(r.fd)) /\ UNCHANGED <<tree, place, held>>
  BY Zenon DEF op_truncate, ByPath, Walked
<1>2. t.dir \in Dirs
  BY PathNames, TravelType DEF NoHandleLeak, Spots
<1>6. LeakFree
  BY LeakIs
<1>3. CASE Walked(p, t)
  BY <1>3, WalkedKeeps
<1>4. ASSUME NEW r \in tfs_open(t.dir, Last(p)), current_dir' = t.dir, Failed(r.err)
      PROVE  NoHandleLeak'
  BY <1>2, <1>4, <1>6, OpenType, Fails DEF LeakFree
<1>5. ASSUME NEW r \in tfs_open(t.dir, Last(p)), current_dir' = t.dir, NEW e, NEW c,
             usage' = AfterTrunc(Opened(usage, r.fd), r.fd, e),
             c \in FdErrors(Opened(usage, r.fd), r.fd, {"OK"}), tfs_last_error' = c,
             Spoil("wrapped", Wraps(r.fd)), UNCHANGED <<tree, place, held>>
      PROVE  NoHandleLeak'
  <2>1. tfs_last_error' \in Codes
    BY <1>5, CodesIn DEF FdErrors
  <2>2. r.fd \in Places \cup {BadFd}
    BY <1>5, <1>6, OpenType DEF LeakFree
  <2>3. usage' \in [Places -> Counts] /\ (~Wraps(r.fd) => usage' = usage)
    BY <1>5, <1>6, <2>2, TruncPairs DEF LeakFree
  <2>4. spoiled \subseteq spoiled' /\ spoiled' \subseteq Hazards /\ (Wraps(r.fd) => "wrapped" \in spoiled')
    BY <1>5, <1>6, SpoilIs DEF Hazards, LeakFree
  <2>5. TypeOK'
    BY <1>2, <1>5, <1>6, <2>1, <2>3, <2>4, TypeIsNext DEF LeakFree
  <2>6. "wrapped" \in spoiled' \/ \A q \in Places : usage'[q] = held'[q]
    BY <1>5, <1>6, <2>3, <2>4 DEF LeakFree
  <2> QED BY <2>5, <2>6 DEF NoHandleLeak
<1> QED BY <1>1, <1>3, <1>4, <1>5

\* Requests with a descriptor.
LEMMA FdKeeps ==
  ASSUME NoHandleLeak, NEW fd \in Places \cup {BadFd},
         op_ftruncate(fd) \/ op_read(fd) \/ op_write(fd) \/ op_release(fd)
  PROVE  NoHandleLeak'
<1>1. tfs_last_error' \in Codes /\ UNCHANGED <<tree, place, spoiled, current_dir>> /\ held[fd] > 0
  <2>1. ASSUME NEW op, NEW errs \in SUBSET Codes, ByFd(op, fd, errs)
        PROVE  tfs_last_error' \in Codes /\ UNCHANGED <<tree, place, spoiled, current_dir>> /\ held[fd] > 0
    BY <2>1, CodesIn DEF ByFd, FdErrors, check_error
  <2>2. Reading \in SUBSET Codes /\ Writing \in SUBSET Codes /\ {"OK"} \in SUBSET Codes
    BY CodesIn DEF Reading, Writing
  <2> QED BY <2>1, <2>2 DEF op_ftruncate, op_read, op_write, op_release
<1>2. LeakFree
  BY LeakIs
<1>3. CASE UNCHANGED <<usage, held>>
  BY <1>1, <1>2, <1>3, Quiet DEF LeakFree
<1>4. CASE op_release(fd)
  <2>1. held' = [held EXCEPT ![fd] = @ - 1] /\ usage' = Closed(usage, fd)
    BY <1>4 DEF op_release
  <2>2. held' \in [Places \cup {BadFd} -> Nat]
    <3>1. held[fd] - 1 \in Nat
      BY <1>1, <1>2 DEF LeakFree
    <3> QED BY <1>2, <2>1, <3>1 DEF LeakFree
  <2>3. usage' \in [Places -> Counts]
    BY <1>2, <2>1, ClosedIs DEF LeakFree
  <2>4. ASSUME "wrapped" \notin spoiled, NEW q \in Places PROVE usage'[q] = held'[q]
    <3>1. usage[q] = held[q] /\ BadFd \notin Places
      BY <1>2, <2>4, PlacesAre DEF LeakFree
    <3>2. CASE fd = BadFd
      BY <1>2, <2>1, <3>1, <3>2, ClosedIs DEF LeakFree
    <3>3. CASE fd # BadFd
      <4>1. fd \in Places /\ usage[fd] = held[fd] /\ usage[fd] # 0
        BY <1>1, <1>2, <2>4, <3>3 DEF LeakFree
      <4>2. usage' = [usage EXCEPT ![fd] = @ - 1]
        BY <1>2, <2>1, <3>3, <4>1, ClosedIs DEF LeakFree
      <4> QED BY <1>2, <2>1, <3>1, <4>1, <4>2 DEF LeakFree
    <3> QED BY <3>2, <3>3
  <2>5. TypeOK'
    BY <1>1, <1>2, <2>2, <2>3, TypeIsNext DEF LeakFree
  <2> QED BY <1>1, <2>4, <2>5 DEF NoHandleLeak
<1> QED BY <1>3, <1>4 DEF op_ftruncate, op_read, op_write

\* mkdir, mknod, unlink and rmdir leak no handle.
LEMMA PathKeeps ==
  ASSUME NoHandleLeak, NEW p \in Paths, p # <<>>,
         op_mkdir(p) \/ op_mknod(p) \/ op_unlink(p) \/ op_rmdir(p)
  PROVE  NoHandleLeak'
<1>1. PICK t \in travel_path(p) :
        \/ Walked(p, t)
        \/ \E type \in {"FILE", "DIR"} : Create(t.dir, Last(p), type) \/ tfs_delete(t.dir, Last(p), type)
  BY Zenon DEF op_mkdir, op_mknod, op_unlink, op_rmdir, ByPath, Walked, tfs_create_dir, tfs_write_file,
               delete_file, delete_dir
<1>2. t.dir \in Dirs /\ Last(p) \in Names
  BY PathNames, TravelType DEF NoHandleLeak, Spots
<1> QED BY <1>1, <1>2, WalkedKeeps, CreateKeeps, DeleteKeeps

\* rename leaks no handle.
LEMMA RenameRequest ==
  ASSUME NoHandleLeak, NEW p \in Paths, NEW to \in Paths, to # <<>>, op_rename(p, to)
  PROVE  NoHandleLeak'
<1>1. PICK t \in travel_path(p) :
        \/ Walked(p, t)
        \/ tfs_rename(t.dir, Last(p), Last(to)) /\ current_dir' = t.dir
  BY Zenon DEF op_rename, ByPath, Walked
<1>2. t.dir \in Dirs /\ Last(to) \in Names
  BY PathNames, TravelType DEF NoHandleLeak, Spots
<1> QED BY <1>1, <1>2, WalkedKeeps, RenameKeeps

\* getattr and readdir leak no handle.
LEMMA LookKeeps ==
  ASSUME NoHandleLeak, NEW p \in Paths, op_getattr(p) \/ op_readdir(p)
  PROVE  NoHandleLeak'
<1>0. tree \in [Ids -> Nodes] /\ place \in [Ids -> Places] /\ spoiled \subseteq Hazards
      /\ current_dir \in Dirs /\ tfs_last_error \in Codes
  BY TypeIs DEF NoHandleLeak
<1>1. ASSUME NEW t \in travel_path(p) PROVE t.dir \in Dirs /\ t.err \in Codes
  BY <1>1, PathNames, TravelType DEF NoHandleLeak, Spots
<1>2. CASE op_getattr(p)
  <2>1. CASE p = <<>>
    BY <1>0, <1>2, <2>1, Quiet DEF op_getattr
  <2>2. CASE p # <<>>
    <3>1. PICK t \in travel_path(p) : Walked(p, t) \/ tfs_stat(t.dir, Last(p))
      BY <1>2, <2>2, Zenon DEF op_getattr, ByPath, Walked
    <3>2. CASE tfs_stat(t.dir, Last(p))
      <4>1. current_dir' \in Dirs /\ tfs_last_error' \in Codes /\ UNCHANGED <<tree, place, usage, held, spoiled>>
        BY <1>1, <3>2, CodesIn DEF tfs_stat, Failed, check_error
      <4> QED BY <1>0, <4>1, Quiet
    <3> QED BY <3>1, <3>2, WalkedKeeps
  <2> QED BY <2>1, <2>2
<1>3. CASE op_readdir(p)
  <2>1. CASE p = <<>>
    <3>1. PICK t \in travel_path(p) : Walked(p, t) \/ tfs_read_dir(t.dir)
      BY <1>3, <2>1, Zenon DEF op_readdir, Walked
    <3> QED BY <1>1, <3>1, WalkedKeeps, ReadDirKeeps
  <2>2. CASE p # <<>>
    <3>1. PICK t \in travel_path(p) : Walked(p, t) \/ enter_and_read(t.dir, Last(p))
      BY <1>3, <2>2, Zenon DEF op_readdir, ByPath, Walked
    <3>2. CASE enter_and_read(t.dir, Last(p))
      <4>1. \/ (Failed("IO") \/ Failed("NOT_EXIST")) /\ current_dir' = t.dir
            \/ \E id \in Ids : tfs_read_dir(id)
        BY <3>2 DEF enter_and_read, ItemOf, Item
      <4>2. Ids \subseteq Dirs
        BY DEF Dirs
      <4> QED BY <1>1, <4>1, <4>2, CodesIn, Fails, ReadDirKeeps
    <3> QED BY <3>1, <3>2, WalkedKeeps
  <2> QED BY <2>1, <2>2
<1> QED BY <1>2, <1>3

\* Nothing is open when the file system is mounted.
LEMMA NoHandleLeakInit ==
  ASSUME Init
  PROVE  NoHandleLeak
<1>1. FreeItem \in Nodes
  BY FuseAssumption DEF FreeItem, Nodes, Dirs
<1>2. tree \in [Ids -> Nodes] /\ current_dir \in Dirs /\ held \in [Places \cup {BadFd} -> Nat]
  BY <1>1 DEF Init, Dirs
<1>4. 0 \in Counts
  BY FuseAssumption DEF Counts
<1>5. usage \in [Places -> Counts] /\ place \in [Ids -> Places] /\ spoiled \subseteq Hazards
  BY <1>4, PlacesAre DEF Init
<1>3. TypeOK
  BY <1>2, <1>5, CodesIn, TypeIs DEF Init
<1> QED BY <1>3, PlacesAre DEF Init, NoHandleLeak

\* No request leaks a handle.
LEMMA NoHandleLeakStep ==
  ASSUME NoHandleLeak, [Next]_vars
  PROVE  NoHandleLeak'
<1>1. CASE UNCHANGED vars
  BY <1>1, Quiet, TypeIs DEF vars, NoHandleLeak
<1>2. CASE op_statfs
  <2>1. UNCHANGED <<tree, place, usage, held, spoiled, current_dir>> /\ tfs_last_error' \in Codes
    BY <1>2, CodesIn DEF op_statfs, check_error
  <2> QED BY <2>1, Quiet, TypeIs DEF NoHandleLeak
<1>3. CASE Next /\ ~op_statfs
  BY <1>3, LookKeeps, PathKeeps, OpenKeeps, TruncateKeeps, RenameRequest, FdKeeps DEF Next
<1> QED BY <1>1, <1>2, <1>3

\* Every user that a handle counts is a descriptor of the kernel, whatever calls fail and
\* wherever items move, until a count has come to UsageMod; the walks and the items keep
\* their types.
THEOREM NoHandleLeaks == Spec => []NoHandleLeak
<1>1. Init => NoHandleLeak
  BY NoHandleLeakInit
<1>2. NoHandleLeak /\ [Next]_vars => NoHandleLeak'
  BY NoHandleLeakStep
<1> QED BY <1>1, <1>2, PTL DEF Spec

-----------------------------------------------------------------------------
(* Paths as rows of names.                                                 *)

\* A row with one more name.
LEMMA Appended ==
  ASSUME NEW S, NEW s \in Seq(S), NEW x \in S
  PROVE  /\ Append(s, x) \in Seq(S) /\ Append(s, x) # <<>>
         /\ Len(Append(s, x)) = Len(s) + 1
         /\ \A i \in 1 .. Len(s) : Append(s, x)[i] = s[i]
         /\ Append(s, x)[Len(s) + 1] = x
         /\ Front(Append(s, x)) = s /\ Last(Append(s, x)) = x
<1> DEFINE t == Append(s, x)
<1>1. /\ t \in Seq(S) /\ t # <<>> /\ Len(t) = Len(s) + 1
      /\ \A i \in 1 .. Len(s) : t[i] = s[i]
      /\ t[Len(s) + 1] = x
  BY AppendProperties
<1> HIDE DEF t
<1>2. Len(s) \in Nat /\ Len(t) - 1 = Len(s)
  BY <1>1
<1>3. SubSeq(t, 1, Len(s)) = s
  <2>1. /\ SubSeq(t, 1, Len(s)) \in Seq(S) /\ Len(SubSeq(t, 1, Len(s))) = Len(s)
        /\ \A i \in 1 .. Len(s) : SubSeq(t, 1, Len(s))[i] = t[i]
    BY <1>1, <1>2
  <2> QED BY <1>1, <2>1, SeqEqual
<1> QED BY <1>1, <1>2, <1>3 DEF Front, Last, t

\* The first n names of a row.
LEMMA FirstNames ==
  ASSUME NEW S, NEW s \in Seq(S), NEW n \in 0 .. Len(s)
  PROVE  /\ SubSeq(s, 1, n) \in Seq(S) /\ Len(SubSeq(s, 1, n)) = n
         /\ \A i \in 1 .. n : SubSeq(s, 1, n)[i] = s[i]
<1>1. n \in Nat /\ n <= Len(s)
  OBVIOUS
<1> QED BY <1>1

\* A row is its front and its last name.
LEMMA FrontLast ==
  ASSUME NEW S, NEW s \in Seq(S), s # <<>>
  PROVE  /\ Len(s) \in Nat \ {0} /\ Front(s) \in Seq(S) /\ Len(Front(s)) = Len(s) - 1 /\ Last(s) \in S
         /\ \A i \in 1 .. Len(s) - 1 : Front(s)[i] = s[i]
         /\ s = Append(Front(s), Last(s))
<1>1. Len(s) \in Nat /\ Len(s) # 0
  BY EmptySeq
<1>2. Len(s) - 1 \in Nat /\ Len(s) - 1 <= Len(s) /\ Len(s) \in 1 .. Len(s)
  BY <1>1
<1> DEFINE f == Front(s)
<1>3. f \in Seq(S) /\ Len(f) = Len(s) - 1 /\ \A i \in 1 .. Len(s) - 1 : f[i] = s[i]
  <2>1. Len(s) - 1 \in 0 .. Len(s)
    BY <1>1, <1>2
  <2> QED BY <2>1, FirstNames DEF Front
<1>4. Last(s) = s[Len(s)] /\ Last(s) \in S
  BY <1>2 DEF Last
<1> HIDE DEF f
<1>5. s = Append(f, Last(s))
  <2> DEFINE t == Append(f, Last(s))
  <2>1. /\ t \in Seq(S) /\ Len(t) = Len(s) /\ \A i \in 1 .. Len(s) - 1 : t[i] = f[i]
        /\ t[Len(s)] = Last(s)
    <3>1. Len(f) + 1 = Len(s)
      BY <1>1, <1>3
    <3> QED BY <1>3, <1>4, <3>1, Appended
  <2> HIDE DEF t
  <2>2. \A i \in 1 .. Len(s) : s[i] = t[i]
    <3> TAKE i \in 1 .. Len(s)
    <3>1. CASE i = Len(s)
      BY <1>4, <2>1, <3>1
    <3>2. CASE i # Len(s)
      <4>1. i \in 1 .. Len(s) - 1
        BY <1>1, <3>2
      <4> QED BY <1>3, <2>1, <4>1
    <3> QED BY <3>1, <3>2
  <2>3. s = t
    BY <2>1, <2>2, SeqEqual
  <2> QED BY <2>3 DEF t
<1> QED BY <1>1, <1>3, <1>4, <1>5 DEF f

\* One name more.
LEMMA OneMoreName ==
  ASSUME NEW S, NEW s \in Seq(S), NEW n \in 0 .. Len(s) - 1
  PROVE  SubSeq(s, 1, n + 1) = Append(SubSeq(s, 1, n), s[n + 1])
<1>1. n \in 0 .. Len(s) /\ n + 1 \in 0 .. Len(s) /\ n + 1 \in 1 .. Len(s) /\ n \in Nat
  OBVIOUS
<1>2. s[n + 1] \in S
  BY <1>1
<1> DEFINE a == SubSeq(s, 1, n)
           b == SubSeq(s, 1, n + 1)
<1>3. a \in Seq(S) /\ Len(a) = n /\ \A i \in 1 .. n : a[i] = s[i]
  BY <1>1, FirstNames
<1>4. b \in Seq(S) /\ Len(b) = n + 1 /\ \A i \in 1 .. n + 1 : b[i] = s[i]
  BY <1>1, FirstNames
<1> HIDE DEF a, b
<1> DEFINE c == Append(a, s[n + 1])
<1>5. c \in Seq(S) /\ Len(c) = n + 1 /\ (\A i \in 1 .. n : c[i] = a[i]) /\ c[n + 1] = s[n + 1]
  BY <1>2, <1>3, Appended
<1> HIDE DEF c
<1>6. \A i \in 1 .. n + 1 : b[i] = c[i]
  <2> TAKE i \in 1 .. n + 1
  <2>1. i = n + 1 \/ i \in 1 .. n
    BY <1>1
  <2> QED BY <1>3, <1>4, <1>5, <2>1
<1>7. b = c
  BY <1>4, <1>5, <1>6, SeqEqual
<1> QED BY <1>7 DEF a, b, c

\* All names, none, and all but the last.
LEMMA SomeNames ==
  ASSUME NEW S, NEW s \in Seq(S)
  PROVE  /\ SubSeq(s, 1, Len(s)) = s /\ SubSeq(s, 1, 0) = <<>>
         /\ Front(s) = SubSeq(s, 1, Len(s) - 1)
<1>1. Len(s) \in 0 .. Len(s) /\ 0 \in 0 .. Len(s) /\ Len(s) \in Nat
  OBVIOUS
<1>2. SubSeq(s, 1, Len(s)) = s
  <2> DEFINE t == SubSeq(s, 1, Len(s))
  <2>1. t \in Seq(S) /\ Len(t) = Len(s) /\ \A i \in 1 .. Len(s) : t[i] = s[i]
    BY <1>1, FirstNames
  <2> HIDE DEF t
  <2>2. t = s
    BY <2>1, SeqEqual
  <2> QED BY <2>2 DEF t
<1>3. SubSeq(s, 1, 0) = <<>>
  <2> DEFINE t == SubSeq(s, 1, 0)
  <2>1. t \in Seq(S) /\ Len(t) = 0
    BY <1>1, FirstNames
  <2> HIDE DEF t
  <2>2. t = <<>>
    BY <2>1, EmptySeq
  <2> QED BY <2>2 DEF t
<1> QED BY <1>2, <1>3 DEF Front

\* The first names of the first names.
LEMMA FirstOfFirst ==
  ASSUME NEW S, NEW s \in Seq(S), NEW n \in 0 .. Len(s), NEW m \in 0 .. n
  PROVE  SubSeq(SubSeq(s, 1, n), 1, m) = SubSeq(s, 1, m)
<1>1. m \in 0 .. Len(s) /\ n \in Nat /\ m \in Nat /\ Len(s) \in Nat
  OBVIOUS
<1> DEFINE a == SubSeq(s, 1, n)
           b == SubSeq(s, 1, m)
           c == SubSeq(a, 1, m)
<1>2. a \in Seq(S) /\ Len(a) = n /\ \A i \in 1 .. n : a[i] = s[i]
  BY FirstNames
<1>3. b \in Seq(S) /\ Len(b) = m /\ \A i \in 1 .. m : b[i] = s[i]
  BY <1>1, FirstNames
<1> HIDE DEF a, b
<1>4. c \in Seq(S) /\ Len(c) = m /\ \A i \in 1 .. m : c[i] = a[i]
  BY <1>2, FirstNames
<1> HIDE DEF c
<1>5. \A i \in 1 .. m : b[i] = c[i]
  <2> TAKE i \in 1 .. m
  <2>1. i \in 1 .. n
    BY <1>1
  <2> QED BY <1>2, <1>3, <1>4, <2>1
<1>6. b = c
  BY <1>3, <1>4, <1>5, SeqEqual
<1> QED BY <1>6 DEF a, b, c

-----------------------------------------------------------------------------
(* The tree: items, their directories and their paths.                     *)

\* P: the path of every item.
Up(P, d) == IF d = ROOT THEN <<>> ELSE P[d]
PathsAre(tr, P) ==
  P \in [Ids -> Seq(Names)] /\ \A i \in Ids : P[i] = Append(Up(P, tr[i].dir), tr[i].name)

Ex(tr) == {i \in Ids : tr[i].type # "FREE"}
IsDirId(tr, d) == d = ROOT \/ (d \in Ids /\ tr[d].type = "DIR")

Fine(tr) ==
  /\ tr \in [Ids -> Nodes]
  /\ \A i \in Ids : tr[i].type = "FREE" => tr[i].dir = ROOT
  /\ \A i \in Ex(tr) : IsDirId(tr, tr[i].dir) /\ ~Long(tr[i].name)
  /\ \A i, j \in Ex(tr) : tr[i].dir = tr[j].dir /\ tr[i].name = tr[j].name => i = j

TreeOk(tr, P) == Fine(tr) /\ PathsAre(tr, P)

\* Items have other numbers than the root directory.
LEMMA IdsAre == Ids \subseteq Nat \ {0} /\ ROOT \notin Ids
  BY FuseAssumption DEF ROOT

\* The path of an item is that of its directory and its name.
LEMMA PathIs ==
  ASSUME NEW tr, NEW P, TreeOk(tr, P), NEW i \in Ids
  PROVE  /\ P[i] \in Seq(Names) /\ P[i] # <<>> /\ tr[i].name \in Names /\ tr[i].dir \in Dirs
         /\ P[i] = Append(Up(P, tr[i].dir), tr[i].name)
         /\ Up(P, tr[i].dir) \in Seq(Names) /\ Len(P[i]) = Len(Up(P, tr[i].dir)) + 1
         /\ Front(P[i]) = Up(P, tr[i].dir) /\ Last(P[i]) = tr[i].name
         /\ Up(P, i) = P[i]
<1>1. tr[i].name \in Names /\ tr[i].dir \in Dirs
  BY DEF TreeOk, Fine, Nodes
<1>2. P \in [Ids -> Seq(Names)] /\ P[i] = Append(Up(P, tr[i].dir), tr[i].name)
  BY DEF TreeOk, PathsAre
<1>3. Up(P, tr[i].dir) \in Seq(Names)
  <2>1. <<>> \in Seq(Names)
    OBVIOUS
  <2> QED BY <1>1, <1>2, <2>1 DEF Up, Dirs
<1>4. Up(P, i) = P[i]
  BY IdsAre DEF Up
<1> DEFINE u == Up(P, tr[i].dir)
<1> HIDE DEF u
<1>5. /\ Append(u, tr[i].name) # <<>> /\ Len(Append(u, tr[i].name)) = Len(u) + 1
      /\ Front(Append(u, tr[i].name)) = u /\ Last(Append(u, tr[i].name)) = tr[i].name
  BY <1>1, <1>3, Appended DEF u
<1> QED BY <1>1, <1>2, <1>3, <1>4, <1>5 DEF u

\* The paths of directories.
LEMMA UpIs ==
  ASSUME NEW tr, NEW P, TreeOk(tr, P), NEW d \in Dirs
  PROVE  /\ Up(P, d) \in Seq(Names)
         /\ d = ROOT <=> Up(P, d) = <<>>
         /\ d # ROOT => d \in Ids /\ Up(P, d) = P[d]
<1>1. CASE d = ROOT
  BY <1>1 DEF Up
<1>2. CASE d # ROOT
  <2>1. d \in Ids
    BY <1>2 DEF Dirs
  <2> QED BY <1>2, <2>1, PathIs
<1> QED BY <1>1, <1>2

\* What the recursive function of PathOf chooses.
UpFun(tr) == CHOOSE g : g = [i \in Ids |-> IF tr[i].dir = ROOT THEN <<tr[i].name>>
                                           ELSE Append(g[tr[i].dir], tr[i].name)]

\* There is one such function only.
LEMMA UpFunIs ==
  ASSUME NEW tr, NEW P, TreeOk(tr, P), NEW id \in Ids
  PROVE  UpFun(tr)[id] = P[id]
<1> DEFINE G(g) == [i \in Ids |-> IF tr[i].dir = ROOT THEN <<tr[i].name>>
                                  ELSE Append(g[tr[i].dir], tr[i].name)]
           f == UpFun(tr)
<1>1. P = G(P)
  <2>1. P \in [Ids -> Seq(Names)]
    BY DEF TreeOk, PathsAre
  <2>2. \A i \in Ids : P[i] = G(P)[i]
    <3> TAKE i \in Ids
    <3>1. P[i] = Append(Up(P, tr[i].dir), tr[i].name)
      BY PathIs
    <3> QED BY <3>1 DEF Up
  <2> HIDE DEF G
  <2>3. G(P) = [i \in Ids |-> G(P)[i]]
    BY DEF G
  <2> QED BY <2>1, <2>2, <2>3
<1>2. f = G(f)
  <2> HIDE DEF G
  <2>1. f = CHOOSE g : g = G(g)
    BY DEF UpFun, G
  <2> QED BY <1>1, <2>1
<1> HIDE DEF f
<1>3. \A i \in Ids : f[i] = IF tr[i].dir = ROOT THEN <<tr[i].name>>
                            ELSE Append(f[tr[i].dir], tr[i].name)
  BY <1>2
<1> DEFINE Bad == {n \in Nat : \E i \in Ids : Len(P[i]) = n /\ f[i] # P[i]}
<1>4. Bad = {}
  <2> SUFFICES ASSUME Bad # {} PROVE FALSE
    OBVIOUS
  <2>1. PICK n \in Bad : \A m \in Bad : n <= m
    <3>1. Bad \in SUBSET Nat
      OBVIOUS
    <3> HIDE DEF Bad
    <3> QED BY <3>1, LeastNumber
  <2>2. PICK i \in Ids : Len(P[i]) = n /\ f[i] # P[i]
    OBVIOUS
  <2>3. P[i] = Append(Up(P, tr[i].dir), tr[i].name) /\ tr[i].dir \in Dirs
        /\ Len(P[i]) = Len(Up(P, tr[i].dir)) + 1 /\ Up(P, tr[i].dir) \in Seq(Names)
    BY PathIs
  <2>4. CASE tr[i].dir = ROOT
    <3>1. P[i] = Append(<<>>, tr[i].name)
      BY <2>3, <2>4 DEF Up
    <3>2. tr[i].name \in Names
      BY PathIs
    <3>3. Append(<<>>, tr[i].name) = <<tr[i].name>>
      BY <3>2
    <3> QED BY <1>3, <2>2, <2>4, <3>1, <3>3
  <2>5. CASE tr[i].dir # ROOT
    <3>1. tr[i].dir \in Ids /\ Up(P, tr[i].dir) = P[tr[i].dir]
      BY <2>3, <2>5 DEF Up, Dirs
    <3>2. Len(P[tr[i].dir]) \in Nat /\ ~(n <= Len(P[tr[i].dir]))
      BY <2>2, <2>3, <3>1
    <3>3. f[tr[i].dir] = P[tr[i].dir]
      BY <2>1, <3>1, <3>2
    <3> QED BY <1>3, <2>2, <2>3, <2>5, <3>1, <3>3
  <2> QED BY <2>4, <2>5
<1>5. Len(P[id]) \in Nat
  BY PathIs
<1> QED BY <1>4, <1>5 DEF f

\* PathOf of an item is the path it has by its directories.
LEMMA PathOfIs ==
  ASSUME NEW P, TreeOk(tree, P), NEW id \in Ids
  PROVE  PathOf(id) = P[id]
<1>1. PathOf(id) = UpFun(tree)[id]
  BY IdsAre DEF PathOf, UpFun
<1> QED BY <1>1, UpFunIs

\* The same after a request, for the items there are then.
LEMMA PathOfIsNext ==
  ASSUME NEW P, TreeOk(tree', P), NEW id \in Ids
  PROVE  PathOf(id)' = P[id]
<1>1. PathOf(id)' = UpFun(tree')[id]
  BY IdsAre DEF PathOf, UpFun
<1> QED BY <1>1, UpFunIs

\* Items that are there have different paths.
LEMMA PathsDiffer ==
  ASSUME NEW tr, NEW P, TreeOk(tr, P), NEW a \in Ex(tr), NEW b \in Ex(tr), P[a] = P[b]
  PROVE  a = b
<1> DEFINE Bad == {n \in Nat : \E i, j \in Ex(tr) : P[i] = P[j] /\ i # j /\ Len(P[i]) = n}
<1>0. Ex(tr) \subseteq Ids
  BY DEF Ex
<1>1. Bad = {}
  <2> SUFFICES ASSUME Bad # {} PROVE FALSE
    OBVIOUS
  <2>1. PICK n \in Bad : \A m \in Bad : n <= m
    <3>1. Bad \in SUBSET Nat
      OBVIOUS
    <3> HIDE DEF Bad
    <3> QED BY <3>1, LeastNumber
  <2>2. PICK i \in Ex(tr), j \in Ex(tr) : P[i] = P[j] /\ i # j /\ Len(P[i]) = n
    OBVIOUS
  <2>3. i \in Ids /\ j \in Ids
    BY <1>0
  <2> DEFINE d == tr[i].dir
             e == tr[j].dir
  <2>4. /\ Up(P, d) = Up(P, e) /\ tr[i].name = tr[j].name
        /\ d \in Dirs /\ e \in Dirs
        /\ Len(P[i]) = Len(Up(P, d)) + 1 /\ Up(P, d) \in Seq(Names)
    BY <2>2, <2>3, PathIs
  <2>5. IsDirId(tr, d) /\ IsDirId(tr, e)
    BY <2>2 DEF TreeOk, Fine
  <2>6. d = e
    <3>1. CASE d = ROOT \/ e = ROOT
      BY <2>4, <3>1, UpIs
    <3>2. CASE d # ROOT /\ e # ROOT
      <4>1. d \in Ex(tr) /\ e \in Ex(tr) /\ Up(P, d) = P[d] /\ Up(P, e) = P[e]
        BY <2>4, <2>5, <3>2, UpIs DEF IsDirId, Ex
      <4>2. Len(P[d]) \in Nat /\ ~(n <= Len(P[d])) /\ P[d] = P[e]
        <5>1. n = Len(Up(P, d)) + 1 /\ Len(Up(P, d)) \in Nat
          BY <2>2, <2>4
        <5>2. Up(P, d) = P[d] /\ Up(P, e) = P[e]
          BY <4>1
        <5>3. n = Len(P[d]) + 1 /\ Len(P[d]) \in Nat
          BY <5>1, <5>2
        <5>4. P[d] = P[e]
          BY <2>4, <5>2
        <5>5. ~(n <= Len(P[d]))
          BY <5>3
        <5> QED BY <5>3, <5>4, <5>5
      <4>3. Len(P[d]) \notin Bad
        BY <2>1, <4>2
      <4> QED BY <4>1, <4>2, <4>3
    <3> QED BY <3>1, <3>2
  <2> QED BY <2>2, <2>4, <2>6 DEF TreeOk, Fine
<1>2. Len(P[a]) \in Nat
  BY <1>0, PathIs
<1> QED BY <1>1, <1>2

\* Directories, too.
LEMMA DirsDiffer ==
  ASSUME NEW tr, NEW P, TreeOk(tr, P), NEW d, NEW e, IsDirId(tr, d), IsDirId(tr, e), Up(P, d) = Up(P, e)
  PROVE  d = e
<1>1. d \in Dirs /\ e \in Dirs
  BY DEF IsDirId, Dirs
<1>2. CASE d = ROOT \/ e = ROOT
  BY <1>1, <1>2, UpIs
<1>3. CASE d # ROOT /\ e # ROOT
  <2>1. d \in Ex(tr) /\ e \in Ex(tr) /\ Up(P, d) = P[d] /\ Up(P, e) = P[e]
    BY <1>1, <1>3, UpIs DEF IsDirId, Ex
  <2> QED BY <2>1, PathsDiffer
<1> QED BY <1>2, <1>3

\* The item with a path is in the directory of that path, under its last name.
LEMMA ItemAt ==
  ASSUME NEW P, TreeOk(tree, P), NEW d, IsDirId(tree, d), NEW p \in Seq(Names), p # <<>>,
         Up(P, d) = Front(p), ~Long(Last(p))
  PROVE  Item(d, Last(p)) = {i \in Ex(tree) : P[i] = p}
<1>0. Ex(tree) \subseteq Ids
  BY DEF Ex
<1>1. Cut[Last(p)] = Last(p)
  BY DEF Long
<1>2. p = Append(Front(p), Last(p))
  BY FrontLast
<1>3. ASSUME NEW i \in Item(d, Last(p)) PROVE i \in Ex(tree) /\ P[i] = p
  <2>1. i \in Ex(tree) /\ i \in Ids /\ tree[i].dir = d /\ tree[i].name = Last(p)
    BY <1>1 DEF Item, Ex
  <2>2. P[i] = Append(Up(P, tree[i].dir), tree[i].name)
    BY <2>1, PathIs
  <2> QED BY <1>2, <2>1, <2>2
<1>4. ASSUME NEW i \in Ex(tree), P[i] = p PROVE i \in Item(d, Last(p))
  <2>1. i \in Ids /\ tree[i].type # "FREE"
    BY <1>0 DEF Ex
  <2>2. Up(P, tree[i].dir) = Front(p) /\ tree[i].name = Last(p)
    BY <1>4, <2>1, PathIs
  <2>3. IsDirId(tree, tree[i].dir)
    BY DEF TreeOk, Fine
  <2>4. tree[i].dir = d
    BY <2>2, <2>3, DirsDiffer
  <2> QED BY <1>1, <2>1, <2>2, <2>4 DEF Item
<1> QED BY <1>3, <1>4

\* The paths above that of an item are those of items.
LEMMA AllAbove ==
  ASSUME NEW tr, NEW P, TreeOk(tr, P), NEW a \in Ex(tr), NEW m \in 1 .. Len(P[a])
  PROVE  \E i \in Ex(tr) : P[i] = SubSeq(P[a], 1, m)
<1>0. Ex(tr) \subseteq Ids
  BY DEF Ex
<1> DEFINE Good(i) == m \in 1 .. Len(P[i]) => \E j \in Ex(tr) : P[j] = SubSeq(P[i], 1, m)
           Bad == {n \in Nat : \E i \in Ex(tr) : Len(P[i]) = n /\ ~Good(i)}
<1>1. Bad = {}
  <2> SUFFICES ASSUME Bad # {} PROVE FALSE
    OBVIOUS
  <2>1. PICK n \in Bad : \A k \in Bad : n <= k
    <3>1. Bad \in SUBSET Nat
      OBVIOUS
    <3> HIDE DEF Bad
    <3> QED BY <3>1, LeastNumber
  <2>2. PICK i \in Ex(tr) : Len(P[i]) = n /\ ~Good(i)
    OBVIOUS
  <2>3. m \in 1 .. Len(P[i]) /\ ~\E j \in Ex(tr) : P[j] = SubSeq(P[i], 1, m)
    BY <2>2
  <2> DEFINE d == tr[i].dir
             u == Up(P, d)
  <2>4. /\ P[i] \in Seq(Names) /\ u \in Seq(Names) /\ Len(P[i]) = Len(u) + 1
        /\ Front(P[i]) = u /\ d \in Dirs
    BY <1>0, PathIs
  <2>5. m # Len(P[i])
    BY <2>3, <2>4, SomeNames
  <2>6. Len(u) \in Nat /\ m \in 1 .. Len(u) /\ Len(P[i]) - 1 = Len(u)
    BY <2>3, <2>4, <2>5
  <2>7. d # ROOT
    <3>1. u # <<>>
      BY <2>6
    <3> QED BY <2>4, <3>1, UpIs
  <2>8. d \in Ex(tr) /\ u = P[d]
    <3>1. IsDirId(tr, d)
      BY DEF TreeOk, Fine
    <3> QED BY <2>4, <2>7, <3>1, UpIs DEF IsDirId, Ex
  <2>9. SubSeq(u, 1, m) = SubSeq(P[i], 1, m)
    <3>1. u = SubSeq(P[i], 1, Len(u))
      BY <2>4, <2>6, SomeNames
    <3>2. Len(u) \in 0 .. Len(P[i]) /\ m \in 0 .. Len(u)
      BY <2>4, <2>6
    <3>3. SubSeq(SubSeq(P[i], 1, Len(u)), 1, m) = SubSeq(P[i], 1, m)
      BY <2>4, <3>2, FirstOfFirst
    <3> QED BY <3>1, <3>3
  <2>10. ~Good(d)
    BY <2>3, <2>6, <2>8, <2>9
  <2>11. Len(P[d]) \in Nat /\ ~(n <= Len(P[d]))
    BY <2>2, <2>4, <2>6, <2>8
  <2> HIDE DEF Good, d
  <2> QED BY <2>1, <2>8, <2>10, <2>11
<1>2. Len(P[a]) \in Nat
  BY <1>0, PathIs
<1>3. Good(a)
  <2> HIDE DEF Good
  <2> QED BY <1>1, <1>2
<1> QED BY <1>3

\* How far a walk along q has come: it has not begun with an error left from before, or it is in the
\* directory q, or there is none.
Reached(P, t, q) ==
  /\ tfs_last_error # "OK" => t.err = tfs_last_error
  /\ tfs_last_error = "OK" => \/ t.err = "OK" /\ IsDirId(tree, t.dir) /\ Up(P, t.dir) = q
                              \/ t.err = "NOT_EXIST" /\ \A d \in Dirs : IsDirId(tree, d) => Up(P, d) # q

\* Entering a name of the path: one more name of it is walked, or the walk has failed and
\* says why.
LEMMA EnterReaches ==
  ASSUME NEW P, TreeOk(tree, P), NEW q \in Seq(Names), NEW n \in Names, NEW t \in Spots, Reached(P, t, q)
  PROVE  Reached(P, Enter(t, n), Append(q, n))
<1> DEFINE sub == ItemOf(t.dir, n, {"DIR"})
           r == Append(q, n)
<1>1. r \in Seq(Names) /\ r # <<>> /\ Front(r) = q /\ Last(r) = n
  BY Appended
<1> HIDE DEF r
\* A directory r is in q.
<1>2. ASSUME NEW d \in Dirs, IsDirId(tree, d), Up(P, d) = r
      PROVE  d \in Ex(tree) /\ P[d] = r /\ IsDirId(tree, tree[d].dir) /\ tree[d].dir \in Dirs
             /\ Up(P, tree[d].dir) = q /\ tree[d].type = "DIR"
  <2>1. d # ROOT
    BY <1>1, <1>2, UpIs
  <2>2. d \in Ids /\ P[d] = r /\ tree[d].type = "DIR"
    BY <1>2, <2>1, UpIs DEF IsDirId
  <2>3. d \in Ex(tree)
    BY <2>2 DEF Ex
  <2>4. Up(P, tree[d].dir) = q /\ tree[d].dir \in Dirs
    BY <1>1, <2>2, PathIs
  <2>5. IsDirId(tree, tree[d].dir)
    BY <2>3 DEF TreeOk, Fine
  <2> QED BY <2>2, <2>3, <2>4, <2>5
<1>3. CASE tfs_last_error # "OK"
  <2>1. t.err = tfs_last_error
    BY <1>3 DEF Reached
  <2>2. Enter(t, n) = t
    BY <1>3, <2>1 DEF Enter
  <2> QED BY <1>3, <2>1, <2>2 DEF Reached
<1>4. CASE tfs_last_error = "OK" /\ t.err # "OK"
  <2>1. Enter(t, n) = t
    BY <1>4 DEF Enter
  <2>2. t.err = "NOT_EXIST" /\ \A d \in Dirs : IsDirId(tree, d) => Up(P, d) # q
    BY <1>4 DEF Reached
  <2>3. \A d \in Dirs : IsDirId(tree, d) => Up(P, d) # r
    BY <1>2, <2>2
  <2> QED BY <1>4, <2>1, <2>2, <2>3 DEF Reached, r
<1>5. CASE tfs_last_error = "OK" /\ t.err = "OK"
  <2>1. IsDirId(tree, t.dir) /\ Up(P, t.dir) = q
    BY <1>5 DEF Reached
  <2>2. CASE Long(n) \/ sub = {}
    <3>1. Enter(t, n) = [t EXCEPT !.err = "NOT_EXIST"]
      BY <1>5, <2>2 DEF Enter
    <3>2. Enter(t, n).err = "NOT_EXIST"
      BY <3>1 DEF Spots
    <3>3. ASSUME NEW d \in Dirs, IsDirId(tree, d), Up(P, d) = r PROVE FALSE
      <4>1. d \in Ex(tree) /\ P[d] = r /\ ~Long(tree[d].name) /\ d \in Ids
        BY <1>2, <3>3 DEF TreeOk, Fine, Ex
      <4>2. tree[d].name = n
        BY <1>1, <4>1, PathIs
      <4>3. Item(t.dir, n) = {i \in Ex(tree) : P[i] = r}
        BY <1>1, <2>1, <4>1, <4>2, ItemAt
      <4>4. d \in sub
        BY <1>2, <3>3, <4>1, <4>3 DEF ItemOf
      <4> QED BY <2>2, <4>1, <4>2, <4>4
    <3> QED BY <1>5, <3>2, <3>3 DEF Reached, r
  <2>3. CASE ~Long(n) /\ sub # {}
    <3> DEFINE d == CHOOSE id \in sub : TRUE
    <3>1. d \in sub
      BY <2>3
    <3>2. Enter(t, n) = [t EXCEPT !.dir = d]
      BY <1>5, <2>3 DEF Enter
    <3> HIDE DEF d
    <3>3. Enter(t, n).dir = d /\ Enter(t, n).err = "OK"
      BY <1>5, <3>2 DEF Spots
    <3>4. Item(t.dir, n) = {i \in Ex(tree) : P[i] = r}
      BY <1>1, <2>1, <2>3, ItemAt
    <3>5. d \in Ids /\ P[d] = r /\ tree[d].type = "DIR"
      BY <3>1, <3>4 DEF ItemOf, Item
    <3>6. IsDirId(tree, d) /\ Up(P, d) = r
      BY <3>5, PathIs DEF IsDirId
    <3> QED BY <1>5, <3>3, <3>6 DEF Reached, r
  <2> QED BY <2>2, <2>3
<1> QED BY <1>3, <1>4, <1>5

\* By induction over the names of a path: travel_path is in the directory of the names it has
\* walked, or it has failed for a reason.
LEMMA WalkReaches ==
  ASSUME TypeOK, NEW P, TreeOk(tree, P), NEW dirs \in Seq(Names)
  PROVE  \A n \in 0 .. Len(dirs) :
           Walk(dirs)[n] \in Spots /\ Reached(P, Walk(dirs)[n], SubSeq(dirs, 1, n))
<1> DEFINE w == Walk(dirs)
           L == Len(dirs)
           S == {n \in 0 .. L : w[n] \in Spots /\ Reached(P, w[n], SubSeq(dirs, 1, n))}
<1>0. L \in Nat
  OBVIOUS
<1>1. w[0] = [dir |-> Start, err |-> tfs_last_error]
      /\ \A n \in 0 .. L - 1 : w[n + 1] = Enter(w[n], dirs[n + 1])
  BY <1>0, WalkSteps
<1> HIDE DEF w
<1>2. 0 \in S
  <2>1. tfs_last_error \in Codes
    BY CodesAre DEF TypeOK
  <2>2. w[0] \in Spots /\ w[0].dir = ROOT /\ w[0].err = tfs_last_error
    BY <1>1, <2>1 DEF Spots, Dirs, Start
  <2>3. SubSeq(dirs, 1, 0) = <<>> /\ Up(P, ROOT) = <<>> /\ IsDirId(tree, ROOT)
    BY SomeNames DEF Up, IsDirId
  <2>4. Reached(P, w[0], SubSeq(dirs, 1, 0))
    BY <2>2, <2>3 DEF Reached
  <2> QED BY <1>0, <2>2, <2>4
<1>3. \A n \in 0 .. L - 1 : n \in S => n + 1 \in S
  <2> SUFFICES ASSUME NEW n \in 0 .. L - 1, n \in S PROVE n + 1 \in S
    OBVIOUS
  <2>1. n \in 0 .. L /\ n + 1 \in 0 .. L /\ n + 1 \in 1 .. L /\ dirs[n + 1] \in Names
    BY <1>0
  <2>2. SubSeq(dirs, 1, n) \in Seq(Names)
    BY <2>1, FirstNames
  <2>3. SubSeq(dirs, 1, n + 1) = Append(SubSeq(dirs, 1, n), dirs[n + 1])
    BY OneMoreName
  <2>4. w[n] \in Spots /\ Reached(P, w[n], SubSeq(dirs, 1, n))
    OBVIOUS
  <2>5. Enter(w[n], dirs[n + 1]) \in Spots
        /\ Reached(P, Enter(w[n], dirs[n + 1]), Append(SubSeq(dirs, 1, n), dirs[n + 1]))
    BY <2>1, <2>2, <2>4, EnterType, EnterReaches
  <2> QED BY <1>1, <2>1, <2>3, <2>5
<1>4. \A n \in 0 .. L : n \in S
  <2> HIDE DEF S, L
  <2> QED BY <1>0, <1>2, <1>3, UpTo
<1> QED BY <1>4 DEF w

\* Where travel_path arrives: in the directory of the path, without an error; or with one that the
\* path, an earlier request or the drive gives reason for.
LEMMA Travels ==
  ASSUME TypeOK, NEW P, TreeOk(tree, P), NEW p \in Seq(Names), NEW t \in travel_path(p)
  PROVE  /\ t \in Spots
         /\ t.err = "OK" => IsDirId(tree, t.dir) /\ Up(P, t.dir) = Front(p)
         /\ t.err # "OK" => \/ t.err = "IO"
                            \/ tfs_last_error # "OK" /\ t.err = tfs_last_error
                            \/ t.err = "NOT_EXIST" /\ p # <<>> /\ \A i \in Ex(tree) : P[i] # p
<1> DEFINE dirs == Front(p)
           w == Walk(dirs)
<1>0. t \in Spots
  BY TravelType
<1>1. dirs \in Seq(Names) /\ (p = <<>> => dirs = <<>>)
  <2>1. CASE p = <<>>
    <3>1. dirs = <<>>
      BY <2>1 DEF Front
    <3> QED BY <3>1
  <2>2. CASE p # <<>>
    BY <2>2, FrontLast
  <2> QED BY <2>1, <2>2
<1>2. t = w[Len(dirs)] \/ \E n \in 0 .. Len(dirs) - 1 : t = [w[n] EXCEPT !.err = "IO"]
  BY DEF travel_path
<1> HIDE DEF dirs
<1>3. Len(dirs) \in 0 .. Len(dirs) /\ Len(dirs) \in Nat /\ SubSeq(dirs, 1, Len(dirs)) = dirs
  BY <1>1, SomeNames
<1>4. \A n \in 0 .. Len(dirs) : w[n] \in Spots /\ Reached(P, w[n], SubSeq(dirs, 1, n))
  BY <1>1, WalkReaches
<1> HIDE DEF w
<1>5. CASE t = w[Len(dirs)]
  <2>1. Reached(P, t, dirs)
    BY <1>3, <1>4, <1>5
  <2>2. t.err = "OK" => IsDirId(tree, t.dir) /\ Up(P, t.dir) = dirs
    BY <2>1 DEF Reached
  <2>3. ASSUME t.err = "NOT_EXIST", tfs_last_error = "OK"
        PROVE  p # <<>> /\ \A i \in Ex(tree) : P[i] # p
    <3>1. \A d \in Dirs : IsDirId(tree, d) => Up(P, d) # dirs
      BY <2>1, <2>3 DEF Reached
    <3>2. p # <<>>
      <4>1. Up(P, ROOT) = <<>> /\ IsDirId(tree, ROOT) /\ ROOT \in Dirs
        BY DEF Up, IsDirId, Dirs
      <4> QED BY <1>1, <3>1, <4>1
    <3>3. ASSUME NEW i \in Ex(tree), P[i] = p PROVE FALSE
      <4>1. i \in Ids
        BY DEF Ex
      <4>2. tree[i].dir \in Dirs /\ Up(P, tree[i].dir) = dirs
        BY <3>3, <4>1, PathIs DEF dirs
      <4>3. IsDirId(tree, tree[i].dir)
        BY DEF TreeOk, Fine
      <4> QED BY <3>1, <4>2, <4>3
    <3> QED BY <3>2, <3>3
  <2>4. t.err # "OK" => \/ tfs_last_error # "OK" /\ t.err = tfs_last_error
                        \/ tfs_last_error = "OK" /\ t.err = "NOT_EXIST"
    BY <2>1 DEF Reached
  <2> QED BY <1>0, <2>2, <2>3, <2>4 DEF dirs
<1>6. ASSUME NEW n \in 0 .. Len(dirs) - 1, t = [w[n] EXCEPT !.err = "IO"]
      PROVE  t.err = "IO"
  <2>1. n \in 0 .. Len(dirs)
    BY <1>3
  <2>2. w[n] \in Spots
    BY <1>4, <2>1
  <2> QED BY <1>6, <2>2 DEF Spots
<1> QED BY <1>0, <1>2, <1>5, <1>6

\* What the paths name: g has the value that f has for the item.
IsNamed(g, tr, P, f) ==
  /\ g = [q \in {P[i] : i \in Ex(tr)} |-> g[q]]
  /\ \A i \in Ex(tr) : g[P[i]] = f[i]

\* A function by paths is what its values at the items make it.
LEMMA NamedOnce ==
  ASSUME NEW g, NEW h, NEW tr, NEW P, NEW f, IsNamed(g, tr, P, f), IsNamed(h, tr, P, f)
  PROVE  g = h
<1> DEFINE D == {P[i] : i \in Ex(tr)}
<1>1. \A q \in D : g[q] = h[q]
  BY DEF IsNamed
<1>2. g = [q \in D |-> g[q]] /\ h = [q \in D |-> h[q]]
  BY DEF IsNamed
<1> HIDE DEF D
<1> QED BY <1>1, <1>2

PathNodes  == ByName([id \in Ids |-> tree[id].type])
PathOpened == ByName(Users)

\* ByName gives a path the value of the one item that has it.
LEMMA ByNameIs ==
  ASSUME NEW P, TreeOk(tree, P), NEW f
  PROVE  IsNamed(ByName(f), tree, P, f)
<1> DEFINE g == ByName(f)
           C(p) == CHOOSE id \in Existing : PathOf(id) = p
<1>0. Existing = Ex(tree) /\ Ex(tree) \subseteq Ids
  BY DEF Existing, Ex
<1>1. \A i \in Existing : PathOf(i) = P[i]
  BY <1>0, PathOfIs
<1>2. g = [p \in {PathOf(id) : id \in Existing} |-> f[C(p)]]
  BY DEF ByName
<1>3. {PathOf(id) : id \in Existing} = {P[i] : i \in Ex(tree)}
  BY <1>0, <1>1
<1>4. ASSUME NEW i \in Ex(tree) PROVE C(P[i]) = i
  <2>1. i \in Existing /\ PathOf(i) = P[i]
    BY <1>0, <1>1
  <2>2. C(P[i]) \in Existing /\ PathOf(C(P[i])) = P[i]
    BY <2>1
  <2> HIDE DEF C
  <2>3. C(P[i]) \in Ex(tree) /\ P[C(P[i])] = P[i]
    BY <1>0, <1>1, <2>2
  <2> QED BY <2>3, PathsDiffer
<1> HIDE DEF C, g
<1>5. \A i \in Ex(tree) : g[P[i]] = f[i]
  BY <1>2, <1>3, <1>4
<1>6. g = [q \in {P[i] : i \in Ex(tree)} |-> g[q]]
  BY <1>2, <1>3
<1> QED BY <1>5, <1>6 DEF IsNamed, g

\* The two functions the promise speaks of, by paths: the types of the items, their users.
LEMMA NodesAre ==
  ASSUME NEW P, TreeOk(tree, P)
  PROVE  /\ IsNamed(PathNodes, tree, P, [id \in Ids |-> tree[id].type])
         /\ IsNamed(PathOpened, tree, P, Users)
BY ByNameIs DEF PathNodes, PathOpened

\* The same two functions after a request.
LEMMA NodesAreNext ==
  ASSUME NEW P, TreeOk(tree', P)
  PROVE  /\ IsNamed(PathNodes', tree', P, [id \in Ids |-> tree'[id].type])
         /\ IsNamed(PathOpened', tree', P, Users')
<1>0. Existing' = Ex(tree') /\ Ex(tree') \subseteq Ids
  BY DEF Existing, Ex
<1>1. \A i \in Existing' : PathOf(i)' = P[i]
  BY <1>0, PathOfIsNext
<1>3. {PathOf(id)' : id \in Existing'} = {P[i] : i \in Ex(tree')}
  BY <1>0, <1>1
<1>4. ASSUME NEW i \in Ex(tree') PROVE (CHOOSE id \in Existing' : PathOf(id)' = P[i]) = i
  <2>1. i \in Existing' /\ PathOf(i)' = P[i]
    BY <1>0, <1>1
  <2>2. PICK j : j = CHOOSE id \in Existing' : PathOf(id)' = P[i]
    OBVIOUS
  <2>3. j \in Existing' /\ PathOf(j)' = P[i]
    BY <2>1, <2>2
  <2>4. j \in Ex(tree') /\ P[j] = P[i]
    BY <1>0, <1>1, <2>3
  <2> QED BY <2>2, <2>4, PathsDiffer
<1>6. ASSUME NEW g, NEW f,
             g = [p \in {PathOf(id)' : id \in Existing'} |-> f[CHOOSE id \in Existing' : PathOf(id)' = p]]
      PROVE  IsNamed(g, tree', P, f)
  <2>1. \A i \in Ex(tree') : g[P[i]] = f[i]
    <3> TAKE i \in Ex(tree')
    <3>1. P[i] \in {PathOf(id)' : id \in Existing'}
      BY <1>3
    <3>2. g[P[i]] = f[CHOOSE id \in Existing' : PathOf(id)' = P[i]]
      BY <1>6, <3>1
    <3> QED BY <1>4, <3>2
  <2>2. g = [q \in {PathOf(id)' : id \in Existing'} |-> g[q]]
    BY <1>6
  <2> QED BY <1>3, <2>1, <2>2 DEF IsNamed
<1>7. PathNodes' = [p \in {PathOf(id)' : id \in Existing'} |->
                      [id \in Ids |-> tree'[id].type][CHOOSE id \in Existing' : PathOf(id)' = p]]
  BY DEF PathNodes, ByName
<1>8. PathOpened' = [p \in {PathOf(id)' : id \in Existing'} |->
                      Users'[CHOOSE id \in Existing' : PathOf(id)' = p]]
  BY DEF PathOpened, ByName
<1> QED BY <1>6, <1>7, <1>8

\* A reason that is listed and that holds is one.
LEMMA Listed ==
  ASSUME NEW R, NEW c, NEW b \in BOOLEAN, b, <<c, b>> \in R
  PROVE  c \in {x[1] : x \in {y \in R : y[2]}}
<1>1. <<c, b>>[1] = c /\ <<c, b>>[2] = b
  OBVIOUS
<1>2. <<c, b>> \in {y \in R : y[2]}
  BY <1>1, Zenon
<1> QED BY <1>1, <1>2, Zenon

There(q) == \E id \in Existing : PathOf(id) = q
Full     == Cardinality({q \in Places : held[q] > 0}) >= MaxFds

\* The reasons Own lists, each on its own.
LEMMA Owns ==
  ASSUME NEW r
  PROVE  /\ "EIO" \in Own(r)
         /\ r.op \in {"mkdir", "mknod", "write", "truncate", "ftruncate"} => "ENOSPC" \in Own(r)
         /\ r.op \in {"read", "write", "truncate", "ftruncate"} => "ESPIPE" \in Own(r)
         /\ ~There(r.path) => "ENOENT" \in Own(r)
         /\ r.op \in {"readdir", "rmdir"} /\ Promise!IsFile(r.path) => "ENOENT" \in Own(r)
         /\ r.op \in {"unlink", "open", "truncate"} /\ Promise!IsDir(r.path) => "ENOENT" \in Own(r)
         /\ r.path # <<>> /\ Long(Last(r.path)) => "ENAMETOOLONG" \in Own(r)
         /\ r.to # <<>> /\ Long(Last(r.to)) => "ENAMETOOLONG" \in Own(r)
         /\ r.op \in {"mkdir", "mknod"} /\ There(r.path) => "EEXIST" \in Own(r)
         /\ r.op = "rename" /\ There(r.to) => "EEXIST" \in Own(r)
         /\ r.op = "rename" /\ Front(r.path) # Front(r.to) => "EINVAL" \in Own(r)
         /\ r.op = "rmdir" /\ Promise!Inside(r.path) # {} => "ENOTEMPTY" \in Own(r)
         /\ r.op = "unlink" /\ Promise!OpenIn(r.path) > 0 => "ETXTBSY" \in Own(r)
         /\ r.op \in {"open", "truncate"} /\ Full => "EMFILE" \in Own(r)
         /\ r.op = "truncate" /\ Full => "EBADF" \in Own(r)
         /\ r.op \in {"read", "write", "ftruncate", "release"} /\ held[BadFd] > 0 => "EBADF" \in Own(r)
<1> DEFINE long(q) == q # <<>> /\ Long(Last(q))
           R == {<<"EIO", TRUE>>,
         <<"ENOSPC", r.op \in {"mkdir", "mknod", "write", "truncate", "ftruncate"}>>,
         <<"ESPIPE", r.op \in {"read", "write", "truncate", "ftruncate"}>>,
         <<"ENOENT", ~There(r.path)>>,
         <<"ENOENT", r.op \in {"readdir", "rmdir"} /\ Promise!IsFile(r.path)>>,
         <<"ENOENT", r.op \in {"unlink", "open", "truncate"} /\ Promise!IsDir(r.path)>>,
         <<"ENAMETOOLONG", long(r.path) \/ long(r.to)>>,
         <<"EEXIST", r.op \in {"mkdir", "mknod"} /\ There(r.path)>>,
         <<"EEXIST", r.op = "rename" /\ There(r.to)>>,
         <<"EINVAL", r.op = "rename" /\ Front(r.path) # Front(r.to)>>,
         <<"ENOTEMPTY", r.op = "rmdir" /\ Promise!Inside(r.path) # {}>>,
         <<"ETXTBSY", r.op = "unlink" /\ Promise!OpenIn(r.path) > 0>>,
         <<"EMFILE", r.op \in {"open", "truncate"} /\ Full>>,
         <<"EBADF", r.op = "truncate" /\ Full>>,
         <<"EBADF", r.op \in {"read", "write", "ftruncate", "release"} /\ held[BadFd] > 0>>}
<1>1. Own(r) = {x[1] : x \in {y \in R : y[2]}}
  BY DEF Own, There, Full
<1>2. /\ <<"EIO", TRUE>> \in R
      /\ <<"ENOSPC", r.op \in {"mkdir", "mknod", "write", "truncate", "ftruncate"}>> \in R
      /\ <<"ESPIPE", r.op \in {"read", "write", "truncate", "ftruncate"}>> \in R
      /\ <<"ENOENT", ~There(r.path)>> \in R
      /\ <<"ENOENT", r.op \in {"readdir", "rmdir"} /\ Promise!IsFile(r.path)>> \in R
      /\ <<"ENOENT", r.op \in {"unlink", "open", "truncate"} /\ Promise!IsDir(r.path)>> \in R
      /\ <<"ENAMETOOLONG", long(r.path) \/ long(r.to)>> \in R
      /\ <<"EEXIST", r.op \in {"mkdir", "mknod"} /\ There(r.path)>> \in R
      /\ <<"EEXIST", r.op = "rename" /\ There(r.to)>> \in R
      /\ <<"EINVAL", r.op = "rename" /\ Front(r.path) # Front(r.to)>> \in R
      /\ <<"ENOTEMPTY", r.op = "rmdir" /\ Promise!Inside(r.path) # {}>> \in R
      /\ <<"ETXTBSY", r.op = "unlink" /\ Promise!OpenIn(r.path) > 0>> \in R
      /\ <<"EMFILE", r.op \in {"open", "truncate"} /\ Full>> \in R
      /\ <<"EBADF", r.op = "truncate" /\ Full>> \in R
      /\ <<"EBADF", r.op \in {"read", "write", "ftruncate", "release"} /\ held[BadFd] > 0>> \in R
  OBVIOUS
<1> HIDE DEF R
<1>3. "EIO" \in Own(r)
  BY <1>1, <1>2, Listed
<1>4. ASSUME r.op \in {"mkdir", "mknod", "write", "truncate", "ftruncate"} PROVE "ENOSPC" \in Own(r)
  BY <1>1, <1>2, <1>4, Listed
<1>17. ASSUME r.op \in {"read", "write", "truncate", "ftruncate"} PROVE "ESPIPE" \in Own(r)
  BY <1>1, <1>2, <1>17, Listed
<1>5. ASSUME ~There(r.path) PROVE "ENOENT" \in Own(r)
  BY <1>1, <1>2, <1>5, Listed
<1>6. ASSUME r.op \in {"readdir", "rmdir"} /\ Promise!IsFile(r.path) PROVE "ENOENT" \in Own(r)
  BY <1>1, <1>2, <1>6, Listed
<1>7. ASSUME r.op \in {"unlink", "open", "truncate"} /\ Promise!IsDir(r.path) PROVE "ENOENT" \in Own(r)
  BY <1>1, <1>2, <1>7, Listed
<1>8. ASSUME long(r.path) \/ long(r.to) PROVE "ENAMETOOLONG" \in Own(r)
  <2> HIDE DEF long
  <2> QED BY <1>1, <1>2, <1>8, Listed
<1>9. ASSUME r.op \in {"mkdir", "mknod"} /\ There(r.path) PROVE "EEXIST" \in Own(r)
  BY <1>1, <1>2, <1>9, Listed
<1>10. ASSUME r.op = "rename" /\ There(r.to) PROVE "EEXIST" \in Own(r)
  BY <1>1, <1>2, <1>10, Listed
<1>11. ASSUME r.op = "rename" /\ Front(r.path) # Front(r.to) PROVE "EINVAL" \in Own(r)
  BY <1>1, <1>2, <1>11, Listed
<1>12. ASSUME r.op = "rmdir" /\ Promise!Inside(r.path) # {} PROVE "ENOTEMPTY" \in Own(r)
  BY <1>1, <1>2, <1>12, Listed
<1>13. ASSUME r.op = "unlink" /\ Promise!OpenIn(r.path) > 0 PROVE "ETXTBSY" \in Own(r)
  BY <1>1, <1>2, <1>13, Listed
<1>14. ASSUME r.op \in {"open", "truncate"} /\ Full PROVE "EMFILE" \in Own(r)
  BY <1>1, <1>2, <1>14, Listed
<1>15. ASSUME r.op = "truncate" /\ Full PROVE "EBADF" \in Own(r)
  BY <1>1, <1>2, <1>15, Listed
<1>16. ASSUME r.op \in {"read", "write", "ftruncate", "release"} /\ held[BadFd] > 0 PROVE "EBADF" \in Own(r)
  BY <1>1, <1>2, <1>16, Listed
<1> QED BY <1>3, <1>4, <1>5, <1>6, <1>7, <1>8, <1>9, <1>10, <1>11, <1>12, <1>13, <1>14, <1>15, <1>16, <1>17

\* Every item has a place of its own, and where a handle is open there is a file.
Placed(tr, pl, h) ==
  /\ \A i, j \in Ex(tr) : pl[i] = pl[j] => i = j
  /\ \A q \in Places : h[q] > 0 => \E i \in Ex(tr) : pl[i] = q /\ tr[i].type = "FILE"

\* Nothing has come between handles and files: the items are a tree of paths P, and what is
\* open, finitely many places, are files.
Neat(P) == TreeOk(tree, P) /\ spoiled = {} /\ Placed(tree, place, held) /\ IsFiniteSet(Handles)
NeatTree == \E P : Neat(P)

\* The users of an item are those of the handle at its place, and only files have any.
LEMMA UsersAre ==
  ASSUME NoHandleLeak, NEW P, Neat(P)
  PROVE  /\ \A i \in Ids : place[i] \in Places /\ Users[i] = held[place[i]] /\ Users[i] \in Nat
         /\ \A i \in Ids : InUse(i) <=> Users[i] > 0
         /\ \A q \in Places : usage[q] = held[q]
         /\ \A i \in Ex(tree) : Users[i] > 0 => tree[i].type = "FILE"
<1>1. LeakFree
  BY LeakIs
<1>2. \A q \in Places : usage[q] = held[q]
  BY <1>1 DEF LeakFree, Neat
<1>3. \A i \in Ids : place[i] \in Places /\ Users[i] = held[place[i]] /\ Users[i] \in Nat
  BY <1>1 DEF LeakFree, Users
<1>4. \A i \in Ids : InUse(i) <=> Users[i] > 0
  BY <1>2, <1>3 DEF InUse
<1>5. ASSUME NEW i \in Ex(tree), Users[i] > 0 PROVE tree[i].type = "FILE"
  <2>1. place[i] \in Places /\ held[place[i]] > 0
    BY <1>3, <1>5 DEF Ex
  <2> QED BY <2>1 DEF Neat, Placed
<1> QED BY <1>2, <1>3, <1>4, <1>5

\* What the promise says of the paths, in terms of the items.
LEMMA PromiseIs ==
  ASSUME NoHandleLeak, NEW P, Neat(P)
  PROVE  /\ DOMAIN PathNodes = {P[i] : i \in Ex(tree)} /\ DOMAIN PathOpened = {P[i] : i \in Ex(tree)}
         /\ \A i \in Ex(tree) : PathNodes[P[i]] = tree[i].type /\ PathOpened[P[i]] = Users[i]
         /\ \A q : There(q) <=> \E i \in Ex(tree) : P[i] = q
<1>0. Ex(tree) \subseteq Ids /\ Existing = Ex(tree) /\ TreeOk(tree, P)
  BY DEF Ex, Existing, Neat
<1>1. IsNamed(PathNodes, tree, P, [id \in Ids |-> tree[id].type])
      /\ IsNamed(PathOpened, tree, P, Users)
  BY <1>0, NodesAre
<1>2. \A i \in Ex(tree) : PathNodes[P[i]] = tree[i].type /\ PathOpened[P[i]] = Users[i]
  BY <1>0, <1>1 DEF IsNamed
<1>3. DOMAIN PathNodes = {P[i] : i \in Ex(tree)} /\ DOMAIN PathOpened = {P[i] : i \in Ex(tree)}
  BY <1>1 DEF IsNamed
<1>4. \A q : There(q) <=> \E i \in Ex(tree) : P[i] = q
  BY <1>0, PathOfIs DEF There
<1> QED BY <1>2, <1>3, <1>4

\* The sequence and set operators of the promise are those of the front end.
LEMMA PromiseNames ==
  /\ \A s : Promise!Front(s) = Front(s)
  /\ \A s : Promise!Last(s) = Last(s)
  /\ \A S : Promise!Cardinality(S) = Cardinality(S)
BY DEF Promise!Front, Front, Promise!Last, Last, Promise!Cardinality, Cardinality

\* The directory of an item is a directory of the promise.
LEMMA PromiseDir ==
  ASSUME NoHandleLeak, NEW P, Neat(P), NEW d, IsDirId(tree, d)
  PROVE  Promise!IsDir(Up(P, d))
<1>1. CASE d = ROOT
  BY <1>1 DEF Up, Promise!IsDir
<1>2. CASE d # ROOT
  <2>1. d \in Ex(tree) /\ tree[d].type = "DIR" /\ Up(P, d) = P[d]
    BY <1>2 DEF IsDirId, Ex, Up
  <2>2. Up(P, d) \in DOMAIN PathNodes /\ PathNodes[Up(P, d)] = "DIR"
    <3>1. P[d] \in {P[i] : i \in Ex(tree)}
      BY <2>1
    <3>2. P[d] \in DOMAIN PathNodes
      BY <3>1, PromiseIs
    <3>3. PathNodes[P[d]] = tree[d].type
      BY <2>1, PromiseIs
    <3> QED BY <2>1, <3>2, <3>3
  <2> QED BY <2>2 DEF Promise!IsDir, PathNodes
<1> QED BY <1>1, <1>2

\* Files and directories of the drive are files and directories of the promise, with as many
\* users.
LEMMA PromiseFile ==
  ASSUME NoHandleLeak, NEW P, Neat(P), NEW i \in Ex(tree)
  PROVE  /\ tree[i].type = "FILE" <=> Promise!IsFile(P[i])
         /\ tree[i].type = "DIR" <=> Promise!IsDir(P[i])
         /\ tree[i].type \in {"FILE", "DIR"}
         /\ Promise!OpenIn(P[i]) = Users[i]
<1>1. i \in Ids /\ P[i] # <<>>
  BY PathIs DEF Ex, Neat
<1>2. P[i] \in DOMAIN PathNodes /\ PathNodes[P[i]] = tree[i].type
      /\ P[i] \in DOMAIN PathOpened /\ PathOpened[P[i]] = Users[i]
  BY PromiseIs
<1>3. tree[i].type \in {"FILE", "DIR"}
  BY <1>1, TypeIs DEF NoHandleLeak, Nodes, Ex
<1> QED BY <1>1, <1>2, <1>3 DEF Promise!IsDir, Promise!IsFile, Promise!OpenIn, PathNodes, PathOpened

\* What is in a directory, and in a file.
LEMMA PromiseInside ==
  ASSUME NoHandleLeak, NEW P, Neat(P), NEW d, IsDirId(tree, d) \/ d \in Ex(tree)
  PROVE  Promise!Inside(Up(P, d)) = {P[i] : i \in {j \in Ex(tree) : tree[j].dir = d}}
<1>0. TreeOk(tree, P) /\ Ex(tree) \subseteq Ids
  BY DEF Neat, Ex
<1>1. Promise!Inside(Up(P, d)) = {q \in DOMAIN PathNodes : q # <<>> /\ Front(q) = Up(P, d)}
  BY PromiseNames DEF Promise!Inside, PathNodes
<1>2. ASSUME NEW i \in Ex(tree) PROVE Front(P[i]) = Up(P, d) <=> tree[i].dir = d
  <2>1. Front(P[i]) = Up(P, tree[i].dir) /\ tree[i].dir \in Dirs
    BY <1>0, PathIs
  <2>2. IsDirId(tree, tree[i].dir)
    BY <1>0 DEF TreeOk, Fine
  <2>3. ASSUME Up(P, tree[i].dir) = Up(P, d) PROVE tree[i].dir = d
    <3>1. CASE IsDirId(tree, d)
      BY <1>0, <2>2, <2>3, <3>1, DirsDiffer
    <3>2. CASE d \in Ex(tree)
      <4>1. Up(P, d) = P[d] /\ P[d] # <<>>
        BY <1>0, <3>2, PathIs
      <4>2. tree[i].dir # ROOT
        BY <2>3, <4>1 DEF Up
      <4>3. tree[i].dir \in Ex(tree) /\ Up(P, tree[i].dir) = P[tree[i].dir]
        BY <2>1, <2>2, <4>2 DEF IsDirId, Ex, Up
      <4> QED BY <1>0, <2>3, <3>2, <4>1, <4>3, PathsDiffer
    <3> QED BY <3>1, <3>2
  <2> QED BY <2>1, <2>3
<1>3. \A i \in Ex(tree) : P[i] # <<>>
  BY <1>0, PathIs
<1>4. DOMAIN PathNodes = {P[i] : i \in Ex(tree)}
  BY PromiseIs
<1> QED BY <1>1, <1>2, <1>3, <1>4

\* Nothing is in a file.
LEMMA NothingIn ==
  ASSUME NEW P, Neat(P), NEW i \in Ex(tree), tree[i].type # "DIR"
  PROVE  \A j \in Ex(tree) : tree[j].dir # i
<1>1. i \in Ids
  BY DEF Ex
<1>2. \A j \in Ex(tree) : IsDirId(tree, tree[j].dir)
  BY DEF Neat, TreeOk, Fine
<1> QED BY <1>1, <1>2, IdsAre DEF IsDirId

\* The items and what is open stay as they are.
LEMMA Unmoved ==
  ASSUME NoHandleLeak, NEW P, Neat(P), UNCHANGED <<tree, place>>, \A q \in Places : held'[q] = held[q]
  PROVE  PathNodes' = PathNodes /\ PathOpened' = PathOpened
<1>1. TreeOk(tree, P)
  BY DEF Neat
<1>2. TreeOk(tree', P)
  BY <1>1
<1>3. Users' = Users /\ tree' = tree
      /\ [id \in Ids |-> tree'[id].type] = [id \in Ids |-> tree[id].type]
  BY TypeIs DEF NoHandleLeak, Users
<1> DEFINE T == [id \in Ids |-> tree[id].type]
<1>4. IsNamed(PathNodes, tree, P, T) /\ IsNamed(PathOpened, tree, P, Users)
  BY <1>1, NodesAre
<1>5. IsNamed(PathNodes', tree', P, [id \in Ids |-> tree'[id].type]) /\ IsNamed(PathOpened', tree', P, Users')
  BY <1>2, NodesAreNext
<1> HIDE DEF T
<1>6. IsNamed(PathNodes', tree, P, T) /\ IsNamed(PathOpened', tree, P, Users)
  BY <1>3, <1>5 DEF T
<1> QED BY <1>4, <1>6, NamedOnce

ByFdOps == {"read", "write", "ftruncate", "release", "statfs"}
Reason  == \/ result' \in Own(req')
           \/ req'.op \notin ByFdOps /\ tfs_last_error # "OK" /\ result' = errors[tfs_last_error]

\* What every request keeps: the tree, what the promise allows, and a reason when it fails.
Kept == NeatTree' /\ Promise!PNext /\ (result' # "OK" => Reason)

\* check_error: the error number of every code that a request can end with.
LEMMA ErrorsAre ==
  /\ errors["OK"] = "OK" /\ errors["IO"] = "EIO" /\ errors["DISK_FULL"] = "ENOSPC"
  /\ errors["FILE_EXIST"] = "EEXIST" /\ errors["NOT_EXIST"] = "ENOENT" /\ errors["NOT_EMPTY"] = "ENOTEMPTY"
  /\ errors["UNEXP_EOF"] = "ESPIPE" /\ errors["NO_FREE_FD"] = "EMFILE" /\ errors["INVAL_FD"] = "EBADF" /\ errors["BUSY"] = "ETXTBSY"
  /\ \A e \in Codes : e # "OK" => errors[e] # "OK"
BY DEF errors, Codes

\* No item has this path: nothing is there.
LEMMA NotThere ==
  ASSUME NoHandleLeak, NEW P, Neat(P), NEW q, \A i \in Ex(tree) : P[i] # q
  PROVE  ~There(q)
<1>1. Existing = Ex(tree) /\ Ex(tree) \subseteq Ids /\ TreeOk(tree, P)
  BY DEF Ex, Existing, Neat
<1>2. \A i \in Existing : PathOf(i) = P[i]
  BY <1>1, PathOfIs
<1> QED BY <1>1, <1>2 DEF There

\* An item has this path: something is there.
LEMMA IsThere ==
  ASSUME NoHandleLeak, NEW P, Neat(P), NEW i \in Ex(tree)
  PROVE  There(P[i])
<1>1. i \in Existing /\ i \in Ids /\ TreeOk(tree, P)
  BY DEF Ex, Existing, Neat
<1>2. PathOf(i) = P[i]
  BY <1>1, PathOfIs
<1> QED BY <1>1, <1>2 DEF There

\* What touches neither items nor handles leaves the items in order.
LEMMA StillNeat ==
  ASSUME NEW P, Neat(P), UNCHANGED <<tree, place, usage, spoiled>>, \A q \in Places : held'[q] = held[q]
  PROVE  NeatTree'
<1>1. TreeOk(tree', P) /\ Placed(tree', place', held') /\ spoiled' = {}
  BY DEF Neat, Placed
<1>2. Handles' = Handles
  BY DEF Handles
<1>3. IsFiniteSet(Handles')
  BY <1>2 DEF Neat
<1>4. Neat(P)'
  BY <1>1, <1>3 DEF Neat
<1> QED BY <1>4 DEF NeatTree

\* A request that changes neither items nor handles.
LEMMA SamePromise ==
  ASSUME NoHandleLeak, NEW P, Neat(P), UNCHANGED <<tree, place>>, \A q \in Places : held'[q] = held[q]
  PROVE  Promise!Same
BY Unmoved DEF Promise!Same, PathNodes, PathOpened

\* A request that fails for a reason and changes nothing keeps the promise.
LEMMA FailKept ==
  ASSUME NoHandleLeak, NEW P, Neat(P), UNCHANGED <<tree, place, usage, spoiled>>, \A q \in Places : held'[q] = held[q],
         result' # "OK", answer' = {}, Reason
  PROVE  Kept
<1>1. Promise!Fail
  BY SamePromise DEF Promise!Fail
<1> QED BY <1>1, StillNeat DEF Kept, Promise!PNext

\* So does one that fails with a code of the file system.
LEMMA FailedKept ==
  ASSUME NoHandleLeak, NEW P, Neat(P), NEW e \in Codes, e # "OK", Failed(e), Reason
  PROVE  Kept
<1>1. result' # "OK" /\ answer' = {} /\ UNCHANGED <<tree, place, usage, held, spoiled>>
  BY ErrorsAre DEF Failed, check_error, Reply
<1> QED BY <1>1, FailKept

\* A drive that fails is a reason for every request.
LEMMA FailedIO ==
  ASSUME NoHandleLeak, NEW P, Neat(P), Failed("IO")
  PROVE  Kept
<1>1. result' = "EIO"
  BY ErrorsAre DEF Failed, check_error, Reply
<1>2. Reason
  BY <1>1, Owns DEF Reason
<1> QED BY <1>2, CodesIn, FailedKept

\* What a call finds that a walk along p has come to.
LEMMA Arrives ==
  ASSUME NoHandleLeak, NEW P, Neat(P), NEW p \in Paths, p # <<>>, NEW t \in travel_path(p),
         t.err = "OK", ~Long(Last(p))
  PROVE  /\ IsDirId(tree, t.dir) /\ t.dir \in Dirs /\ Up(P, t.dir) = Front(p)
         /\ Item(t.dir, Last(p)) = {i \in Ex(tree) : P[i] = p}
         /\ p \in Seq(Names) /\ Last(p) \in Names
<1>1. p \in Seq(Names) /\ Last(p) \in Names
  BY PathNames
<1>2. TypeOK /\ TreeOk(tree, P)
  BY DEF NoHandleLeak, Neat
<1>3. IsDirId(tree, t.dir) /\ Up(P, t.dir) = Front(p)
  BY <1>1, <1>2, Travels
<1>4. t.dir \in Dirs
  BY <1>3 DEF IsDirId, Dirs
<1>5. Item(t.dir, Last(p)) = {i \in Ex(tree) : P[i] = p}
  BY <1>1, <1>2, <1>3, ItemAt
<1> QED BY <1>1, <1>3, <1>4, <1>5

\* A walk that does not arrive.
LEMMA LostKept ==
  ASSUME NoHandleLeak, NEW P, Neat(P), NEW p \in Paths, NEW op, op \notin ByFdOps, NEW to,
         Request(op, p, to), NEW t \in travel_path(p), t.err # "OK", Failed(t.err)
  PROVE  Kept
<1>1. t \in Spots /\ \/ t.err = "IO"
                     \/ tfs_last_error # "OK" /\ t.err = tfs_last_error
                     \/ t.err = "NOT_EXIST" /\ \A i \in Ex(tree) : P[i] # p
  BY PathNames, Travels DEF NoHandleLeak, Neat
<1>2. t.err \in Codes
  BY <1>1 DEF Spots
<1>3. result' = errors[t.err] /\ req'.op = op /\ req'.path = p
  BY DEF Failed, check_error, Reply, Request
<1>4. Reason
  <2>1. CASE t.err = "IO"
    BY <1>3, <2>1, Owns, ErrorsAre DEF Reason
  <2>2. CASE tfs_last_error # "OK" /\ t.err = tfs_last_error
    BY <1>3, <2>2 DEF Reason
  <2>3. CASE t.err = "NOT_EXIST" /\ \A i \in Ex(tree) : P[i] # p
    <3>1. ~There(p)
      BY <2>3, NotThere
    <3>2. "ENOENT" \in Own(req')
      BY <1>3, <3>1, Owns
    <3> QED BY <1>3, <2>3, <3>2, ErrorsAre DEF Reason
  <2> QED BY <1>1, <2>1, <2>2, <2>3
<1> QED BY <1>2, <1>4, FailedKept

\* So is a last name that is too long.
LEMMA TooLongKept ==
  ASSUME NoHandleLeak, NEW P, Neat(P), NEW p \in Paths, p # <<>>, NEW op, NEW to,
         Request(op, p, to), Long(Last(p)), Reply("ENAMETOOLONG", {}), UNCHANGED <<tree, place, usage, held, spoiled>>
  PROVE  Kept
<1>1. result' = "ENAMETOOLONG" /\ answer' = {} /\ req'.path = p
  BY DEF Reply, Request
<1>2. Reason
  BY <1>1, Owns DEF Reason
<1> QED BY <1>1, <1>2, FailKept

\* A path that is not there.
LEMMA NoItemKept ==
  ASSUME NoHandleLeak, NEW P, Neat(P), {i \in Ex(tree) : P[i] = req'.path} = {},
         result' = "ENOENT", answer' = {}, UNCHANGED <<tree, place, usage, held, spoiled>>
  PROVE  Kept
<1>1. ~There(req'.path)
  <2>1. \A i \in Ex(tree) : P[i] # req'.path
    OBVIOUS
  <2> QED BY <2>1, NotThere
<1>2. Reason
  BY <1>1, Owns DEF Reason
<1> QED BY <1>2, FailKept

\* Requests by path, up to the call.
LEMMA ByPathKept ==
  ASSUME NoHandleLeak, NEW P, Neat(P), NEW p \in Paths, p # <<>>, NEW op, op \notin ByFdOps, NEW to,
         Request(op, p, to), NEW t \in travel_path(p),
         \/ t.err # "OK" /\ Failed(t.err)
         \/ Long(Last(p)) /\ Reply("ENAMETOOLONG", {}) /\ UNCHANGED <<tree, place, usage, held, spoiled>>
  PROVE  Kept
BY LostKept, TooLongKept

\* A request that the promise grants, with OK, keeps the promise.
LEMMA Succeeds ==
  ASSUME NeatTree', Promise!Succeed, result' = "OK"
  PROVE  Kept
BY DEF Kept, Promise!PNext

-----------------------------------------------------------------------------
(* Requests that change nothing.                                           *)

\* tfs_stat of an item in the directory the walk has reached.
LEMMA StatKept ==
  ASSUME NoHandleLeak, NEW P, Neat(P), NEW p \in Paths, p # <<>>, Request("getattr", p, p),
         NEW t \in travel_path(p), t.err = "OK", ~Long(Last(p)), tfs_stat(t.dir, Last(p))
  PROVE  Kept
<1>1. Item(t.dir, Last(p)) = {i \in Ex(tree) : P[i] = p}
  BY Arrives
<1>2. req'.op = "getattr" /\ req'.path = p
  BY DEF Request
<1>3. CASE Failed("IO")
  BY <1>3, FailedIO
<1>4. CASE Item(t.dir, Last(p)) = {} /\ Reply("ENOENT", {}) /\ UNCHANGED <<tree, place, usage, held, spoiled>>
  BY <1>1, <1>2, <1>4, NoItemKept DEF Reply
<1>5. ASSUME NEW i \in Item(t.dir, Last(p)), Reply("OK", {tree[i].type}), UNCHANGED <<tree, place, usage, held, spoiled>>
      PROVE  Kept
  <2>1. i \in Ex(tree) /\ P[i] = p
    BY <1>1
  <2>2. /\ tree[i].type = "FILE" <=> Promise!IsFile(p)
        /\ tree[i].type = "DIR" <=> Promise!IsDir(p)
        /\ tree[i].type \in {"FILE", "DIR"}
    BY <2>1, PromiseFile
  <2>3. result' = "OK" /\ answer' = {tree[i].type}
    BY <1>5 DEF Reply
  <2>4. Promise!Same
    BY <1>5, SamePromise
  <2>5. Promise!Look(p)
    BY <2>2, <2>3, <2>4 DEF Promise!Look, Promise!Done
  <2>6. Promise!Succeed
    BY <1>2, <2>5 DEF Promise!Succeed
  <2> QED BY <1>5, <2>3, <2>6, StillNeat, Succeeds
<1> QED BY <1>3, <1>4, <1>5 DEF tfs_stat

\* getattr keeps the promise, and fails for a reason.
LEMMA GetattrKept ==
  ASSUME NoHandleLeak, NEW P, Neat(P), NEW p \in Paths, op_getattr(p)
  PROVE  Kept
<1>1. CASE p = <<>>
  <2>1. /\ req'.op = "getattr" /\ req'.path = <<>> /\ result' = "OK" /\ answer' = {"DIR"}
        /\ UNCHANGED <<tree, place, usage, held, spoiled>>
    BY <1>1 DEF op_getattr, Request, Reply
  <2>2. Promise!Same
    BY <2>1, SamePromise
  <2>3. Promise!IsDir(<<>>)
    BY DEF Promise!IsDir
  <2>4. Promise!Look(<<>>)
    BY <2>1, <2>2, <2>3 DEF Promise!Look, Promise!Done
  <2>5. Promise!Succeed
    BY <2>1, <2>4 DEF Promise!Succeed
  <2> QED BY <2>1, <2>5, StillNeat, Succeeds
<1>2. CASE p # <<>>
  <2>1. Request("getattr", p, p)
    BY <1>2 DEF op_getattr, ByPath
  <2>2. PICK t \in travel_path(p) :
          \/ t.err # "OK" /\ Failed(t.err)
          \/ Long(Last(p)) /\ Reply("ENAMETOOLONG", {}) /\ UNCHANGED <<tree, place, usage, held, spoiled>>
          \/ t.err = "OK" /\ ~Long(Last(p)) /\ tfs_stat(t.dir, Last(p))
    BY <1>2, Zenon DEF op_getattr, ByPath
  <2>3. CASE t.err = "OK" /\ ~Long(Last(p)) /\ tfs_stat(t.dir, Last(p))
    BY <1>2, <2>1, <2>3, StatKept
  <2> QED BY <1>2, <2>1, <2>2, <2>3, ByPathKept DEF ByFdOps
<1> QED BY <1>1, <1>2

\* tfs_read_dir lists the names inside the directory, no more and no fewer.
LEMMA ReadDirKept ==
  ASSUME NoHandleLeak, NEW P, Neat(P), NEW d, IsDirId(tree, d), req'.op = "readdir", req'.path = Up(P, d),
         tfs_read_dir(d)
  PROVE  Kept
<1>1. CASE Failed("IO")
  BY <1>1, FailedIO
<1> DEFINE Here == {i \in Ids : tree[i].type # "FREE" /\ tree[i].dir = d}
<1>2. CASE Reply("OK", {tree[i].name : i \in Here}) /\ UNCHANGED <<tree, place, usage, held, spoiled>>
  <2>1. result' = "OK" /\ answer' = {tree[i].name : i \in Here}
    BY <1>2 DEF Reply
  <2>2. Promise!IsDir(req'.path)
    BY PromiseDir
  <2>3. Promise!Inside(req'.path) = {P[i] : i \in Here}
    <3>1. Here = {j \in Ex(tree) : tree[j].dir = d}
      BY DEF Ex
    <3> HIDE DEF Here
    <3> QED BY <3>1, PromiseInside
  <2>4. \A i \in Here : Last(P[i]) = tree[i].name
    BY PathIs DEF Neat
  <2>5. answer' = {Promise!Last(q) : q \in Promise!Inside(req'.path)}
    <3> HIDE DEF Here
    <3>1. {tree[i].name : i \in Here} = {Last(q) : q \in {P[i] : i \in Here}}
      BY <2>4
    <3>2. {Last(q) : q \in {P[i] : i \in Here}} = {Promise!Last(q) : q \in {P[i] : i \in Here}}
      BY PromiseNames
    <3> QED BY <2>1, <2>3, <3>1, <3>2
  <2>6. Promise!Same
    BY <1>2, SamePromise
  <2>7. Promise!List(req'.path)
    BY <2>1, <2>2, <2>5, <2>6 DEF Promise!List, Promise!Done
  <2>8. Promise!Succeed
    BY <2>7 DEF Promise!Succeed
  <2> QED BY <1>2, <2>1, <2>8, StillNeat, Succeeds
<1> QED BY <1>1, <1>2 DEF tfs_read_dir

\* readdir enters the last name of its path too before it reads.
LEMMA EnterKept ==
  ASSUME NoHandleLeak, NEW P, Neat(P), NEW p \in Paths, p # <<>>, Request("readdir", p, p),
         NEW t \in travel_path(p), t.err = "OK", ~Long(Last(p)), enter_and_read(t.dir, Last(p))
  PROVE  Kept
<1>1. Item(t.dir, Last(p)) = {i \in Ex(tree) : P[i] = p}
  BY Arrives
<1>2. req'.op = "readdir" /\ req'.path = p
  BY DEF Request
<1>3. CASE Failed("IO")
  BY <1>3, FailedIO
<1>4. CASE ItemOf(t.dir, Last(p), {"DIR"}) = {} /\ Failed("NOT_EXIST")
  <2>1. result' = "ENOENT" /\ answer' = {} /\ UNCHANGED <<tree, place, usage, held, spoiled>>
    BY <1>4, ErrorsAre DEF Failed, check_error, Reply
  <2>2. CASE Item(t.dir, Last(p)) = {}
    BY <1>1, <1>2, <2>1, <2>2, NoItemKept
  <2>3. ASSUME NEW i \in Item(t.dir, Last(p)) PROVE Kept
    <3>1. i \in Ex(tree) /\ P[i] = p /\ tree[i].type # "DIR"
      BY <1>1, <1>4 DEF ItemOf
    <3>2. Promise!IsFile(p)
      BY <3>1, PromiseFile
    <3>3. Reason
      BY <1>2, <2>1, <3>2, Owns DEF Reason
    <3> QED BY <2>1, <3>3, FailKept
  <2> QED BY <2>2, <2>3
<1>5. ASSUME NEW i \in ItemOf(t.dir, Last(p), {"DIR"}), tfs_read_dir(i)
      PROVE  Kept
  <2>1. i \in Ex(tree) /\ P[i] = p /\ tree[i].type = "DIR" /\ i \in Ids
    BY <1>1 DEF ItemOf, Ex
  <2>2. IsDirId(tree, i) /\ Up(P, i) = p
    BY <2>1, PathIs DEF IsDirId, Neat
  <2> QED BY <1>2, <1>5, <2>2, ReadDirKept
<1> QED BY <1>3, <1>4, <1>5 DEF enter_and_read

\* readdir keeps the promise, and fails for a reason.
LEMMA ReaddirKept ==
  ASSUME NoHandleLeak, NEW P, Neat(P), NEW p \in Paths, op_readdir(p)
  PROVE  Kept
<1>0. Request("readdir", p, p) /\ req'.op = "readdir" /\ req'.path = p
  BY DEF op_readdir, ByPath, Request
<1>1. CASE p = <<>>
  <2>1. PICK t \in travel_path(p) : \/ t.err # "OK" /\ Failed(t.err)
                                    \/ t.err = "OK" /\ tfs_read_dir(t.dir)
    BY <1>1 DEF op_readdir
  <2>2. CASE t.err = "OK" /\ tfs_read_dir(t.dir)
    <3>1. IsDirId(tree, t.dir) /\ Up(P, t.dir) = Front(p)
      BY <2>2, PathNames, Travels DEF NoHandleLeak, Neat
    <3>2. Front(p) = p
      BY <1>1 DEF Front
    <3> QED BY <1>0, <2>2, <3>1, <3>2, ReadDirKept
  <2> QED BY <1>0, <2>1, <2>2, LostKept DEF ByFdOps
<1>2. CASE p # <<>>
  <2>2. PICK t \in travel_path(p) :
          \/ t.err # "OK" /\ Failed(t.err)
          \/ Long(Last(p)) /\ Reply("ENAMETOOLONG", {}) /\ UNCHANGED <<tree, place, usage, held, spoiled>>
          \/ t.err = "OK" /\ ~Long(Last(p)) /\ enter_and_read(t.dir, Last(p))
    BY <1>2, Zenon DEF op_readdir, ByPath
  <2>3. CASE t.err = "OK" /\ ~Long(Last(p)) /\ enter_and_read(t.dir, Last(p))
    BY <1>0, <1>2, <2>3, EnterKept
  <2> QED BY <1>0, <1>2, <2>2, <2>3, ByPathKept DEF ByFdOps
<1> QED BY <1>1, <1>2

\* statfs keeps the promise.
LEMMA StatfsKept ==
  ASSUME NoHandleLeak, NEW P, Neat(P), op_statfs
  PROVE  Kept
<1>0. req'.op = "statfs" /\ UNCHANGED <<tree, place, usage, held, spoiled>>
  BY DEF op_statfs, Request
<1>1. CASE check_error("OK")
  <2>1. result' = "OK" /\ answer' = {}
    BY <1>1, ErrorsAre DEF check_error, Reply
  <2>2. Promise!Same
    BY <1>0, SamePromise
  <2>3. Promise!Succeed
    BY <1>0, <2>1, <2>2 DEF Promise!Succeed, Promise!Done
  <2> QED BY <1>0, <2>1, <2>3, StillNeat, Succeeds
<1>2. CASE check_error("IO")
  <2>1. Failed("IO")
    BY <1>0, <1>2 DEF Failed
  <2> QED BY <2>1, FailedIO
<1> QED BY <1>1, <1>2 DEF op_statfs

-----------------------------------------------------------------------------
(* Requests about open files.                                              *)

\* As many paths are open as there are handles.
LEMMA OpenPaths ==
  ASSUME NoHandleLeak, NEW P, Neat(P)
  PROVE  /\ {q \in Places : held[q] > 0} = Handles
         /\ Cardinality({q \in DOMAIN PathOpened : PathOpened[q] > 0}) = Cardinality(Handles)
<1> DEFINE Q == {q \in DOMAIN PathOpened : PathOpened[q] > 0}
           At(q) == CHOOSE i \in Ex(tree) : place[i] = q
<1>0. TreeOk(tree, P) /\ Ex(tree) \subseteq Ids
  BY DEF Neat, Ex
<1>1. {q \in Places : held[q] > 0} = Handles
  BY UsersAre DEF Handles
<1>2. \A i \in Ids : place[i] \in Places /\ Users[i] = held[place[i]]
  BY UsersAre
<1>5. \A q \in Handles : At(q) \in Ex(tree) /\ place[At(q)] = q
  <2> TAKE q \in Handles
  <2>1. \E i \in Ex(tree) : place[i] = q
    BY <1>1 DEF Neat, Placed
  <2> QED BY <2>1
<1>6. \A i, j \in Ex(tree) : place[i] = place[j] => i = j
  BY DEF Neat, Placed
<1> HIDE DEF At
<1>3. Q = {P[At(q)] : q \in Handles}
  <2>1. \A i \in Ex(tree) : PathOpened[P[i]] = Users[i]
    BY PromiseIs
  <2>2. DOMAIN PathOpened = {P[i] : i \in Ex(tree)}
    BY PromiseIs
  <2>3. \A i \in Ex(tree) : Users[i] > 0 => place[i] \in Handles /\ At(place[i]) = i
    BY <1>0, <1>1, <1>2, <1>5, <1>6
  <2>4. \A q \in Handles : Users[At(q)] > 0
    BY <1>0, <1>1, <1>2, <1>5
  <2> QED BY <1>5, <2>1, <2>2, <2>3, <2>4
<1> HIDE DEF Q
<1>4. Cardinality(Q) = Cardinality(Handles)
  <2> DEFINE f == [q \in Handles |-> P[At(q)]]
  <2>1. f \in [Handles -> Q]
    BY <1>3
  <2>2. \A i, j \in Handles : f[i] = f[j] => i = j
    <3> SUFFICES ASSUME NEW i \in Handles, NEW j \in Handles, P[At(i)] = P[At(j)] PROVE i = j
      OBVIOUS
    <3>1. At(i) = At(j)
      BY <1>0, <1>5, PathsDiffer
    <3> QED BY <1>5, <3>1
  <2>3. \A q \in Q : \E i \in Handles : f[i] = q
    BY <1>3
  <2>4. f \in Bijection(Handles, Q)
    <3> HIDE DEF f
    <3> QED BY <2>1, <2>2, <2>3 DEF Bijection, Injection, Surjection, IsInjective
  <2>5. ExistsBijection(Handles, Q)
    BY <2>4 DEF ExistsBijection
  <2> QED BY <2>5, FS_Bijection DEF Neat
<1> QED BY <1>1, <1>4 DEF Q

\* What tfs_open returns, and why.
LEMMA OpenOutcomes ==
  ASSUME NEW d, NEW n, NEW r \in tfs_open(d, n)
  PROVE  \/ r.fd = BadFd /\ r.err = "IO"
         \/ r.fd = BadFd /\ r.err = "NOT_EXIST" /\ ItemOf(d, n, {"FILE"}) = {}
         \/ /\ r.fd = BadFd /\ r.err \in {"OK", "NO_FREE_FD"} /\ ItemOf(d, n, {"FILE"}) # {}
            /\ \A i \in ItemOf(d, n, {"FILE"}) : place[i] \notin Handles
            /\ Cardinality(Handles) >= MaxFds
         \/ r.err = "OK" /\ \E i \in ItemOf(d, n, {"FILE"}) : r.fd = place[i]
<1> DEFINE file == {place[id] : id \in ItemOf(d, n, {"FILE"})}
           full == Cardinality(Handles) >= MaxFds /\ file \cap Handles = {}
           O(fds, errs) == [fd : fds, err : errs]
<1>1. tfs_open(d, n) = O({BadFd}, {"IO"}) \cup
        (CASE file = {} -> O({BadFd}, {"NOT_EXIST"})
           [] file # {} /\ full -> O({BadFd}, {"OK", "NO_FREE_FD"})
           [] file # {} /\ ~full -> O(file, {"OK"}))
  BY DEF tfs_open
<1> HIDE DEF file
<1>2. CASE file = {}
  BY <1>1, <1>2 DEF file
<1>3. CASE file # {} /\ full
  BY <1>1, <1>3 DEF file
<1>4. CASE file # {} /\ ~full
  <2> HIDE DEF full
  <2>1. r \in O({BadFd}, {"IO"}) \/ r \in O(file, {"OK"})
    BY <1>1, <1>4
  <2>2. CASE r \in O({BadFd}, {"IO"})
    BY <2>2
  <2>3. CASE r \in O(file, {"OK"})
    <3>1. r.fd \in file /\ r.err = "OK"
      BY <2>3
    <3>2. \E i \in ItemOf(d, n, {"FILE"}) : r.fd = place[i]
      BY <3>1 DEF file
    <3> QED BY <3>1, <3>2
  <2> QED BY <2>1, <2>2, <2>3
<1> QED BY <1>2, <1>3, <1>4

\* One file is opened or closed.
LEMMA Counted ==
  ASSUME NoHandleLeak, NEW P, Neat(P), NEW i \in Ex(tree), NEW n \in Int, UNCHANGED tree,
         \A j \in Ex(tree) : Users'[j] = IF j = i THEN Users[j] + n ELSE Users[j]
  PROVE  /\ PathNodes' = PathNodes
         /\ PathOpened' = [PathOpened EXCEPT ![P[i]] = @ + n]
<1> DEFINE H == [id \in Ids |-> IF id = i THEN Users[id] + n ELSE Users[id]]
           T == [id \in Ids |-> tree[id].type]
           g == [PathOpened EXCEPT ![P[i]] = @ + n]
<1>0. TreeOk(tree, P) /\ tree' = tree /\ TreeOk(tree', P) /\ Ex(tree) \subseteq Ids
  BY DEF Neat, Ex
<1>1. IsNamed(PathNodes, tree, P, T) /\ IsNamed(PathOpened, tree, P, Users)
  BY <1>0, NodesAre
<1>2. IsNamed(PathNodes', tree', P, [id \in Ids |-> tree'[id].type])
      /\ IsNamed(PathOpened', tree', P, Users')
  BY <1>0, NodesAreNext
<1>3. [id \in Ids |-> tree'[id].type] = T /\ \A j \in Ex(tree) : Users'[j] = H[j]
  BY <1>0
<1>4. IsNamed(PathNodes', tree, P, T) /\ IsNamed(PathOpened', tree, P, H)
  <2> HIDE DEF T, H
  <2>1. IsNamed(PathNodes', tree, P, T) /\ IsNamed(PathOpened', tree, P, Users')
    BY <1>0, <1>2, <1>3
  <2> QED BY <1>3, <2>1 DEF IsNamed
<1>5. IsNamed(g, tree, P, H)
  <2> DEFINE D == {P[j] : j \in Ex(tree)}
  <2>1. PathOpened = [q \in D |-> PathOpened[q]] /\ \A j \in Ex(tree) : PathOpened[P[j]] = Users[j]
    BY <1>0, <1>1 DEF IsNamed
  <2>2. \A j \in Ex(tree) : P[j] \in D
    OBVIOUS
  <2> HIDE DEF D
  <2>3. g = [q \in D |-> g[q]]
    BY <2>1
  <2>4. \A j \in Ex(tree) : g[P[j]] = H[j]
    <3> TAKE j \in Ex(tree)
    <3>1. CASE j = i
      BY <1>0, <2>1, <2>2, <3>1
    <3>2. CASE j # i
      <4>1. P[j] # P[i]
        BY <1>0, <3>2, PathsDiffer
      <4> QED BY <1>0, <2>1, <2>2, <3>2, <4>1
    <3> QED BY <3>1, <3>2
  <2> HIDE DEF g, H
  <2> QED BY <2>3, <2>4 DEF IsNamed, D
<1> HIDE DEF T, H, g
<1>6. PathNodes' = PathNodes /\ PathOpened' = g
  BY <1>1, <1>4, <1>5, NamedOnce
<1> QED BY <1>6 DEF g

\* tfs_open has failed, for a request to open or to truncate.
LEMMA OpenFailed ==
  ASSUME NoHandleLeak, NEW P, Neat(P), NEW p \in Paths, p # <<>>, req'.op \in {"open", "truncate"}, req'.path = p,
         NEW t \in travel_path(p), t.err = "OK", ~Long(Last(p)), NEW r \in tfs_open(t.dir, Last(p)),
         r.err # "OK", Failed(r.err)
  PROVE  Kept
<1>1. Item(t.dir, Last(p)) = {i \in Ex(tree) : P[i] = p}
  BY Arrives
<1>2. result' = errors[r.err] /\ answer' = {} /\ UNCHANGED <<tree, place, usage, held, spoiled>>
  BY DEF Failed, check_error, Reply
<1>3. CASE r.err = "IO"
  BY <1>3, FailedIO
<1>4. CASE r.err = "NOT_EXIST" /\ ItemOf(t.dir, Last(p), {"FILE"}) = {}
  <2>1. CASE Item(t.dir, Last(p)) = {}
    BY <1>1, <1>2, <1>4, <2>1, ErrorsAre, NoItemKept
  <2>2. ASSUME NEW i \in Item(t.dir, Last(p)) PROVE Kept
    <3>1. i \in Ex(tree) /\ P[i] = p /\ tree[i].type # "FILE"
      BY <1>1, <1>4 DEF ItemOf
    <3>2. Promise!IsDir(p)
      BY <3>1, PromiseFile
    <3>3. "ENOENT" \in Own(req')
      BY <3>2, Owns
    <3> QED BY <1>2, <1>4, <3>3, ErrorsAre, FailKept DEF Reason
  <2> QED BY <2>1, <2>2
<1>5. CASE r.err = "NO_FREE_FD" /\ Cardinality(Handles) >= MaxFds
  <2>1. Full
    BY <1>5, OpenPaths DEF Full
  <2>2. "EMFILE" \in Own(req')
    BY <2>1, Owns
  <2> QED BY <1>2, <1>5, <2>2, ErrorsAre, FailKept DEF Reason
<1> QED BY <1>3, <1>4, <1>5, OpenOutcomes

\* The file that a call has found is that of the path.
LEMMA FileFound ==
  ASSUME NoHandleLeak, NEW P, Neat(P), NEW p \in Paths, p # <<>>,
         NEW t \in travel_path(p), t.err = "OK", ~Long(Last(p)), NEW i \in ItemOf(t.dir, Last(p), {"FILE"})
  PROVE  /\ i \in Ex(tree) /\ i \in Ids /\ P[i] = p /\ tree[i].type = "FILE" /\ Promise!IsFile(p)
         /\ p \in DOMAIN PathOpened /\ PathOpened[p] = Users[i]
<1>1. Item(t.dir, Last(p)) = {j \in Ex(tree) : P[j] = p}
  BY Arrives
<1>2. i \in Ex(tree) /\ P[i] = p /\ tree[i].type = "FILE" /\ i \in Ids
  BY <1>1 DEF ItemOf, Ex
<1>3. PathOpened[P[i]] = Users[i]
  BY <1>2, PromiseIs
<1>4. P[i] \in DOMAIN PathOpened
  <2>1. P[i] \in {P[j] : j \in Ex(tree)}
    BY <1>2
  <2> QED BY <2>1, PromiseIs
<1> QED BY <1>2, <1>3, <1>4, PromiseFile

\* open that succeeds adds a user to the file of its path.
LEMMA OpenGood ==
  ASSUME NoHandleLeak, NEW P, Neat(P), NEW p \in Paths, p # <<>>, Request("open", p, p),
         NEW t \in travel_path(p), t.err = "OK", ~Long(Last(p)), NEW r \in tfs_open(t.dir, Last(p)),
         r.err = "OK", usage' = Opened(usage, r.fd), held' = [held EXCEPT ![r.fd] = @ + 1],
         check_error("OK"), spoiled' = {}, UNCHANGED <<tree, place>>
  PROVE  Kept
<1>0. req'.op = "open" /\ req'.path = p /\ result' = "OK" /\ answer' = {}
  BY ErrorsAre DEF Request, check_error, Reply
<1>1. /\ tree \in [Ids -> Nodes] /\ place \in [Ids -> Places] /\ usage \in [Places -> Counts]
      /\ held \in [Places \cup {BadFd} -> Nat] /\ BadFd \notin Places /\ spoiled = {}
      /\ \A q \in Places : usage[q] = held[q]
  BY LeakIs, UsersAre, PlacesAre DEF LeakFree, Neat
<1> DEFINE file == ItemOf(t.dir, Last(p), {"FILE"})
<1>2. CASE /\ r.fd = BadFd /\ file # {} /\ Cardinality(Handles) >= MaxFds
           /\ \A i \in file : place[i] \notin Handles
  <2>1. \A q \in Places : held'[q] = held[q]
    BY <1>1, <1>2
  <2>2. usage' = usage
    BY <1>2 DEF Opened
  <2>3. PICK i \in file : place[i] \notin Handles
    BY <1>2
  <2>4. Promise!IsFile(p) /\ PathOpened[p] = Users[i] /\ i \in Ids
    BY <2>3, FileFound
  <2>5. PathOpened[p] = 0
    <3>1. place[i] \in Places /\ Users[i] = held[place[i]] /\ Users[i] \in Nat
      BY <2>4, UsersAre
    <3> QED BY <1>1, <2>3, <2>4, <3>1 DEF Handles
  <2>6. Cardinality({q \in DOMAIN PathOpened : PathOpened[q] > 0}) >= MaxFds
    BY <1>2, OpenPaths
  <2>7. Promise!Same
    BY <2>1, SamePromise
  <2>8. Promise!Dead(p)
    <3>1. Promise!Cardinality({q \in DOMAIN PathOpened : PathOpened[q] > 0}) >= MaxFds
      BY <2>6, PromiseNames
    <3> QED BY <1>0, <2>5, <2>7, <3>1 DEF Promise!Dead, Promise!Done, PathOpened
  <2>9. Promise!Succeed
    BY <1>0, <2>4, <2>8 DEF Promise!Succeed
  <2> QED BY <1>0, <1>1, <2>1, <2>2, <2>9, StillNeat, Succeeds
<1>3. ASSUME NEW i \in file, r.fd = place[i] PROVE Kept
  <2>1. i \in Ex(tree) /\ i \in Ids /\ P[i] = p /\ tree[i].type = "FILE" /\ Promise!IsFile(p)
    BY FileFound
  <2>2. place[i] \in Places /\ place[i] # BadFd
    BY <1>1, <2>1
  <2>3. held' = [held EXCEPT ![place[i]] = @ + 1] /\ usage' = [usage EXCEPT ![place[i]] = usage'[place[i]]]
    BY <1>1, <1>3, <2>2, OpenedIs
  <2>4. \A j \in Ex(tree) : Users'[j] = IF j = i THEN Users[j] + 1 ELSE Users[j]
    <3> TAKE j \in Ex(tree)
    <3>1. j \in Ids /\ Users'[j] = held'[place[j]] /\ Users[j] = held[place[j]] /\ place[j] \in Places
      BY <1>1 DEF Users, Ex
    <3>2. j # i => place[j] # place[i]
      BY <2>1 DEF Neat, Placed
    <3> QED BY <1>1, <2>2, <2>3, <3>1, <3>2
  <2>5. PathNodes' = PathNodes /\ PathOpened' = [PathOpened EXCEPT ![p] = @ + 1]
    <3>1. PathNodes' = PathNodes /\ PathOpened' = [PathOpened EXCEPT ![P[i]] = @ + 1]
      BY <2>1, <2>4, Counted
    <3> QED BY <2>1, <3>1
  <2>6. Promise!Count(p, 1)
    BY <1>0, <2>5 DEF Promise!Count, Promise!Done, PathNodes, PathOpened
  <2>7. Promise!Succeed
    BY <1>0, <2>1, <2>6 DEF Promise!Succeed
  <2>8. NeatTree'
    <3>1. TreeOk(tree', P)
      BY DEF Neat
    <3>2. Placed(tree', place', held')
      BY <1>1, <2>1, <2>2, <2>3 DEF Neat, Placed
    <3>3. Handles' \in SUBSET (Handles \cup {place[i]})
      BY <1>1, <2>2, <2>3 DEF Handles
    <3>4. IsFiniteSet(Handles \cup {place[i]})
      BY FS_AddElement DEF Neat
    <3>5. IsFiniteSet(Handles')
      BY <3>3, <3>4, FS_Subset
    <3>6. Neat(P)'
      BY <3>1, <3>2, <3>5 DEF Neat
    <3> QED BY <3>6 DEF NeatTree
  <2> QED BY <1>0, <2>7, <2>8, Succeeds
<1> QED BY <1>2, <1>3, OpenOutcomes

\* open keeps the promise, and fails for a reason.
LEMMA OpenKept ==
  ASSUME NoHandleLeak, NEW P, Neat(P), NEW p \in Paths, p # <<>>, op_open(p), spoiled' = {}
  PROVE  Kept
<1>0. Request("open", p, p) /\ req'.op = "open" /\ req'.path = p
  BY DEF op_open, ByPath, Request
<1>1. PICK t \in travel_path(p) :
        \/ t.err # "OK" /\ Failed(t.err)
        \/ Long(Last(p)) /\ Reply("ENAMETOOLONG", {}) /\ UNCHANGED <<tree, place, usage, held, spoiled>>
        \/ /\ t.err = "OK" /\ ~Long(Last(p))
           /\ \E r \in tfs_open(t.dir, Last(p)) :
                \/ r.err # "OK" /\ Failed(r.err)
                \/ /\ r.err = "OK" /\ usage' = Opened(usage, r.fd) /\ held' = [held EXCEPT ![r.fd] = @ + 1]
                   /\ check_error("OK") /\ UNCHANGED <<tree, place>>
  BY Zenon DEF op_open, ByPath
<1>2. ASSUME t.err = "OK", ~Long(Last(p)), NEW r \in tfs_open(t.dir, Last(p)),
             r.err # "OK", Failed(r.err)
      PROVE  Kept
  BY <1>0, <1>2, OpenFailed
<1>3. ASSUME t.err = "OK", ~Long(Last(p)), NEW r \in tfs_open(t.dir, Last(p)),
             r.err = "OK", usage' = Opened(usage, r.fd), held' = [held EXCEPT ![r.fd] = @ + 1],
             check_error("OK"), UNCHANGED <<tree, place>>
      PROVE  Kept
  BY <1>0, <1>3, OpenGood
<1>4. CASE \/ t.err # "OK" /\ Failed(t.err)
           \/ Long(Last(p)) /\ Reply("ENAMETOOLONG", {}) /\ UNCHANGED <<tree, place, usage, held, spoiled>>
  BY <1>0, <1>4, ByPathKept DEF ByFdOps
<1> QED BY <1>1, <1>2, <1>3, <1>4

\* truncate that has opened the file leaves its users as they were, whatever tfs_trunc answers.
LEMMA TruncGood ==
  ASSUME NoHandleLeak, NEW P, Neat(P), NEW p \in Paths, p # <<>>, Request("truncate", p, p),
         NEW t \in travel_path(p), t.err = "OK", ~Long(Last(p)), NEW r \in tfs_open(t.dir, Last(p)),
         r.err = "OK", NEW e \in FdErrors(Opened(usage, r.fd), r.fd, Writing),
         Reply(errors[e], {}), usage' = AfterTrunc(Opened(usage, r.fd), r.fd, e),
         Spoil("wrapped", Wraps(r.fd)), spoiled' = {}, UNCHANGED <<tree, place, held>>
  PROVE  Kept
<1>0. req'.op = "truncate" /\ req'.path = p /\ result' = errors[e] /\ answer' = {}
  BY DEF Request, Reply
<1>4. /\ LeakFree /\ place \in [Ids -> Places] /\ usage \in [Places -> Counts] /\ spoiled \subseteq Hazards
      /\ UNCHANGED spoiled
  BY LeakIs DEF LeakFree, Neat
<1>5. ~Wraps(r.fd)
  BY <1>4, SpoilIs DEF Hazards
<1>1. usage' = usage
  <2>1. r.fd \in Places \cup {BadFd}
    BY <1>4, OpenType
  <2> QED BY <1>4, <1>5, <2>1, TruncPairs
<1> DEFINE file == ItemOf(t.dir, Last(p), {"FILE"})
<1>2. CASE r.fd = BadFd /\ Cardinality(Handles) >= MaxFds
  <2>1. e = "INVAL_FD"
    BY <1>2 DEF FdErrors, Valid
  <2>2. Full
    BY <1>2, OpenPaths DEF Full
  <2>3. "EBADF" \in Own(req')
    BY <1>0, <2>2, Owns
  <2> QED BY <1>0, <1>1, <1>4, <2>1, <2>3, ErrorsAre, FailKept DEF Reason
<1>3. ASSUME NEW i \in file, r.fd = place[i] PROVE Kept
  <2>1. i \in Ids /\ Promise!IsFile(p)
    BY FileFound
  <2>2. Valid(Opened(usage, r.fd), r.fd)
    <3>1. r.fd \in Places /\ r.fd # BadFd /\ usage[r.fd] \in Nat
      BY <1>3, <1>4, <2>1, PlacesAre DEF Counts
    <3>2. Opened(usage, r.fd)[r.fd] = usage[r.fd] + 1
      BY <1>4, <1>5, <3>1, OpenedIs
    <3> QED BY <3>1, <3>2 DEF Valid
  <2>3. e \in {"OK", "IO", "DISK_FULL", "UNEXP_EOF"}
    BY <2>2 DEF FdErrors, Writing, Reading
  <2>4. CASE e = "OK"
    <3>1. Promise!Same
      BY SamePromise
    <3>2. Promise!Succeed
      BY <1>0, <2>1, <2>4, <3>1, ErrorsAre DEF Promise!Succeed, Promise!Done
    <3> QED BY <1>0, <1>1, <1>4, <2>4, <3>2, ErrorsAre, StillNeat, Succeeds
  <2>5. CASE e \in {"IO", "DISK_FULL", "UNEXP_EOF"}
    <3>1. result' \in Own(req') /\ result' # "OK"
      BY <1>0, <2>5, ErrorsAre, Owns
    <3> QED BY <1>0, <1>1, <1>4, <3>1, FailKept DEF Reason
  <2> QED BY <2>3, <2>4, <2>5
<1> QED BY <1>2, <1>3, OpenOutcomes

\* truncate keeps the promise, and fails for a reason.
LEMMA TruncateKept ==
  ASSUME NoHandleLeak, NEW P, Neat(P), NEW p \in Paths, p # <<>>, op_truncate(p), spoiled' = {}
  PROVE  Kept
<1>0. Request("truncate", p, p) /\ req'.op = "truncate" /\ req'.path = p
  BY DEF op_truncate, ByPath, Request
<1>1. PICK t \in travel_path(p) :
        \/ t.err # "OK" /\ Failed(t.err)
        \/ Long(Last(p)) /\ Reply("ENAMETOOLONG", {}) /\ UNCHANGED <<tree, place, usage, held, spoiled>>
        \/ /\ t.err = "OK" /\ ~Long(Last(p))
           /\ \E r \in tfs_open(t.dir, Last(p)) :
                \/ r.err # "OK" /\ Failed(r.err)
                \/ /\ r.err = "OK"
                   /\ \E e \in FdErrors(Opened(usage, r.fd), r.fd, Writing) :
                        Reply(errors[e], {}) /\ usage' = AfterTrunc(Opened(usage, r.fd), r.fd, e)
                   /\ Spoil("wrapped", Wraps(r.fd)) /\ UNCHANGED <<tree, place, held>>
  BY Zenon DEF op_truncate, ByPath
<1>2. ASSUME t.err = "OK", ~Long(Last(p)), NEW r \in tfs_open(t.dir, Last(p)),
             r.err # "OK", Failed(r.err)
      PROVE  Kept
  BY <1>0, <1>2, OpenFailed
<1>3. ASSUME t.err = "OK", ~Long(Last(p)), NEW r \in tfs_open(t.dir, Last(p)), r.err = "OK",
             NEW e \in FdErrors(Opened(usage, r.fd), r.fd, Writing),
             Reply(errors[e], {}), usage' = AfterTrunc(Opened(usage, r.fd), r.fd, e),
             Spoil("wrapped", Wraps(r.fd)), UNCHANGED <<tree, place, held>>
      PROVE  Kept
  BY <1>0, <1>3, TruncGood
<1>4. CASE \/ t.err # "OK" /\ Failed(t.err)
           \/ Long(Last(p)) /\ Reply("ENAMETOOLONG", {}) /\ UNCHANGED <<tree, place, usage, held, spoiled>>
  BY <1>0, <1>4, ByPathKept DEF ByFdOps
<1> QED BY <1>1, <1>2, <1>3, <1>4

\* What is open with a descriptor is the file at its place.
LEMMA PathAtIs ==
  ASSUME NoHandleLeak, NEW P, Neat(P), NEW i \in Ex(tree)
  PROVE  PathAt(place[i]) = P[i]
<1> DEFINE at == {id \in Existing : place[id] = place[i]}
<1>1. at = {i}
  BY DEF Existing, Ex, Neat, Placed
<1>2. PathAt(place[i]) = IF at = {} THEN <<>> ELSE PathOf(CHOOSE id \in at : TRUE)
  BY DEF PathAt
<1> HIDE DEF at
<1>3. PathAt(place[i]) = PathOf(i)
  BY <1>1, <1>2
<1>4. i \in Ids
  BY DEF Ex
<1> QED BY <1>3, <1>4, PathOfIs DEF Neat

\* A descriptor that the kernel has and the request it comes with.
LEMMA ByFdIs ==
  ASSUME NoHandleLeak, NEW P, Neat(P), NEW fd \in Places \cup {BadFd}, NEW op, NEW errs, ByFd(op, fd, errs)
  PROVE  /\ req'.op = op /\ answer' = {} /\ held[fd] > 0 /\ UNCHANGED <<tree, place, spoiled>>
         /\ fd = BadFd => result' = "EBADF"
         /\ fd # BadFd => /\ Valid(usage, fd) /\ \E e \in errs : result' = errors[e]
                          /\ \E i \in Ex(tree) :
                               /\ place[i] = fd /\ req'.path = P[i] /\ P[i] \in DOMAIN PathOpened
                               /\ Promise!OpenIn(P[i]) = held[fd]
<1>1. req'.op = op /\ req'.path = PathAt(fd) /\ held[fd] > 0 /\ UNCHANGED <<tree, place, spoiled>>
      /\ \E e \in FdErrors(usage, fd, errs) : result' = errors[e] /\ answer' = {}
  BY DEF ByFd, Request, check_error, Reply
<1>2. CASE fd = BadFd
  <2>1. FdErrors(usage, fd, errs) = {"INVAL_FD"}
    BY <1>2 DEF FdErrors, Valid
  <2> QED BY <1>1, <1>2, <2>1, ErrorsAre
<1>3. CASE fd # BadFd
  <2>1. PICK i \in Ex(tree) : place[i] = fd
    BY <1>1, <1>3 DEF Neat, Placed
  <2>2. usage[fd] = held[fd] /\ i \in Ids /\ Users[i] = held[fd]
    BY <1>3, <2>1, UsersAre DEF Ex
  <2>3. Valid(usage, fd)
    BY <1>1, <1>3, <2>2 DEF Valid
  <2>4. FdErrors(usage, fd, errs) = errs
    BY <2>3 DEF FdErrors
  <2>5. PathAt(fd) = P[i]
    BY <2>1, PathAtIs
  <2>6. P[i] \in DOMAIN PathOpened
    <3>1. P[i] \in {P[j] : j \in Ex(tree)}
      BY <2>1
    <3> QED BY <3>1, PromiseIs
  <2>7. Promise!OpenIn(P[i]) = held[fd]
    BY <2>1, <2>2, PromiseFile
  <2> QED BY <1>1, <1>3, <2>1, <2>3, <2>4, <2>5, <2>6, <2>7
<1> QED BY <1>2, <1>3

\* Reading, writing and truncating an open file.
LEMMA UseKept ==
  ASSUME NoHandleLeak, NEW P, Neat(P), NEW fd \in Places \cup {BadFd}, UNCHANGED <<usage, held>>,
         ByFd("read", fd, Reading) \/ ByFd("write", fd, Writing) \/ ByFd("ftruncate", fd, Writing)
  PROVE  Kept
<1>1. PICK op \in {"read", "write", "ftruncate"} :
        /\ req'.op = op /\ answer' = {} /\ held[fd] > 0 /\ UNCHANGED <<tree, place, spoiled>>
        /\ fd = BadFd => result' = "EBADF"
        /\ fd # BadFd => /\ \E e \in IF op = "read" THEN Reading ELSE Writing : result' = errors[e]
                         /\ Promise!OpenIn(req'.path) = held[fd]
  <2>1. CASE ByFd("read", fd, Reading)
    BY <2>1, ByFdIs
  <2>2. CASE ByFd("write", fd, Writing)
    BY <2>2, ByFdIs
  <2>3. CASE ByFd("ftruncate", fd, Writing)
    BY <2>3, ByFdIs
  <2> QED BY <2>1, <2>2, <2>3
<1>4. \/ fd = BadFd /\ result' = "EBADF"
      \/ fd # BadFd /\ result' \in {"OK", "EIO", "ESPIPE"}
      \/ fd # BadFd /\ result' = "ENOSPC" /\ op \in {"write", "ftruncate"}
  BY <1>1, ErrorsAre DEF Reading, Writing
<1>2. CASE result' = "OK"
  <2>1. fd # BadFd /\ Promise!OpenIn(req'.path) > 0
    BY <1>1, <1>2, <1>4
  <2>2. Promise!Same
    BY <1>1, SamePromise
  <2>3. Promise!Succeed
    BY <1>1, <1>2, <2>1, <2>2 DEF Promise!Succeed, Promise!Done
  <2> QED BY <1>1, <1>2, <2>3, StillNeat, Succeeds
<1>3. CASE result' # "OK"
  <2>1. result' \in Own(req')
    BY <1>1, <1>3, <1>4, Owns
  <2> QED BY <1>1, <1>3, <2>1, FailKept DEF Reason
<1> QED BY <1>2, <1>3

\* release takes one user from the file, or finds the descriptor closed.
LEMMA ReleaseKept ==
  ASSUME NoHandleLeak, NEW P, Neat(P), NEW fd \in Places \cup {BadFd}, op_release(fd)
  PROVE  Kept
<1>0. ByFd("release", fd, {"OK"}) /\ usage' = Closed(usage, fd) /\ held' = [held EXCEPT ![fd] = @ - 1]
  BY DEF op_release
<1>1. /\ place \in [Ids -> Places] /\ usage \in [Places -> Counts] /\ spoiled = {}
      /\ held \in [Places \cup {BadFd} -> Nat] /\ BadFd \notin Places
  BY LeakIs, PlacesAre DEF LeakFree, Neat
<1>2. CASE fd = BadFd
  <2>1. \A q \in Places : held'[q] = held[q]
    BY <1>0, <1>1, <1>2
  <2>2. usage' = usage
    BY <1>0, <1>1, <1>2, ClosedIs
  <2>3. /\ req'.op = "release" /\ answer' = {} /\ held[BadFd] > 0 /\ result' = "EBADF"
        /\ UNCHANGED <<tree, place, spoiled>>
    BY <1>0, <1>2, ByFdIs
  <2>4. "EBADF" \in Own(req')
    BY <2>3, Owns
  <2> QED BY <2>1, <2>2, <2>3, <2>4, FailKept DEF Reason
<1>3. CASE fd # BadFd
  <2>1. /\ req'.op = "release" /\ answer' = {} /\ held[fd] > 0 /\ UNCHANGED <<tree, place, spoiled>>
        /\ fd \in Places /\ Valid(usage, fd) /\ result' = "OK"
    BY <1>0, <1>3, ByFdIs, ErrorsAre
  <2>9. PICK i \in Ex(tree) : /\ place[i] = fd /\ req'.path = P[i] /\ P[i] \in DOMAIN PathOpened
                              /\ Promise!OpenIn(P[i]) = held[fd]
    BY <1>0, <1>3, ByFdIs
  <2>2. usage' = [usage EXCEPT ![fd] = @ - 1]
    BY <1>0, <2>1 DEF Closed
  <2>3. \A j \in Ex(tree) : Users'[j] = IF j = i THEN Users[j] + (-1) ELSE Users[j]
    <3> TAKE j \in Ex(tree)
    <3>1. j \in Ids /\ Users'[j] = held'[place[j]] /\ Users[j] = held[place[j]] /\ place[j] \in Places
      BY <1>1, <2>1 DEF Users, Ex
    <3>2. j # i => place[j] # fd
      BY <2>9 DEF Neat, Placed
    <3> QED BY <1>0, <1>1, <2>1, <2>9, <3>1, <3>2
  <2>4. PathNodes' = PathNodes /\ PathOpened' = [PathOpened EXCEPT ![P[i]] = @ + (-1)]
    BY <2>1, <2>3, Counted
  <2>5. Promise!Count(req'.path, -1)
    BY <2>1, <2>4, <2>9 DEF Promise!Count, Promise!Done, PathNodes, PathOpened
  <2>6. Promise!OpenIn(req'.path) > 0
    BY <2>1, <2>9
  <2>7. Promise!Succeed
    BY <2>1, <2>5, <2>6 DEF Promise!Succeed
  <2>8. NeatTree'
    <3>1. TreeOk(tree', P)
      BY <2>1 DEF Neat
    <3>2. Placed(tree', place', held')
      <4>1. \A q \in Places : held'[q] > 0 => held[q] > 0
        BY <1>0, <1>1, <2>1
      <4> QED BY <2>1, <4>1 DEF Neat, Placed
    <3>3. Handles' \in SUBSET Handles
      <4>1. \A q \in Places : usage'[q] > 0 => usage[q] > 0
        BY <1>1, <2>1, <2>2 DEF Counts, Valid
      <4> QED BY <4>1 DEF Handles
    <3>4. IsFiniteSet(Handles')
      BY <3>3, FS_Subset DEF Neat
    <3>5. Neat(P)'
      BY <1>1, <2>1, <3>1, <3>2, <3>4 DEF Neat
    <3> QED BY <3>5 DEF NeatTree
  <2> QED BY <2>1, <2>7, <2>8, Succeeds
<1> QED BY <1>2, <1>3

\* The requests by descriptor keep the promise, and fail for a reason.
LEMMA FdKept ==
  ASSUME NoHandleLeak, NEW P, Neat(P), NEW fd \in Places \cup {BadFd},
         op_ftruncate(fd) \/ op_read(fd) \/ op_write(fd) \/ op_release(fd)
  PROVE  Kept
BY UseKept, ReleaseKept DEF op_ftruncate, op_read, op_write

-----------------------------------------------------------------------------
(* Requests that make and delete items.                                    *)

SetAt(f, k, x) == [f EXCEPT ![k] = x]

\* An item made in a directory, by a name that nothing there has, keeps the tree a tree: its
\* path is that of the directory and the name.
LEMMA NewTree ==
  ASSUME NEW tr, NEW P, TreeOk(tr, P), NEW k \in Ids, tr[k].type = "FREE",
         NEW x \in Nodes, IsDirId(tr, x.dir), ~Long(x.name), x.type # "FREE",
         \A i \in Ex(tr) : ~(tr[i].dir = x.dir /\ tr[i].name = x.name)
  PROVE  TreeOk(SetAt(tr, k, x), SetAt(P, k, Append(Up(P, x.dir), x.name)))
         /\ Ex(SetAt(tr, k, x)) = Ex(tr) \cup {k}
<1> DEFINE d == x.dir
           n == x.name
           u == SetAt(tr, k, x)
           Q == SetAt(P, k, Append(Up(P, d), n))
<1>0. /\ tr \in [Ids -> Nodes] /\ P \in [Ids -> Seq(Names)]
      /\ \A i \in Ids : tr[i].type = "FREE" => tr[i].dir = ROOT
      /\ \A i \in Ex(tr) : IsDirId(tr, tr[i].dir) /\ ~Long(tr[i].name)
      /\ \A i, j \in Ex(tr) : tr[i].dir = tr[j].dir /\ tr[i].name = tr[j].name => i = j
      /\ \A i \in Ids : P[i] = Append(Up(P, tr[i].dir), tr[i].name)
  BY DEF TreeOk, Fine, PathsAre
<1>6. d # k /\ d \in Dirs
  BY IdsAre DEF IsDirId, Dirs
<1>1. x.dir = d /\ x.name = n /\ n \in Names /\ d # k
  BY <1>6 DEF Nodes
<1>2. u \in [Ids -> Nodes] /\ u[k] = x /\ \A i \in Ids : i # k => u[i] = tr[i]
  BY <1>0 DEF SetAt
<1> HIDE DEF d, n, u
<1>3. Ex(u) = Ex(tr) \cup {k}
  BY <1>1, <1>2 DEF Ex
<1>4. \A e : IsDirId(tr, e) => IsDirId(u, e) /\ e # k
  BY <1>2, IdsAre DEF IsDirId
<1>5. Fine(u)
  <2>1. \A i \in Ids : u[i].type = "FREE" => u[i].dir = ROOT
    BY <1>0, <1>1, <1>2
  <2>2. \A i \in Ex(u) : IsDirId(u, u[i].dir) /\ ~Long(u[i].name)
    <3> TAKE i \in Ex(u)
    <3>1. CASE i = k
      BY <1>1, <1>2, <1>4, <3>1
    <3>2. CASE i # k
      BY <1>0, <1>2, <1>3, <1>4, <3>2 DEF Ex
    <3> QED BY <3>1, <3>2
  <2>3. ASSUME NEW i \in Ex(u), NEW j \in Ex(u), u[i].dir = u[j].dir, u[i].name = u[j].name
        PROVE  i = j
    <3>1. CASE i = k /\ j # k
      BY <1>1, <1>2, <1>3, <2>3, <3>1 DEF Ex
    <3>2. CASE j = k /\ i # k
      BY <1>1, <1>2, <1>3, <2>3, <3>2 DEF Ex
    <3>3. CASE i # k /\ j # k
      BY <1>0, <1>2, <1>3, <2>3, <3>3 DEF Ex
    <3> QED BY <3>1, <3>2, <3>3
  <2> QED BY <1>2, <2>1, <2>2, <2>3 DEF Fine
<1>7. PathsAre(u, Q)
  <2>1. Up(P, d) \in Seq(Names)
    BY <1>6, UpIs
  <2>2. Append(Up(P, d), n) \in Seq(Names)
    BY <1>1, <2>1, Appended
  <2>3. Q \in [Ids -> Seq(Names)] /\ Q[k] = Append(Up(P, d), n) /\ \A i \in Ids : i # k => Q[i] = P[i]
    BY <1>0, <2>2 DEF SetAt
  <2> HIDE DEF Q
  <2>4. \A e \in Dirs : e # k => Up(Q, e) = Up(P, e)
    BY <2>3 DEF Up, Dirs
  <2>5. \A i \in Ids : tr[i].dir # k /\ tr[i].dir \in Dirs
    <3> TAKE i \in Ids
    <3>1. tr[i].dir \in Dirs
      BY PathIs
    <3>2. tr[i].type = "FREE" => tr[i].dir # k
      BY <1>0, IdsAre
    <3>3. tr[i].type # "FREE" => tr[i].dir # k
      BY <1>0, <1>4 DEF Ex
    <3> QED BY <3>1, <3>2, <3>3
  <2>6. \A i \in Ids : Q[i] = Append(Up(Q, u[i].dir), u[i].name)
    <3> TAKE i \in Ids
    <3>1. CASE i = k
      BY <1>1, <1>2, <1>6, <2>3, <2>4, <3>1
    <3>2. CASE i # k
      BY <1>0, <1>2, <2>3, <2>4, <2>5, <3>2
    <3> QED BY <3>1, <3>2
  <2> QED BY <2>3, <2>6 DEF PathsAre
<1> QED BY <1>3, <1>5, <1>7 DEF TreeOk, u, d, n

\* An item that nothing lies in goes: the rest stays a tree.
LEMMA GoneTree ==
  ASSUME NEW tr, NEW P, TreeOk(tr, P), NEW k \in Ex(tr), \A i \in Ex(tr) : tr[i].dir # k
  PROVE  TreeOk(SetAt(tr, k, FreeItem), SetAt(P, k, <<FreeItem.name>>))
         /\ Ex(SetAt(tr, k, FreeItem)) = Ex(tr) \ {k}
<1> DEFINE u == SetAt(tr, k, FreeItem)
           Q == SetAt(P, k, <<FreeItem.name>>)
<1>0. /\ tr \in [Ids -> Nodes] /\ P \in [Ids -> Seq(Names)] /\ k \in Ids
      /\ \A i \in Ids : tr[i].type = "FREE" => tr[i].dir = ROOT
      /\ \A i \in Ex(tr) : IsDirId(tr, tr[i].dir) /\ ~Long(tr[i].name)
      /\ \A i, j \in Ex(tr) : tr[i].dir = tr[j].dir /\ tr[i].name = tr[j].name => i = j
      /\ \A i \in Ids : P[i] = Append(Up(P, tr[i].dir), tr[i].name)
  BY DEF TreeOk, Fine, PathsAre, Ex
<1>1. /\ FreeItem \in Nodes /\ FreeItem.dir = ROOT /\ FreeItem.type = "FREE" /\ FreeItem.name \in Names
  BY FuseAssumption DEF FreeItem, Nodes, Dirs
<1>2. u \in [Ids -> Nodes] /\ u[k] = FreeItem /\ \A i \in Ids : i # k => u[i] = tr[i]
  BY <1>0, <1>1 DEF SetAt
<1> HIDE DEF u
<1>3. Ex(u) = Ex(tr) \ {k}
  BY <1>1, <1>2 DEF Ex
<1>4. Fine(u)
  <2>1. \A i \in Ids : u[i].type = "FREE" => u[i].dir = ROOT
    BY <1>0, <1>1, <1>2
  <2>2. ASSUME NEW i \in Ex(u) PROVE IsDirId(u, u[i].dir) /\ ~Long(u[i].name)
    <3>1. i \in Ex(tr) /\ u[i] = tr[i]
      BY <1>2, <1>3 DEF Ex
    <3>2. IsDirId(tr, tr[i].dir) /\ ~Long(tr[i].name) /\ tr[i].dir # k
      BY <1>0, <3>1
    <3> QED BY <1>2, <3>1, <3>2 DEF IsDirId
  <2>3. ASSUME NEW i \in Ex(u), NEW j \in Ex(u), u[i].dir = u[j].dir, u[i].name = u[j].name
        PROVE  i = j
    BY <1>0, <1>2, <1>3, <2>3 DEF Ex
  <2> QED BY <1>2, <2>1, <2>2, <2>3 DEF Fine
<1>5. PathsAre(u, Q)
  <2>1. <<FreeItem.name>> \in Seq(Names) /\ <<FreeItem.name>> = Append(<<>>, FreeItem.name)
    BY <1>1
  <2>2. Q \in [Ids -> Seq(Names)] /\ Q[k] = <<FreeItem.name>> /\ \A i \in Ids : i # k => Q[i] = P[i]
    BY <1>0, <2>1 DEF SetAt
  <2> HIDE DEF Q
  <2>3. \A i \in Ids : tr[i].dir # k /\ tr[i].dir \in Dirs
    <3> TAKE i \in Ids
    <3>1. tr[i].dir \in Dirs
      BY PathIs
    <3>2. tr[i].type = "FREE" => tr[i].dir # k
      BY <1>0, IdsAre
    <3> QED BY <3>1, <3>2 DEF Ex
  <2>4. \A e \in Dirs : e # k => Up(Q, e) = Up(P, e)
    BY <2>2 DEF Up, Dirs
  <2>5. \A i \in Ids : Q[i] = Append(Up(Q, u[i].dir), u[i].name)
    <3> TAKE i \in Ids
    <3>1. CASE i = k
      <4>1. Up(Q, ROOT) = <<>>
        BY DEF Up
      <4> QED BY <1>1, <1>2, <2>1, <2>2, <3>1, <4>1
    <3>2. CASE i # k
      BY <1>0, <1>2, <2>2, <2>3, <2>4, <3>2
    <3> QED BY <3>1, <3>2
  <2> QED BY <2>2, <2>5 DEF PathsAre
<1> QED BY <1>3, <1>4, <1>5 DEF TreeOk, u

\* A transfer behind the change may fail.
LEMMA WrittenIs ==
  ASSUME Written
  PROVE  /\ answer' = {} /\ (result' = "OK" \/ result' = "EIO")
         /\ Promise!Changed
         /\ result' # "OK" => Reason
<1>1. answer' = {} /\ (result' = "OK" \/ result' = "EIO")
  BY ErrorsAre DEF Written, check_error, Reply
<1> QED BY <1>1, Owns DEF Promise!Changed, Reason

\* A request that writes and is granted keeps the promise.
LEMMA Changes ==
  ASSUME NeatTree', Promise!Succeed, Written
  PROVE  Kept
BY WrittenIs DEF Kept, Promise!PNext

\* The paths that there are.
PathSet(P) == {P[i] : i \in Ex(tree)}

\* The promise knows the paths of the items and no others.
LEMMA PromiseDomain ==
  ASSUME NoHandleLeak, NEW P, Neat(P)
  PROVE  DOMAIN PathNodes = PathSet(P) /\ DOMAIN PathOpened = PathSet(P)
BY PromiseIs DEF PathSet

\* A new item is a new path.
LEMMA Makes ==
  ASSUME NoHandleLeak, NEW P, Neat(P), NEW d, IsDirId(tree, d), NEW p \in Seq(Names), p # <<>>,
         Up(P, d) = Front(p), ~Long(Last(p)), {i \in Ex(tree) : P[i] = p} = {},
         NEW type \in {"FILE", "DIR"}, NEW k \in Ids, tree[k].type = "FREE",
         tree' = SetAt(tree, k, [dir |-> d, name |-> Last(p), type |-> type]),
         NEW q \in FreePlaces(d), place' = SetAt(place, k, q),
         UNCHANGED <<usage, held, spoiled>>, Written
  PROVE  NeatTree' /\ Promise!Make(p, type)
<1> DEFINE Q == [P EXCEPT ![k] = p]
           D == PathSet(P)
<1>0. /\ TreeOk(tree, P) /\ Ex(tree) \subseteq Ids /\ tree \in [Ids -> Nodes] /\ P \in [Ids -> Seq(Names)]
      /\ p = Append(Front(p), Last(p)) /\ Last(p) \in Names /\ Front(p) \in Seq(Names)
  BY FrontLast DEF Neat, TreeOk, Fine, PathsAre, Ex
<1>1. \A i \in Ex(tree) : ~(tree[i].dir = d /\ tree[i].name = Last(p))
  <2> SUFFICES ASSUME NEW i \in Ex(tree), tree[i].dir = d, tree[i].name = Last(p) PROVE FALSE
    OBVIOUS
  <2>1. P[i] = Append(Up(P, d), Last(p))
    BY <1>0, PathIs
  <2>2. P[i] = p
    BY <1>0, <2>1
  <2> QED BY <2>2
<1>2. TreeOk(tree', Q) /\ Ex(tree') = Ex(tree) \cup {k}
  <2>1. Append(Up(P, d), Last(p)) = p
    BY <1>0
  <2> DEFINE x == [dir |-> d, name |-> Last(p), type |-> type]
  <2>2. d \in Dirs
    BY DEF IsDirId, Dirs
  <2>3. x \in Nodes /\ x.dir = d /\ x.name = Last(p) /\ x.type # "FREE"
    BY <1>0, <2>2 DEF Nodes
  <2>4. tree' = SetAt(tree, k, x) /\ Q = SetAt(P, k, Append(Up(P, x.dir), x.name))
    BY <2>1, <2>3 DEF SetAt
  <2> HIDE DEF x, Q
  <2>5. TreeOk(SetAt(tree, k, x), SetAt(P, k, Append(Up(P, x.dir), x.name)))
         /\ Ex(SetAt(tree, k, x)) = Ex(tree) \cup {k}
    BY <1>0, <1>1, <2>3, NewTree
  <2> QED BY <2>4, <2>5
<1>3. k \notin Ex(tree) /\ tree'[k].type = type /\ \A i \in Ids : i # k => tree'[i] = tree[i]
  BY <1>0 DEF Ex, SetAt
<1>4. Q[k] = p /\ \A i \in Ids : i # k => Q[i] = P[i]
  BY <1>0
<1> HIDE DEF Q
<1>5. held[q] = 0 /\ q \in Places /\ \A i \in Ex(tree) : place[i] # q
  <2>1. q \in Places /\ \A i \in Ex(tree) : place[i] # q
    BY DEF FreePlaces, Existing, Ex
  <2>2. held[q] \in Nat /\ ~(held[q] > 0)
    BY <2>1, LeakIs DEF LeakFree, Neat, Placed
  <2> QED BY <2>1, <2>2
<1>18. place \in [Ids -> Places] /\ place'[k] = q /\ \A i \in Ids : i # k => place'[i] = place[i]
  BY <1>5, LeakIs DEF LeakFree, SetAt
<1>19. Users'[k] = 0 /\ \A i \in Ids : i # k => Users'[i] = Users[i]
  BY <1>5, <1>18 DEF Users
<1>6. NeatTree'
  <2>1. Placed(tree', place', held') /\ spoiled' = {}
    <3>1. \A i, j \in Ex(tree') : place'[i] = place'[j] => i = j
      <4> TAKE i, j \in Ex(tree')
      <4> HAVE place'[i] = place'[j]
      <4>1. \A x \in Ex(tree) : x # k /\ place'[x] = place[x] /\ place[x] # q
        BY <1>0, <1>3, <1>5, <1>18
      <4>2. \A x, y \in Ex(tree) : place[x] = place[y] => x = y
        BY DEF Neat, Placed
      <4>3. CASE i = k \/ j = k
        BY <1>2, <1>18, <4>1, <4>3
      <4>4. CASE i # k /\ j # k
        BY <1>2, <4>1, <4>2, <4>4
      <4> QED BY <4>3, <4>4
    <3>2. ASSUME NEW x \in Places, held'[x] > 0 PROVE \E i \in Ex(tree') : place'[i] = x /\ tree'[i].type = "FILE"
      <4>1. PICK i \in Ex(tree) : place[i] = x /\ tree[i].type = "FILE"
        BY <3>2 DEF Neat, Placed
      <4> QED BY <1>0, <1>2, <1>3, <1>18, <4>1
    <3> QED BY <3>1, <3>2 DEF Placed, Neat
  <2>2. Handles' = Handles
    BY DEF Handles
  <2>3. Neat(Q)'
    BY <1>2, <2>1, <2>2 DEF Neat
  <2> QED BY <2>3 DEF NeatTree
<1>7. {Q[i] : i \in Ex(tree')} = D \cup {p}
  <2>1. \A i \in Ex(tree') : Q[i] \in D \cup {p}
    BY <1>0, <1>2, <1>4 DEF PathSet
  <2>2. \A y \in D \cup {p} : \E i \in Ex(tree') : Q[i] = y
    <3> TAKE y \in D \cup {p}
    <3>1. CASE y = p
      BY <1>2, <1>4, <3>1
    <3>2. CASE y # p
      <4>1. PICK i \in Ex(tree) : y = P[i]
        BY <3>2 DEF PathSet
      <4> QED BY <1>0, <1>2, <1>3, <1>4, <4>1
    <3> QED BY <3>1, <3>2
  <2> HIDE DEF D
  <2>3. ASSUME NEW y PROVE y \in {Q[i] : i \in Ex(tree')} <=> y \in D \cup {p}
    <3>1. y \in {Q[i] : i \in Ex(tree')} => y \in D \cup {p}
      BY <2>1
    <3>2. y \in D \cup {p} => y \in {Q[i] : i \in Ex(tree')}
      BY <2>2
    <3> QED BY <3>1, <3>2
  <2> QED BY <2>3
<1>8. p \notin D /\ \A i \in Ex(tree) : P[i] # p /\ P[i] \in D
  BY DEF PathSet
<1>9. DOMAIN PathNodes = D /\ DOMAIN PathOpened = D
      /\ \A i \in Ex(tree) : PathNodes[P[i]] = tree[i].type /\ PathOpened[P[i]] = Users[i]
  BY PromiseDomain, PromiseIs
<1>10. IsNamed(PathNodes', tree', Q, [id \in Ids |-> tree'[id].type])
       /\ IsNamed(PathOpened', tree', Q, Users')
  BY <1>2, NodesAreNext
<1> DEFINE g == [y \in D \cup {p} |-> IF y = p THEN type ELSE PathNodes[y]]
           h == [y \in D \cup {p} |-> Promise!OpenIn(y)]
<1> HIDE DEF D
<1>11. IsNamed(g, tree', Q, [id \in Ids |-> tree'[id].type])
  <2>1. \A i \in Ex(tree') : g[Q[i]] = tree'[i].type /\ i \in Ids
    <3> TAKE i \in Ex(tree')
    <3>1. CASE i = k
      BY <1>3, <1>4, <3>1
    <3>2. CASE i # k
      BY <1>0, <1>2, <1>3, <1>4, <1>8, <1>9, <3>2
    <3> QED BY <3>1, <3>2
  <2>2. g = [y \in {Q[i] : i \in Ex(tree')} |-> g[y]]
    BY <1>7
  <2> HIDE DEF g
  <2> QED BY <2>1, <2>2 DEF IsNamed
<1>12. IsNamed(h, tree', Q, Users')
  <2>1. Promise!OpenIn(p) = 0 /\ \A i \in Ex(tree) : Promise!OpenIn(P[i]) = Users[i]
    BY <1>8, <1>9 DEF Promise!OpenIn, PathOpened
  <2>2. \A i \in Ex(tree') : h[Q[i]] = Users'[i] /\ i \in Ids
    <3> TAKE i \in Ex(tree')
    <3>1. CASE i = k
      BY <1>4, <1>19, <2>1, <3>1
    <3>2. CASE i # k
      BY <1>0, <1>2, <1>4, <1>8, <1>19, <2>1, <3>2
    <3> QED BY <3>1, <3>2
  <2>3. h = [y \in {Q[i] : i \in Ex(tree')} |-> h[y]]
    BY <1>7
  <2> HIDE DEF h
  <2> QED BY <2>2, <2>3 DEF IsNamed
<1>13. PathNodes' = g /\ PathOpened' = h
  <2> HIDE DEF g, h
  <2> QED BY <1>10, <1>11, <1>12, NamedOnce
<1>14. DOMAIN PathNodes' = D \cup {p}
  BY <1>13
<1>15. Promise!IsDir(Promise!Front(p))
  BY PromiseDir, PromiseNames
<1>16. Promise!Changed
  BY WrittenIs
<1>17. Promise!Make(p, type)
  <2>1. PathNodes' = [y \in DOMAIN PathNodes \cup {p} |-> IF y = p THEN type ELSE PathNodes[y]]
    BY <1>9, <1>13
  <2>2. PathOpened' = [y \in DOMAIN PathNodes' |-> Promise!OpenIn(y)]
    BY <1>13, <1>14
  <2>3. p \notin DOMAIN PathNodes
    BY <1>8, <1>9
  <2> QED BY <1>15, <1>16, <2>1, <2>2, <2>3 DEF Promise!Make, PathNodes, PathOpened
<1> QED BY <1>6, <1>17

\* A deletion that does not move an open file leaves to every item that remains its users,
\* and a place of its own: what moves lands where the deleted item was alone.
LEMMA CleanupIs ==
  ASSUME NoHandleLeak, NEW P, Neat(P), NEW k \in Ex(tree), Users[k] = 0, NEW pl \in write_dir_cleanup(k),
         \A i \in Existing : pl[i] # place[i] => ~InUse(i)
  PROVE  /\ \A i \in Ex(tree) \ {k} : held[pl[i]] = Users[i]
         /\ \A i, j \in Ex(tree) \ {k} : pl[i] = pl[j] => i = j
         /\ \A q \in Places : held[q] > 0 => \E i \in Ex(tree) \ {k} : pl[i] = q /\ tree[i].type = "FILE"
<1>0. /\ Existing = Ex(tree) /\ Ex(tree) \subseteq Ids
      /\ \A i \in Ids : place[i] \in Places /\ Users[i] = held[place[i]] /\ Users[i] \in Nat
      /\ \A i \in Ids : InUse(i) <=> Users[i] > 0
      /\ held \in [Places \cup {BadFd} -> Nat]
  BY UsersAre, LeakIs DEF Existing, Ex, LeakFree
<1>1. \A i, j \in Ex(tree) : place[i] = place[j] => i = j
  BY DEF Neat, Placed
<1>2. \A q \in Places : held[q] > 0 => \E i \in Ex(tree) : place[i] = q /\ tree[i].type = "FILE"
  BY DEF Neat, Placed
<1>3. \A i \in Ex(tree) : Users[i] > 0 => i # k /\ pl[i] = place[i]
  BY <1>0
<1>4. \A q \in Places : held[q] > 0 => \E i \in Ex(tree) \ {k} : pl[i] = q /\ tree[i].type = "FILE"
  <2> SUFFICES ASSUME NEW q \in Places, held[q] > 0
               PROVE  \E i \in Ex(tree) \ {k} : pl[i] = q /\ tree[i].type = "FILE"
    OBVIOUS
  <2>1. PICK i \in Ex(tree) : place[i] = q /\ tree[i].type = "FILE"
    BY <1>2
  <2>2. Users[i] > 0
    BY <1>0, <2>1
  <2> QED BY <1>3, <2>1, <2>2
<1>5. CASE pl = place
  BY <1>0, <1>1, <1>4, <1>5
<1> DEFINE b == place[k].blk
<1>6. ASSUME NEW c \in Blks \ {b}, InBlk(b) = {k},
             pl = [i \in Ids |-> IF i \in InBlk(c) THEN [blk |-> b, slot |-> place[i].slot] ELSE place[i]]
      PROVE  /\ \A i \in Ex(tree) \ {k} : held[pl[i]] = Users[i]
             /\ \A i, j \in Ex(tree) \ {k} : pl[i] = pl[j] => i = j
  <2>1. \A i \in Ex(tree) \ {k} : place[i].blk # b /\ (i \in InBlk(c) <=> place[i].blk = c)
    <3>1. \A i \in Ex(tree) : (i \in InBlk(b) <=> place[i].blk = b) /\ (i \in InBlk(c) <=> place[i].blk = c)
      BY <1>0 DEF InBlk
    <3> QED BY <1>6, <3>1
  <2> HIDE DEF b
  <2>2. \A i \in Ids : place[i] = [blk |-> place[i].blk, slot |-> place[i].slot]
                      /\ place[i].blk \in Blks /\ place[i].slot \in Slots
    BY <1>0 DEF Places
  <2>3. \A i \in Ex(tree) \ {k} : IF place[i].blk = c THEN pl[i] = [blk |-> b, slot |-> place[i].slot]
                                  ELSE pl[i] = place[i]
    BY <1>0, <1>6, <2>1
  <2>6. \A i \in Ex(tree) \ {k} : (pl[i].blk = b <=> place[i].blk = c) /\ pl[i].slot = place[i].slot
    <3> TAKE i \in Ex(tree) \ {k}
    <3>1. CASE place[i].blk = c
      <4>1. pl[i] = [blk |-> b, slot |-> place[i].slot]
        BY <2>3, <3>1
      <4> QED BY <3>1, <4>1
    <3>2. CASE place[i].blk # c
      <4>1. pl[i] = place[i] /\ place[i].blk # b
        BY <2>1, <2>3, <3>2
      <4> QED BY <3>2, <4>1
    <3> QED BY <3>1, <3>2
  <2>4. ASSUME NEW i \in Ex(tree) \ {k}, NEW j \in Ex(tree) \ {k}, pl[i] = pl[j] PROVE i = j
    <3>1. pl[i].blk = b <=> place[i].blk = c
      BY <2>6
    <3>2. pl[j].blk = b <=> place[j].blk = c
      BY <2>6
    <3>3. pl[i].slot = place[i].slot /\ pl[j].slot = place[j].slot
      BY <2>6
    <3>4. CASE place[i].blk = c
      <4>1. place[j].blk = c /\ place[i].slot = place[j].slot
        BY <2>4, <3>1, <3>2, <3>3, <3>4
      <4>2. place[i] = place[j]
        BY <1>0, <2>2, <3>4, <4>1
      <4> QED BY <1>1, <4>2
    <3>5. CASE place[i].blk # c
      <4>1. place[j].blk # c
        BY <2>4, <3>1, <3>2, <3>5
      <4>2. place[i] = place[j]
        BY <2>3, <2>4, <3>5, <4>1
      <4> QED BY <1>1, <4>2
    <3> QED BY <3>4, <3>5
  <2>5. ASSUME NEW i \in Ex(tree) \ {k} PROVE held[pl[i]] = Users[i]
    <3>1. CASE place[i].blk # c
      BY <1>0, <2>3, <3>1
    <3>2. CASE place[i].blk = c
      <4>1. pl[i].blk = b /\ place[i].blk # b /\ pl[i] = [blk |-> b, slot |-> place[i].slot]
        BY <2>1, <2>3, <3>2
      <4>2. Users[i] = 0
        <5>1. pl[i] # place[i]
          BY <4>1
        <5>2. ~(Users[i] > 0) /\ Users[i] \in Nat
          BY <1>0, <1>3, <5>1
        <5> QED BY <5>2
      <4>3. pl[i] \in Places
        <5>1. b \in Blks /\ place[i].slot \in Slots
          BY <1>0, <2>2 DEF b
        <5> QED BY <4>1, <5>1 DEF Places
      <4>4. ASSUME held[pl[i]] > 0 PROVE FALSE
        <5>1. PICK j \in Ex(tree) \ {k} : pl[j] = pl[i] /\ tree[j].type = "FILE"
          BY <1>4, <4>3, <4>4
        <5>2. j = i
          BY <2>4, <5>1
        <5>3. PICK m \in Ex(tree) : place[m] = pl[i]
          BY <1>2, <4>3, <4>4
        <5>4. m = k
          BY <2>1, <4>1, <5>3
        <5> QED BY <1>0, <4>4, <5>3, <5>4
      <4>5. held[pl[i]] \in Nat
        BY <1>0, <4>3
      <4> QED BY <4>2, <4>4, <4>5
    <3> QED BY <3>1, <3>2
  <2> QED BY <2>4, <2>5
<1>7. \/ pl = place
      \/ \E c \in Blks \ {b} :
           /\ InBlk(b) = {k}
           /\ pl = [i \in Ids |-> IF i \in InBlk(c) THEN [blk |-> b, slot |-> place[i].slot] ELSE place[i]]
  BY DEF write_dir_cleanup
<1> HIDE DEF b
<1> QED BY <1>4, <1>5, <1>6, <1>7

\* An item deleted is a path less.
LEMMA Deletes ==
  ASSUME NoHandleLeak, NEW P, Neat(P), NEW k \in Ex(tree), Users[k] = 0, \A i \in Ex(tree) : tree[i].dir # k,
         tree' = [tree EXCEPT ![k] = FreeItem], place' \in write_dir_cleanup(k),
         \A i \in Existing : place'[i] # place[i] => ~InUse(i), UNCHANGED <<usage, held, spoiled>>, Written
  PROVE  NeatTree' /\ Promise!Delete(P[k], tree[k].type)
<1> DEFINE p == P[k]
           Q == [P EXCEPT ![k] = <<FreeItem.name>>]
           D == PathSet(P)
<1>0. /\ TreeOk(tree, P) /\ Ex(tree) \subseteq Ids /\ tree \in [Ids -> Nodes] /\ P \in [Ids -> Seq(Names)]
      /\ k \in Ids
  BY DEF Neat, TreeOk, Fine, PathsAre, Ex
<1>2. TreeOk(tree', Q) /\ Ex(tree') = Ex(tree) \ {k}
  <2>1. tree' = SetAt(tree, k, FreeItem) /\ Q = SetAt(P, k, <<FreeItem.name>>)
    BY DEF SetAt
  <2> HIDE DEF Q
  <2>2. TreeOk(SetAt(tree, k, FreeItem), SetAt(P, k, <<FreeItem.name>>))
        /\ Ex(SetAt(tree, k, FreeItem)) = Ex(tree) \ {k}
    BY <1>0, GoneTree
  <2> QED BY <2>1, <2>2
<1>3. \A i \in Ids : i # k => tree'[i] = tree[i]
  BY <1>0
<1>4. \A i \in Ids : i # k => Q[i] = P[i]
  BY <1>0
<1> HIDE DEF Q
<1>18. /\ \A i \in Ex(tree) \ {k} : held[place'[i]] = Users[i]
       /\ \A i, j \in Ex(tree) \ {k} : place'[i] = place'[j] => i = j
       /\ \A q \in Places : held[q] > 0 => \E i \in Ex(tree) \ {k} : place'[i] = q /\ tree[i].type = "FILE"
  BY CleanupIs
<1>19. \A i \in Ex(tree) \ {k} : Users'[i] = Users[i]
  BY <1>0, <1>18 DEF Users
<1>6. NeatTree'
  <2>1. Placed(tree', place', held') /\ spoiled' = {}
    <3>1. \A i, j \in Ex(tree') : place'[i] = place'[j] => i = j
      BY <1>2, <1>18
    <3>2. ASSUME NEW q \in Places, held'[q] > 0 PROVE \E i \in Ex(tree') : place'[i] = q /\ tree'[i].type = "FILE"
      <4>1. PICK i \in Ex(tree) \ {k} : place'[i] = q /\ tree[i].type = "FILE"
        BY <1>18, <3>2
      <4>2. i \in Ex(tree') /\ tree'[i] = tree[i]
        BY <1>0, <1>2, <1>3, <4>1
      <4> QED BY <4>1, <4>2
    <3> QED BY <3>1, <3>2 DEF Placed, Neat
  <2>2. Handles' = Handles
    BY DEF Handles
  <2>3. Neat(Q)'
    BY <1>2, <2>1, <2>2 DEF Neat
  <2> QED BY <2>3 DEF NeatTree
<1>8. \A i \in Ex(tree) : (i # k => P[i] # p) /\ P[i] \in D
  BY <1>0, PathsDiffer DEF PathSet
<1>7. {Q[i] : i \in Ex(tree')} = D \ {p}
  <2>1. \A i \in Ex(tree') : i \in Ex(tree) /\ i # k /\ Q[i] = P[i]
    BY <1>0, <1>2, <1>4
  <2>2. \A q \in D \ {p} : \E i \in Ex(tree') : Q[i] = q
    BY <1>0, <1>2, <1>4 DEF PathSet
  <2>3. \A i \in Ex(tree') : Q[i] \in D \ {p}
    BY <1>8, <2>1
  <2> HIDE DEF D
  <2> HIDE DEF p
  <2>4. {Q[i] : i \in Ex(tree')} \subseteq D \ {p}
    BY <2>3
  <2>5. D \ {p} \subseteq {Q[i] : i \in Ex(tree')}
    BY <2>2
  <2> QED BY <2>4, <2>5
<1>9. DOMAIN PathNodes = D /\ DOMAIN PathOpened = D
      /\ \A i \in Ex(tree) : PathNodes[P[i]] = tree[i].type /\ PathOpened[P[i]] = Users[i]
  <2>1. DOMAIN PathNodes = D
    BY PromiseDomain
  <2>2. DOMAIN PathOpened = D
    BY PromiseDomain
  <2> HIDE DEF D
  <2>3. \A i \in Ex(tree) : PathNodes[P[i]] = tree[i].type /\ PathOpened[P[i]] = Users[i]
    BY PromiseIs
  <2> QED BY <2>1, <2>2, <2>3
<1>10. IsNamed(PathNodes', tree', Q, [id \in Ids |-> tree'[id].type])
       /\ IsNamed(PathOpened', tree', Q, Users')
  BY <1>2, NodesAreNext
<1> DEFINE g == [q \in D \ {p} |-> PathNodes[q]]
           h == [q \in D \ {p} |-> PathOpened[q]]
<1> HIDE DEF D
<1>11. IsNamed(g, tree', Q, [id \in Ids |-> tree'[id].type])
  <2>1. \A i \in Ex(tree') : g[Q[i]] = tree'[i].type /\ i \in Ids
    <3> TAKE i \in Ex(tree')
    <3>1. i \in Ex(tree) /\ i # k /\ i \in Ids
      BY <1>0, <1>2
    <3>2. Q[i] = P[i] /\ tree'[i] = tree[i] /\ P[i] \in D \ {p}
      BY <1>3, <1>4, <1>8, <3>1
    <3> QED BY <1>9, <3>1, <3>2
  <2>2. g = [q \in {Q[i] : i \in Ex(tree')} |-> g[q]]
    BY <1>7
  <2> HIDE DEF g
  <2> QED BY <2>1, <2>2 DEF IsNamed
<1>12. IsNamed(h, tree', Q, Users')
  <2>2. \A i \in Ex(tree') : h[Q[i]] = Users'[i] /\ i \in Ids
    BY <1>0, <1>2, <1>4, <1>8, <1>9, <1>19
  <2>3. h = [q \in {Q[i] : i \in Ex(tree')} |-> h[q]]
    BY <1>7
  <2> HIDE DEF h
  <2> QED BY <2>2, <2>3 DEF IsNamed
<1>13. PathNodes' = g /\ PathOpened' = h
  <2> HIDE DEF g, h
  <2> QED BY <1>10, <1>11, <1>12, NamedOnce
<1>15. Promise!Inside(p) = {}
  <2>1. Promise!Inside(Up(P, k)) = {P[i] : i \in {j \in Ex(tree) : tree[j].dir = k}}
    BY PromiseInside
  <2>2. Up(P, k) = p
    BY <1>0, PathIs
  <2> QED BY <2>1, <2>2
<1>16. Promise!Changed
  BY WrittenIs
<1>17. Promise!Delete(p, tree[k].type)
  <2>1. p \in DOMAIN PathNodes /\ PathNodes[p] = tree[k].type /\ PathOpened[p] = 0
    BY <1>8, <1>9
  <2>2. \A f, S : Promise!Restrict(f, S) = [q \in S |-> f[q]]
    BY DEF Promise!Restrict
  <2>3. PathNodes' = Promise!Restrict(PathNodes, DOMAIN PathNodes \ {p})
    BY <1>9, <1>13, <2>2
  <2>4. PathOpened' = Promise!Restrict(PathOpened, DOMAIN PathOpened \ {p})
    BY <1>9, <1>13, <2>2
  <2> HIDE DEF p
  <2> QED BY <1>15, <1>16, <2>1, <2>3, <2>4, <1>9 DEF Promise!Delete, PathNodes, PathOpened
<1> QED BY <1>6, <1>17

\* mkdir and mknod, the directory reached: the node is made at the path asked for, or the
\* request fails for a reason.
LEMMA CreateImplements ==
  ASSUME NoHandleLeak, NEW P, Neat(P), NEW p \in Paths, p # <<>>,
         NEW op, NEW type, <<op, type>> \in {<<"mkdir", "DIR">>, <<"mknod", "FILE">>},
         Request(op, p, p), NEW t \in travel_path(p), t.err = "OK", ~Long(Last(p)),
         Create(t.dir, Last(p), type)
  PROVE  Kept
<1>0. req'.op = op /\ req'.path = p /\ op \in {"mkdir", "mknod"} /\ type \in {"FILE", "DIR"}
      /\ (op = "mkdir" => type = "DIR") /\ (op = "mknod" => type = "FILE")
  BY DEF Request
<1>1. /\ IsDirId(tree, t.dir) /\ t.dir \in Dirs /\ Up(P, t.dir) = Front(p)
      /\ Item(t.dir, Last(p)) = {i \in Ex(tree) : P[i] = p}
      /\ p \in Seq(Names) /\ Last(p) \in Names
  BY Arrives
<1>2. CASE Failed("IO")
  BY <1>2, FailedIO
<1>3. CASE Item(t.dir, Last(p)) # {} /\ Failed("FILE_EXIST")
  <2>1. PICK i \in Ex(tree) : P[i] = p
    BY <1>1, <1>3
  <2>2. There(p)
    BY <2>1, IsThere
  <2>3. "EEXIST" \in Own(req')
    BY <1>0, <2>2, Owns
  <2>4. Reason
    BY <1>3, <2>3, ErrorsAre DEF Reason, Failed, check_error, Reply
  <2> QED BY <1>3, <2>4, CodesIn, FailedKept
<1>4. CASE Failed("DISK_FULL")
  <2>1. "ENOSPC" \in Own(req')
    BY <1>0, Owns
  <2>2. Reason
    BY <1>4, <2>1, ErrorsAre DEF Reason, Failed, check_error, Reply
  <2> QED BY <1>4, <2>2, CodesIn, FailedKept
<1> DEFINE F == Ids \ Existing
<1>5. ASSUME Item(t.dir, Last(p)) = {}, F # {}, NEW q \in FreePlaces(t.dir),
             tree' = [tree EXCEPT ![Min(F)] = [dir |-> t.dir, name |-> Cut[Last(p)], type |-> type]],
             place' = [place EXCEPT ![Min(F)] = q], Written, UNCHANGED <<usage, held, spoiled>>
      PROVE  Kept
  <2>1. F \in SUBSET Nat
    BY FuseAssumption
  <2>2. Min(F) \in Ids /\ tree[Min(F)].type = "FREE"
    BY <1>5, <2>1, MinIs DEF Existing
  <2>3. Cut[Last(p)] = Last(p)
    BY DEF Long
  <2> HIDE DEF F
  <2>4. NeatTree' /\ Promise!Make(p, type)
    <3>1. PICK k \in Ids : k = Min(F)
      BY <2>2
    <3>2. /\ tree[k].type = "FREE" /\ {i \in Ex(tree) : P[i] = p} = {}
          /\ tree' = SetAt(tree, k, [dir |-> t.dir, name |-> Last(p), type |-> type])
          /\ place' = SetAt(place, k, q) /\ Written /\ UNCHANGED <<usage, held, spoiled>>
      BY <1>1, <1>5, <2>2, <2>3, <3>1 DEF SetAt
    <3>3. IsDirId(tree, t.dir) /\ p \in Seq(Names) /\ Up(P, t.dir) = Front(p)
      BY <1>1
    <3>4. type \in {"FILE", "DIR"}
      BY <1>0
    <3>5. q \in FreePlaces(t.dir)
      BY <1>5
    <3> HIDE <3>1
    <3> QED BY <3>2, <3>3, <3>4, <3>5, Makes
  <2>5. Promise!Succeed
    BY <1>0, <2>4 DEF Promise!Succeed
  <2> QED BY <1>5, <2>4, <2>5, Changes
<1> QED BY <1>2, <1>3, <1>4, <1>5 DEF Create, FreePlaces

\* rmdir and unlink, the directory reached: the node of the path goes, and only when it has no
\* users and nothing inside, or the request fails for a reason.
LEMMA DeleteImplements ==
  ASSUME NoHandleLeak, NEW P, Neat(P), NEW p \in Paths, p # <<>>,
         NEW op, NEW type, <<op, type>> \in {<<"rmdir", "DIR">>, <<"unlink", "FILE">>},
         Request(op, p, p), NEW t \in travel_path(p), t.err = "OK", ~Long(Last(p)),
         tfs_delete(t.dir, Last(p), type), spoiled' = {}
  PROVE  Kept
<1>0. req'.op = op /\ req'.path = p /\ op \in {"rmdir", "unlink"} /\ type \in {"FILE", "DIR"}
      /\ (op = "rmdir" => type = "DIR") /\ (op = "unlink" => type = "FILE")
  BY DEF Request
<1>1. Item(t.dir, Last(p)) = {i \in Ex(tree) : P[i] = p}
  BY Arrives
<1>2. /\ spoiled = {} /\ \A i \in Ids : (InUse(i) <=> Users[i] > 0) /\ Users[i] \in Nat
      /\ \A i \in Ex(tree) : Users[i] > 0 => tree[i].type = "FILE"
  BY UsersAre DEF Neat
<1>3. CASE Failed("IO")
  BY <1>3, FailedIO
<1>4. CASE ItemOf(t.dir, Last(p), {type}) = {} /\ Failed("NOT_EXIST")
  <2>1. result' = "ENOENT" /\ answer' = {} /\ UNCHANGED <<tree, place, usage, held, spoiled>>
    BY <1>4, ErrorsAre DEF Failed, check_error, Reply
  <2>2. CASE Item(t.dir, Last(p)) = {}
    BY <1>0, <1>1, <2>1, <2>2, NoItemKept
  <2>3. ASSUME NEW i \in Item(t.dir, Last(p)) PROVE Kept
    <3>1. i \in Ex(tree) /\ P[i] = p /\ tree[i].type # type
      BY <1>1, <1>4 DEF ItemOf
    <3>2. tree[i].type = "FILE" <=> Promise!IsFile(p)
      BY <3>1, PromiseFile
    <3>3. tree[i].type = "DIR" <=> Promise!IsDir(p)
      BY <3>1, PromiseFile
    <3>4. tree[i].type \in {"FILE", "DIR"}
      BY <3>1, PromiseFile
    <3>5. "ENOENT" \in Own(req')
      BY <1>0, <3>1, <3>2, <3>3, <3>4, Owns
    <3> QED BY <2>1, <3>5, FailKept DEF Reason
  <2> QED BY <2>2, <2>3
<1>5. ASSUME NEW i \in ItemOf(t.dir, Last(p), {type}),
             \/ InUse(i) /\ Failed("BUSY")
             \/ ~InUse(i) /\ (\E j \in Ids : tree[j].type # "FREE" /\ tree[j].dir = i) /\ Failed("NOT_EMPTY")
             \/ /\ ~InUse(i) /\ \A j \in Ids : tree[j].type = "FREE" \/ tree[j].dir # i
                /\ tree' = [tree EXCEPT ![i] = FreeItem] /\ place' \in write_dir_cleanup(i)
                /\ Spoil("moved", \E j \in Existing : place'[j] # place[j] /\ InUse(j))
                /\ Written /\ UNCHANGED <<usage, held>>
      PROVE  Kept
  <2>1. i \in Ex(tree) /\ i \in Ids /\ P[i] = p /\ tree[i].type = type /\ Users[i] \in Nat
    BY <1>1, <1>2 DEF ItemOf, Ex
  <2>2. CASE InUse(i) /\ Failed("BUSY")
    <3>1. Users[i] > 0
      BY <1>2, <2>1, <2>2
    <3>2. type = "FILE"
      BY <1>2, <2>1, <3>1
    <3>3. Promise!OpenIn(p) = Users[i]
      BY <2>1, PromiseFile
    <3>4. "ETXTBSY" \in Own(req')
      BY <1>0, <3>1, <3>2, <3>3, Owns
    <3>5. Reason
      BY <2>2, <3>4, ErrorsAre DEF Reason, Failed, check_error, Reply
    <3> QED BY <2>2, <3>5, CodesIn, FailedKept
  <2>3. CASE (\E j \in Ids : tree[j].type # "FREE" /\ tree[j].dir = i) /\ Failed("NOT_EMPTY")
    <3>1. PICK j \in Ex(tree) : tree[j].dir = i
      BY <2>3 DEF Ex
    <3>2. type = "DIR"
      BY <1>0, <2>1, <3>1, NothingIn
    <3>3. Promise!Inside(p) # {}
      <4>1. Up(P, i) = p
        BY <2>1, IdsAre DEF Up
      <4>2. Promise!Inside(p) = {P[m] : m \in {k \in Ex(tree) : tree[k].dir = i}}
        BY <2>1, <4>1, PromiseInside
      <4> QED BY <3>1, <4>2
    <3>4. "ENOTEMPTY" \in Own(req')
      BY <1>0, <3>2, <3>3, Owns
    <3>5. Reason
      BY <2>3, <3>4, ErrorsAre DEF Reason, Failed, check_error, Reply
    <3> QED BY <2>3, <3>5, CodesIn, FailedKept
  <2>4. CASE /\ ~InUse(i) /\ \A j \in Ids : tree[j].type = "FREE" \/ tree[j].dir # i
             /\ tree' = [tree EXCEPT ![i] = FreeItem] /\ place' \in write_dir_cleanup(i)
             /\ Spoil("moved", \E j \in Existing : place'[j] # place[j] /\ InUse(j))
             /\ Written /\ UNCHANGED <<usage, held>>
    <3>1. Users[i] = 0
      BY <1>2, <2>1, <2>4
    <3>5. \A j \in Existing : place'[j] # place[j] => ~InUse(j)
      <4>1. (\E j \in Existing : place'[j] # place[j] /\ InUse(j)) => "moved" \in spoiled'
        BY <1>2, <2>4 DEF Spoil
      <4> QED BY <4>1
    <3>2. \A j \in Ex(tree) : tree[j].dir # i
      BY <2>4 DEF Ex
    <3>3. NeatTree' /\ Promise!Delete(P[i], tree[i].type)
      BY <1>2, <2>1, <2>4, <3>1, <3>2, <3>5, Deletes
    <3>4. Promise!Succeed
      BY <1>0, <2>1, <3>3 DEF Promise!Succeed
    <3> QED BY <2>4, <3>3, <3>4, Changes
  <2> QED BY <1>5, <2>2, <2>3, <2>4
<1> QED BY <1>3, <1>4, <1>5 DEF tfs_delete

\* The requests that make and remove a node keep the promise, and fail for a reason.
LEMMA PathsKept ==
  ASSUME NoHandleLeak, NEW P, Neat(P), NEW p \in Paths, p # <<>>,
         op_mkdir(p) \/ op_mknod(p) \/ op_unlink(p) \/ op_rmdir(p), spoiled' = {}
  PROVE  Kept
<1>1. ASSUME NEW op \in {"mkdir", "mknod", "unlink", "rmdir"}, Request(op, p, p), NEW t \in travel_path(p),
             \/ t.err # "OK" /\ Failed(t.err)
             \/ Long(Last(p)) /\ Reply("ENAMETOOLONG", {}) /\ UNCHANGED <<tree, place, usage, held, spoiled>>
      PROVE  Kept
  BY <1>1, ByPathKept DEF ByFdOps
<1>2. CASE op_mkdir(p)
  <2>1. PICK t \in travel_path(p) :
          /\ Request("mkdir", p, p)
          /\ \/ t.err # "OK" /\ Failed(t.err)
             \/ Long(Last(p)) /\ Reply("ENAMETOOLONG", {}) /\ UNCHANGED <<tree, place, usage, held, spoiled>>
             \/ t.err = "OK" /\ ~Long(Last(p)) /\ Create(t.dir, Last(p), "DIR")
    BY <1>2, Zenon DEF op_mkdir, ByPath, tfs_create_dir
  <2> QED BY <1>1, <2>1, CreateImplements
<1>3. CASE op_mknod(p)
  <2>1. PICK t \in travel_path(p) :
          /\ Request("mknod", p, p)
          /\ \/ t.err # "OK" /\ Failed(t.err)
             \/ Long(Last(p)) /\ Reply("ENAMETOOLONG", {}) /\ UNCHANGED <<tree, place, usage, held, spoiled>>
             \/ t.err = "OK" /\ ~Long(Last(p)) /\ Create(t.dir, Last(p), "FILE")
    BY <1>3, Zenon DEF op_mknod, ByPath, tfs_write_file
  <2> QED BY <1>1, <2>1, CreateImplements
<1>4. CASE op_unlink(p)
  <2>1. PICK t \in travel_path(p) :
          /\ Request("unlink", p, p)
          /\ \/ t.err # "OK" /\ Failed(t.err)
             \/ Long(Last(p)) /\ Reply("ENAMETOOLONG", {}) /\ UNCHANGED <<tree, place, usage, held, spoiled>>
             \/ t.err = "OK" /\ ~Long(Last(p)) /\ tfs_delete(t.dir, Last(p), "FILE")
    BY <1>4, Zenon DEF op_unlink, ByPath, delete_file
  <2> QED BY <1>1, <2>1, DeleteImplements
<1>5. CASE op_rmdir(p)
  <2>1. PICK t \in travel_path(p) :
          /\ Request("rmdir", p, p)
          /\ \/ t.err # "OK" /\ Failed(t.err)
             \/ Long(Last(p)) /\ Reply("ENAMETOOLONG", {}) /\ UNCHANGED <<tree, place, usage, held, spoiled>>
             \/ t.err = "OK" /\ ~Long(Last(p)) /\ tfs_delete(t.dir, Last(p), "DIR")
    BY <1>5, Zenon DEF op_rmdir, ByPath, delete_dir
  <2> QED BY <1>1, <2>1, DeleteImplements
<1> QED BY <1>2, <1>3, <1>4, <1>5

-----------------------------------------------------------------------------
(* Names of directories that change.                                       *)

Begins(p, q) == Len(p) <= Len(q) /\ \A i \in 1 .. Len(p) : q[i] = p[i]

\* Of a path that begins with p, the beginning becomes to.
LEMMA MovedIs ==
  ASSUME NEW p \in Seq(Names), NEW to \in Seq(Names), NEW q \in Seq(Names), Len(to) = Len(p)
  PROVE  /\ ~Begins(p, q) => Promise!Moved(p, to, q) = q
         /\ Begins(p, q) => /\ Len(Promise!Moved(p, to, q)) = Len(q)
                            /\ \A i \in 1 .. Len(p) : Promise!Moved(p, to, q)[i] = to[i]
                            /\ \A i \in Len(p) + 1 .. Len(q) : Promise!Moved(p, to, q)[i] = q[i]
         /\ Promise!Moved(p, to, q) \in Seq(Names)
<1>0. Len(p) \in Nat /\ Len(q) \in Nat /\ Len(p) \in 0 .. Len(p)
  OBVIOUS
<1>1. Promise!IsPrefix(p, q) <=> Begins(p, q)
  <2>1. CASE Len(p) <= Len(q)
    <3> DEFINE a == SubSeq(p, 1, Len(p))
               b == SubSeq(q, 1, Len(p))
    <3>1. Len(p) \in 0 .. Len(q)
      BY <1>0, <2>1
    <3>2. a \in Seq(Names) /\ Len(a) = Len(p) /\ \A i \in 1 .. Len(p) : a[i] = p[i]
      BY <1>0, FirstNames
    <3>3. b \in Seq(Names) /\ Len(b) = Len(p) /\ \A i \in 1 .. Len(p) : b[i] = q[i]
      BY <3>1, FirstNames
    <3>4. Promise!IsPrefix(p, q) <=> a = b
      BY <2>1 DEF Promise!IsPrefix
    <3> HIDE DEF a, b
    <3>5. a = b <=> \A i \in 1 .. Len(p) : q[i] = p[i]
      BY <3>2, <3>3, SeqEqual
    <3> QED BY <2>1, <3>4, <3>5 DEF Begins
  <2>2. CASE ~(Len(p) <= Len(q))
    BY <2>2 DEF Begins, Promise!IsPrefix
  <2> QED BY <2>1, <2>2
<1>2. CASE ~Begins(p, q)
  BY <1>1, <1>2 DEF Promise!Moved
<1>3. CASE Begins(p, q)
  <2> DEFINE s == SubSeq(q, Len(p) + 1, Len(q))
             m == to \o s
  <2>0. Len(p) <= Len(q)
    BY <1>3 DEF Begins
  <2>1. /\ s \in Seq(Names) /\ Len(s) = Len(q) - Len(p)
        /\ \A i \in 1 .. Len(q) - Len(p) : s[i] = q[Len(p) + i]
    <3>1. \A i \in Len(p) + 1 .. Len(q) : q[i] \in Names
      BY <1>0
    <3> QED BY <1>0, <2>0, <3>1
  <2> HIDE DEF s
  <2>2. /\ m \in Seq(Names) /\ Len(m) = Len(q)
        /\ \A i \in 1 .. Len(p) : m[i] = to[i]
        /\ \A i \in Len(p) + 1 .. Len(q) : m[i] = s[i - Len(p)]
    BY <1>0, <2>0, <2>1
  <2>3. \A i \in Len(p) + 1 .. Len(q) : m[i] = q[i]
    <3> TAKE i \in Len(p) + 1 .. Len(q)
    <3>1. i - Len(p) \in 1 .. Len(q) - Len(p) /\ Len(p) + (i - Len(p)) = i
      BY <1>0, <2>0
    <3> HIDE DEF m
    <3> QED BY <2>1, <2>2, <3>1
  <2>4. Promise!Moved(p, to, q) = m
    BY <1>1, <1>3 DEF Promise!Moved, s
  <2> HIDE DEF m
  <2> QED BY <1>3, <2>2, <2>3, <2>4
<1> QED BY <1>2, <1>3

\* A longer path moves with the path above.
LEMMA MovedBelow ==
  ASSUME NEW p \in Seq(Names), NEW to \in Seq(Names), NEW q \in Seq(Names), NEW n \in Names,
         Len(to) = Len(p), Append(q, n) # p
  PROVE  Promise!Moved(p, to, Append(q, n)) = Append(Promise!Moved(p, to, q), n)
<1> DEFINE r == Append(q, n)
           a == Promise!Moved(p, to, r)
           b == Promise!Moved(p, to, q)
<1>0. /\ r \in Seq(Names) /\ Len(r) = Len(q) + 1 /\ (\A i \in 1 .. Len(q) : r[i] = q[i]) /\ r[Len(q) + 1] = n
      /\ Len(p) \in Nat /\ Len(q) \in Nat
  BY Appended
<1>1. r # p
  OBVIOUS
<1>2. b \in Seq(Names)
  BY MovedIs
<1> HIDE DEF r
<1>3. Begins(p, r) <=> Begins(p, q)
  <2>1. ASSUME Begins(p, r) PROVE Begins(p, q)
    <3>1. Len(p) <= Len(q)
      <4>1. CASE Len(p) = Len(r)
        <5>1. r = p
          BY <1>0, <2>1, <4>1, SeqEqual DEF Begins
        <5> QED BY <1>1, <5>1
      <4>2. CASE Len(p) # Len(r)
        BY <1>0, <2>1, <4>2 DEF Begins
      <4> QED BY <4>1, <4>2
    <3> QED BY <1>0, <2>1, <3>1 DEF Begins
  <2>2. ASSUME Begins(p, q) PROVE Begins(p, r)
    BY <1>0, <2>2 DEF Begins
  <2> QED BY <2>1, <2>2
<1>4. CASE ~Begins(p, q)
  <2>1. a = r /\ b = q
    BY <1>0, <1>3, <1>4, MovedIs
  <2> QED BY <2>1 DEF r
<1>5. CASE Begins(p, q)
  <2>1. /\ Len(b) = Len(q) /\ (\A i \in 1 .. Len(p) : b[i] = to[i])
        /\ \A i \in Len(p) + 1 .. Len(q) : b[i] = q[i]
    BY <1>5, MovedIs
  <2>2. /\ Len(a) = Len(r) /\ (\A i \in 1 .. Len(p) : a[i] = to[i])
        /\ (\A i \in Len(p) + 1 .. Len(r) : a[i] = r[i]) /\ a \in Seq(Names)
    BY <1>0, <1>3, <1>5, MovedIs
  <2>3. Len(p) <= Len(q)
    BY <1>5 DEF Begins
  <2> DEFINE c == Append(b, n)
  <2> HIDE DEF a, b
  <2>4. /\ c \in Seq(Names) /\ Len(c) = Len(b) + 1 /\ (\A i \in 1 .. Len(b) : c[i] = b[i]) /\ c[Len(b) + 1] = n
    BY <1>2, Appended
  <2> HIDE DEF c
  <2>5. \A i \in 1 .. Len(a) : a[i] = c[i]
    <3> TAKE i \in 1 .. Len(a)
    <3>1. CASE i \in 1 .. Len(p)
      <4>1. i \in 1 .. Len(b)
        BY <1>0, <2>1, <2>3, <3>1
      <4>2. c[i] = b[i] /\ b[i] = to[i] /\ a[i] = to[i]
        BY <2>1, <2>2, <2>4, <3>1, <4>1
      <4> QED BY <4>2
    <3>2. CASE i \in Len(p) + 1 .. Len(q)
      BY <1>0, <2>1, <2>2, <2>3, <2>4, <3>2
    <3>3. CASE i = Len(q) + 1
      BY <1>0, <2>1, <2>2, <2>3, <2>4, <3>3
    <3>4. i \in 1 .. Len(p) \/ i \in Len(p) + 1 .. Len(q) \/ i = Len(q) + 1
      BY <1>0, <2>2, <2>3
    <3> QED BY <3>1, <3>2, <3>3, <3>4
  <2>6. a = c
    BY <1>0, <2>1, <2>2, <2>4, <2>5, SeqEqual
  <2> QED BY <2>6 DEF a, b, c, r
<1> QED BY <1>4, <1>5

\* The path itself, shorter ones, and the way back.
LEMMA MovedBack ==
  ASSUME NEW p \in Seq(Names), NEW to \in Seq(Names), NEW q \in Seq(Names), Len(to) = Len(p)
  PROVE  /\ Promise!Moved(p, to, p) = to
         /\ Len(q) < Len(p) => Promise!Moved(p, to, q) = q
         /\ ~Begins(to, q) => Promise!Moved(to, p, Promise!Moved(p, to, q)) = q
<1>0. Len(p) \in Nat /\ Len(q) \in Nat
  OBVIOUS
<1>1. Promise!Moved(p, to, p) = to
  <2>1. Begins(p, p)
    BY <1>0 DEF Begins
  <2> DEFINE m == Promise!Moved(p, to, p)
  <2>2. m \in Seq(Names) /\ Len(m) = Len(p) /\ \A i \in 1 .. Len(p) : m[i] = to[i]
    BY <2>1, MovedIs
  <2> HIDE DEF m
  <2>3. m = to
    BY <2>2, SeqEqual
  <2> QED BY <2>3 DEF m
<1>2. ASSUME Len(q) < Len(p) PROVE Promise!Moved(p, to, q) = q
  <2>1. ~Begins(p, q)
    BY <1>0, <1>2 DEF Begins
  <2> QED BY <2>1, MovedIs
<1>3. ASSUME ~Begins(to, q) PROVE Promise!Moved(to, p, Promise!Moved(p, to, q)) = q
  <2> DEFINE m == Promise!Moved(p, to, q)
             b == Promise!Moved(to, p, m)
  <2>1. CASE ~Begins(p, q)
    <3>1. m = q
      BY <2>1, MovedIs
    <3> HIDE DEF m
    <3> QED BY <1>3, <3>1, MovedIs DEF m
  <2>2. CASE Begins(p, q)
    <3>1. /\ m \in Seq(Names) /\ Len(m) = Len(q) /\ (\A i \in 1 .. Len(p) : m[i] = to[i])
          /\ \A i \in Len(p) + 1 .. Len(q) : m[i] = q[i]
      BY <2>2, MovedIs
    <3> HIDE DEF m
    <3>2. Len(p) <= Len(q) /\ \A i \in 1 .. Len(p) : q[i] = p[i]
      BY <2>2 DEF Begins
    <3>3. Begins(to, m)
      BY <1>0, <3>1, <3>2 DEF Begins
    <3>4. /\ b \in Seq(Names) /\ Len(b) = Len(m) /\ (\A i \in 1 .. Len(to) : b[i] = p[i])
          /\ \A i \in Len(to) + 1 .. Len(m) : b[i] = m[i]
      BY <3>1, <3>3, MovedIs
    <3> HIDE DEF b
    <3>5. \A i \in 1 .. Len(q) : b[i] = q[i]
      <4> TAKE i \in 1 .. Len(q)
      <4>1. i \in 1 .. Len(p) \/ i \in Len(p) + 1 .. Len(q)
        BY <1>0
      <4> QED BY <3>1, <3>2, <3>4, <4>1
    <3>6. b = q
      BY <3>1, <3>4, <3>5, SeqEqual
    <3> QED BY <3>6 DEF b, m
  <2> QED BY <2>1, <2>2
<1> QED BY <1>1, <1>2, <1>3

\* The paths with a new name at id.
Renamed(tr, P, id, to) ==
  [j \in Ids |-> IF j \in Ex(tr) THEN Promise!Moved(P[id], to, P[j]) ELSE P[j]]

\* A new name that nothing in the directory has keeps the tree a tree, the paths of what lies
\* below the renamed item moved with it.
LEMMA RenamedTree ==
  ASSUME NEW tr, NEW P, TreeOk(tr, P), NEW id \in Ex(tr), NEW to \in Seq(Names), to # <<>>,
         Front(P[id]) = Front(to), ~Long(Last(to)), \A i \in Ex(tr) : P[i] # to,
         NEW x \in Nodes, x.dir = tr[id].dir, x.type = tr[id].type, x.name = Last(to)
  PROVE  TreeOk(SetAt(tr, id, x), Renamed(tr, P, id, to)) /\ Ex(SetAt(tr, id, x)) = Ex(tr)
<1> DEFINE u == SetAt(tr, id, x)
           Q == Renamed(tr, P, id, to)
           p == P[id]
           M(q) == Promise!Moved(p, to, q)
<1>0. /\ tr \in [Ids -> Nodes] /\ P \in [Ids -> Seq(Names)] /\ id \in Ids /\ Ex(tr) \subseteq Ids
      /\ \A i \in Ids : tr[i].type = "FREE" => tr[i].dir = ROOT
      /\ \A i \in Ex(tr) : IsDirId(tr, tr[i].dir) /\ ~Long(tr[i].name)
      /\ \A i, j \in Ex(tr) : tr[i].dir = tr[j].dir /\ tr[i].name = tr[j].name => i = j
  BY DEF TreeOk, Fine, PathsAre, Ex
<1>1. /\ p \in Seq(Names) /\ p # <<>> /\ Front(p) = Up(P, tr[id].dir) /\ Len(p) \in Nat \ {0}
      /\ Len(p) = Len(Up(P, tr[id].dir)) + 1 /\ Up(P, tr[id].dir) \in Seq(Names)
  BY <1>0, PathIs
<1>2. /\ to = Append(Front(to), Last(to)) /\ Last(to) \in Names /\ Len(to) = Len(p)
  <2>1. /\ to = Append(Front(to), Last(to)) /\ Last(to) \in Names /\ Len(Front(to)) = Len(to) - 1
        /\ Len(to) \in Nat
    BY FrontLast
  <2>2. Len(Front(p)) = Len(p) - 1
    BY <1>1, FrontLast
  <2> QED BY <1>1, <2>1, <2>2
<1>3. u \in [Ids -> Nodes] /\ u[id] = x /\ \A i \in Ids : i # id => u[i] = tr[i]
  BY <1>0 DEF SetAt
<1> HIDE DEF u
<1>4. /\ \A i \in Ids : u[i].dir = tr[i].dir /\ u[i].type = tr[i].type
      /\ \A i \in Ids : i # id => u[i].name = tr[i].name
  BY <1>3
<1>5. Ex(u) = Ex(tr)
  BY <1>4 DEF Ex
<1>6. Fine(u)
  <2>1. \A i \in Ids : u[i].type = "FREE" => u[i].dir = ROOT
    BY <1>0, <1>4
  <2>2. ASSUME NEW i \in Ex(u) PROVE IsDirId(u, u[i].dir) /\ ~Long(u[i].name)
    <3>1. i \in Ex(tr) /\ i \in Ids
      BY <1>0, <1>5
    <3>2. IsDirId(tr, tr[i].dir) /\ ~Long(tr[i].name)
      BY <1>0, <3>1
    <3>3. IsDirId(u, u[i].dir)
      BY <1>4, <3>1, <3>2 DEF IsDirId
    <3>4. ~Long(u[i].name)
      BY <1>3, <3>1, <3>2
    <3> QED BY <3>3, <3>4
  <2>3. ASSUME NEW i \in Ex(tr), i # id, tr[i].dir = tr[id].dir, tr[i].name = Last(to) PROVE FALSE
    <3>1. P[i] = Append(Up(P, tr[i].dir), tr[i].name)
      BY <1>0, PathIs
    <3>2. P[i] = to
      BY <1>1, <1>2, <2>3, <3>1
    <3> QED BY <3>2
  <2>4. ASSUME NEW i \in Ex(u), NEW j \in Ex(u), u[i].dir = u[j].dir, u[i].name = u[j].name
        PROVE  i = j
    <3>0. i \in Ex(tr) /\ j \in Ex(tr) /\ i \in Ids /\ j \in Ids
      BY <1>0, <1>5
    <3>1. tr[i].dir = tr[j].dir
      BY <1>4, <2>4, <3>0
    <3>2. CASE i = id /\ j # id
      BY <1>3, <1>4, <2>3, <2>4, <3>0, <3>1, <3>2
    <3>3. CASE j = id /\ i # id
      BY <1>3, <1>4, <2>3, <2>4, <3>0, <3>1, <3>3
    <3>4. CASE i # id /\ j # id
      BY <1>0, <1>4, <2>4, <3>0, <3>1, <3>4
    <3> QED BY <3>2, <3>3, <3>4
  <2> QED BY <1>3, <2>1, <2>2, <2>4 DEF Fine
<1>7. \A j \in Ids : /\ j \in Ex(tr) => Q[j] = M(P[j])
                     /\ j \notin Ex(tr) => Q[j] = P[j]
  BY DEF Renamed
<1>8. Q \in [Ids -> Seq(Names)]
  <2>1. \A j \in Ex(tr) : M(P[j]) \in Seq(Names)
    BY <1>0, <1>1, <1>2, MovedIs
  <2> HIDE DEF M
  <2>2. \A j \in Ids : Q[j] \in Seq(Names)
    BY <1>0, <1>7, <2>1
  <2>3. Q = [j \in Ids |-> Q[j]]
    BY DEF Renamed
  <2> HIDE DEF Q
  <2> QED BY <2>2, <2>3
<1> HIDE DEF Q
\* The paths of directories.
<1>9. ASSUME NEW e, IsDirId(tr, e) PROVE Up(Q, e) = M(Up(P, e)) /\ Up(P, e) \in Seq(Names)
  <2>1. CASE e = ROOT
    <3>1. <<>> \in Seq(Names) /\ Len(<<>>) < Len(p)
      BY <1>1
    <3>2. M(<<>>) = <<>>
      BY <1>1, <1>2, <3>1, MovedBack
    <3> QED BY <2>1, <3>1, <3>2 DEF Up
  <2>2. CASE e # ROOT
    <3>1. e \in Ex(tr) /\ e \in Ids
      BY <1>9, <2>2 DEF IsDirId, Ex
    <3> QED BY <1>0, <1>7, <2>2, <3>1 DEF Up
  <2> QED BY <2>1, <2>2
<1>10. \A i \in Ids : Q[i] = Append(Up(Q, u[i].dir), u[i].name)
  <2> TAKE i \in Ids
  <2> DEFINE e == tr[i].dir
             n == tr[i].name
  <2>1. P[i] = Append(Up(P, e), n) /\ n \in Names
    BY PathIs
  <2>2. CASE i \notin Ex(tr)
    <3>1. e = ROOT /\ i # id
      BY <1>0, <2>2 DEF Ex
    <3>2. Q[i] = P[i] /\ u[i] = tr[i]
      BY <1>3, <1>7, <2>2, <3>1
    <3> QED BY <2>1, <3>1, <3>2 DEF Up
  <2>3. CASE i = id
    <3>1. IsDirId(tr, e)
      BY <1>0, <2>3
    <3>2. M(Up(P, e)) = Up(P, e)
      BY <1>1, <1>2, <2>3, MovedBack
    <3>3. Up(Q, u[i].dir) = Front(to)
      BY <1>1, <1>4, <1>9, <2>3, <3>1, <3>2
    <3>4. M(p) = to
      BY <1>1, <1>2, MovedBack
    <3>5. Q[i] = to
      BY <1>7, <2>3, <3>4
    <3> QED BY <1>2, <1>3, <2>3, <3>3, <3>5
  <2>4. CASE i \in Ex(tr) /\ i # id
    <3>1. IsDirId(tr, e)
      BY <1>0, <2>4
    <3>2. P[i] # p
      BY <2>4, PathsDiffer
    <3>3. Up(Q, e) = M(Up(P, e)) /\ Up(P, e) \in Seq(Names)
      BY <1>9, <3>1
    <3>4. M(Append(Up(P, e), n)) = Append(M(Up(P, e)), n)
      <4>1. Append(Up(P, e), n) # p
        BY <2>1, <3>2
      <4> HIDE DEF p, e, n
      <4> QED BY <1>1, <1>2, <2>1, <3>3, <4>1, MovedBelow
    <3>5. Q[i] = M(P[i])
      BY <1>7, <2>4
    <3> HIDE DEF M
    <3> QED BY <1>4, <2>1, <2>4, <3>3, <3>4, <3>5
  <2> QED BY <2>2, <2>3, <2>4
<1>11. TreeOk(u, Q)
  BY <1>6, <1>8, <1>10 DEF TreeOk, PathsAre
<1> QED BY <1>5, <1>11 DEF u, Q

\* A new name of an item is a new name of all the paths that lead through it.
LEMMA Renames ==
  ASSUME NoHandleLeak, NEW P, Neat(P), NEW id \in Ex(tree), NEW to \in Seq(Names), to # <<>>,
         Front(P[id]) = Front(to), ~Long(Last(to)), \A i \in Ex(tree) : P[i] # to,
         NEW x \in Nodes, x.dir = tree[id].dir, x.type = tree[id].type, x.name = Last(to),
         tree' = SetAt(tree, id, x), UNCHANGED <<place, usage, held, spoiled>>, Written
  PROVE  NeatTree' /\ Promise!Rename(P[id], to)
<1> DEFINE p == P[id]
           Q == Renamed(tree, P, id, to)
           M(q) == Promise!Moved(p, to, q)
           W(q) == Promise!Moved(to, p, q)
           D == PathSet(P)
<1>0. /\ TreeOk(tree, P) /\ Ex(tree) \subseteq Ids /\ tree \in [Ids -> Nodes] /\ id \in Ids
      /\ \A i \in Ex(tree) : P[i] \in Seq(Names) /\ P[i] \in D /\ P[i] # <<>>
      /\ \A q \in D : \E i \in Ex(tree) : q = P[i]
  BY PathIs DEF Neat, TreeOk, Fine, Ex, PathSet
<1>1. Len(to) = Len(p) /\ p \in Seq(Names) /\ Len(to) \in Nat \ {0}
  <2>1. Len(Front(p)) = Len(p) - 1 /\ Len(p) \in Nat /\ p \in Seq(Names)
    BY <1>0, FrontLast
  <2>2. Len(Front(to)) = Len(to) - 1 /\ Len(to) \in Nat \ {0}
    BY FrontLast
  <2> QED BY <2>1, <2>2
<1>2. TreeOk(tree', Q) /\ Ex(tree') = Ex(tree)
  <2>1. TreeOk(SetAt(tree, id, x), Renamed(tree, P, id, to)) /\ Ex(SetAt(tree, id, x)) = Ex(tree)
    BY <1>0, RenamedTree
  <2> QED BY <2>1
<1>3. \A i \in Ids : tree'[i].type = tree[i].type
  BY <1>0 DEF SetAt
<1>4. \A i \in Ex(tree) : Q[i] = M(P[i])
  BY <1>0 DEF Renamed
<1>5. \A i \in Ex(tree) : W(M(P[i])) = P[i]
  <2> TAKE i \in Ex(tree)
  <2>1. ASSUME Begins(to, P[i]) PROVE FALSE
    <3>1. Len(to) \in 1 .. Len(P[i]) /\ Len(to) \in 0 .. Len(P[i])
      BY <1>0, <1>1, <2>1 DEF Begins
    <3> DEFINE s == SubSeq(P[i], 1, Len(to))
    <3>2. s \in Seq(Names) /\ Len(s) = Len(to) /\ \A j \in 1 .. Len(to) : s[j] = P[i][j]
      BY <1>0, <3>1, FirstNames
    <3>3. \E j \in Ex(tree) : P[j] = s
      BY <1>0, <3>1, AllAbove
    <3> HIDE DEF s
    <3>4. s = to
      BY <2>1, <3>2, SeqEqual DEF Begins
    <3> QED BY <3>3, <3>4
  <2>2. P[i] \in Seq(Names)
    BY <1>0
  <2> HIDE DEF p
  <2> QED BY <1>1, <2>1, <2>2, MovedBack
<1>6. NeatTree'
  <2>1. Placed(tree', place', held') /\ spoiled' = {}
    BY <1>0, <1>2, <1>3 DEF Neat, Placed
  <2>2. Handles' = Handles
    BY DEF Handles
  <2> HIDE DEF Q
  <2>3. PICK R : R = Q
    OBVIOUS
  <2>4. TreeOk(tree', R)
    BY <1>2, <2>3
  <2>5. Neat(R)'
    BY <2>1, <2>2, <2>4 DEF Neat
  <2> QED BY <2>5 DEF NeatTree
<1> HIDE DEF Q
<1>7. {Q[i] : i \in Ex(tree')} = {M(r) : r \in D}
  <2> HIDE DEF M, D
  <2>1. ASSUME NEW q PROVE q \in {Q[i] : i \in Ex(tree')} => q \in {M(r) : r \in D}
    BY <1>0, <1>2, <1>4
  <2>2. ASSUME NEW q PROVE q \in {M(r) : r \in D} => q \in {Q[i] : i \in Ex(tree')}
    BY <1>0, <1>2, <1>4
  <2> QED BY <2>1, <2>2
<1>8. DOMAIN PathNodes = D /\ DOMAIN PathOpened = D
      /\ \A i \in Ex(tree) : PathNodes[P[i]] = tree[i].type /\ PathOpened[P[i]] = Users[i]
  BY PromiseDomain, PromiseIs
<1>9. IsNamed(PathNodes', tree', Q, [i \in Ids |-> tree'[i].type])
       /\ IsNamed(PathOpened', tree', Q, Users')
  BY <1>2, NodesAreNext
<1> DEFINE g == [q \in {M(r) : r \in D} |-> PathNodes[W(q)]]
           h == [q \in {M(r) : r \in D} |-> PathOpened[W(q)]]
<1>10. \A i \in Ex(tree') : /\ i \in Ex(tree) /\ i \in Ids /\ Q[i] \in {M(r) : r \in D}
                            /\ W(Q[i]) = P[i]
  <2> HIDE DEF M, W, D
  <2> QED BY <1>0, <1>2, <1>4, <1>5
<1> HIDE DEF M, W, D
<1>11. IsNamed(g, tree', Q, [i \in Ids |-> tree'[i].type])
  <2>1. \A i \in Ex(tree') : g[Q[i]] = tree'[i].type
    BY <1>3, <1>8, <1>10
  <2>2. g = [q \in {Q[i] : i \in Ex(tree')} |-> g[q]]
    BY <1>7
  <2> HIDE DEF g
  <2> QED BY <1>10, <2>1, <2>2 DEF IsNamed
<1>12. IsNamed(h, tree', Q, Users')
  <2>1. \A i \in Ex(tree') : h[Q[i]] = Users'[i]
    <3>1. Users' = Users
      BY DEF Users
    <3> QED BY <1>8, <1>10, <3>1
  <2>2. h = [q \in {Q[i] : i \in Ex(tree')} |-> h[q]]
    BY <1>7
  <2> HIDE DEF h
  <2> QED BY <1>10, <2>1, <2>2 DEF IsNamed
<1>13. PathNodes' = g /\ PathOpened' = h
  <2> HIDE DEF g, h
  <2> QED BY <1>9, <1>11, <1>12, NamedOnce
<1>14. p \in DOMAIN PathNodes /\ to \notin DOMAIN PathNodes
  BY <1>0, <1>8
<1>15. Promise!Front(p) = Promise!Front(to) /\ Promise!Changed
  BY PromiseNames, WrittenIs
<1>16. PathNodes' = [q \in {Promise!Moved(p, to, r) : r \in DOMAIN PathNodes} |->
                      PathNodes[Promise!Moved(to, p, q)]]
  BY <1>8, <1>13 DEF M, W
<1>17. PathOpened' = [q \in DOMAIN PathNodes' |-> PathOpened[Promise!Moved(to, p, q)]]
  <2>1. DOMAIN PathNodes' = {M(r) : r \in D}
    BY <1>13
  <2> QED BY <1>13, <2>1 DEF W
<1>18. Promise!Rename(p, to)
  <2> HIDE DEF p
  <2> QED BY <1>14, <1>15, <1>16, <1>17 DEF Promise!Rename, PathNodes, PathOpened
<1> QED BY <1>6, <1>18

\* rename, the directory reached: the node and all that lies below it move to the new path and
\* nothing else does, or the request fails for a reason.
LEMMA RenameImplements ==
  ASSUME NoHandleLeak, NEW P, Neat(P), NEW p \in Paths, p # <<>>, NEW to \in Paths, to # <<>>,
         Request("rename", p, to), NEW t \in travel_path(p), t.err = "OK", ~Long(Last(p)),
         Front(p) = Front(to), ~Long(Last(to)), tfs_rename(t.dir, Last(p), Last(to))
  PROVE  Kept
<1>0. req'.op = "rename" /\ req'.path = p /\ req'.to = to
  BY DEF Request
<1>1. /\ IsDirId(tree, t.dir) /\ t.dir \in Dirs /\ Up(P, t.dir) = Front(p)
      /\ Item(t.dir, Last(p)) = {i \in Ex(tree) : P[i] = p}
      /\ to \in Seq(Names) /\ TreeOk(tree, P)
  BY Arrives, PathNames DEF Neat
<1>2. Item(t.dir, Last(to)) = {i \in Ex(tree) : P[i] = to}
  BY <1>1, ItemAt
<1>3. CASE Failed("IO")
  BY <1>3, FailedIO
<1>4. CASE Item(t.dir, Last(to)) # {} /\ Failed("FILE_EXIST")
  <2>1. PICK i \in Ex(tree) : P[i] = to
    BY <1>2, <1>4
  <2>2. There(to)
    BY <2>1, IsThere
  <2>3. "EEXIST" \in Own(req')
    BY <1>0, <2>2, Owns
  <2>4. Reason
    BY <1>4, <2>3, ErrorsAre DEF Reason, Failed, check_error, Reply
  <2> QED BY <1>4, <2>4, CodesIn, FailedKept
<1>5. CASE Item(t.dir, Last(p)) = {} /\ Failed("NOT_EXIST")
  <2>1. result' = "ENOENT" /\ answer' = {} /\ UNCHANGED <<tree, place, usage, held, spoiled>>
    BY <1>5, ErrorsAre DEF Failed, check_error, Reply
  <2> QED BY <1>0, <1>1, <1>5, <2>1, NoItemKept
<1>6. ASSUME Item(t.dir, Last(to)) = {}, NEW id \in Item(t.dir, Last(p)),
             tree' = [tree EXCEPT ![id].name = Cut[Last(to)]], Written, UNCHANGED <<place, usage, held, spoiled>>
      PROVE  Kept
  <2>1. id \in Ex(tree) /\ id \in Ids /\ P[id] = p /\ tree \in [Ids -> Nodes]
    BY <1>1, TypeIs DEF Ex, NoHandleLeak
  <2>2. Cut[Last(to)] = Last(to) /\ Last(to) \in Names
    BY PathNames DEF Long
  <2> DEFINE x == [tree[id] EXCEPT !.name = Last(to)]
  <2>3. tree[id] \in Nodes
    BY <2>1
  <2>4. x \in Nodes /\ x.dir = tree[id].dir /\ x.type = tree[id].type /\ x.name = Last(to)
    BY <2>2, <2>3 DEF Nodes
  <2>5. tree' = SetAt(tree, id, x)
    BY <1>6, <2>1, <2>2 DEF SetAt
  <2>6. \A i \in Ex(tree) : P[i] # to
    BY <1>2, <1>6
  <2> HIDE DEF x
  <2>7. PICK y \in Nodes : y = x
    BY <2>4
  <2>8. NeatTree' /\ Promise!Rename(P[id], to)
    <3>1. Front(P[id]) = Front(to)
      BY <2>1
    <3>2. y.dir = tree[id].dir /\ y.type = tree[id].type /\ y.name = Last(to) /\ tree' = SetAt(tree, id, y)
      BY <2>4, <2>5, <2>7
    <3> QED BY <1>1, <1>6, <2>1, <2>6, <3>1, <3>2, Renames
  <2>9. Promise!Succeed
    BY <1>0, <2>1, <2>8 DEF Promise!Succeed
  <2> QED BY <1>6, <2>8, <2>9, Changes
<1> QED BY <1>3, <1>4, <1>5, <1>6 DEF tfs_rename

\* rename keeps the promise, and fails for a reason.
LEMMA RenameRequestKept ==
  ASSUME NoHandleLeak, NEW P, Neat(P), NEW p \in Paths, p # <<>>, NEW to \in Paths, to # <<>>, op_rename(p, to)
  PROVE  Kept
<1>1. PICK t \in travel_path(p) :
        /\ Request("rename", p, to)
        /\ \/ t.err # "OK" /\ Failed(t.err)
           \/ Long(Last(p)) /\ Reply("ENAMETOOLONG", {}) /\ UNCHANGED <<tree, place, usage, held, spoiled>>
           \/ Front(p) # Front(to) /\ Reply("EINVAL", {}) /\ UNCHANGED <<tree, place, usage, held, spoiled>>
           \/ Long(Last(to)) /\ Reply("ENAMETOOLONG", {}) /\ UNCHANGED <<tree, place, usage, held, spoiled>>
           \/ /\ t.err = "OK" /\ ~Long(Last(p)) /\ Front(p) = Front(to) /\ ~Long(Last(to))
              /\ tfs_rename(t.dir, Last(p), Last(to))
  BY Zenon DEF op_rename, ByPath
<1>2. req'.op = "rename" /\ req'.path = p /\ req'.to = to
  BY <1>1 DEF Request
<1>3. CASE \/ t.err # "OK" /\ Failed(t.err)
           \/ Long(Last(p)) /\ Reply("ENAMETOOLONG", {}) /\ UNCHANGED <<tree, place, usage, held, spoiled>>
  BY <1>1, <1>3, ByPathKept DEF ByFdOps
<1>4. CASE Front(p) # Front(to) /\ Reply("EINVAL", {}) /\ UNCHANGED <<tree, place, usage, held, spoiled>>
  <2>1. "EINVAL" \in Own(req')
    BY <1>2, <1>4, Owns
  <2> QED BY <1>4, <2>1, FailKept DEF Reason, Reply
<1>5. CASE Long(Last(to)) /\ Reply("ENAMETOOLONG", {}) /\ UNCHANGED <<tree, place, usage, held, spoiled>>
  <2>1. "ENAMETOOLONG" \in Own(req')
    BY <1>2, <1>5, Owns
  <2> QED BY <1>5, <2>1, FailKept DEF Reason, Reply
<1> QED BY <1>1, <1>3, <1>4, <1>5, RenameImplements

-----------------------------------------------------------------------------
(* The refinement.                                                         *)

FInv == NoHandleLeak /\ (spoiled = {} => NeatTree)

\* An empty drive is a tree, and the promise's too.
LEMMA InitTree ==
  Init => FInv /\ Promise!PInit
<1> SUFFICES ASSUME Init PROVE FInv /\ Promise!PInit
  OBVIOUS
<1> DEFINE P == [id \in Ids |-> <<FreeItem.name>>]
<1>0. FreeItem \in Nodes /\ FreeItem.type = "FREE" /\ FreeItem.dir = ROOT /\ FreeItem.name \in Names
  BY FuseAssumption DEF FreeItem, Nodes, Dirs
<1>1. spoiled = {} /\ (\A id \in Ids : tree[id] = FreeItem) /\ \A q \in Places : held[q] = 0 /\ usage[q] = 0
  BY DEF Init
<1>2. Ex(tree) = {} /\ Handles = {}
  BY <1>0, <1>1 DEF Ex, Handles
<1>3. TreeOk(tree, P)
  <2>1. tree \in [Ids -> Nodes]
    BY <1>0 DEF Init
  <2>2. Fine(tree)
    BY <1>0, <1>1, <1>2, <2>1 DEF Fine
  <2>3. Append(<<>>, FreeItem.name) = <<FreeItem.name>> /\ <<FreeItem.name>> \in Seq(Names)
    BY <1>0
  <2>4. PathsAre(tree, P)
    BY <1>0, <1>1, <2>3 DEF PathsAre, Up
  <2> QED BY <2>2, <2>4 DEF TreeOk
<1>4. Neat(P)
  <2>1. Placed(tree, place, held)
    BY <1>1, <1>2 DEF Placed
  <2> QED BY <1>1, <1>2, <1>3, <2>1, FS_EmptySet DEF Neat
<1>5. NoHandleLeak
  BY NoHandleLeakInit
<1>6. FInv
  BY <1>4, <1>5 DEF FInv, NeatTree
<1>7. PathNodes = <<>> /\ PathOpened = <<>>
  <2>1. IsNamed(PathNodes, tree, P, [id \in Ids |-> tree[id].type])
        /\ IsNamed(PathOpened, tree, P, Users)
    BY <1>3, NodesAre
  <2>2. {P[i] : i \in Ex(tree)} = {}
    BY <1>2
  <2> HIDE DEF P
  <2>3. DOMAIN PathNodes = {} /\ DOMAIN PathOpened = {}
    BY <2>1, <2>2 DEF IsNamed
  <2>4. PathNodes = [q \in {} |-> PathNodes[q]] /\ PathOpened = [q \in {} |-> PathOpened[q]]
    BY <2>1, <2>2 DEF IsNamed
  <2>5. \A f : f = [q \in {} |-> f[q]] => f = <<>>
    <3> TAKE f
    <3> HAVE f = [q \in {} |-> f[q]]
    <3>1. <<>> = [q \in 1 .. 0 |-> f[q]] /\ 1 .. 0 = {}
      OBVIOUS
    <3> QED BY <3>1
  <2> QED BY <2>4, <2>5
<1> QED BY <1>6, <1>7 DEF Promise!PInit, Init, PathNodes, PathOpened

\* What has come between a handle and its file stays noted.
LEMMA SpoiledStays ==
  ASSUME Next
  PROVE  spoiled \subseteq spoiled'
<1>1. ASSUME NEW h, NEW if, Spoil(h, if) PROVE spoiled \subseteq spoiled'
  BY <1>1 DEF Spoil
<1>2. ASSUME NEW e, Failed(e) PROVE spoiled \subseteq spoiled'
  BY <1>2 DEF Failed
<1>3. ASSUME NEW p \in Paths, op_getattr(p) \/ op_readdir(p) PROVE spoiled \subseteq spoiled'
  BY <1>2, <1>3, Zenon DEF op_getattr, op_readdir, ByPath, tfs_stat, enter_and_read, tfs_read_dir
<1>4. ASSUME NEW p \in Paths, op_mkdir(p) \/ op_mknod(p) PROVE spoiled \subseteq spoiled'
  BY <1>2, <1>4, Zenon DEF op_mkdir, op_mknod, ByPath, tfs_create_dir, tfs_write_file, Create
<1>5. ASSUME NEW p \in Paths, op_unlink(p) \/ op_rmdir(p) PROVE spoiled \subseteq spoiled'
  BY <1>1, <1>2, <1>5, Zenon DEF op_unlink, op_rmdir, ByPath, delete_file, delete_dir, tfs_delete
<1>6. ASSUME NEW p \in Paths, op_open(p) \/ op_truncate(p) PROVE spoiled \subseteq spoiled'
  BY <1>1, <1>2, <1>6, Zenon DEF op_open, op_truncate, ByPath
<1>7. ASSUME NEW p \in Paths, NEW to, op_rename(p, to) PROVE spoiled \subseteq spoiled'
  BY <1>2, <1>7, Zenon DEF op_rename, ByPath, tfs_rename
<1>8. ASSUME NEW fd, op_ftruncate(fd) \/ op_read(fd) \/ op_write(fd) \/ op_release(fd)
      PROVE  spoiled \subseteq spoiled'
  BY <1>8, Zenon DEF op_ftruncate, op_read, op_write, op_release, ByFd
<1>9. CASE op_statfs
  BY <1>9, Zenon DEF op_statfs
<1> QED BY <1>3, <1>4, <1>5, <1>6, <1>7, <1>8, <1>9, Zenon DEF Next

\* Every request keeps the promise, and fails for a reason, while nothing has come between a
\* handle and its file.
LEMMA NextKept ==
  ASSUME FInv, Next, spoiled' = {}
  PROVE  Kept
<1>1. NoHandleLeak
  BY DEF FInv
<1>2. PICK P : Neat(P)
  BY SpoiledStays DEF FInv, NeatTree
<1>3. \/ \E p \in Paths : op_getattr(p) \/ op_readdir(p)
      \/ \E p \in Paths \ {<<>>} : op_mkdir(p) \/ op_mknod(p) \/ op_unlink(p) \/ op_rmdir(p)
      \/ \E p \in Paths \ {<<>>} : op_open(p) \/ op_truncate(p)
      \/ \E p, to \in Paths \ {<<>>} : op_rename(p, to)
      \/ \E fd \in Places \cup {BadFd} : op_ftruncate(fd) \/ op_read(fd) \/ op_write(fd) \/ op_release(fd)
      \/ op_statfs
  BY Zenon DEF Next
<1>4. CASE \E p \in Paths : op_getattr(p) \/ op_readdir(p)
  BY <1>1, <1>2, <1>4, GetattrKept, ReaddirKept
<1>5. CASE \E p \in Paths \ {<<>>} : op_mkdir(p) \/ op_mknod(p) \/ op_unlink(p) \/ op_rmdir(p)
  BY <1>1, <1>2, <1>5, PathsKept
<1>6. CASE \E p \in Paths \ {<<>>} : op_open(p) \/ op_truncate(p)
  BY <1>1, <1>2, <1>6, OpenKept, TruncateKept
<1>7. CASE \E p, to \in Paths \ {<<>>} : op_rename(p, to)
  BY <1>1, <1>2, <1>7, RenameRequestKept
<1>8. CASE \E fd \in Places \cup {BadFd} : op_ftruncate(fd) \/ op_read(fd) \/ op_write(fd) \/ op_release(fd)
  BY <1>1, <1>2, <1>8, FdKept
<1>9. CASE op_statfs
  BY <1>1, <1>2, <1>9, StatfsKept
<1> QED BY <1>3, <1>4, <1>5, <1>6, <1>7, <1>8, <1>9

\* What the proofs of the theorems need of a step.
LEMMA StepKept ==
  ASSUME FInv, [Next]_vars
  PROVE  /\ FInv' /\ [spoiled' = {} => Promise!PNext]_(Promise!pvars)
         /\ Next /\ spoiled' = {} => (result' # "OK" => Reason)
<1>1. NoHandleLeak'
  BY NoHandleLeakStep DEF FInv
<1>2. CASE Next /\ spoiled' = {}
  <2>1. Kept
    BY <1>2, NextKept
  <2> QED BY <1>1, <2>1 DEF FInv, Kept
<1>3. CASE UNCHANGED vars /\ spoiled' = {} /\ ~Next
  <2>1. spoiled = {} /\ UNCHANGED <<tree, place, usage, held, spoiled, req, result, answer>>
    BY <1>3 DEF vars
  <2>2. PICK P : Neat(P)
    BY <2>1 DEF FInv, NeatTree
  <2>3. NeatTree'
    BY <2>1, <2>2, StillNeat
  <2>4. PathNodes' = PathNodes /\ PathOpened' = PathOpened
    BY <2>1, <2>2, Unmoved DEF FInv
  <2>5. UNCHANGED Promise!pvars
    BY <2>1, <2>4 DEF Promise!pvars, PathNodes, PathOpened
  <2> QED BY <1>1, <1>3, <2>3, <2>5 DEF FInv
<1>4. CASE spoiled' # {}
  BY <1>1, <1>4 DEF FInv
<1> QED BY <1>2, <1>3, <1>4

\* Handles are never leaked, whatever requests come and whatever calls fail; and as long as no
\* deletion has moved an open file and no count has come to UsageMod, the items are a tree:
\* every one has a path of its own, through directories, and a place of its own, and what is
\* open is a file.
THEOREM FuseInvariant == Spec => []FInv
<1>1. Init => FInv
  BY InitTree
<1>2. FInv /\ [Next]_vars => FInv'
  BY StepKept
<1> QED BY <1>1, <1>2, PTL DEF Spec

\* The front end keeps the promise of PathTree, as long as no deletion has moved the item of an
\* open file and no file has been opened UsageMod times at once: every request does to the
\* paths and to the open files what the promise grants it, or fails and changes nothing,
\* although items move between the blocks of their directory, the walk of a path starts where
\* an earlier one left the current directory, and calls may fail at any step.
THEOREM FuseImplements == Spec => Implements
<1>1. Init => Promise!PInit
  BY InitTree
<1>2. FInv /\ [Next]_vars => [spoiled' = {} => Promise!PNext]_(Promise!pvars)
  BY StepKept
<1> QED BY <1>1, <1>2, FuseInvariant, PTL DEF Spec, Implements

\* As long as nothing has come between a handle and its file, a request that fails has a
\* reason in its path or its files, or returns what an earlier failure has left in
\* tfs_last_error, which the requests by descriptor and statfs never do.
THEOREM FuseFailsForAReason == Spec => FailsForAReason
<1>1. FInv /\ [Next]_vars =>
        [spoiled' = {} /\ result' # "OK" =>
           \/ result' \in Own(req')
           \/ /\ req'.op \notin {"read", "write", "ftruncate", "release", "statfs"}
              /\ tfs_last_error # "OK" /\ result' = errors[tfs_last_error]]_vars
  BY StepKept DEF Reason, ByFdOps
<1> QED BY <1>1, FuseInvariant, PTL DEF Spec, FailsForAReason
=============================================================================
