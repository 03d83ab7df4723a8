------------------------------ MODULE MCTinyFs ------------------------------
(***************************************************************************)
(* TinyFs for TLC, and the refinement of FileTree.                         *)
(*                                                                         *)
(* Names are interchangeable, and so are payloads.  The status of the last *)
(* call and the ghost of its arguments are written by every call and       *)
(* read by none, so states that differ in them only are explored once;     *)
(* action properties are evaluated on every step to them.                  *)
(***************************************************************************)
EXTENDS TinyFs, TLC

Interchangeable == Permutations(Names) \cup Permutations(Payloads)
WithoutStatus   == <<disk, map, bitmap_blk, current_dir_blk, faults>>

-----------------------------------------------------------------------------
\* The tree on the drive and the path of the current directory, kept in
\* variables of their own so that TLC derives them once for each new state.
VARIABLES tree, cwd

TreeInit == Init /\ tree = Tree(disk) /\ cwd = CwdPath

TreeNext ==
  /\ Next
  /\ IF disk' = disk /\ current_dir_blk' = current_dir_blk THEN UNCHANGED <<tree, cwd>>
     ELSE tree' = Tree(disk') /\ cwd' = PathOf(disk', current_dir_blk')

TreeSpec == TreeInit /\ [][TreeNext]_<<vars, tree, cwd>>

\* While nothing fails the calls are the ones of module FileTree: a write, a new
\* directory, a deletion or a renaming changes the named entry and no other,
\* files keep the data written last, and the status is the one promised.
Promise == INSTANCE FileTree WITH call <- arguments, status <- tfs_last_error
Implements == Promise!TSpec
=============================================================================
