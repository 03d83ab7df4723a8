--------------------------- MODULE MCTinyFsFaults ---------------------------
(* TinyFs for TLC where calls are cut short; see MCTinyFs.                 *)
EXTENDS TinyFs, TLC

Interchangeable == Permutations(Names) \cup Permutations(Payloads)
WithoutStatus   == <<disk, map, bitmap_blk, current_dir_blk, faults>>
=============================================================================
