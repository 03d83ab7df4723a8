---------------------------- MODULE MCHandleTable ----------------------------
(* HandleTable for TLC.                                                    *)
EXTENDS HandleTable, TLC

\* The names of files are interchangeable.
NameSymmetry == Permutations(Names)
=============================================================================
