-------------------------------- MODULE MCMmc --------------------------------
(* Mmc for TLC.                                                            *)
EXTENDS Mmc

Card(kind, delay, voltage, structure, c_size, shift) ==
  [kind |-> kind, delay |-> delay, voltage |-> voltage, csd_structure |-> structure,
   c_size |-> c_size, shift |-> shift]

\* With words of 5 bits, blocks of 4 bytes and a unit of 4 blocks: the largest sizes
\* that fit and the first that do not (c_size 3 and 7); an MMC whose CSD has structure
\* 1; cards that are ready at once, at the last try and too late; one at the wrong
\* voltage.
MCCards ==
  {Card("MMC", 0, TRUE, 0, 1, 3), Card("MMC", 1, TRUE, 1, 0, 3), Card("MMC", 2, TRUE, 2, 0, 4),
   Card("SDV1", 1, TRUE, 0, 1, 3), Card("SDV1", 0, TRUE, 0, 3, 3), Card("SDV1", 2, TRUE, 0, 0, 3),
   Card("SDV2", 1, TRUE, 0, 1, 3), Card("SDV2", 0, FALSE, 0, 0, 3),
   Card("SDHC", 1, TRUE, 1, 6, 0), Card("SDHC", 0, TRUE, 1, 7, 0), Card("SDHC", 2, TRUE, 1, 0, 0)}
=============================================================================
