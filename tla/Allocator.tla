----------------------------- MODULE Allocator ------------------------------
(***************************************************************************)
(* What the block allocator promises the rest of the file system while no  *)
(* transfer with the drive fails: a request is answered, with a block that *)
(* was free or, when there is none, with "full".                           *)
(***************************************************************************)
EXTENDS Integers

CONSTANTS Blocks,    \* the blocks of the drive
          Reserved   \* the blocks tfs_format takes and nobody gives back

VARIABLES taken,     \* blocks in use; {} while the drive is not formatted
          answer     \* None, Busy, Full or the block handed out

None == -1
Busy == -2
Full == -3

avars == <<taken, answer>>

AInit == taken = {} /\ answer = None

Format == taken' = Reserved /\ answer' = None

Erase == taken' = {} /\ answer' = None

Request == /\ taken # {}
           /\ answer' = Busy
           /\ UNCHANGED taken

Grant == /\ answer = Busy
         /\ \E b \in Blocks \ taken : answer' = b /\ taken' = taken \cup {b}

\* A request is refused only when no block is free.
Refuse == /\ taken = Blocks
          /\ answer' = Full
          /\ UNCHANGED taken

Free == /\ answer = None
        /\ \E b \in taken \ Reserved : taken' = taken \ {b}
        /\ UNCHANGED answer

\* Any other call forgets the last answer.
Forget == answer # Busy /\ answer' = None /\ UNCHANGED taken

ANext == Format \/ Erase \/ Request \/ Grant \/ Refuse \/ Free \/ Forget

ASpec == AInit /\ [][ANext]_avars /\ WF_avars(Grant \/ (answer = Busy /\ Refuse))
=============================================================================
