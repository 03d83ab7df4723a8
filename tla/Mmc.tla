--------------------------------- MODULE Mmc ---------------------------------
(***************************************************************************)
(* The card driver of mmc.c: drive_init with its probing for the kind of   *)
(* card, drive_read_block and drive_write_block, against a card that may   *)
(* miss commands, answer late or not at all, take its time to get ready    *)
(* and reject data.                                                        *)
(*                                                                         *)
(* One action is one send_command or one wait_byte with the bytes that are *)
(* transferred after it.  The answer R1 is the set of its bits; a byte     *)
(* that is clocked while the card sends nothing is 0xff, all bits set.     *)
(* The content of blocks is their number: what matters is which block the  *)
(* card sends or stores.  Words of WordBits bits stand for uint32_t.       *)
(***************************************************************************)
EXTENDS Integers, FiniteSets

CONSTANTS
  Cards,      \* the cards: kind, delay, voltage, csd_structure, c_size, shift
  ResetMax,   \* 0x1ff: tries to reset a card, less one
  ReadyMax,   \* TIMEOUT: tries to get it ready, less one
  WordBits,   \* bits of an uint32_t
  BlkWidth,   \* TFS_BLOCKSIZE_WIDTH
  V2Unit,     \* blocks to a unit of c_size in a version 2 CSD: 1024
  MaxFaults   \* bound: commands or answers lost or late, tokens that time out

ASSUME SizeAssumption ==
  /\ ResetMax \in Nat /\ ReadyMax \in Nat /\ MaxFaults \in Nat
  /\ WordBits \in Nat /\ BlkWidth \in Nat /\ V2Unit \in Nat \ {0}

\* What the driver makes of a card, and the kinds that high addresses go with.
Types == {"MMC", "SDV1", "SDV2", "SDHC"}
Word  == 2 ^ WordBits

\* Powers of two are positive, which a prover has to be told.
ASSUME PowerAssumption ==
  /\ Word > 0 /\ 2 ^ BlkWidth > 0
  /\ \A c \in Cards : 2 ^ c.shift > 0

VARIABLES
  it,        \* the card in the socket
  card,      \* what it is doing
  type, blk_count,  \* tfs_drive_info
  tfs_last_error,
  pc,        \* the command or wait that comes next
  i,         \* tries so far
  resp,      \* the answer to the last command
  asked,     \* the block of the running transfer
  sent,      \* ghost: the block that drive_read_block has received
  stored,    \* ghost: the blocks the card has stored during drive_write_block
  rejected,  \* ghost: the card has rejected data
  shifted,   \* ghost: an answer has been taken for that to another command
  faults

vars == <<it, card, type, blk_count, tfs_last_error, pc, i, resp, asked, sent, stored, rejected,
          shifted, faults>>

None == -1
R1 == {"IDLE", "ILL", "ERR"}
NoAnswer == R1               \* 0xff
DataToken == R1 \ {"IDLE"}   \* 0xfe

-----------------------------------------------------------------------------
(* The card.                                                               *)

Capacity(c) == IF c.kind = "SDHC" THEN (c.c_size + 1) * V2Unit
               ELSE ((c.c_size + 1) * 2 ^ c.shift) \div 2 ^ BlkWidth

\* A card has at least one block.
ASSUME CardAssumption ==
  /\ Cards \subseteq [kind : Types, delay : Nat, voltage : BOOLEAN, csd_structure : 0 .. 3,
                     c_size : Nat, shift : Nat]
  /\ \A c \in Cards : Capacity(c) > 0

\* The block that an address means to the card, None if it has no such block.
Target(addr) ==
  LET b == IF it.kind = "SDHC" THEN addr ELSE addr \div 2 ^ BlkWidth
  IN IF b < Capacity(it) /\ (it.kind = "SDHC" \/ addr % 2 ^ BlkWidth = 0) THEN b ELSE None

Fresh == [idle |-> FALSE, app |-> FALSE, wait |-> it.delay, sending |-> None, target |-> None]
Bits(c) == IF c.idle THEN {"IDLE"} ELSE {}
Reply(c, more) == [card |-> c, r1 |-> Bits(c) \cup more]

\* A card that is asked to get ready does so after some time; one of high capacity
\* only for a host that says it knows them.
GetReady(c, hcs) ==
  IF it.kind = "SDHC" /\ ~hcs THEN c
  ELSE IF c.wait = 0 THEN [c EXCEPT !.idle = FALSE] ELSE [c EXCEPT !.wait = @ - 1]

\* The card when it gets a command: what it was about is forgotten.
Rest == [idle |-> card.doing.idle, app |-> FALSE, wait |-> card.doing.wait,
         sending |-> None, target |-> None]

\* The commands that a card knows before it is ready.
IdleCommands == {"GO_IDLE_STATE", "SEND_IF_COND", "APP", "SD_SEND_OP_COND", "SEND_OP_COND", "READ_OCR"}

\* What a card does with a command, and its answer.
Obey(cmd, arg) ==
  LET c == Rest
      sd == it.kind # "MMC"
  IN CASE cmd = "GO_IDLE_STATE" -> Reply([Fresh EXCEPT !.idle = TRUE], {})
       [] cmd = "SEND_IF_COND" -> Reply(c, IF it.kind \in {"SDV2", "SDHC"} THEN {} ELSE {"ILL"})
       [] cmd = "APP" -> IF sd THEN Reply([c EXCEPT !.app = TRUE], {}) ELSE Reply(c, {"ILL"})
       [] cmd = "SD_SEND_OP_COND" -> IF sd /\ card.doing.app THEN Reply(GetReady(c, arg = 1), {})
                                     ELSE Reply(c, {"ILL"})
       [] cmd = "SEND_OP_COND" -> IF it.kind # "SDHC" THEN Reply(GetReady(c, FALSE), {})
                                  ELSE Reply(c, {"ILL"})
       [] cmd = "READ_OCR" -> Reply(c, {})
       [] cmd \notin IdleCommands /\ c.idle -> Reply(c, {"ILL"})
       [] ~c.idle /\ cmd = "READ_SINGLE_BLOCK" ->
            Reply([c EXCEPT !.sending = Target(arg)], IF Target(arg) = None THEN {"ERR"} ELSE {})
       [] ~c.idle /\ cmd = "WRITE_SINGLE_BLOCK" ->
            Reply([c EXCEPT !.target = Target(arg)], IF Target(arg) = None THEN {"ERR"} ELSE {})
       [] ~c.idle /\ cmd \in {"SEND_CID", "SEND_CSD"} -> Reply([c EXCEPT !.sending = 0], {})
       [] OTHER -> Reply(c, {})

\* card.doing is the card itself, card.late an answer it still owes.
NoLate == [r1 |-> NoAnswer, sending |-> None]
Doing(c) == [doing |-> c, late |-> NoLate]

Fault == faults < MaxFaults /\ faults' = faults + 1

-----------------------------------------------------------------------------
(* send_command.                                                           *)

\* The answer is there within the ten bytes that are polled,
InTime(cmd, arg) == LET r == Obey(cmd, arg) IN
  /\ card' = Doing(r.card) /\ resp' = r.r1
  /\ UNCHANGED <<faults, shifted>>

\* or the command or the answer is lost,
Lost(cmd, arg) ==
  /\ Fault
  /\ card' \in {card, Doing(Obey(cmd, arg).card)} /\ resp' = NoAnswer
  /\ UNCHANGED shifted

\* or comes later, when it may be taken for the answer to the next command,
Late(cmd, arg) == LET r == Obey(cmd, arg) IN
  /\ Fault
  /\ card' = [doing |-> r.card, late |-> [r1 |-> r.r1, sending |-> r.card.sending]]
  /\ resp' = NoAnswer
  /\ UNCHANGED shifted

\* which is then late itself.
Shifted(cmd, arg) == LET r == Obey(cmd, arg) IN
  /\ card.late # NoLate
  /\ resp' = card.late.r1
  /\ card' = [doing |-> [r.card EXCEPT !.sending = card.late.sending],
              late |-> [r1 |-> r.r1, sending |-> r.card.sending]]
  /\ shifted' = TRUE
  /\ UNCHANGED faults

\* A card that had not sent its data yet does so now.
Overdue(cmd, arg) ==
  /\ card.doing.sending # None
  /\ resp' = DataToken
  /\ card' = Doing([card.doing EXCEPT !.sending = None])
  /\ shifted' = TRUE
  /\ UNCHANGED faults

send_command(cmd, arg) ==
  InTime(cmd, arg) \/ Lost(cmd, arg) \/ Late(cmd, arg) \/ Shifted(cmd, arg) \/ Overdue(cmd, arg)

\* wait_byte(0xfe): the token of a data block, or a timeout; what is read afterwards.
wait_token(got) ==
  \/ /\ card.doing.sending # None /\ got = card.doing.sending
     /\ card' = [card EXCEPT !.doing.sending = None]
     /\ UNCHANGED faults
  \/ /\ card.doing.sending # None /\ got = None
     /\ Fault
     /\ UNCHANGED card
  \/ /\ card.doing.sending = None /\ got = None
     /\ UNCHANGED <<card, faults>>

Return(e) == pc' = "idle" /\ tfs_last_error' = e /\ i' = 0 /\ asked' = None
Goto(p) == pc' = p /\ UNCHANGED <<tfs_last_error, i, asked>>

ghosts == <<sent, stored, rejected>>
info   == <<type, blk_count>>

-----------------------------------------------------------------------------
(* drive_init.                                                             *)

drive_init ==
  /\ pc = "idle"
  /\ type' = "MMC"
  /\ pc' = "reset" /\ i' = 0
  /\ sent' = None /\ stored' = {} /\ rejected' = FALSE
  /\ UNCHANGED <<it, card, blk_count, tfs_last_error, resp, asked, shifted, faults>>

\* Faulty variant, for the mutation runs: the tries are not counted.
AgainUncounted(p, max) == pc' = p /\ UNCHANGED <<tfs_last_error, i, asked>>

\* Once more from p, or the device is given up.
Again(p, max) == IF i = max THEN Return("NO_DEV")
                 ELSE pc' = p /\ i' = i + 1 /\ UNCHANGED <<tfs_last_error, asked>>

reset ==
  /\ pc = "reset"
  /\ send_command("GO_IDLE_STATE", 0)
  /\ IF resp' = {"IDLE"} THEN Goto("if_cond") ELSE Again("reset", ResetMax)
  /\ UNCHANGED <<it, info, ghosts>>

\* The loop that waits for the card to get ready starts here.
StartReady(t) == /\ pc' = IF t = "MMC" THEN "op_cond" ELSE "app"
                 /\ i' = 0
                 /\ UNCHANGED <<tfs_last_error, asked>>

\* The four bytes after the answer: voltage range and test pattern.  They are
\* anything when the answer was not that to this command.
if_cond ==
  /\ pc = "if_cond"
  /\ send_command("SEND_IF_COND", 0)
  /\ IF "ILL" \in resp' THEN Goto("probe_app") /\ UNCHANGED type
     ELSE \E match \in IF shifted' THEN BOOLEAN ELSE {it.voltage} :
          IF match THEN type' = "SDV2" /\ StartReady("SDV2")
                   ELSE Return("NO_DEV") /\ UNCHANGED type
  /\ UNCHANGED <<it, blk_count, ghosts>>

probe_app ==
  /\ pc = "probe_app"
  /\ send_command("APP", 0)
  /\ Goto("probe_op")
  /\ UNCHANGED <<it, info, ghosts>>

probe_op ==
  /\ pc = "probe_op"
  /\ send_command("SD_SEND_OP_COND", 0)
  /\ type' = IF "ILL" \notin resp' THEN "SDV1" ELSE type
  /\ StartReady(type')
  /\ UNCHANGED <<it, blk_count, ghosts>>

app ==
  /\ pc = "app"
  /\ send_command("APP", 0)
  /\ Goto("sd_op_cond")
  /\ UNCHANGED <<it, info, ghosts>>

\* Faulty variant: high capacity is not announced.
HcsNever == 0

\* Bit 30 of the argument: the host knows cards of high capacity.
Hcs == IF type = "SDV2" THEN 1 ELSE 0

get_ready ==
  /\ \/ pc = "sd_op_cond" /\ send_command("SD_SEND_OP_COND", Hcs)
     \/ pc = "op_cond" /\ send_command("SEND_OP_COND", 0)
  /\ IF "IDLE" \notin resp' THEN Goto(IF type = "SDV2" THEN "ocr" ELSE "blocklen")
     ELSE Again(IF type = "MMC" THEN "op_cond" ELSE "app", ReadyMax)
  /\ UNCHANGED <<it, info, ghosts>>

\* Faulty variant: every card of version 2 is taken to have a high capacity.
HighCapacityAlways == TRUE

\* Bit 30 of the OCR.
HighCapacity == it.kind = "SDHC"

ocr ==
  /\ pc = "ocr"
  /\ send_command("READ_OCR", 0)
  /\ IF resp' # {} THEN Return("NO_DEV") /\ UNCHANGED type
     ELSE \E ccs \in IF shifted' THEN BOOLEAN ELSE {HighCapacity} :
          /\ type' = IF ccs THEN "SDHC" ELSE type
          /\ Goto("blocklen")
  /\ UNCHANGED <<it, blk_count, ghosts>>

\* A command whose answer must have no bit set, and what comes after it.
Must(p, cmd, next) ==
  /\ pc = p
  /\ send_command(cmd, 0)
  /\ IF resp' # {} THEN Return("NO_DEV") ELSE Goto(next)
  /\ UNCHANGED <<it, info, ghosts>>

set_blocklen == Must("blocklen", "SET_BLOCKLEN", "cid")
send_cid     == Must("cid", "SEND_CID", "cid_data")
send_csd     == Must("csd", "SEND_CSD", "csd_data")

get_cid ==
  /\ pc = "cid_data"
  /\ \E got \in {None, card.doing.sending} :
       wait_token(got) /\ IF got = None THEN Return("NO_DEV") ELSE Goto("csd")
  /\ UNCHANGED <<it, info, ghosts, resp, shifted>>

\* blk_count from the CSD, whose layout its first two bits tell.
BlkCount(c) == IF c.csd_structure = 1 THEN ((c.c_size + 1) * V2Unit) % Word
               ELSE (((c.c_size + 1) * 2 ^ c.shift) % Word) \div 2 ^ BlkWidth

get_csd ==
  /\ pc = "csd_data"
  /\ \E got \in {None, card.doing.sending} :
       /\ wait_token(got)
       /\ IF got = None THEN Return("NO_DEV") /\ UNCHANGED blk_count
          ELSE blk_count' = BlkCount(it) /\ Return("OK")
  /\ UNCHANGED <<it, type, ghosts, resp, shifted>>

-----------------------------------------------------------------------------
(* drive_read_block and drive_write_block.                                 *)

\* The file system asks for blocks that the drive has; tfs_init asks for the first.
call_transfer(p, b) ==
  /\ pc = "idle" /\ tfs_last_error # "NO_DEV" /\ blk_count # None
  /\ b < blk_count \/ b = 0
  /\ tfs_last_error' = "OK"
  /\ pc' = p /\ asked' = b
  /\ sent' = None /\ stored' = {} /\ rejected' = FALSE
  /\ UNCHANGED <<it, card, info, i, resp, shifted, faults>>

drive_read_block(b)  == call_transfer("read", b)
drive_write_block(b) == call_transfer("write", b)

\* Faulty variant: byte addresses for every card.
AddressBytes(b) == (b * 2 ^ BlkWidth) % Word

\* Cards of high capacity are addressed by blocks, all others by bytes.
Address(b) == IF type # "SDHC" THEN (b * 2 ^ BlkWidth) % Word ELSE b

read_command ==
  /\ pc = "read"
  /\ send_command("READ_SINGLE_BLOCK", Address(asked))
  /\ IF resp' # {} THEN Return("IO") ELSE Goto("read_data")
  /\ UNCHANGED <<it, info, ghosts>>

read_data ==
  /\ pc = "read_data"
  /\ \E got \in {None, card.doing.sending} :
       /\ wait_token(got)
       /\ sent' = got
       /\ Return(IF got = None THEN "IO" ELSE tfs_last_error)
  /\ UNCHANGED <<it, info, resp, stored, rejected, shifted>>

write_command ==
  /\ pc = "write"
  /\ send_command("WRITE_SINGLE_BLOCK", Address(asked))
  /\ IF resp' # {} THEN Return("IO") ELSE Goto("write_data")
  /\ UNCHANGED <<it, info, ghosts>>

\* The data, the data response token and the wait for the end of programming.  The
\* token is one of the bytes that are not 0xff: whether the card has rejected the
\* data makes no difference.
write_data ==
  /\ pc = "write_data"
  /\ \/ /\ stored' = {card.doing.target} \ {None}
        /\ UNCHANGED rejected
     \/ /\ stored' = {} /\ rejected' = TRUE
  /\ card' = [card EXCEPT !.doing.target = None]
  /\ \/ Return(tfs_last_error) /\ UNCHANGED faults
     \/ Return("IO") /\ Fault
  /\ UNCHANGED <<it, info, resp, sent, shifted>>

-----------------------------------------------------------------------------
Init ==
  /\ it \in Cards
  /\ card = Doing(Fresh)
  /\ type = "MMC" /\ blk_count = None
  /\ tfs_last_error = "OK"
  /\ pc = "idle" /\ i = 0 /\ resp = NoAnswer /\ asked = None
  /\ sent = None /\ stored = {} /\ rejected = FALSE
  /\ shifted = FALSE /\ faults = 0

Call == \/ drive_init
        \/ \E b \in 0 .. Word - 1 : drive_read_block(b) \/ drive_write_block(b)

Step == \/ reset \/ if_cond \/ probe_app \/ probe_op \/ app \/ get_ready \/ ocr
        \/ set_blocklen \/ send_cid \/ get_cid \/ send_csd \/ get_csd
        \/ read_command \/ read_data \/ write_command \/ write_data

Next == Call \/ Step

Spec == Init /\ [][Next]_vars

\* Every loop of the driver counts, so it goes on whatever the card does.
FairSpec == Spec /\ WF_vars(Step)

-----------------------------------------------------------------------------
(* Properties.                                                             *)

\* Every variable keeps its type; the counters of tries stay within their limits.
TypeOK ==
  /\ type \in Types /\ blk_count \in {None} \cup 0 .. Word - 1
  /\ tfs_last_error \in {"OK", "NO_DEV", "IO"}
  /\ i \in 0 .. ResetMax \cup 0 .. ReadyMax
  /\ resp \subseteq R1
  /\ asked \in {None} \cup 0 .. Word - 1
  /\ faults \in 0 .. MaxFaults

\* The drive has been taken into use.
Ready == pc = "idle" /\ blk_count # None /\ tfs_last_error # "NO_DEV"

\* The CSD of the card has the layout that its structure number means to get_info.
Described == it.csd_structure = 1 <=> it.kind = "SDHC"

\* Every variable keeps its type.  Whatever commands and answers were lost while drive_init probed for the kind of
\* card, a card that it accepts is addressed the way that card wants it: every block
\* below blk_count has an address of its own, also on cards whose size or whose byte
\* addresses come near the limit of 32 bits.
BlocksReachable ==
  /\ TypeOK
  /\ Ready /\ ~shifted /\ Described => \A b \in 0 .. blk_count - 1 : Target(Address(b)) = b

\* drive_init rejects no card of any kind, and no transfer fails, if every command is
\* answered in time, the voltage is right and the card gets ready within the tries.
GoodCardWorks ==
  [][tfs_last_error' \in {"NO_DEV", "IO"} /\ pc # "idle" /\ pc' = "idle" =>
       \/ faults' > 0 \/ ~it.voltage \/ it.delay > ReadyMax \/ ~Described]_vars

\* Answers may be lost and tokens time out: data that drive_read_block returns without
\* an error are those of the block it was asked for, and drive_write_block changes no
\* other block; unless a late answer is taken for that to another command.
TransfersRight ==
  [][~shifted' /\ Described =>
       /\ pc = "read_data" /\ tfs_last_error' = "OK" => sent' = asked
       /\ stored' \subseteq {asked}]_vars

\* Every call comes back, also from a card that never answers or never gets ready.
CallsReturn == pc # "idle" ~> pc = "idle"

\* "Must set `tfs_last_error = TFS_ERR_IO` on write failure".
WriteFailureReported ==
  [][pc = "write_data" /\ tfs_last_error' = "OK" => asked \in stored']_vars

-----------------------------------------------------------------------------
(* The inductive invariant.                                                *)

\* The steps of drive_init up to the one where the card gets ready, those after it,
\* and the steps of a transfer.
Getting   == {"app", "sd_op_cond", "op_cond"}
Probing   == {"if_cond", "probe_app", "probe_op"} \cup Getting
Accepted  == {"blocklen", "cid", "cid_data", "csd", "csd_data"}
Transfers == {"read", "read_data", "write", "write_data"}
PCs == {"idle", "reset", "ocr"} \cup Probing \cup Accepted \cup Transfers

CardStates == [doing : [idle : BOOLEAN, app : BOOLEAN, wait : Nat, sending : Int, target : Int],
               late : [r1 : SUBSET R1, sending : Int]]

\* What each step knows, whatever the card did.
Phase ==
  /\ it \in Cards /\ card \in CardStates /\ pc \in PCs /\ shifted \in BOOLEAN
  /\ pc \in {"reset", "if_cond", "probe_app", "probe_op", "op_cond"} => type = "MMC"
  /\ pc \in {"app", "sd_op_cond"} => type \in {"SDV1", "SDV2"}
  /\ pc = "ocr" => type = "SDV2"
  /\ pc = "reset" => i <= ResetMax
  /\ pc \in Getting => i <= ReadyMax
  /\ pc \in Transfers => tfs_last_error = "OK" /\ blk_count # None
  /\ pc \in Transfers => asked # None /\ (asked < blk_count \/ asked = 0)
  /\ pc # "idle" => stored = {}
  /\ blk_count # None => blk_count = BlkCount(it)

\* A card of high capacity gets ready only for a driver that will find that out, and
\* what it sends or stores is the block asked for.
Addressed ==
  ~shifted =>
    /\ type = "SDHC" => it.kind = "SDHC"
    /\ it.kind = "SDHC" =>
         /\ pc \in Probing /\ type # "SDV2" => card.doing.idle
         /\ pc \in Accepted \cup Transfers \/ Ready => type = "SDHC"
    /\ Described /\ pc = "read_data" => card.doing.sending = asked
    /\ Described /\ pc = "write_data" => card.doing.target = asked

Good == it.voltage /\ it.delay <= ReadyMax /\ Described

\* Where drive_init stands with a card that answers every command.
Healthy ==
  faults = 0 =>
    /\ ~shifted /\ card.late = NoLate
    /\ pc \in {"cid_data", "csd_data"} => card.doing.sending = 0
    /\ pc \notin {"cid_data", "csd_data", "read_data"} => card.doing.sending = None
    /\ Good =>
         /\ pc \in Probing => card.doing.wait + (IF pc \in Getting THEN i ELSE 0) <= ReadyMax
         /\ it.kind \in {"SDV2", "SDHC"} => pc \notin {"probe_app", "probe_op", "op_cond"}
         /\ it.kind \in {"SDV2", "SDHC"} /\ pc \in {"app", "sd_op_cond"} => type = "SDV2"
         /\ it.kind = "SDV1" => pc # "op_cond"
         /\ it.kind = "SDV1" /\ pc \in {"app", "sd_op_cond"} => type = "SDV1"
         /\ it.kind = "MMC" => pc \notin {"app", "sd_op_cond"}
         /\ pc = "sd_op_cond" \/ (pc = "probe_op" /\ it.kind = "SDV1") => card.doing.app
         /\ pc \in {"ocr"} \cup Accepted \cup Transfers \/ Ready => ~card.doing.idle

\* The inductive invariant behind BlocksReachable, TransfersRight and GoodCardWorks.
IInv == TypeOK /\ Phase /\ Addressed /\ Healthy
=============================================================================
