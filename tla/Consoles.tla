------------------------------- MODULE Consoles -------------------------------
(***************************************************************************)
(* The front ends of the boards: the command line of avr/main.c and the    *)
(* LOAD and SAVE of zx81/main.c, as clients of the basic API.              *)
(*                                                                         *)
(* A command is one action.  Of the file system there are the items, in    *)
(* the order find_file meets them, the current directory and               *)
(* tfs_last_error; a call may fail with an I/O error or find the drive     *)
(* full at any time, before its change to the item or behind it (what this *)
(* does to the blocks is the matter of TinyFs).  When tfs_format fails     *)
(* behind its first write, the boards go on with what is left: from then   *)
(* until one succeeds nothing is known of the items, and a call may report *)
(* and show anything.  Names are sequences of characters because how they  *)
(* are compared is a matter of the board.  In a line of the AVR console a  *)
(* command word counts as one character.                                   *)
(***************************************************************************)
EXTENDS Integers, Sequences, SequencesExt, FiniteSets, FiniteSetsExt

CONSTANTS
  Boards,        \* builds: "AVR", "ZX81", and "ZX81_16K", which cannot format
  Chars,         \* characters; a command word counts as one
  NameLen,       \* TFS_NAME_LEN
  TermLen,       \* characters of a name that term_buf has room for
  Typed,         \* names typed on the ZX81
  Foreign,       \* a name of a file that another system has left on the card
  Programs,      \* what is saved
  Slots,         \* bound: items, numbered in the order of the directory
  Lines, BufLen, \* bound: keys typed for a line of the AVR; sizeof(cmd)
  PageLen,       \* items on a page of the ZX81's screen
  CountMod,      \* 2^16: the files and directories of a listing are counted in uint16_t
  Radix, MaxExp  \* base in which numbers are printed; they have MaxExp + 1 digits

Space == " "

ASSUME ConsoleAssumption ==
  /\ NameLen \in Nat \ {0} /\ TermLen \in Nat /\ Slots \subseteq Nat \ {0} /\ IsFiniteSet(Slots)
  /\ Space \in Chars /\ Typed \subseteq Seq(Chars) /\ Lines \subseteq Seq(Chars)
  /\ Foreign \in Seq(Chars) /\ Len(Foreign) <= NameLen
  /\ {BufLen, PageLen, CountMod} \subseteq Nat \ {0} /\ Radix \in Nat \ {0, 1} /\ MaxExp \in Nat

VARIABLES
  board,
  items, cwd, tfs_last_error,
  memory,     \* the program of the ZX81
  on,         \* main of the AVR runs
  shown,      \* what the last command has shown: its line, the summary of a listing and
              \* the error message under it, a number
  named,      \* ghost: the names in the last command
  ready,      \* ghost: the drive has been taken into use
  touched,    \* ghost: it has been accessed without that
  forgotten,  \* ghost: a SAVE has written over TFS_ERR_NO_DEV
  overlong    \* ghost: the ZX81 has made an item under a name longer than NameLen

api  == <<items, cwd, tfs_last_error, memory, touched, overlong>>
vars == <<board, api, on, shown, named, ready, forgotten>>

ROOT    == 0
None    == -1
Unknown == -2  \* the current directory after a format that has failed
Zx81    == board # "AVR"
Nothing == [line |-> <<>>, screen |-> <<>>, summary |-> FALSE, message |-> FALSE,
            count |-> [FILE |-> 0, DIR |-> 0], number |-> None, digits |-> <<>>]

-----------------------------------------------------------------------------
(* Names.                                                                  *)

LowerCase == [A |-> "a", B |-> "b"]
Lower(c)  == IF c \in DOMAIN LowerCase THEN LowerCase[c] ELSE c
Same(c)   == c
CharAt(n, i) == IF i <= Len(n) THEN n[i] ELSE "NUL"

\* Names end at their NUL, and no key of the ZX81 is a capital letter.
ASSUME NameAssumption ==
  "NUL" \notin Chars /\ \A t \in Typed : \A i \in DOMAIN t : t[i] \notin DOMAIN LowerCase

\* Compares characters up to the first difference or the end, at most NameLen of them.
Compare(ref, cmp, Conv(_), after) ==
  LET stops == {i \in 1 .. NameLen : CharAt(ref, i) \in {"NUL"} \/ Conv(CharAt(cmp, i)) # CharAt(ref, i)}
  IN IF stops = {} THEN after
     ELSE Conv(CharAt(cmp, Min(stops))) = CharAt(ref, Min(stops))

\* Faulty variant, for the mutation runs: the end of the name that is looked for is enough.
filename_cmp_prefix(ref, cmp) ==
  Len(ref) <= NameLen /\ \A i \in DOMAIN ref : Lower(CharAt(cmp, i)) = ref[i]

filename_cmp(ref, cmp) == Compare(ref, cmp, Lower, CharAt(ref, NameLen + 1) = "NUL")
strncmp(ref, cmp)      == Compare(ref, cmp, Same, TRUE)

TFS_FILENAME_CMP(ref, cmp) == IF Zx81 THEN filename_cmp(ref, cmp) ELSE strncmp(ref, cmp)

\* strncpy
Stored(n) == SubSeq(n, 1, Min({NameLen, Len(n)}))

\* What the keys of the ZX81 mean: letters are small ones, graphics are blanks.
zx2ascii(c) == IF c = "graphic" THEN Space ELSE c
term_zx2ascii(n) == [i \in 1 .. Min({Len(n), TermLen}) |-> zx2ascii(n[i])]

-----------------------------------------------------------------------------
(* The basic API.                                                          *)

FreeItem   == [dir |-> ROOT, name |-> <<>>, type |-> "FREE", data |-> None]
ItemsIn(d) == {i \in Slots : items[i].type # "FREE" /\ items[i].dir = d}
Matches(n) == {i \in ItemsIn(cwd) : TFS_FILENAME_CMP(n, items[i].name)}
find_file(n) == IF Matches(n) = {} THEN {} ELSE {Min(Matches(n))}
FreeSlots  == {i \in Slots : items[i].type = "FREE"}

Err(e) == tfs_last_error' = e /\ UNCHANGED <<items, cwd, memory, overlong>>

Codes == {"OK", "NO_DEV", "IO", "DISK_FULL", "FILE_EXIST", "NOT_EXIST", "NOT_EMPTY", "NO_NAME",
          "NAME_INVAL", "UNEXP_EOF"}

\* Without a device a call does nothing.  A drive that was not taken into use does not
\* carry out transfers.
Drive(body) ==
  \/ tfs_last_error = "NO_DEV" /\ UNCHANGED api
  \/ /\ tfs_last_error # "NO_DEV"
     /\ Err("IO") \/ (ready /\ body)
     /\ touched' = (touched \/ ~ready)

\* Where nothing is known of the items a call finds anything.
Anything == /\ tfs_last_error' \in Codes \ {"NO_DEV"} /\ memory' \in {memory, None} \cup Programs
            /\ UNCHANGED <<items, cwd, overlong>>
Call(body) == Drive(IF cwd = Unknown THEN Anything ELSE body)

\* A call with a name; find_file refuses an empty one.
Named(n, body) ==
  IF n = <<>> /\ tfs_last_error # "NO_DEV" THEN Err("NO_NAME") /\ UNCHANGED touched ELSE Call(body)

\* The item is on the drive; a later transfer may fail.
Written == tfs_last_error' \in {"OK", "IO"}

\* An item for n in the first free place.
Put(n, type, data) ==
  /\ FreeSlots # {}
  /\ items' = [items EXCEPT ![Min(FreeSlots)] =
                 [dir |-> cwd, name |-> Stored(n), type |-> type, data |-> data]]
  /\ overlong' = (overlong \/ (Zx81 /\ Len(n) > NameLen))
  /\ UNCHANGED <<cwd, memory>>

tfs_create_dir(n) == Named(n,
  \/ find_file(n) # {} /\ Err("FILE_EXIST")
  \/ find_file(n) = {} /\ (Err("DISK_FULL") \/ (Put(n, "DIR", None) /\ Written)))

\* With overwrite set.  The item comes first: when the data do not all follow it has part
\* of them, None.
tfs_write_file(n, prog) == Named(n,
  \/ Err("DISK_FULL")
  \/ \E i \in find_file(n) : items[i].type = "DIR" /\ Err("FILE_EXIST")
  \/ /\ tfs_last_error' \in {"OK", "IO", "DISK_FULL"}
     /\ LET data == IF tfs_last_error' = "OK" THEN prog ELSE None
        IN \/ find_file(n) = {} /\ Put(n, "FILE", data)
           \/ \E i \in find_file(n) :
                /\ items[i].type = "FILE"
                /\ items' = [items EXCEPT ![i].data = data, ![i].name = Stored(n)]
                /\ UNCHANGED <<cwd, memory, overlong>>)

\* A file that is not whole ends too early; memory has been written over by then.
tfs_read_file(n) == Named(n,
  \/ {i \in find_file(n) : items[i].type = "FILE"} = {} /\ Err("NOT_EXIST")
  \/ \E i \in find_file(n) :
       /\ items[i].type = "FILE"
       /\ \/ tfs_last_error' = "OK" /\ memory' = items[i].data
          \/ tfs_last_error' = "IO" /\ memory' = None
          \/ items[i].data = None /\ tfs_last_error' = "UNEXP_EOF" /\ memory' = None
       /\ UNCHANGED <<items, cwd, overlong>>)

tfs_delete(n) == Named(n,
  \/ find_file(n) = {} /\ Err("NOT_EXIST")
  \/ \E i \in find_file(n) :
       \/ ItemsIn(i) # {} /\ Err("NOT_EMPTY")
       \/ /\ ItemsIn(i) = {}
          /\ items' = [items EXCEPT ![i] = FreeItem]
          /\ Written
          /\ UNCHANGED <<cwd, memory, overlong>>)

\* Faulty variant: a name that is taken is not noticed.
TakenNever(n) == FALSE

Taken(n) == find_file(n) # {}

tfs_rename(n, to) == Named(to,
  \/ Taken(to) /\ Err("FILE_EXIST")
  \/ ~Taken(to) /\ n = <<>> /\ Err("NO_NAME")
  \/ ~Taken(to) /\ n # <<>> /\ find_file(n) = {} /\ Err("NOT_EXIST")
  \/ /\ ~Taken(to) /\ n # <<>>
     /\ \E i \in find_file(n) : items' = [items EXCEPT ![i].name = Stored(to)]
     /\ overlong' = (overlong \/ (Zx81 /\ Len(to) > NameLen))
     /\ Written
     /\ UNCHANGED <<cwd, memory>>)

Go(d) == cwd' = d /\ tfs_last_error' = "OK" /\ UNCHANGED <<items, memory, overlong>>

tfs_change_dir(n) == Named(n,
  LET subs == {i \in find_file(n) : items[i].type = "DIR"}
  IN (subs = {} /\ Err("NOT_EXIST")) \/ \E i \in subs : Go(i))

tfs_change_dir_parent == Call((cwd = ROOT /\ Err("NOT_EXIST")) \/ (cwd # ROOT /\ Go(items[cwd].dir)))

ToRoot == cwd' = IF cwd = Unknown THEN Unknown ELSE ROOT

\* Faulty variant: as a call that succeeds.
tfs_change_dir_root_ok ==
  ToRoot /\ tfs_last_error' = "OK" /\ UNCHANGED <<items, memory, touched, overlong>>

tfs_change_dir_root == ToRoot /\ UNCHANGED <<items, tfs_last_error, memory, touched, overlong>>

\* The bitmap is written first, then the root directory; current_dir_blk is set last.
tfs_format == Drive(
  /\ items' = [i \in Slots |-> FreeItem]
  /\ \/ tfs_last_error' = "OK" /\ cwd' = ROOT
     \/ tfs_last_error' = "IO" /\ cwd' = Unknown
  /\ UNCHANGED <<memory, overlong>>)

-----------------------------------------------------------------------------
(* What is shown.                                                          *)

Here(type) == {i \in ItemsIn(cwd) : items[i].type = type}

\* The places where tfs_dir_handler may end a listing: the user is asked after a page.
Pages == {k \in 1 .. Cardinality(ItemsIn(cwd)) : Zx81 /\ k % PageLen = 0}

\* The first k items of the directory have been listed.
Listing(k) == {i \in ItemsIn(cwd) : Cardinality({j \in ItemsIn(cwd) : j < i}) < k}

\* Faulty variant: errors are not reported.
print_error_never == FALSE

print_error == tfs_last_error' # "OK"

\* The counters, set to 0 before.  The ZX81 shows them when tfs_read_dir says that it has
\* come to the end, the AVR always.
Show(count, done) ==
  shown' = [Nothing EXCEPT !.summary = done \/ ~Zx81, !.message = print_error, !.count = count]
Counted(k) == [t \in {"FILE", "DIR"} |-> Cardinality(Listing(k) \cap Here(t)) % CountMod]

list_dir ==
  /\ Call(Err("OK"))
  /\ IF cwd = Unknown THEN \E done \in BOOLEAN, count \in [{"FILE", "DIR"} -> 0 .. CountMod - 1] :
                              Show(count, done)
     ELSE IF tfs_last_error' = "OK" THEN \/ Show(Counted(Cardinality(ItemsIn(cwd))), TRUE)
                                         \/ \E k \in Pages : Show(Counted(k), FALSE)
     ELSE \E k \in 0 .. Cardinality(ItemsIn(cwd)) : Show(Counted(k), FALSE)

\* What a loop has made of a after each pass.
Loop(pass, a, n) == LET after[k \in 0 .. n] == IF k = 0 THEN a ELSE pass[k][after[k - 1]]
                    IN after

\* The values of the places of a number, from the right.
Power == Loop([k \in 1 .. MaxExp + 1 |-> [v \in Nat |-> Radix * v]], 1, MaxExp + 1)

\* What is left of a number, and the digits that are out.
Printing == [w : Nat, out : Seq(Nat)]

\* One digit after the other from the left, without leading zeros.
LeftToRight == [k \in 1 .. MaxExp + 1 |-> [s \in Printing |->
  LET num == Power[MaxExp + 1 - k]
      b   == s.w \div num
  IN [w |-> s.w - b * num, out |-> IF b > 0 \/ s.out # <<>> \/ num = 1 THEN Append(s.out, b) ELSE s.out]]]
uart_putdw_dec(w) == Loop(LeftToRight, [w |-> w, out |-> <<>>], MaxExp + 1)[MaxExp + 1].out

\* From the right, until nothing is left.
RightToLeft == [k \in 1 .. MaxExp + 1 |-> [s \in Printing |->
  IF s.w = 0 /\ s.out # <<>> THEN s ELSE [w |-> s.w \div Radix, out |-> <<s.w % Radix>> \o s.out]]]
term_putul(w) == Loop(RightToLeft, [w |-> w, out |-> <<>>], MaxExp + 1)[MaxExp + 1].out

Numbers == 0 .. Power[MaxExp + 1] - 1
Digits  == [w \in Numbers |-> [AVR |-> uart_putdw_dec(w), ZX81 |-> term_putul(w)]]

\* tfs_get_used and its result on the screen; it returns 0 when it fails, which the
\* ZX81 shows until the message comes.
show_used ==
  /\ Call(Err("OK"))
  /\ \E u \in Numbers :
       LET n == IF tfs_last_error' = "OK" THEN u ELSE 0
       IN shown' = IF Zx81 THEN [Nothing EXCEPT !.number = n, !.digits = Digits[n].ZX81]
                   ELSE IF print_error THEN [Nothing EXCEPT !.message = TRUE]
                   ELSE [Nothing EXCEPT !.number = n, !.digits = Digits[n].AVR]

-----------------------------------------------------------------------------
(* The AVR console.                                                        *)

\* Faulty variant: the echo comes before the check for room.
EchoAll(s, k) == Append(s.screen, k)

Echo(s, k) == IF Len(s.buf) < BufLen - 1 THEN Append(s.screen, k) ELSE s.screen

\* A key: a backspace takes back the last character, one that has no room is ignored.
Key(s, k) ==
  IF k = "BS" THEN IF s.buf = <<>> THEN s ELSE [buf |-> Front(s.buf), screen |-> Front(s.screen)]
  ELSE [buf |-> IF Len(s.buf) < BufLen - 1 THEN Append(s.buf, k) ELSE s.buf, screen |-> Echo(s, k)]

\* After each key.
typing(keys) ==
  LET after[n \in 0 .. Len(keys)] == IF n = 0 THEN [buf |-> <<>>, screen |-> <<>>]
                                     ELSE Key(after[n - 1], keys[n])
  IN after
read_line == [keys \in Lines |-> typing(keys)[Len(keys)]]

Blank(k) == k = Space
Trim(l)  == SubSeq(l, 1, Max({i \in DOMAIN l : ~Blank(l[i])} \cup {0}))

\* split: what is before the first blank, and behind it if there is one.
Blanks(l) == {i \in DOMAIN l : Blank(l[i])}
Word(l)   == IF Blanks(l) = {} THEN l ELSE SubSeq(l, 1, Min(Blanks(l)) - 1)
Rest(l)   == SubSeq(l, Min(Blanks(l)) + 1, Len(l))

\* The name in params.  Without any params is NULL, and the name is what is at address 0.
Params(l) == IF Blanks(l) = {} THEN {<<>>} \cup Typed ELSE {Rest(l)}

ShowLine(keys) == shown' = [Nothing EXCEPT !.line = read_line[keys].buf, !.screen = read_line[keys].screen]
Quiet == UNCHANGED <<board, on, ready, forgotten>>

avr_named(keys) == LET l == Trim(read_line[keys].buf) IN
  /\ ~Zx81 /\ on
  /\ \E n \in Params(l) :
       /\ \/ Word(l) = <<"md">> /\ tfs_create_dir(n)
          \/ Word(l) = <<"rm">> /\ tfs_delete(n)
          \/ /\ Word(l) = <<"cd">>
             /\ CASE n = <<"/">> -> tfs_change_dir_root
                  [] n = <<"..">> -> tfs_change_dir_parent
                  [] OTHER -> tfs_change_dir(n)
       /\ named' = {n}
  /\ ShowLine(keys) /\ Quiet

avr_mv(keys) == LET l == Trim(read_line[keys].buf) IN
  /\ ~Zx81 /\ on /\ Word(l) = <<"mv">>
  /\ LET p     == Rest(l)
         usage == Blanks(l) = {} \/ Blanks(p) = {} \/ Rest(p) = <<>> \/ Word(p) = <<>>
     IN IF usage THEN UNCHANGED api /\ named' = {}
        ELSE tfs_rename(Word(p), Rest(p)) /\ named' = {Word(p), Rest(p)}
  /\ ShowLine(keys) /\ Quiet

avr_other(keys) == LET l == Trim(read_line[keys].buf) IN
  /\ ~Zx81 /\ on /\ named' = {}
  /\ \/ Word(l) = <<"mkfs">> /\ tfs_format /\ ShowLine(keys) /\ Quiet
     \/ Word(l) = <<"ls">> /\ list_dir /\ Quiet
     \/ Word(l) = <<"du">> /\ show_used /\ Quiet
     \/ Word(l) = <<"exit">> /\ on' = FALSE /\ ShowLine(keys) /\ UNCHANGED <<board, api, ready, forgotten>>
     \/ /\ Word(l) \notin {<<c>> : c \in {"exit", "mkfs", "ls", "cd", "md", "rm", "du", "mv"}}
        /\ ShowLine(keys) /\ Quiet /\ UNCHANGED api

-----------------------------------------------------------------------------
(* LOAD and SAVE of the ZX81.                                              *)

Zx(names) == Zx81 /\ named' = names /\ UNCHANGED <<board, on, ready>>
Plain     == shown' = Nothing /\ UNCHANGED forgotten

\* SAVE itself reports an error, without a call.
Reject(e) == /\ tfs_last_error' = e
             /\ forgotten' = (forgotten \/ tfs_last_error = "NO_DEV")
             /\ shown' = Nothing
             /\ UNCHANGED <<items, cwd, memory, touched, overlong>>

save_file(n, prog) == Zx({n}) /\ tfs_write_file(n, prog) /\ Plain
save_dir(n)        == Zx({n}) /\ tfs_create_dir(n) /\ Plain
save_delete(n)     == Zx({n}) /\ tfs_delete(n) /\ Plain
save_rename(n, to) == Zx({n, to}) /\ tfs_rename(n, to) /\ Plain
save_no_colon      == Zx({}) /\ Reject("NO_NAME")
save_format        == /\ Zx({})
                      /\ IF board = "ZX81" THEN tfs_format /\ Plain ELSE Reject("NAME_INVAL")
save_load_prefix   == Zx({}) /\ Reject("NAME_INVAL")

load_file(n)  == n # <<>> /\ Zx({n}) /\ tfs_read_file(n) /\ Plain
load_cd(n)    == Zx({n}) /\ tfs_change_dir(n) /\ Plain
load_parent   == Zx({}) /\ tfs_change_dir_parent /\ Plain
load_root     == Zx({}) /\ tfs_change_dir_root /\ Plain
load_dir      == Zx({}) /\ list_dir /\ UNCHANGED forgotten
load_info     == Zx({}) /\ Plain /\ UNCHANGED api
load_used     == Zx({}) /\ show_used /\ UNCHANGED forgotten

-----------------------------------------------------------------------------
\* tfs_init has found a drive or not; the AVR ends without one.
Init ==
  /\ board \in Boards
  /\ ready \in IF board = "AVR" THEN {TRUE} ELSE BOOLEAN
  /\ tfs_last_error = IF ready THEN "OK" ELSE "NO_DEV"
  /\ items = [i \in Slots |-> IF i = Min(Slots)
                THEN [dir |-> ROOT, name |-> Foreign, type |-> "FILE", data |-> None] ELSE FreeItem]
  /\ cwd = ROOT /\ memory = None /\ on = TRUE
  /\ shown = Nothing /\ named = {}
  /\ touched = FALSE /\ forgotten = FALSE /\ overlong = FALSE

Zx81Next ==
  \/ \E t \in Typed \cup {<<>>} :
       LET n == term_zx2ascii(t)
       IN \/ \E prog \in Programs : save_file(n, prog)
          \/ save_dir(n) \/ save_delete(n) \/ load_file(n) \/ load_cd(n)
          \/ \E to \in Typed \cup {<<>>} : save_rename(n, term_zx2ascii(to))
  \/ save_no_colon \/ save_format \/ save_load_prefix
  \/ load_parent \/ load_root \/ load_dir \/ load_info \/ load_used

AvrNext == \E keys \in Lines : avr_named(keys) \/ avr_mv(keys) \/ avr_other(keys)

Next == Zx81Next \/ AvrNext
Spec == Init /\ [][Next]_vars

-----------------------------------------------------------------------------
(* Properties.                                                             *)

\* Every variable keeps its type.
TypeOK ==
  /\ cwd \in Slots \cup {ROOT, Unknown} /\ cwd \in Slots => items[cwd].type = "DIR"
  /\ \A i \in Slots : /\ items[i].type \in {"FREE", "FILE", "DIR"}
                      /\ items[i].dir = ROOT \/ items[items[i].dir].type = "DIR"
                      /\ Len(items[i].name) <= NameLen
  /\ memory \in Programs \cup {None}
  /\ tfs_last_error \in Codes

\* Every variable keeps its type, names their length, and names in a directory are
\* different, on the AVR also when longer names are cut: the ZX81's filename_cmp finds
\* nothing under a name that is too long, so it makes items twice under one.
NamesUnique ==
  /\ TypeOK
  /\ overlong \/ \A d \in Slots \cup {ROOT} : \A i, j \in ItemsIn(d) : items[i].name = items[j].name => i = j

\* What LOAD and cd find in a directory under a name.
Found(d, n) == LET m == {i \in ItemsIn(d) : TFS_FILENAME_CMP(n, items[i].name)}
               IN IF m = {} THEN FreeItem ELSE items[Min(m)]

\* A command changes what is found under the names that it gives, as far as they are
\* stored, and under no other, in the current directory only; formatting apart, and the
\* time between a format that fails and one that succeeds.
OnlyNamed ==
  [][named' # {} /\ items' # items =>
       \A d \in Slots \cup {ROOT}, n \in {term_zx2ascii(t) : t \in Typed} :
         d # cwd \/ Stored(n) \notin {Stored(m) : m \in named'} => Found(d, n)' = Found(d, n)]_vars

\* As long as there is no device no call gets at the drive, whatever comes in between,
\* unless a SAVE that is rejected has taken the place of TFS_ERR_NO_DEV.
NoDeviceNoAccess == touched => forgotten

\* The value of the digits, of the first k in place k.
Values(ds) == Loop([k \in 1 .. Len(ds) |-> [v \in Nat |-> Radix * v + ds[k]]], 0, Len(ds))
Value(ds)  == Values(ds)[Len(ds)]

\* What is on the screen is true: the line that the AVR carries out is the one that is
\* seen, whatever was typed, taken back or had no room; the summary of a listing has the
\* numbers of files and directories there are, or fewer when an error message stands under
\* it, in directories of up to 65535 of them on a drive whose format has not failed; numbers
\* are shown with their value, without leading zeros.
ScreenTrue ==
  [][/\ shown'.line = shown'.screen
     /\ shown'.summary /\ cwd # Unknown =>
          \A t \in {"FILE", "DIR"} : Cardinality(Here(t)) < CountMod =>
            IF shown'.message THEN shown'.count[t] <= Cardinality(Here(t))
                              ELSE shown'.count[t] = Cardinality(Here(t))
     /\ shown'.number # None => /\ Value(shown'.digits) = shown'.number
                                /\ Head(shown'.digits \o <<0>>) = 0 => shown'.digits = <<0>>]_vars

-----------------------------------------------------------------------------
(* The inductive invariant.                                                *)

ItemNames == {n \in Seq(Chars) : Len(n) <= NameLen}

\* Directories hang together: no item is its own directory, and a free one has none.
Shapes ==
  /\ items \in [Slots -> [dir : Slots \cup {ROOT}, name : ItemNames, type : {"FREE", "FILE", "DIR"},
                          data : Programs \cup {None}]]
  /\ cwd \in Slots \cup {ROOT, Unknown} /\ (cwd \in Slots => items[cwd].type = "DIR")
  /\ \A i \in Slots : /\ items[i].dir # i
                      /\ items[i].dir # ROOT => items[items[i].dir].type = "DIR" /\ items[i].type # "FREE"
  /\ memory \in Programs \cup {None} /\ tfs_last_error \in Codes

\* The ZX81 must not have names either that differ in capital letters only: filename_cmp
\* takes them for the same.
Folded(n) == IF Zx81 THEN [i \in DOMAIN n |-> Lower(n[i])] ELSE n
Distinct ==
  overlong \/ \A i, j \in Slots :
    items[i].type # "FREE" /\ items[j].type # "FREE" /\ items[i].dir = items[j].dir
      /\ Folded(items[i].name) = Folded(items[j].name) => i = j

\* Without a drive the error stays until a SAVE writes over it.
NoDevice == ready \/ forgotten \/ tfs_last_error = "NO_DEV"

IInv == Shapes /\ Distinct /\ NoDevice /\ NoDeviceNoAccess
=============================================================================
