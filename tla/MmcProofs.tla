------------------------------ MODULE MmcProofs ------------------------------
(***************************************************************************)
(* Proofs about the card driver, for cards of every size, words and blocks *)
(* of every width and any number of lost or late answers.                  *)
(***************************************************************************)
EXTENDS Mmc, TLAPS

-----------------------------------------------------------------------------
(* Arithmetic of addresses.                                                *)

\* Division with remainder.
LEMMA DivMod ==
  ASSUME NEW d \in Nat \ {0}, NEW x \in Nat
  PROVE  x = d * (x \div d) + (x % d) /\ x \div d \in Nat /\ x % d \in 0 .. d - 1
  OBVIOUS

\* A whole number of units divides without remainder.
LEMMA MulDiv ==
  ASSUME NEW d \in Nat \ {0}, NEW b \in Nat
  PROVE  (b * d) % d = 0 /\ (b * d) \div d = b
  OBVIOUS

\* Units that fit into y, and into all that is larger.
LEMMA DivBelow ==
  ASSUME NEW d \in Nat \ {0}, NEW x \in Nat, NEW y \in Nat, y <= x,
         NEW b \in Nat, b < y \div d
  PROVE  b * d < y /\ b < x \div d
<1>1. /\ y = d * (y \div d) + (y % d) /\ y \div d \in Nat /\ y % d \in 0 .. d - 1
      /\ x = d * (x \div d) + (x % d) /\ x \div d \in Nat /\ x % d \in 0 .. d - 1
  BY DivMod
<1>2. b * d < y
  BY <1>1
<1> QED BY <1>1, <1>2

\* Words wrap, and are not larger than what they were made of.
LEMMA ModSmall ==
  ASSUME NEW w \in Nat \ {0}, NEW x \in Nat
  PROVE  x % w \in Nat /\ x % w < w /\ x % w <= x /\ (x < w => x % w = x)
  OBVIOUS

\* Quotients are not larger than what is divided.
LEMMA DivSmall ==
  ASSUME NEW d \in Nat \ {0}, NEW x \in Nat
  PROVE  x \div d <= x
  BY DivMod

\* The sizes of words, of blocks and of a unit of c_size are positive numbers.
LEMMA Sizes ==
  /\ Word \in Nat \ {0} /\ 2 ^ BlkWidth \in Nat \ {0}
  /\ \A c \in Cards : 2 ^ c.shift \in Nat \ {0}
<1>1. Word \in Int /\ 2 ^ BlkWidth \in Int
  BY SizeAssumption DEF Word
<1>2. ASSUME NEW c \in Cards PROVE 2 ^ c.shift \in Int
  <2>1. c.shift \in Nat
    BY CardAssumption
  <2> QED BY <2>1
<1> QED BY <1>1, <1>2, PowerAssumption

\* The fields of a card.
LEMMA CardFields ==
  ASSUME NEW c \in Cards
  PROVE  /\ c.kind \in Types /\ c.delay \in Nat /\ c.voltage \in BOOLEAN
         /\ c.c_size \in Nat /\ c.shift \in Nat /\ Capacity(c) > 0
  BY CardAssumption

\* blk_count fits into a word.
LEMMA BlkCountType ==
  ASSUME NEW c \in Cards
  PROVE  BlkCount(c) \in 0 .. Word - 1
<1>1. /\ Word \in Nat \ {0} /\ 2 ^ BlkWidth \in Nat \ {0} /\ 2 ^ c.shift \in Nat \ {0}
      /\ c.c_size \in Nat /\ V2Unit \in Nat
  BY Sizes, CardFields, SizeAssumption
<1> DEFINE x == (c.c_size + 1) * 2 ^ c.shift
           y == (c.c_size + 1) * V2Unit
<1>2. x \in Nat /\ y \in Nat
  BY <1>1
<1> HIDE DEF x, y
<1>3. x % Word \in 0 .. Word - 1 /\ y % Word \in 0 .. Word - 1
  BY <1>1, <1>2, ModSmall
<1>4. (x % Word) \div 2 ^ BlkWidth \in 0 .. Word - 1
  <2>1. x % Word \in Nat
    BY <1>3, <1>1
  <2>2. (x % Word) \div 2 ^ BlkWidth \in Nat /\ (x % Word) \div 2 ^ BlkWidth <= x % Word
    BY <1>1, <2>1, DivMod, DivSmall
  <2> QED BY <1>1, <1>3, <2>2
<1> QED BY <1>3, <1>4 DEF BlkCount, x, y

\* A driver that knows whether the card has a high capacity addresses every block it
\* counts, and the first one of a card whose size is taken for zero.
LEMMA AddressRight ==
  ASSUME it \in Cards, Described, type = "SDHC" <=> it.kind = "SDHC",
         NEW b \in Nat, b < BlkCount(it) \/ b = 0
  PROVE  Target(Address(b)) = b /\ Address(b) \in Nat
<1>1. /\ Word \in Nat \ {0} /\ 2 ^ BlkWidth \in Nat \ {0} /\ 2 ^ it.shift \in Nat \ {0}
      /\ it.c_size \in Nat /\ V2Unit \in Nat /\ Capacity(it) > 0
  BY Sizes, CardFields, SizeAssumption
<1> DEFINE d == 2 ^ BlkWidth
           x == (it.c_size + 1) * 2 ^ it.shift
           y == (it.c_size + 1) * V2Unit
<1>2. x \in Nat /\ y \in Nat /\ d \in Nat \ {0}
  BY <1>1
<1>3. CASE it.kind = "SDHC"
  <2>1. Capacity(it) = y /\ BlkCount(it) = y % Word
    BY <1>3 DEF Capacity, BlkCount, Described
  <2>2. Address(b) = b
    BY <1>3 DEF Address
  <2> HIDE DEF x, y, d
  <2>3. b < Capacity(it)
    BY <1>1, <1>2, <2>1, ModSmall
  <2> QED BY <1>3, <2>2, <2>3 DEF Target
<1>4. CASE it.kind # "SDHC"
  <2>1. Capacity(it) = x \div d /\ BlkCount(it) = (x % Word) \div d
    BY <1>4 DEF Capacity, BlkCount, Described
  <2>2. Address(b) = (b * d) % Word
    BY <1>4 DEF Address
  <2>3. Target(Address(b)) =
          LET a == Address(b) IN IF a \div d < Capacity(it) /\ a % d = 0 THEN a \div d ELSE None
    BY <1>4 DEF Target
  <2> HIDE DEF x, y, d
  <2>4. x % Word \in Nat /\ x % Word < Word /\ x % Word <= x
    BY <1>1, <1>2, ModSmall
  <2>5. b < Capacity(it) /\ b * d < Word /\ b * d \in Nat
    <3>1. CASE b < BlkCount(it)
      <4>1. b * d < x % Word /\ b < x \div d
        BY <1>2, <2>1, <2>4, <3>1, DivBelow
      <4> QED BY <1>1, <1>2, <2>1, <2>4, <4>1
    <3>2. CASE b = 0
      BY <1>1, <1>2, <3>2
    <3> QED BY <3>1, <3>2
  <2>6. Address(b) = b * d
    BY <1>1, <2>2, <2>5, ModSmall
  <2>7. (b * d) % d = 0 /\ (b * d) \div d = b
    BY <1>2, MulDiv
  <2> QED BY <2>3, <2>5, <2>6, <2>7
<1> QED BY <1>3, <1>4

-----------------------------------------------------------------------------
(* The card.                                                               *)

\* What a card may be doing.
DoingStates == [idle : BOOLEAN, app : BOOLEAN, wait : Nat, sending : Int, target : Int]

\* A card that gets a command stays idle or ready.
LEMMA RestIs ==
  ASSUME card \in CardStates
  PROVE  /\ Rest \in DoingStates
         /\ Rest.idle = card.doing.idle /\ Rest.wait = card.doing.wait
         /\ ~Rest.app /\ Rest.sending = None /\ Rest.target = None
<1>1. card.doing \in DoingStates
  BY DEF CardStates, DoingStates
<1>2. card.doing.idle \in BOOLEAN /\ card.doing.wait \in Nat
  BY <1>1 DEF DoingStates
<1> QED BY <1>2 DEF DoingStates, Rest, None

\* The answer tells whether the card is idle.
LEMMA ReplyIs ==
  ASSUME NEW c \in DoingStates, NEW more \in SUBSET {"ILL", "ERR"}
  PROVE  /\ Reply(c, more).card = c
         /\ Reply(c, more).r1 \in SUBSET R1
         /\ "IDLE" \in Reply(c, more).r1 <=> c.idle
         /\ "ILL" \in Reply(c, more).r1 <=> "ILL" \in more
         /\ Reply(c, more).r1 = {} <=> ~c.idle /\ more = {}
         /\ more = {} /\ c.idle => Reply(c, more).r1 = {"IDLE"}
<1>1. Reply(c, more).card = c /\ Reply(c, more).r1 = Bits(c) \cup more
  BY DEF Reply
<1>2. c.idle \in BOOLEAN
  BY DEF DoingStates
<1>3. CASE c.idle
  BY <1>1, <1>3 DEF Bits, R1
<1>4. CASE ~c.idle
  BY <1>1, <1>4 DEF Bits, R1
<1> QED BY <1>2, <1>3, <1>4

\* A card gets ready when it has waited long enough.
LEMMA GetReadyIs ==
  ASSUME it \in Cards, NEW c \in DoingStates, NEW hcs \in BOOLEAN
  PROVE  /\ GetReady(c, hcs) \in DoingStates
         /\ GetReady(c, hcs).sending = c.sending
         /\ it.kind = "SDHC" /\ ~hcs => GetReady(c, hcs) = c
         /\ it.kind # "SDHC" \/ hcs =>
              /\ c.wait = 0 => ~GetReady(c, hcs).idle /\ GetReady(c, hcs).wait = 0
              /\ c.wait # 0 => GetReady(c, hcs).idle = c.idle /\ GetReady(c, hcs).wait = c.wait - 1
<1>1. CASE it.kind = "SDHC" /\ ~hcs
  BY <1>1 DEF GetReady
<1>2. CASE ~(it.kind = "SDHC" /\ ~hcs) /\ c.wait = 0
  BY <1>2 DEF GetReady, DoingStates
<1>3. CASE ~(it.kind = "SDHC" /\ ~hcs) /\ c.wait # 0
  BY <1>3 DEF GetReady, DoingStates
<1> QED BY <1>1, <1>2, <1>3

\* Resetting.
LEMMA ObeyReset ==
  ASSUME it \in Cards, card \in CardStates
  PROVE  LET r == Obey("GO_IDLE_STATE", 0) IN
         /\ r.card \in DoingStates /\ r.r1 = {"IDLE"}
         /\ r.card.idle /\ r.card.wait = it.delay /\ r.card.sending = None
<1> DEFINE c == [Fresh EXCEPT !.idle = TRUE]
<1>1. Obey("GO_IDLE_STATE", 0) = Reply(c, {})
  BY DEF Obey, IdleCommands
<1>2. c \in DoingStates /\ c.idle /\ c.wait = it.delay /\ c.sending = None
  <2>1. Fresh \in DoingStates /\ Fresh.wait = it.delay /\ Fresh.sending = None
    BY CardFields DEF Fresh, DoingStates, None
  <2> QED BY <2>1 DEF DoingStates
<1> HIDE DEF c
<1> QED BY <1>1, <1>2, ReplyIs

\* Probing for the kind of card, and the commands that leave the card idle or ready
\* as it is.
LEMMA ObeyProbe ==
  ASSUME it \in Cards, card \in CardStates
  PROVE  /\ LET r == Obey("SEND_IF_COND", 0) IN
            /\ r.card = Rest /\ r.r1 \in SUBSET R1 /\ ("IDLE" \in r.r1 <=> Rest.idle)
            /\ "ILL" \in r.r1 <=> it.kind \in {"MMC", "SDV1"}
         /\ LET r == Obey("APP", 0) IN
            /\ r.card \in DoingStates /\ r.card.idle = Rest.idle /\ r.card.wait = Rest.wait
            /\ r.card.sending = None /\ r.r1 \in SUBSET R1
            /\ r.card.app <=> it.kind # "MMC"
         /\ LET r == Obey("READ_OCR", 0) IN
            /\ r.card = Rest /\ r.r1 \in SUBSET R1 /\ (r.r1 = {} <=> ~Rest.idle)
<1>1. Rest \in DoingStates /\ Rest.sending = None /\ ~Rest.app /\ it.kind \in Types
  BY RestIs, CardFields
<1>2. Obey("SEND_IF_COND", 0) = Reply(Rest, IF it.kind \in {"SDV2", "SDHC"} THEN {} ELSE {"ILL"})
  BY DEF Obey, IdleCommands
<1>3. Obey("READ_OCR", 0) = Reply(Rest, {})
  BY DEF Obey, IdleCommands
<1>4. Obey("APP", 0) = IF it.kind # "MMC" THEN Reply([Rest EXCEPT !.app = TRUE], {})
                                          ELSE Reply(Rest, {"ILL"})
  BY DEF Obey, IdleCommands
<1>5. LET a == [Rest EXCEPT !.app = TRUE]
      IN a \in DoingStates /\ a.idle = Rest.idle /\ a.wait = Rest.wait /\ a.sending = None /\ a.app
  BY <1>1 DEF DoingStates
<1>6. {} \in SUBSET {"ILL", "ERR"} /\ {"ILL"} \in SUBSET {"ILL", "ERR"}
  OBVIOUS
<1>7. LET r == Obey("SEND_IF_COND", 0) IN
      /\ r.card = Rest /\ r.r1 \in SUBSET R1 /\ ("IDLE" \in r.r1 <=> Rest.idle)
      /\ "ILL" \in r.r1 <=> it.kind \in {"MMC", "SDV1"}
  BY <1>1, <1>2, <1>6, ReplyIs DEF Types
<1>8. LET r == Obey("READ_OCR", 0) IN
      /\ r.card = Rest /\ r.r1 \in SUBSET R1 /\ (r.r1 = {} <=> ~Rest.idle)
  BY <1>1, <1>3, <1>6, ReplyIs
<1>9. LET r == Obey("APP", 0) IN
      /\ r.card \in DoingStates /\ r.card.idle = Rest.idle /\ r.card.wait = Rest.wait
      /\ r.card.sending = None /\ r.r1 \in SUBSET R1
      /\ r.card.app <=> it.kind # "MMC"
  <2>1. CASE it.kind = "MMC"
    BY <1>1, <1>4, <1>6, <2>1, ReplyIs
  <2>2. CASE it.kind # "MMC"
    <3> DEFINE a == [Rest EXCEPT !.app = TRUE]
    <3>1. Obey("APP", 0) = Reply(a, {})
      BY <1>4, <2>2
    <3>2. a \in DoingStates /\ a.idle = Rest.idle /\ a.wait = Rest.wait /\ a.sending = None /\ a.app
      BY <1>5
    <3> HIDE DEF a
    <3>3. Reply(a, {}).card = a /\ Reply(a, {}).r1 \in SUBSET R1
      BY <1>6, <3>2, ReplyIs
    <3> QED BY <2>2, <3>1, <3>2, <3>3
  <2> QED BY <2>1, <2>2
<1> QED BY <1>7, <1>8, <1>9

\* Asking a card to get ready.
LEMMA ObeyReady ==
  ASSUME it \in Cards, card \in CardStates, NEW arg \in {0, 1}
  PROVE  /\ LET r == Obey("SD_SEND_OP_COND", arg) IN
            /\ r.card \in DoingStates /\ r.card.sending = None /\ r.r1 \in SUBSET R1
            /\ "IDLE" \in r.r1 <=> r.card.idle
            /\ r.card = IF it.kind # "MMC" /\ card.doing.app THEN GetReady(Rest, arg = 1) ELSE Rest
            /\ "ILL" \in r.r1 <=> ~(it.kind # "MMC" /\ card.doing.app)
         /\ LET r == Obey("SEND_OP_COND", 0) IN
            /\ r.card \in DoingStates /\ r.card.sending = None /\ r.r1 \in SUBSET R1
            /\ "IDLE" \in r.r1 <=> r.card.idle
            /\ r.card = IF it.kind # "SDHC" THEN GetReady(Rest, FALSE) ELSE Rest
<1>1. Rest \in DoingStates /\ Rest.sending = None
  BY RestIs
<1>2. {} \in SUBSET {"ILL", "ERR"} /\ {"ILL"} \in SUBSET {"ILL", "ERR"}
  OBVIOUS
<1>3. Obey("SD_SEND_OP_COND", arg) = IF it.kind # "MMC" /\ card.doing.app
                                       THEN Reply(GetReady(Rest, arg = 1), {})
                                       ELSE Reply(Rest, {"ILL"})
  BY DEF Obey, IdleCommands
<1>4. Obey("SEND_OP_COND", 0) = IF it.kind # "SDHC" THEN Reply(GetReady(Rest, FALSE), {})
                                                    ELSE Reply(Rest, {"ILL"})
  BY DEF Obey, IdleCommands
<1>5. \A hcs \in BOOLEAN : GetReady(Rest, hcs) \in DoingStates /\ GetReady(Rest, hcs).sending = None
  BY <1>1, GetReadyIs
<1>6. (arg = 1) \in BOOLEAN /\ FALSE \in BOOLEAN
  OBVIOUS
<1>7. \A c \in DoingStates, more \in {{}, {"ILL"}} :
        /\ Reply(c, more).card = c /\ Reply(c, more).r1 \in SUBSET R1
        /\ "IDLE" \in Reply(c, more).r1 <=> c.idle
        /\ "ILL" \in Reply(c, more).r1 <=> more # {}
  BY <1>2, ReplyIs
<1>8. LET r == Obey("SD_SEND_OP_COND", arg) IN
      /\ r.card \in DoingStates /\ r.card.sending = None /\ r.r1 \in SUBSET R1
      /\ "IDLE" \in r.r1 <=> r.card.idle
      /\ r.card = IF it.kind # "MMC" /\ card.doing.app THEN GetReady(Rest, arg = 1) ELSE Rest
      /\ "ILL" \in r.r1 <=> ~(it.kind # "MMC" /\ card.doing.app)
  <2>1. CASE it.kind # "MMC" /\ card.doing.app
    <3> DEFINE g == GetReady(Rest, arg = 1)
    <3>1. Obey("SD_SEND_OP_COND", arg) = Reply(g, {}) /\ g \in DoingStates /\ g.sending = None
      BY <1>3, <1>5, <1>6, <2>1
    <3> HIDE DEF g
    <3>2. /\ Reply(g, {}).card = g /\ Reply(g, {}).r1 \in SUBSET R1
          /\ "IDLE" \in Reply(g, {}).r1 <=> g.idle
          /\ "ILL" \notin Reply(g, {}).r1
      BY <1>7, <3>1
    <3>3. g = GetReady(Rest, arg = 1)
      BY DEF g
    <3> QED BY <2>1, <3>1, <3>2, <3>3
  <2>2. CASE ~(it.kind # "MMC" /\ card.doing.app)
    BY <1>1, <1>3, <1>7, <2>2
  <2> QED BY <2>1, <2>2
<1>9. LET r == Obey("SEND_OP_COND", 0) IN
      /\ r.card \in DoingStates /\ r.card.sending = None /\ r.r1 \in SUBSET R1
      /\ "IDLE" \in r.r1 <=> r.card.idle
      /\ r.card = IF it.kind # "SDHC" THEN GetReady(Rest, FALSE) ELSE Rest
  <2>1. CASE it.kind # "SDHC"
    <3> DEFINE g == GetReady(Rest, FALSE)
    <3>1. Obey("SEND_OP_COND", 0) = Reply(g, {}) /\ g \in DoingStates /\ g.sending = None
      BY <1>4, <1>5, <1>6, <2>1
    <3> HIDE DEF g
    <3>2. /\ Reply(g, {}).card = g /\ Reply(g, {}).r1 \in SUBSET R1
          /\ "IDLE" \in Reply(g, {}).r1 <=> g.idle
      BY <1>7, <3>1
    <3>3. g = GetReady(Rest, FALSE)
      BY DEF g
    <3> QED BY <2>1, <3>1, <3>2, <3>3
  <2>2. CASE it.kind = "SDHC"
    BY <1>1, <1>4, <1>7, <2>2
  <2> QED BY <2>1, <2>2
<1> QED BY <1>8, <1>9

\* The commands a card knows only when it is ready.
LEMMA ObeyData ==
  ASSUME it \in Cards, card \in CardStates, NEW arg, Target(arg) \in Int
  PROVE  /\ \A cmd \in {"SET_BLOCKLEN", "SEND_CID", "SEND_CSD"} :
              LET r == Obey(cmd, 0) IN
              /\ r.card \in DoingStates /\ r.card.idle = Rest.idle /\ r.r1 \in SUBSET R1
              /\ r.r1 = {} <=> ~Rest.idle
              /\ Rest.idle => r.card.sending = None
              /\ ~Rest.idle => r.card.sending = IF cmd = "SET_BLOCKLEN" THEN None ELSE 0
         /\ LET r == Obey("READ_SINGLE_BLOCK", arg) IN
              /\ r.card \in DoingStates /\ r.card.idle = Rest.idle /\ r.r1 \in SUBSET R1
              /\ r.r1 = {} <=> ~Rest.idle /\ Target(arg) # None
              /\ Rest.idle => r.card.sending = None
              /\ ~Rest.idle => r.card.sending = Target(arg)
         /\ LET r == Obey("WRITE_SINGLE_BLOCK", arg) IN
              /\ r.card \in DoingStates /\ r.card.idle = Rest.idle /\ r.r1 \in SUBSET R1
              /\ r.r1 = {} <=> ~Rest.idle /\ Target(arg) # None
              /\ Rest.idle => r.card.sending = None
              /\ ~Rest.idle => r.card.target = Target(arg) /\ r.card.sending = None
<1>1. Rest \in DoingStates /\ Rest.sending = None /\ Rest.idle \in BOOLEAN
  BY RestIs DEF DoingStates
<1>2. \A more \in {{}, {"ILL"}, {"ERR"}} : more \in SUBSET {"ILL", "ERR"}
  OBVIOUS
<1>3. \A t \in Int : /\ [Rest EXCEPT !.sending = t] \in DoingStates
                     /\ [Rest EXCEPT !.sending = t].idle = Rest.idle
                     /\ [Rest EXCEPT !.sending = t].sending = t
                     /\ [Rest EXCEPT !.target = t] \in DoingStates
                     /\ [Rest EXCEPT !.target = t].idle = Rest.idle
                     /\ [Rest EXCEPT !.target = t].target = t
                     /\ [Rest EXCEPT !.target = t].sending = None
  BY <1>1 DEF DoingStates
<1>4. CASE Rest.idle
  <2>1. \A cmd \in {"SET_BLOCKLEN", "SEND_CID", "SEND_CSD"} : Obey(cmd, 0) = Reply(Rest, {"ILL"})
    BY <1>4 DEF Obey, IdleCommands
  <2>2. \A cmd \in {"READ_SINGLE_BLOCK", "WRITE_SINGLE_BLOCK"} : Obey(cmd, arg) = Reply(Rest, {"ILL"})
    BY <1>4 DEF Obey, IdleCommands
  <2>3. LET r == Reply(Rest, {"ILL"})
        IN r.card = Rest /\ r.r1 \in SUBSET R1 /\ r.r1 # {}
    BY <1>1, <1>2, ReplyIs
  <2> QED BY <1>1, <1>4, <2>1, <2>2, <2>3
<1>5. CASE ~Rest.idle
  <2>1. Obey("SET_BLOCKLEN", 0) = Reply(Rest, {})
    BY <1>5 DEF Obey, IdleCommands
  <2>2. \A cmd \in {"SEND_CID", "SEND_CSD"} : Obey(cmd, 0) = Reply([Rest EXCEPT !.sending = 0], {})
    BY <1>5 DEF Obey, IdleCommands
  <2>3. Obey("READ_SINGLE_BLOCK", arg)
          = Reply([Rest EXCEPT !.sending = Target(arg)], IF Target(arg) = None THEN {"ERR"} ELSE {})
    BY <1>5 DEF Obey, IdleCommands
  <2>4. Obey("WRITE_SINGLE_BLOCK", arg)
          = Reply([Rest EXCEPT !.target = Target(arg)], IF Target(arg) = None THEN {"ERR"} ELSE {})
    BY <1>5 DEF Obey, IdleCommands
  <2>5. \A c \in DoingStates, more \in {{}, {"ERR"}} :
          ~c.idle => /\ Reply(c, more).card = c /\ Reply(c, more).r1 \in SUBSET R1
                     /\ Reply(c, more).r1 = {} <=> more = {}
    BY <1>2, ReplyIs
  <2>6. \A cmd \in {"SET_BLOCKLEN", "SEND_CID", "SEND_CSD"} :
          LET r == Obey(cmd, 0) IN
          /\ r.card \in DoingStates /\ r.card.idle = Rest.idle /\ r.r1 \in SUBSET R1 /\ r.r1 = {}
          /\ r.card.sending = IF cmd = "SET_BLOCKLEN" THEN None ELSE 0
    <3> DEFINE s == [Rest EXCEPT !.sending = 0]
    <3>1. s \in DoingStates /\ s.idle = Rest.idle /\ ~s.idle /\ s.sending = 0
      BY <1>1, <1>5 DEF DoingStates
    <3> HIDE DEF s
    <3>2. Reply(s, {}).card = s /\ Reply(s, {}).r1 \in SUBSET R1 /\ Reply(s, {}).r1 = {}
      BY <2>5, <3>1
    <3>3. Reply(Rest, {}).card = Rest /\ Reply(Rest, {}).r1 \in SUBSET R1 /\ Reply(Rest, {}).r1 = {}
      BY <1>1, <1>5, <2>5
    <3>4. \A cmd \in {"SEND_CID", "SEND_CSD"} : Obey(cmd, 0) = Reply(s, {})
      BY <2>2 DEF s
    <3> QED BY <1>1, <1>5, <2>1, <3>1, <3>2, <3>3, <3>4
  <2>7. LET r == Obey("READ_SINGLE_BLOCK", arg) IN
        /\ r.card \in DoingStates /\ r.card.idle = Rest.idle /\ r.r1 \in SUBSET R1
        /\ r.r1 = {} <=> Target(arg) # None
        /\ r.card.sending = Target(arg)
    <3> DEFINE s == [Rest EXCEPT !.sending = Target(arg)]
               more == IF Target(arg) = None THEN {"ERR"} ELSE {}
    <3>1. s \in DoingStates /\ s.idle = Rest.idle /\ ~s.idle /\ s.sending = Target(arg)
      BY <1>3, <1>5
    <3>2. Obey("READ_SINGLE_BLOCK", arg) = Reply(s, more)
      BY <2>3
    <3>3. more \in {{}, {"ERR"}} /\ (more = {} <=> Target(arg) # None)
      OBVIOUS
    <3> HIDE DEF s, more
    <3>4. /\ Reply(s, more).card = s /\ Reply(s, more).r1 \in SUBSET R1
          /\ Reply(s, more).r1 = {} <=> more = {}
      BY <2>5, <3>1, <3>3
    <3> QED BY <3>1, <3>2, <3>3, <3>4
  <2>8. LET r == Obey("WRITE_SINGLE_BLOCK", arg) IN
        /\ r.card \in DoingStates /\ r.card.idle = Rest.idle /\ r.r1 \in SUBSET R1
        /\ r.r1 = {} <=> Target(arg) # None
        /\ r.card.target = Target(arg) /\ r.card.sending = None
    <3> DEFINE s == [Rest EXCEPT !.target = Target(arg)]
               more == IF Target(arg) = None THEN {"ERR"} ELSE {}
    <3>1. s \in DoingStates /\ s.idle = Rest.idle /\ ~s.idle /\ s.target = Target(arg) /\ s.sending = None
      BY <1>3, <1>5
    <3>2. Obey("WRITE_SINGLE_BLOCK", arg) = Reply(s, more)
      BY <2>4
    <3>3. more \in {{}, {"ERR"}} /\ (more = {} <=> Target(arg) # None)
      OBVIOUS
    <3> HIDE DEF s, more
    <3>4. /\ Reply(s, more).card = s /\ Reply(s, more).r1 \in SUBSET R1
          /\ Reply(s, more).r1 = {} <=> more = {}
      BY <2>5, <3>1, <3>3
    <3> QED BY <3>1, <3>2, <3>3, <3>4
  <2> QED BY <1>1, <1>5, <2>6, <2>7, <2>8
<1> QED BY <1>1, <1>4, <1>5

-----------------------------------------------------------------------------
(* send_command.                                                           *)

\* What the driver gets back is the answer of the card, or nothing, or what the card
\* said before; and nothing but the answer as long as nothing has failed.
LEMMA Sent ==
  ASSUME IInv, NEW cmd, NEW arg, send_command(cmd, arg),
         Obey(cmd, arg).card \in DoingStates, Obey(cmd, arg).r1 \in SUBSET R1
  PROVE  /\ card' \in CardStates /\ resp' \in SUBSET R1
         /\ faults' \in 0 .. MaxFaults /\ faults <= faults'
         /\ shifted' \in BOOLEAN /\ (~shifted' => ~shifted)
         /\ ~shifted' => \/ resp' = Obey(cmd, arg).r1 /\ card'.doing = Obey(cmd, arg).card
                         \/ resp' = NoAnswer /\ card'.doing \in {card.doing, Obey(cmd, arg).card}
         /\ faults' = 0 /\ pc \notin {"cid_data", "csd_data", "read_data"} =>
              /\ faults = 0 /\ ~shifted' /\ card'.late = NoLate
              /\ resp' = Obey(cmd, arg).r1 /\ card'.doing = Obey(cmd, arg).card
<1> DEFINE r == Obey(cmd, arg)
<1>1. /\ card \in CardStates /\ faults \in 0 .. MaxFaults /\ shifted \in BOOLEAN
      /\ MaxFaults \in Nat /\ NoAnswer \in SUBSET R1 /\ DataToken \in SUBSET R1
      /\ card.doing \in DoingStates /\ card.late \in [r1 : SUBSET R1, sending : Int]
  BY SizeAssumption DEF IInv, TypeOK, Phase, NoAnswer, DataToken, CardStates, DoingStates
<1>2. r.card \in DoingStates /\ r.r1 \in SUBSET R1 /\ r.card.sending \in Int
  BY DEF DoingStates
<1>3. \A c \in DoingStates : Doing(c) \in CardStates /\ Doing(c).doing = c /\ Doing(c).late = NoLate
  BY DEF Doing, NoLate, NoAnswer, None, CardStates, DoingStates
<1>4. \A c \in DoingStates, a \in SUBSET R1, s \in Int :
        /\ [doing |-> c, late |-> [r1 |-> a, sending |-> s]] \in CardStates
        /\ [doing |-> c, late |-> [r1 |-> a, sending |-> s]].doing = c
  BY DEF CardStates, DoingStates
<1>5. \A c \in DoingStates, s \in Int : [c EXCEPT !.sending = s] \in DoingStates
  BY DEF DoingStates
<1>6. faults = 0 /\ pc \notin {"cid_data", "csd_data", "read_data"} =>
        card.late = NoLate /\ card.doing.sending = None /\ ~shifted
  BY DEF IInv, Healthy
<1> HIDE DEF r
<1>7. CASE InTime(cmd, arg)
  <2>1. card' = Doing(r.card) /\ resp' = r.r1 /\ UNCHANGED <<faults, shifted>>
    BY <1>7 DEF InTime, r
  <2>2. card' \in CardStates /\ card'.doing = r.card /\ card'.late = NoLate
    BY <1>2, <1>3, <2>1
  <2> QED BY <1>1, <1>2, <1>6, <2>1, <2>2 DEF r
<1>8. CASE Lost(cmd, arg)
  <2>1. card' \in {card, Doing(r.card)} /\ resp' = NoAnswer /\ shifted' = shifted
        /\ faults < MaxFaults /\ faults' = faults + 1
    BY <1>8 DEF Lost, Fault, r
  <2>2. card' \in CardStates /\ card'.doing \in {card.doing, r.card}
    BY <1>1, <1>2, <1>3, <2>1
  <2>3. faults' \in 0 .. MaxFaults /\ faults <= faults' /\ faults' # 0
    BY <1>1, <2>1
  <2> QED BY <1>1, <2>1, <2>2, <2>3 DEF r
<1>9. CASE Late(cmd, arg)
  <2>1. card' = [doing |-> r.card, late |-> [r1 |-> r.r1, sending |-> r.card.sending]]
        /\ resp' = NoAnswer /\ shifted' = shifted /\ faults < MaxFaults /\ faults' = faults + 1
    BY <1>9 DEF Late, Fault, r
  <2>2. card' \in CardStates /\ card'.doing = r.card
    BY <1>2, <1>4, <2>1
  <2>3. faults' \in 0 .. MaxFaults /\ faults <= faults' /\ faults' # 0
    BY <1>1, <2>1
  <2> QED BY <1>1, <2>1, <2>2, <2>3 DEF r
<1>10. CASE Shifted(cmd, arg)
  <2>1. /\ card.late # NoLate /\ resp' = card.late.r1 /\ shifted' = TRUE /\ faults' = faults
        /\ card' = [doing |-> [r.card EXCEPT !.sending = card.late.sending],
                    late |-> [r1 |-> r.r1, sending |-> r.card.sending]]
    BY <1>10 DEF Shifted, r
  <2>2. card.late.r1 \in SUBSET R1 /\ card.late.sending \in Int
    BY <1>1
  <2>3. [r.card EXCEPT !.sending = card.late.sending] \in DoingStates
    BY <1>2, <1>5, <2>2
  <2>4. card' \in CardStates
    BY <1>2, <1>4, <2>1, <2>3
  <2> QED BY <1>1, <1>6, <2>1, <2>2, <2>4
<1>11. CASE Overdue(cmd, arg)
  <2>1. /\ card.doing.sending # None /\ resp' = DataToken /\ shifted' = TRUE /\ faults' = faults
        /\ card' = Doing([card.doing EXCEPT !.sending = None])
    BY <1>11 DEF Overdue
  <2>2. [card.doing EXCEPT !.sending = None] \in DoingStates
    BY <1>1, <1>5 DEF None
  <2>3. card' \in CardStates
    BY <1>3, <2>1, <2>2
  <2> QED BY <1>1, <1>6, <2>1, <2>3
<1> QED BY <1>7, <1>8, <1>9, <1>10, <1>11 DEF send_command

\* A card that goes on answering is not given up.
Works == faults' = 0 /\ Good /\ pc' = "idle" => tfs_last_error' = "OK"

\* Nothing but the step of the driver has changed.
LEMMA SameCard ==
  ASSUME it' = it
  PROVE  (Described' <=> Described) /\ (Good' <=> Good) /\ BlkCount(it)' = BlkCount(it)
  BY DEF Described, Good, BlkCount

-----------------------------------------------------------------------------
(* The inductive step: drive_init.                                         *)

\* Entering a routine.
LEMMA CallStep ==
  ASSUME IInv, Call
  PROVE  IInv' /\ Works /\ stored' = {}
<1>1. TypeOK /\ Phase /\ Addressed /\ Healthy /\ pc = "idle" /\ it' = it
  BY DEF IInv, Call, drive_init, drive_read_block, drive_write_block, call_transfer
<1>2. (Described' <=> Described) /\ (Good' <=> Good) /\ BlkCount(it)' = BlkCount(it)
  BY <1>1, SameCard
<1>3. CASE drive_init
  <2>1. /\ type' = "MMC" /\ pc' = "reset" /\ i' = 0 /\ stored' = {}
        /\ UNCHANGED <<it, card, blk_count, tfs_last_error, resp, asked, shifted, faults>>
    BY <1>3 DEF drive_init
  <2>2. TypeOK'
    BY <1>1, <2>1, SizeAssumption DEF TypeOK, Types
  <2>3. Phase'
    BY <1>1, <1>2, <2>1, SizeAssumption DEF Phase, PCs, Probing, Getting, Accepted, Transfers
  <2>4. Addressed' /\ Healthy'
    BY <1>1, <2>1 DEF Addressed, Healthy, Ready, Probing, Getting, Accepted, Transfers
  <2> QED BY <2>1, <2>2, <2>3, <2>4 DEF IInv, Works
<1>4. ASSUME NEW b \in 0 .. Word - 1, NEW p \in {"read", "write"}, call_transfer(p, b)
      PROVE  IInv' /\ Works /\ stored' = {}
  <2>1. /\ Ready /\ (b < blk_count \/ b = 0)
        /\ tfs_last_error' = "OK" /\ pc' = p /\ asked' = b /\ stored' = {}
        /\ UNCHANGED <<it, card, type, blk_count, i, resp, shifted, faults>>
    BY <1>4 DEF call_transfer, Ready, info
  <2>2. b \in Nat /\ b # None
    BY Sizes DEF None
  <2>3. TypeOK'
    BY <1>1, <2>1 DEF TypeOK
  <2>4. Phase'
    BY <1>1, <1>2, <2>1, <2>2 DEF Phase, PCs, Probing, Getting, Accepted, Transfers, Ready
  <2>5. Addressed'
    BY <1>1, <1>2, <2>1 DEF Addressed, Ready, Probing, Getting, Accepted, Transfers
  <2>6. Healthy'
    BY <1>1, <1>2, <2>1 DEF Healthy, Ready, Probing, Getting, Accepted, Transfers
  <2> QED BY <2>1, <2>3, <2>4, <2>5, <2>6 DEF IInv, Works
<1> QED BY <1>3, <1>4 DEF Call, drive_read_block, drive_write_block

\* Resetting the card.
LEMMA ResetStep ==
  ASSUME IInv, reset
  PROVE  IInv' /\ Works
<1> DEFINE r == Obey("GO_IDLE_STATE", 0)
<1>1. /\ TypeOK /\ Phase /\ pc = "reset" /\ type = "MMC" /\ send_command("GO_IDLE_STATE", 0)
      /\ UNCHANGED <<it, type, blk_count, stored>>
      /\ i \in Nat /\ i <= ResetMax /\ ResetMax \in Nat
  BY SizeAssumption DEF IInv, reset, info, ghosts, Phase, TypeOK
<1>2. (Described' <=> Described) /\ (Good' <=> Good) /\ BlkCount(it)' = BlkCount(it)
  BY <1>1, SameCard
<1>3. /\ r.card \in DoingStates /\ r.r1 = {"IDLE"} /\ r.r1 \in SUBSET R1
      /\ r.card.idle /\ r.card.wait = it.delay /\ r.card.sending = None
  BY <1>1, ObeyReset DEF Phase, R1
<1> HIDE DEF r
<1>4. /\ card' \in CardStates /\ resp' \in SUBSET R1 /\ faults' \in 0 .. MaxFaults
      /\ shifted' \in BOOLEAN /\ (~shifted' => ~shifted)
      /\ ~shifted' => (resp' = r.r1 /\ card'.doing = r.card) \/ resp' = NoAnswer
      /\ faults' = 0 => /\ faults = 0 /\ ~shifted' /\ card'.late = NoLate
                        /\ resp' = r.r1 /\ card'.doing = r.card
  BY <1>1, <1>3, Sent DEF r
<1>5. CASE resp' = {"IDLE"}
  <2>1. pc' = "if_cond" /\ UNCHANGED <<tfs_last_error, i, asked>>
    BY <1>5 DEF reset, Goto
  <2>2. TypeOK' /\ Phase'
    BY <1>1, <1>2, <1>4, <2>1 DEF TypeOK, Phase, PCs, Probing, Getting, Accepted, Transfers
  <2>3. ~shifted' => card'.doing.idle
    BY <1>3, <1>4, <1>5 DEF NoAnswer, R1
  <2>4. Addressed'
    BY <1>1, <2>1, <2>3 DEF Addressed, Ready, Accepted, Transfers
  <2>5. Good => it.delay + 0 <= ReadyMax
    BY <1>1, CardFields DEF Good, Phase
  <2>6. Healthy'
    BY <1>1, <1>2, <1>3, <1>4, <2>1, <2>5 DEF Healthy, Ready, Getting, Accepted, Transfers
  <2> QED BY <2>1, <2>2, <2>4, <2>6 DEF IInv, Works
<1>6. CASE resp' # {"IDLE"}
  <2>1. Again("reset", ResetMax)
    BY <1>6 DEF reset
  <2>2. \/ pc' = "idle" /\ tfs_last_error' = "NO_DEV" /\ i' = 0 /\ asked' = None
        \/ pc' = "reset" /\ i' = i + 1 /\ i # ResetMax /\ UNCHANGED <<tfs_last_error, asked>>
    BY <2>1 DEF Again, Return
  <2>3. faults' # 0
    BY <1>3, <1>4, <1>6
  <2>4. i' \in 0 .. ResetMax
    BY <1>1, <2>2
  <2>5. TypeOK' /\ Phase'
    BY <1>1, <1>2, <1>4, <2>2, <2>4 DEF TypeOK, Phase, PCs, Probing, Getting, Accepted, Transfers
  <2>6. Addressed'
    BY <1>1, <2>2 DEF Addressed, Ready, Probing, Getting, Accepted, Transfers
  <2> QED BY <2>3, <2>5, <2>6 DEF IInv, Healthy, Works
<1> QED BY <1>5, <1>6

\* Giving a device up, which happens to no card that answers and gets ready.
LEMMA GivenUp ==
  ASSUME IInv, it' = it, type' = type, blk_count' = blk_count, stored' \in {stored, {}},
         Return("NO_DEV"), card' \in CardStates, resp' \in SUBSET R1,
         faults' \in 0 .. MaxFaults, shifted' \in BOOLEAN, ~shifted' => ~shifted,
         faults' = 0 => ~shifted' /\ card'.late = NoLate /\ card'.doing.sending = None /\ ~Good
  PROVE  IInv' /\ Works
<1>1. /\ TypeOK /\ Phase /\ Addressed
      /\ pc' = "idle" /\ tfs_last_error' = "NO_DEV" /\ i' = 0 /\ asked' = None
  BY DEF IInv, Return
<1>2. (Described' <=> Described) /\ (Good' <=> Good) /\ BlkCount(it)' = BlkCount(it)
  BY SameCard
<1>3. TypeOK'
  BY <1>1, SizeAssumption DEF TypeOK
<1>4. Phase'
  BY <1>1, <1>2 DEF Phase, PCs, Probing, Getting, Accepted, Transfers
<1>5. Addressed'
  BY <1>1 DEF Addressed, Ready, Probing, Getting, Accepted, Transfers
<1>6. Healthy'
  BY <1>1, <1>2 DEF Healthy, Ready, Probing, Getting, Accepted, Transfers
<1> QED BY <1>3, <1>4, <1>5, <1>6 DEF IInv, Works

\* Asking for the version of the card.
LEMMA IfCondStep ==
  ASSUME IInv, if_cond
  PROVE  IInv' /\ Works
<1> DEFINE r == Obey("SEND_IF_COND", 0)
<1>1. /\ TypeOK /\ Phase /\ Addressed /\ Healthy /\ pc = "if_cond" /\ type = "MMC"
      /\ send_command("SEND_IF_COND", 0)
      /\ UNCHANGED <<it, blk_count, stored>> /\ it \in Cards /\ card \in CardStates
  BY DEF IInv, if_cond, ghosts, Phase
<1>2. (Described' <=> Described) /\ (Good' <=> Good) /\ BlkCount(it)' = BlkCount(it)
  BY <1>1, SameCard
<1>3. /\ r.card \in DoingStates /\ r.r1 \in SUBSET R1
      /\ r.card.idle = card.doing.idle /\ r.card.wait = card.doing.wait /\ r.card.sending = None
      /\ "ILL" \in r.r1 <=> it.kind \in {"MMC", "SDV1"}
  BY <1>1, ObeyProbe, RestIs
<1> HIDE DEF r
<1>4. /\ card' \in CardStates /\ resp' \in SUBSET R1 /\ faults' \in 0 .. MaxFaults
      /\ shifted' \in BOOLEAN /\ (~shifted' => ~shifted)
      /\ ~shifted' => card'.doing.idle = card.doing.idle
      /\ faults' = 0 => /\ faults = 0 /\ ~shifted' /\ card'.late = NoLate
                        /\ resp' = r.r1 /\ card'.doing = r.card
  BY <1>1, <1>3, Sent DEF r
<1>5. CASE "ILL" \in resp'
  <2>1. pc' = "probe_app" /\ UNCHANGED <<type, tfs_last_error, i, asked>>
    BY <1>5 DEF if_cond, Goto
  <2>2. TypeOK' /\ Phase'
    BY <1>1, <1>2, <1>4, <2>1 DEF TypeOK, Phase, PCs, Probing, Getting, Accepted, Transfers
  <2>3. Addressed'
    BY <1>1, <1>4, <2>1 DEF Addressed, Ready, Probing, Getting, Accepted, Transfers
  <2>4. faults' = 0 => /\ it.kind \in {"MMC", "SDV1"} /\ card'.doing.sending = None
                       /\ card'.doing.wait = card.doing.wait
    BY <1>3, <1>4, <1>5
  <2>5. Healthy'
    BY <1>1, <1>2, <1>4, <2>1, <2>4 DEF Healthy, Ready, Probing, Getting, Accepted, Transfers
  <2> QED BY <2>1, <2>2, <2>3, <2>5 DEF IInv, Works
<1>6. CASE "ILL" \notin resp'
  <2>1. PICK match \in IF shifted' THEN BOOLEAN ELSE {it.voltage} :
               IF match THEN type' = "SDV2" /\ StartReady("SDV2")
                        ELSE Return("NO_DEV") /\ UNCHANGED type
    BY <1>6 DEF if_cond
  <2>2. CASE match
    <3>1. type' = "SDV2" /\ pc' = "app" /\ i' = 0 /\ UNCHANGED <<tfs_last_error, asked>>
      BY <2>1, <2>2 DEF StartReady
    <3>2. TypeOK'
      BY <1>1, <1>4, <3>1, SizeAssumption DEF TypeOK, Types
    <3>3. Phase'
      BY <1>1, <1>2, <1>4, <3>1, SizeAssumption
         DEF Phase, PCs, Probing, Getting, Accepted, Transfers
    <3>4. Addressed'
      BY <1>1, <1>4, <3>1 DEF Addressed, Ready, Probing, Getting, Accepted, Transfers
    <3>5. faults' = 0 => /\ it.kind \in {"SDV2", "SDHC"} /\ card'.doing.sending = None
                         /\ card'.doing.wait = card.doing.wait /\ card.doing.wait \in Nat
      BY <1>1, <1>3, <1>4, <1>6, CardFields DEF Types, CardStates
    <3>6. Healthy'
      BY <1>1, <1>2, <1>4, <3>1, <3>5 DEF Healthy, Ready, Probing, Getting, Accepted, Transfers
    <3> QED BY <3>1, <3>2, <3>3, <3>4, <3>6 DEF IInv, Works
  <2>3. CASE ~match
    <3>1. Return("NO_DEV") /\ type' = type
      BY <2>1, <2>3
    <3>2. ~shifted' => ~it.voltage
      BY <2>1, <2>3
    <3> QED BY <1>1, <1>3, <1>4, <3>1, <3>2, GivenUp DEF Good
  <2> QED BY <2>2, <2>3
<1> QED BY <1>5, <1>6

\* Asking whether it is an SD card of version 1 or a MultiMediaCard.
LEMMA ProbeAppStep ==
  ASSUME IInv, probe_app
  PROVE  IInv' /\ Works
<1> DEFINE r == Obey("APP", 0)
<1>1. /\ TypeOK /\ Phase /\ Addressed /\ Healthy /\ pc = "probe_app" /\ type = "MMC"
      /\ send_command("APP", 0) /\ pc' = "probe_op" /\ UNCHANGED <<tfs_last_error, i, asked>>
      /\ UNCHANGED <<it, type, blk_count, stored>> /\ it \in Cards /\ card \in CardStates
  BY DEF IInv, probe_app, Goto, info, ghosts, Phase
<1>2. (Described' <=> Described) /\ (Good' <=> Good) /\ BlkCount(it)' = BlkCount(it)
  BY <1>1, SameCard
<1>3. /\ r.card \in DoingStates /\ r.r1 \in SUBSET R1
      /\ r.card.idle = card.doing.idle /\ r.card.wait = card.doing.wait /\ r.card.sending = None
      /\ r.card.app <=> it.kind # "MMC"
  BY <1>1, ObeyProbe, RestIs
<1> HIDE DEF r
<1>4. /\ card' \in CardStates /\ resp' \in SUBSET R1 /\ faults' \in 0 .. MaxFaults
      /\ shifted' \in BOOLEAN /\ (~shifted' => ~shifted)
      /\ ~shifted' => card'.doing.idle = card.doing.idle
      /\ faults' = 0 => /\ faults = 0 /\ ~shifted' /\ card'.late = NoLate
                        /\ resp' = r.r1 /\ card'.doing = r.card
  BY <1>1, <1>3, Sent DEF r
<1>5. TypeOK' /\ Phase'
  BY <1>1, <1>2, <1>4 DEF TypeOK, Phase, PCs, Probing, Getting, Accepted, Transfers
<1>6. Addressed'
  BY <1>1, <1>4 DEF Addressed, Ready, Probing, Getting, Accepted, Transfers
<1>7. Healthy'
  BY <1>1, <1>2, <1>3, <1>4 DEF Healthy, Ready, Probing, Getting, Accepted, Transfers
<1> QED BY <1>1, <1>5, <1>6, <1>7 DEF IInv, Works

\* The answer to the first SD_SEND_OP_COND tells cards of the first version from MMC.
LEMMA ProbeOpStep ==
  ASSUME IInv, probe_op
  PROVE  IInv' /\ Works
<1> DEFINE r == Obey("SD_SEND_OP_COND", 0)
<1>1. /\ TypeOK /\ Phase /\ Addressed /\ Healthy /\ pc = "probe_op" /\ type = "MMC"
      /\ send_command("SD_SEND_OP_COND", 0)
      /\ type' = IF "ILL" \notin resp' THEN "SDV1" ELSE "MMC"
      /\ pc' = (IF type' = "MMC" THEN "op_cond" ELSE "app") /\ i' = 0
      /\ UNCHANGED <<tfs_last_error, asked>>
      /\ UNCHANGED <<it, blk_count, stored>> /\ it \in Cards /\ card \in CardStates
  BY DEF IInv, probe_op, StartReady, ghosts, Phase
<1>2. (Described' <=> Described) /\ (Good' <=> Good) /\ BlkCount(it)' = BlkCount(it)
  BY <1>1, SameCard
<1>3. /\ r.card \in DoingStates /\ r.r1 \in SUBSET R1 /\ r.card.sending = None
      /\ it.kind = "SDHC" => r.card.idle = card.doing.idle
      /\ r.card.wait <= card.doing.wait /\ r.card.wait \in Nat /\ card.doing.wait \in Nat
      /\ "ILL" \in r.r1 <=> ~(it.kind # "MMC" /\ card.doing.app)
  <2>1. /\ r.card \in DoingStates /\ r.card.sending = None /\ r.r1 \in SUBSET R1
        /\ r.card = IF it.kind # "MMC" /\ card.doing.app THEN GetReady(Rest, FALSE) ELSE Rest
        /\ "ILL" \in r.r1 <=> ~(it.kind # "MMC" /\ card.doing.app)
    <3>1. (0 = 1) = FALSE
      OBVIOUS
    <3> QED BY <1>1, <3>1, ObeyReady
  <2>2. /\ Rest \in DoingStates /\ Rest.wait \in Nat
        /\ Rest.idle = card.doing.idle /\ Rest.wait = card.doing.wait
    BY <1>1, RestIs DEF DoingStates
  <2>3. /\ it.kind = "SDHC" => GetReady(Rest, FALSE) = Rest
        /\ GetReady(Rest, FALSE).wait \in {Rest.wait, Rest.wait - 1, 0}
    BY <1>1, <2>2, GetReadyIs
  <2>4. r.card.wait \in Nat
    BY <2>1 DEF DoingStates
  <2> DEFINE g == GetReady(Rest, FALSE)
  <2>5. r.card = g \/ r.card = Rest
    BY <2>1
  <2>6. (it.kind = "SDHC" => g = Rest) /\ g.wait \in {Rest.wait, Rest.wait - 1, 0}
    BY <2>3
  <2> HIDE DEF r, g
  <2>7. it.kind = "SDHC" => r.card.idle = card.doing.idle
    BY <2>2, <2>5, <2>6
  <2>8. r.card.wait <= card.doing.wait
    BY <2>2, <2>4, <2>5, <2>6
  <2> QED BY <2>1, <2>2, <2>4, <2>7, <2>8
<1> HIDE DEF r
<1>4. /\ card' \in CardStates /\ resp' \in SUBSET R1 /\ faults' \in 0 .. MaxFaults
      /\ shifted' \in BOOLEAN /\ (~shifted' => ~shifted)
      /\ ~shifted' /\ it.kind = "SDHC" => card'.doing.idle = card.doing.idle
      /\ faults' = 0 => /\ faults = 0 /\ ~shifted' /\ card'.late = NoLate
                        /\ resp' = r.r1 /\ card'.doing = r.card
  BY <1>1, <1>3, Sent DEF r
<1>5. TypeOK'
  BY <1>1, <1>4, SizeAssumption DEF TypeOK, Types
<1>6. Phase'
  BY <1>1, <1>2, <1>4, SizeAssumption DEF Phase, PCs, Probing, Getting, Accepted, Transfers
<1>7. Addressed'
  BY <1>1, <1>4 DEF Addressed, Ready, Probing, Getting, Accepted, Transfers
<1>8. Healthy'
  <2>1. SUFFICES ASSUME faults' = 0
                 PROVE  Healthy'
    BY DEF Healthy
  <2>2. /\ faults = 0 /\ ~shifted' /\ card'.late = NoLate /\ card'.doing.sending = None
        /\ card'.doing.wait <= card.doing.wait /\ card'.doing.wait \in Nat
    BY <1>3, <1>4, <2>1
  <2>3. Good => /\ it.kind \in {"MMC", "SDV1"} /\ (it.kind = "SDV1" => card.doing.app)
                /\ card.doing.wait <= ReadyMax
    BY <1>1, <1>3, <2>2, CardFields DEF Healthy, Probing, Getting, Types
  <2>4. Good => (type' = "MMC" <=> it.kind = "MMC") /\ (type' = "SDV1" <=> it.kind = "SDV1")
    BY <1>1, <1>3, <1>4, <2>1, <2>3
  <2>5. Good => card'.doing.wait + 0 <= ReadyMax
    BY <1>3, <2>2, <2>3, SizeAssumption
  <2> QED BY <1>1, <1>2, <2>2, <2>3, <2>4, <2>5
          DEF Healthy, Ready, Probing, Getting, Accepted, Transfers
<1> QED BY <1>1, <1>5, <1>6, <1>7, <1>8 DEF IInv, Works

\* Every try to get an SD card ready is announced.
LEMMA AppStep ==
  ASSUME IInv, app
  PROVE  IInv' /\ Works
<1> DEFINE r == Obey("APP", 0)
<1>1. /\ TypeOK /\ Phase /\ Addressed /\ Healthy /\ pc = "app"
      /\ send_command("APP", 0) /\ pc' = "sd_op_cond" /\ UNCHANGED <<tfs_last_error, i, asked>>
      /\ UNCHANGED <<it, type, blk_count, stored>> /\ it \in Cards /\ card \in CardStates
  BY DEF IInv, app, Goto, info, ghosts, Phase
<1>2. (Described' <=> Described) /\ (Good' <=> Good) /\ BlkCount(it)' = BlkCount(it)
  BY <1>1, SameCard
<1>3. /\ r.card \in DoingStates /\ r.r1 \in SUBSET R1
      /\ r.card.idle = card.doing.idle /\ r.card.wait = card.doing.wait /\ r.card.sending = None
      /\ r.card.app <=> it.kind # "MMC"
  BY <1>1, ObeyProbe, RestIs
<1> HIDE DEF r
<1>4. /\ card' \in CardStates /\ resp' \in SUBSET R1 /\ faults' \in 0 .. MaxFaults
      /\ shifted' \in BOOLEAN /\ (~shifted' => ~shifted)
      /\ ~shifted' => card'.doing.idle = card.doing.idle
      /\ faults' = 0 => /\ faults = 0 /\ ~shifted' /\ card'.late = NoLate
                        /\ resp' = r.r1 /\ card'.doing = r.card
  BY <1>1, <1>3, Sent DEF r
<1>5. TypeOK' /\ Phase'
  BY <1>1, <1>2, <1>4 DEF TypeOK, Phase, PCs, Probing, Getting, Accepted, Transfers
<1>6. Addressed'
  BY <1>1, <1>4 DEF Addressed, Ready, Probing, Getting, Accepted, Transfers
<1>7. Healthy'
  BY <1>1, <1>2, <1>3, <1>4 DEF Healthy, Ready, Probing, Getting, Accepted, Transfers
<1> QED BY <1>1, <1>5, <1>6, <1>7 DEF IInv, Works

\* A try to get the card ready.
LEMMA GetReadyStep ==
  ASSUME IInv, get_ready
  PROVE  IInv' /\ Works
<1> DEFINE sd  == pc = "sd_op_cond"
           cmd == IF sd THEN "SD_SEND_OP_COND" ELSE "SEND_OP_COND"
           arg == IF sd THEN Hcs ELSE 0
           r   == Obey(cmd, arg)
           able == IF sd THEN /\ it.kind # "MMC" /\ card.doing.app
                              /\ it.kind = "SDHC" => type = "SDV2"
                   ELSE it.kind # "SDHC"
<1>1. /\ TypeOK /\ Phase /\ Addressed /\ Healthy /\ pc \in {"sd_op_cond", "op_cond"}
      /\ send_command(cmd, arg)
      /\ sd => type \in {"SDV1", "SDV2"}
      /\ ~sd => type = "MMC"
      /\ UNCHANGED <<it, type, blk_count, stored>> /\ it \in Cards /\ card \in CardStates
      /\ i \in Nat /\ i <= ReadyMax /\ ReadyMax \in Nat
  BY SizeAssumption DEF IInv, get_ready, info, ghosts, Phase, TypeOK, Getting
<1>2. (Described' <=> Described) /\ (Good' <=> Good) /\ BlkCount(it)' = BlkCount(it)
  BY <1>1, SameCard
<1>3. /\ r.card \in DoingStates /\ r.r1 \in SUBSET R1 /\ r.card.sending = None
      /\ "IDLE" \in r.r1 <=> r.card.idle
      /\ it.kind = "SDHC" /\ type # "SDV2" => r.card.idle = card.doing.idle
      /\ able /\ card.doing.wait = 0 => ~r.card.idle
      /\ able /\ card.doing.wait # 0 => r.card.wait = card.doing.wait - 1
      /\ card.doing.wait \in Nat
  <2>1. /\ Rest \in DoingStates /\ Rest.wait \in Nat
        /\ Rest.idle = card.doing.idle /\ Rest.wait = card.doing.wait
    BY <1>1, RestIs DEF DoingStates
  <2>2. \A hcs \in BOOLEAN :
          /\ it.kind = "SDHC" /\ ~hcs => GetReady(Rest, hcs) = Rest
          /\ it.kind # "SDHC" \/ hcs =>
               /\ Rest.wait = 0 => ~GetReady(Rest, hcs).idle
               /\ Rest.wait # 0 => GetReady(Rest, hcs).wait = Rest.wait - 1
    BY <1>1, <2>1, GetReadyIs
  <2>3. CASE sd
    <3>1. /\ cmd = "SD_SEND_OP_COND" /\ arg = Hcs /\ Hcs \in {0, 1}
          /\ (Hcs = 1) \in BOOLEAN /\ ((Hcs = 1) <=> type = "SDV2")
      BY <2>3 DEF Hcs
    <3>2. /\ r.card \in DoingStates /\ r.card.sending = None /\ r.r1 \in SUBSET R1
          /\ "IDLE" \in r.r1 <=> r.card.idle
          /\ r.card = IF it.kind # "MMC" /\ card.doing.app THEN GetReady(Rest, Hcs = 1) ELSE Rest
      BY <1>1, <3>1, ObeyReady
    <3> HIDE DEF r, cmd, arg
    <3> QED BY <2>1, <2>2, <2>3, <3>1, <3>2
  <2>4. CASE ~sd
    <3>1. cmd = "SEND_OP_COND" /\ arg = 0
      BY <2>4
    <3>2. /\ r.card \in DoingStates /\ r.card.sending = None /\ r.r1 \in SUBSET R1
          /\ "IDLE" \in r.r1 <=> r.card.idle
          /\ r.card = IF it.kind # "SDHC" THEN GetReady(Rest, FALSE) ELSE Rest
      BY <1>1, <3>1, ObeyReady
    <3> HIDE DEF r, cmd, arg
    <3> QED BY <2>1, <2>2, <2>4, <3>1, <3>2
  <2> QED BY <2>3, <2>4
<1>4. faults = 0 /\ Good => able
  BY <1>1, CardFields DEF Healthy, Types
<1> HIDE DEF r, cmd, arg, able
<1>5. /\ card' \in CardStates /\ resp' \in SUBSET R1 /\ faults' \in 0 .. MaxFaults
      /\ shifted' \in BOOLEAN /\ (~shifted' => ~shifted)
      /\ ~shifted' => \/ resp' = r.r1 /\ card'.doing = r.card
                      \/ resp' = NoAnswer /\ card'.doing \in {card.doing, r.card}
      /\ faults' = 0 => /\ faults = 0 /\ ~shifted' /\ card'.late = NoLate
                        /\ resp' = r.r1 /\ card'.doing = r.card
  BY <1>1, <1>3, Sent DEF r
<1>6. CASE "IDLE" \notin resp'
  <2>1. /\ pc' = (IF type = "SDV2" THEN "ocr" ELSE "blocklen")
        /\ UNCHANGED <<tfs_last_error, i, asked>>
    BY <1>6 DEF get_ready, Goto
  <2>2. TypeOK' /\ Phase'
    BY <1>1, <1>2, <1>5, <2>1 DEF TypeOK, Phase, PCs, Probing, Getting, Accepted, Transfers
  <2>3. ~shifted' => ~card'.doing.idle /\ card'.doing = r.card
    BY <1>3, <1>5, <1>6 DEF NoAnswer, R1
  <2>4. ~shifted' => type # "SDHC" /\ (it.kind = "SDHC" => type = "SDV2")
    BY <1>1, <1>3, <1>5, <2>3 DEF Addressed, Probing, Getting
  <2>5. Addressed'
    BY <1>1, <2>1, <2>4 DEF Addressed, Ready, Probing, Getting, Accepted, Transfers
  <2>6. faults' = 0 => card'.doing.sending = None /\ ~card'.doing.idle
    BY <1>3, <1>5, <2>3
  <2>7. Healthy'
    BY <1>1, <1>2, <1>5, <2>1, <2>6 DEF Healthy, Ready, Probing, Getting, Accepted, Transfers
  <2> QED BY <2>1, <2>2, <2>5, <2>7 DEF IInv, Works
<1>7. CASE "IDLE" \in resp'
  <2>1. Again(IF type = "MMC" THEN "op_cond" ELSE "app", ReadyMax)
    BY <1>7 DEF get_ready
  <2>2. faults' = 0 /\ Good => /\ card.doing.wait # 0 /\ card'.doing.wait = card.doing.wait - 1
                               /\ card.doing.wait + i <= ReadyMax
    <3>1. SUFFICES ASSUME faults' = 0, Good
                   PROVE  /\ card.doing.wait # 0 /\ card'.doing.wait = card.doing.wait - 1
                          /\ card.doing.wait + i <= ReadyMax
      OBVIOUS
    <3>2. able /\ r.card.idle /\ card'.doing = r.card /\ faults = 0
      BY <1>3, <1>4, <1>5, <1>7, <3>1
    <3>3. card.doing.wait + i <= ReadyMax
      BY <1>1, <3>1, <3>2 DEF Healthy, Probing, Getting
    <3> QED BY <1>3, <3>2, <3>3
  <2>3. CASE i = ReadyMax
    <3>1. Return("NO_DEV")
      BY <2>1, <2>3 DEF Again
    <3>2. faults' = 0 => ~Good
      BY <1>1, <1>3, <2>2, <2>3
    <3> QED BY <1>1, <1>3, <1>5, <3>1, <3>2, GivenUp
  <2>4. CASE i # ReadyMax
    <3>1. /\ pc' = (IF type = "MMC" THEN "op_cond" ELSE "app") /\ i' = i + 1
          /\ UNCHANGED <<tfs_last_error, asked>>
      BY <2>1, <2>4 DEF Again
    <3>2. i' \in 0 .. ReadyMax /\ i' <= ReadyMax
      BY <1>1, <2>4, <3>1
    <3>3. TypeOK'
      BY <1>1, <1>5, <3>1, <3>2 DEF TypeOK
    <3>4. Phase'
      BY <1>1, <1>2, <1>5, <3>1, <3>2 DEF Phase, PCs, Probing, Getting, Accepted, Transfers
    <3>5. ~shifted' /\ it.kind = "SDHC" /\ type # "SDV2" => card'.doing.idle
      BY <1>1, <1>3, <1>5 DEF Addressed, Probing, Getting
    <3>6. Addressed'
      BY <1>1, <1>5, <3>1, <3>5 DEF Addressed, Ready, Probing, Getting, Accepted, Transfers
    <3>7. faults' = 0 => /\ faults = 0 /\ ~shifted' /\ card'.late = NoLate
                         /\ card'.doing.sending = None
                         /\ Good => card'.doing.wait + i' <= ReadyMax
      BY <1>1, <1>3, <1>5, <2>2, <3>1
    <3>8. Healthy'
      BY <1>1, <1>2, <3>1, <3>7 DEF Healthy, Ready, Probing, Getting, Accepted, Transfers
    <3> QED BY <3>1, <3>3, <3>4, <3>6, <3>8 DEF IInv, Works
  <2> QED BY <2>3, <2>4
<1> QED BY <1>6, <1>7

\* Asking a card of version 2 for its capacity.
LEMMA OcrStep ==
  ASSUME IInv, ocr
  PROVE  IInv' /\ Works
<1> DEFINE r == Obey("READ_OCR", 0)
<1>1. /\ TypeOK /\ Phase /\ Addressed /\ Healthy /\ pc = "ocr" /\ type = "SDV2"
      /\ send_command("READ_OCR", 0)
      /\ UNCHANGED <<it, blk_count, stored>> /\ it \in Cards /\ card \in CardStates
  BY DEF IInv, ocr, ghosts, Phase
<1>2. (Described' <=> Described) /\ (Good' <=> Good) /\ BlkCount(it)' = BlkCount(it)
  BY <1>1, SameCard
<1>3. /\ r.card \in DoingStates /\ r.r1 \in SUBSET R1
      /\ r.card.idle = card.doing.idle /\ r.card.sending = None
      /\ r.r1 = {} <=> ~card.doing.idle
  BY <1>1, ObeyProbe, RestIs
<1> HIDE DEF r
<1>4. /\ card' \in CardStates /\ resp' \in SUBSET R1 /\ faults' \in 0 .. MaxFaults
      /\ shifted' \in BOOLEAN /\ (~shifted' => ~shifted)
      /\ faults' = 0 => /\ faults = 0 /\ ~shifted' /\ card'.late = NoLate
                        /\ resp' = r.r1 /\ card'.doing = r.card
  BY <1>1, <1>3, Sent DEF r
<1>5. faults' = 0 /\ Good => ~card.doing.idle
  BY <1>1, <1>4 DEF Healthy
<1>6. CASE resp' # {}
  <2>1. Return("NO_DEV") /\ type' = type
    BY <1>6 DEF ocr
  <2> QED BY <1>1, <1>3, <1>4, <1>5, <1>6, <2>1, GivenUp
<1>7. CASE resp' = {}
  <2>1. PICK ccs \in IF shifted' THEN BOOLEAN ELSE {HighCapacity} :
               type' = (IF ccs THEN "SDHC" ELSE type) /\ Goto("blocklen")
    BY <1>7 DEF ocr
  <2>2. /\ type' \in {"SDHC", "SDV2"} /\ pc' = "blocklen" /\ UNCHANGED <<tfs_last_error, i, asked>>
        /\ ~shifted' => (type' = "SDHC" <=> it.kind = "SDHC")
    BY <1>1, <2>1 DEF Goto, HighCapacity
  <2>3. TypeOK'
    BY <1>1, <1>4, <2>2 DEF TypeOK, Types
  <2>4. Phase'
    BY <1>1, <1>2, <1>4, <2>2 DEF Phase, PCs, Probing, Getting, Accepted, Transfers
  <2>5. Addressed'
    BY <1>1, <2>2 DEF Addressed, Ready, Probing, Getting, Accepted, Transfers
  <2>6. Healthy'
    BY <1>1, <1>2, <1>3, <1>4, <1>5, <2>2
       DEF Healthy, Ready, Probing, Getting, Accepted, Transfers
  <2> QED BY <2>2, <2>3, <2>4, <2>5, <2>6 DEF IInv, Works
<1> QED BY <1>6, <1>7

\* An address means a block or none.
LEMMA TargetType ==
  ASSUME it \in Cards, NEW addr \in Nat
  PROVE  Target(addr) \in Int
<1>1. 2 ^ BlkWidth \in Nat \ {0}
  BY Sizes
<1> DEFINE d == 2 ^ BlkWidth
<1>2. addr \div d \in Int
  <2> HIDE DEF d
  <2> QED BY <1>1, DivMod DEF d
<1> QED BY <1>2 DEF Target, None

\* The commands that a ready card answers without an error.
LEMMA MustStep ==
  ASSUME IInv, NEW p, NEW cmd, NEW next, Must(p, cmd, next),
         \/ p = "blocklen" /\ cmd = "SET_BLOCKLEN" /\ next = "cid"
         \/ p = "cid" /\ cmd = "SEND_CID" /\ next = "cid_data"
         \/ p = "csd" /\ cmd = "SEND_CSD" /\ next = "csd_data"
  PROVE  IInv' /\ Works
<1> DEFINE r == Obey(cmd, 0)
<1>1. /\ TypeOK /\ Phase /\ Addressed /\ Healthy /\ pc = p
      /\ send_command(cmd, 0)
      /\ UNCHANGED <<it, type, blk_count, stored>> /\ it \in Cards /\ card \in CardStates
  BY DEF IInv, Must, info, ghosts, Phase
<1>2. (Described' <=> Described) /\ (Good' <=> Good) /\ BlkCount(it)' = BlkCount(it)
  BY <1>1, SameCard
<1>3. /\ r.card \in DoingStates /\ r.r1 \in SUBSET R1 /\ r.card.idle = card.doing.idle
      /\ r.r1 = {} <=> ~card.doing.idle
      /\ r.card.sending = IF card.doing.idle \/ cmd = "SET_BLOCKLEN" THEN None ELSE 0
  <2>1. Target(0) \in Int
    BY <1>1, TargetType
  <2>2. cmd \in {"SET_BLOCKLEN", "SEND_CID", "SEND_CSD"}
    OBVIOUS
  <2>3. /\ r.card \in DoingStates /\ r.card.idle = Rest.idle /\ r.r1 \in SUBSET R1
        /\ r.r1 = {} <=> ~Rest.idle
        /\ Rest.idle => r.card.sending = None
        /\ ~Rest.idle => r.card.sending = IF cmd = "SET_BLOCKLEN" THEN None ELSE 0
    BY <1>1, <2>1, <2>2, ObeyData
  <2>4. Rest.idle = card.doing.idle /\ card.doing.idle \in BOOLEAN
    BY <1>1, RestIs DEF CardStates
  <2> HIDE DEF r
  <2> QED BY <2>3, <2>4
<1> HIDE DEF r
<1>4. /\ card' \in CardStates /\ resp' \in SUBSET R1 /\ faults' \in 0 .. MaxFaults
      /\ shifted' \in BOOLEAN /\ (~shifted' => ~shifted)
      /\ faults' = 0 => /\ faults = 0 /\ ~shifted' /\ card'.late = NoLate
                        /\ resp' = r.r1 /\ card'.doing = r.card
  BY <1>1, <1>3, Sent DEF r
<1>5. faults' = 0 /\ Good => ~card.doing.idle
  BY <1>1, <1>4 DEF Healthy, Accepted
<1>6. CASE resp' # {}
  <2>1. Return("NO_DEV")
    BY <1>6 DEF Must
  <2> QED BY <1>1, <1>3, <1>4, <1>5, <1>6, <2>1, GivenUp
<1>7. CASE resp' = {}
  <2>1. pc' = next /\ UNCHANGED <<tfs_last_error, i, asked>>
    BY <1>7 DEF Must, Goto
  <2>2. TypeOK'
    BY <1>1, <1>4, <2>1 DEF TypeOK
  <2>3. Phase'
    BY <1>1, <1>2, <1>4, <2>1 DEF Phase, PCs, Probing, Getting, Accepted, Transfers
  <2>4. Addressed'
    BY <1>1, <1>4, <2>1 DEF Addressed, Ready, Probing, Getting, Accepted, Transfers
  <2>5. faults' = 0 => /\ ~card'.doing.idle
                       /\ card'.doing.sending = IF next = "cid" THEN None ELSE 0
    BY <1>3, <1>4, <1>7
  <2>6. Healthy'
    BY <1>1, <1>2, <1>4, <2>1, <2>5
       DEF Healthy, Ready, Probing, Getting, Accepted, Transfers
  <2> QED BY <1>1, <2>1, <2>2, <2>3, <2>4, <2>6 DEF IInv, Works
<1> QED BY <1>6, <1>7

\* Waiting for a data block: it comes, or there is none, or it is late.
LEMMA TokenIs ==
  ASSUME IInv, NEW got, wait_token(got)
  PROVE  /\ card' \in CardStates /\ card'.late = card.late
         /\ card'.doing.idle = card.doing.idle
         /\ faults' \in 0 .. MaxFaults /\ (faults' = 0 => faults = 0)
         /\ got # None => got = card.doing.sending
         /\ faults' = 0 => card'.doing.sending = None
         /\ faults' = 0 /\ got = None => card.doing.sending = None
<1>1. card \in CardStates /\ faults \in 0 .. MaxFaults /\ MaxFaults \in Nat
  BY SizeAssumption DEF IInv, TypeOK, Phase
<1>2. LET c == [card EXCEPT !.doing.sending = None]
      IN /\ c \in CardStates /\ c.late = card.late /\ c.doing.idle = card.doing.idle
         /\ c.doing.sending = None
  <2> DEFINE d == [card.doing EXCEPT !.sending = None]
             c == [card EXCEPT !.doing = d]
  <2>1. card.doing \in DoingStates
    BY <1>1 DEF CardStates, DoingStates
  <2>2. d \in DoingStates /\ d.idle = card.doing.idle /\ d.sending = None
    BY <2>1 DEF DoingStates, None
  <2>3. c = [card EXCEPT !.doing.sending = None]
    OBVIOUS
  <2> HIDE DEF d
  <2>4. c \in CardStates /\ c.late = card.late /\ c.doing = d
    BY <1>1, <2>2 DEF CardStates, DoingStates
  <2> QED BY <2>2, <2>3, <2>4
<1>3. CASE /\ card.doing.sending # None /\ got = card.doing.sending
           /\ card' = [card EXCEPT !.doing.sending = None] /\ UNCHANGED faults
  BY <1>1, <1>2, <1>3
<1>4. CASE card.doing.sending # None /\ got = None /\ Fault /\ UNCHANGED card
  BY <1>1, <1>4 DEF Fault
<1>5. CASE card.doing.sending = None /\ got = None /\ UNCHANGED <<card, faults>>
  BY <1>1, <1>5
<1> QED BY <1>3, <1>4, <1>5 DEF wait_token

\* The registers of the card.
LEMMA GetCidStep ==
  ASSUME IInv, get_cid
  PROVE  IInv' /\ Works
<1>1. /\ TypeOK /\ Phase /\ Addressed /\ Healthy /\ pc = "cid_data"
      /\ UNCHANGED <<it, type, blk_count, stored, resp, shifted>>
  BY DEF IInv, get_cid, info, ghosts
<1>2. PICK got \in {None, card.doing.sending} :
             wait_token(got) /\ IF got = None THEN Return("NO_DEV") ELSE Goto("csd")
  BY DEF get_cid
<1>3. (Described' <=> Described) /\ (Good' <=> Good) /\ BlkCount(it)' = BlkCount(it)
  BY <1>1, SameCard
<1>4. /\ card' \in CardStates /\ card'.late = card.late
      /\ card'.doing.idle = card.doing.idle
      /\ faults' \in 0 .. MaxFaults /\ (faults' = 0 => faults = 0)
      /\ faults' = 0 => card'.doing.sending = None
      /\ faults' = 0 => got # None
  BY <1>1, <1>2, TokenIs DEF Healthy, None
<1>5. CASE got = None
  <2>1. Return("NO_DEV") /\ faults' # 0
    BY <1>2, <1>4, <1>5
  <2>2. shifted \in BOOLEAN /\ resp \in SUBSET R1
    BY <1>1 DEF Phase, TypeOK
  <2> QED BY <1>1, <1>4, <2>1, <2>2, GivenUp
<1>6. CASE got # None
  <2>1. pc' = "csd" /\ UNCHANGED <<tfs_last_error, i, asked>>
    BY <1>2, <1>6 DEF Goto
  <2>2. TypeOK'
    BY <1>1, <1>4, <2>1 DEF TypeOK
  <2>3. Phase'
    BY <1>1, <1>3, <1>4, <2>1 DEF Phase, PCs, Probing, Getting, Accepted, Transfers
  <2>4. Addressed'
    BY <1>1, <2>1 DEF Addressed, Ready, Probing, Getting, Accepted, Transfers
  <2>5. Healthy'
    BY <1>1, <1>3, <1>4, <2>1 DEF Healthy, Ready, Probing, Getting, Accepted, Transfers
  <2> QED BY <2>1, <2>2, <2>3, <2>4, <2>5 DEF IInv, Works
<1> QED BY <1>5, <1>6

\* The register from which the driver computes the number of blocks.
LEMMA GetCsdStep ==
  ASSUME IInv, get_csd
  PROVE  IInv' /\ Works
<1>1. /\ TypeOK /\ Phase /\ Addressed /\ Healthy /\ pc = "csd_data"
      /\ UNCHANGED <<it, type, stored, resp, shifted>>
  BY DEF IInv, get_csd, ghosts
<1>2. PICK got \in {None, card.doing.sending} :
             /\ wait_token(got)
             /\ IF got = None THEN Return("NO_DEV") /\ UNCHANGED blk_count
                ELSE blk_count' = BlkCount(it) /\ Return("OK")
  BY DEF get_csd
<1>3. (Described' <=> Described) /\ (Good' <=> Good) /\ BlkCount(it)' = BlkCount(it)
  BY <1>1, SameCard
<1>4. /\ card' \in CardStates /\ card'.late = card.late
      /\ card'.doing.idle = card.doing.idle
      /\ faults' \in 0 .. MaxFaults /\ (faults' = 0 => faults = 0)
      /\ faults' = 0 => card'.doing.sending = None
      /\ faults' = 0 => got # None
  BY <1>1, <1>2, TokenIs DEF Healthy, None
<1>5. CASE got = None
  <2>1. Return("NO_DEV") /\ faults' # 0 /\ blk_count' = blk_count
    BY <1>2, <1>4, <1>5
  <2>2. shifted \in BOOLEAN /\ resp \in SUBSET R1
    BY <1>1 DEF Phase, TypeOK
  <2> QED BY <1>1, <1>4, <2>1, <2>2, GivenUp
<1>6. CASE got # None
  <2>1. /\ pc' = "idle" /\ tfs_last_error' = "OK" /\ i' = 0 /\ asked' = None
        /\ blk_count' = BlkCount(it) /\ BlkCount(it) \in 0 .. Word - 1
    BY <1>1, <1>2, <1>6, BlkCountType DEF Return, Phase
  <2>2. TypeOK'
    BY <1>1, <1>4, <2>1, SizeAssumption DEF TypeOK
  <2>3. Phase'
    BY <1>1, <1>3, <1>4, <2>1 DEF Phase, PCs, Probing, Getting, Accepted, Transfers
  <2>4. Addressed'
    BY <1>1, <2>1 DEF Addressed, Ready, Probing, Getting, Accepted, Transfers
  <2>5. Healthy'
    BY <1>1, <1>3, <1>4, <2>1 DEF Healthy, Ready, Probing, Getting, Accepted, Transfers
  <2> QED BY <2>1, <2>2, <2>3, <2>4, <2>5 DEF IInv, Works
<1> QED BY <1>5, <1>6

-----------------------------------------------------------------------------
(* The inductive step: drive_read_block and drive_write_block.             *)

\* Coming back from a transfer.
LEMMA TransferOver ==
  ASSUME IInv, pc \in Transfers, it' = it, type' = type, blk_count' = blk_count,
         NEW e \in {"OK", "IO"}, Return(e), card' \in CardStates, resp' \in SUBSET R1,
         faults' \in 0 .. MaxFaults, shifted' \in BOOLEAN, ~shifted' => ~shifted,
         faults' = 0 => /\ ~shifted' /\ card'.late = NoLate /\ card'.doing.sending = None
                        /\ Good => ~card'.doing.idle /\ e = "OK"
  PROVE  IInv' /\ Works
<1>1. /\ TypeOK /\ Phase /\ Addressed
      /\ pc' = "idle" /\ tfs_last_error' = e /\ i' = 0 /\ asked' = None
  BY DEF IInv, Return
<1>2. (Described' <=> Described) /\ (Good' <=> Good) /\ BlkCount(it)' = BlkCount(it)
  BY SameCard
<1>3. TypeOK'
  BY <1>1, SizeAssumption DEF TypeOK
<1>4. Phase'
  BY <1>1, <1>2 DEF Phase, PCs, Probing, Getting, Accepted, Transfers
<1>5. Addressed'
  BY <1>1 DEF Addressed, Ready, Probing, Getting, Accepted, Transfers
<1>6. Healthy'
  BY <1>1, <1>2 DEF Healthy, Ready, Probing, Getting, Accepted, Transfers
<1> QED BY <1>1, <1>3, <1>4, <1>5, <1>6 DEF IInv, Works

\* The address of the block of a running transfer.
LEMMA AskedRight ==
  ASSUME IInv, pc \in Transfers
  PROVE  /\ asked \in Nat /\ asked # None /\ Target(Address(asked)) \in Int
         /\ ~shifted /\ Described => Target(Address(asked)) = asked
<1>1. /\ TypeOK /\ Phase /\ Addressed /\ it \in Cards
      /\ asked # None /\ (asked < blk_count \/ asked = 0) /\ blk_count = BlkCount(it)
  BY DEF IInv, Phase
<1>2. asked \in Nat
  BY <1>1, Sizes DEF TypeOK
<1>3. Address(asked) \in Nat
  <2>1. Word \in Nat \ {0} /\ 2 ^ BlkWidth \in Nat \ {0}
    BY Sizes
  <2> DEFINE x == asked * 2 ^ BlkWidth
  <2>2. x \in Nat
    BY <1>2, <2>1
  <2> HIDE DEF x
  <2>3. x % Word \in Nat
    BY <2>1, <2>2, ModSmall
  <2> QED BY <1>2, <2>3 DEF Address, x
<1>4. Target(Address(asked)) \in Int
  BY <1>1, <1>3, TargetType
<1>5. ASSUME ~shifted, Described
      PROVE  Target(Address(asked)) = asked
  <2>1. type = "SDHC" <=> it.kind = "SDHC"
    BY <1>1, <1>5 DEF Addressed
  <2> QED BY <1>1, <1>2, <1>5, <2>1, AddressRight
<1> QED BY <1>1, <1>2, <1>4, <1>5

\* The command of a transfer.
LEMMA CommandStep ==
  ASSUME IInv, read_command \/ write_command
  PROVE  IInv' /\ Works
<1> DEFINE rd  == pc = "read"
           cmd == IF rd THEN "READ_SINGLE_BLOCK" ELSE "WRITE_SINGLE_BLOCK"
           to  == Target(Address(asked))
           r   == Obey(cmd, Address(asked))
<1>1. /\ TypeOK /\ Phase /\ Addressed /\ Healthy /\ pc \in {"read", "write"}
      /\ send_command(cmd, Address(asked))
      /\ IF resp' # {} THEN Return("IO") ELSE Goto(IF rd THEN "read_data" ELSE "write_data")
      /\ UNCHANGED <<it, type, blk_count, stored>> /\ it \in Cards /\ card \in CardStates
      /\ pc \in Transfers
  BY DEF IInv, read_command, write_command, info, ghosts, Phase, Transfers
<1>2. (Described' <=> Described) /\ (Good' <=> Good) /\ BlkCount(it)' = BlkCount(it)
  BY <1>1, SameCard
<1>3. /\ asked \in Nat /\ asked # None /\ to \in Int
      /\ ~shifted /\ Described => to = asked
  BY <1>1, AskedRight
<1>4. /\ r.card \in DoingStates /\ r.r1 \in SUBSET R1 /\ r.card.idle = card.doing.idle
      /\ r.r1 = {} <=> ~card.doing.idle /\ to # None
      /\ r.card.sending = IF card.doing.idle \/ ~rd THEN None ELSE to
      /\ ~rd /\ ~card.doing.idle => r.card.target = to
  <2>1. Rest.idle = card.doing.idle /\ card.doing.idle \in BOOLEAN
    BY <1>1, RestIs DEF CardStates
  <2>2. /\ r.card \in DoingStates /\ r.card.idle = Rest.idle /\ r.r1 \in SUBSET R1
        /\ r.r1 = {} <=> ~Rest.idle /\ to # None
        /\ Rest.idle => r.card.sending = None
        /\ ~Rest.idle => /\ rd => r.card.sending = to
                         /\ ~rd => r.card.target = to /\ r.card.sending = None
    BY <1>1, <1>3, ObeyData
  <2> HIDE DEF r, to
  <2> QED BY <2>1, <2>2
<1> HIDE DEF r, to
<1>5. /\ card' \in CardStates /\ resp' \in SUBSET R1 /\ faults' \in 0 .. MaxFaults
      /\ shifted' \in BOOLEAN /\ (~shifted' => ~shifted)
      /\ ~shifted' => \/ resp' = r.r1 /\ card'.doing = r.card
                      \/ resp' = NoAnswer
      /\ faults' = 0 => /\ faults = 0 /\ ~shifted' /\ card'.late = NoLate
                        /\ resp' = r.r1 /\ card'.doing = r.card
  BY <1>1, <1>4, Sent DEF r
<1>6. faults' = 0 /\ Good => ~card.doing.idle /\ to # None
  BY <1>1, <1>3, <1>5 DEF Healthy, Good
<1>7. CASE resp' # {}
  <2>1. Return("IO")
    BY <1>1, <1>7
  <2>2. faults' = 0 => card'.doing.sending = None /\ ~Good
    BY <1>4, <1>5, <1>6, <1>7
  <2> QED BY <1>1, <1>5, <2>1, <2>2, TransferOver
<1>8. CASE resp' = {}
  <2>1. pc' = (IF rd THEN "read_data" ELSE "write_data") /\ UNCHANGED <<tfs_last_error, i, asked>>
    BY <1>1, <1>8 DEF Goto
  <2>2. ~shifted' => /\ card'.doing = r.card /\ r.r1 = {}
                     /\ rd => card'.doing.sending = to
                     /\ ~rd => card'.doing.target = to /\ card'.doing.sending = None
    BY <1>4, <1>5, <1>8 DEF NoAnswer, R1
  <2>3. TypeOK'
    BY <1>1, <1>5, <2>1 DEF TypeOK
  <2>4. Phase'
    BY <1>1, <1>2, <1>5, <2>1 DEF Phase, PCs, Probing, Getting, Accepted, Transfers
  <2>5. Addressed'
    BY <1>1, <1>2, <1>3, <1>5, <2>1, <2>2
       DEF Addressed, Ready, Probing, Getting, Accepted, Transfers
  <2>6. Healthy'
    BY <1>1, <1>2, <1>4, <1>5, <1>6, <2>1, <2>2
       DEF Healthy, Ready, Probing, Getting, Accepted, Transfers
  <2> QED BY <1>1, <2>1, <2>3, <2>4, <2>5, <2>6 DEF IInv, Works
<1> QED BY <1>7, <1>8

\* The data of a block that is read.
LEMMA ReadDataStep ==
  ASSUME IInv, read_data
  PROVE  /\ IInv' /\ Works
         /\ ~shifted' /\ Described /\ tfs_last_error' = "OK" => sent' = asked
<1>1. /\ TypeOK /\ Phase /\ Addressed /\ Healthy /\ pc = "read_data" /\ pc \in Transfers
      /\ UNCHANGED <<it, type, blk_count, resp, stored, shifted>>
      /\ tfs_last_error = "OK" /\ asked # None
      /\ shifted \in BOOLEAN /\ resp \in SUBSET R1
  BY DEF IInv, read_data, info, Transfers, Phase, TypeOK
<1>2. PICK got \in {None, card.doing.sending} :
             /\ wait_token(got) /\ sent' = got
             /\ Return(IF got = None THEN "IO" ELSE tfs_last_error)
  BY DEF read_data
<1>3. /\ card' \in CardStates /\ card'.late = card.late
      /\ card'.doing.idle = card.doing.idle
      /\ faults' \in 0 .. MaxFaults /\ (faults' = 0 => faults = 0)
      /\ got # None => got = card.doing.sending
      /\ faults' = 0 => card'.doing.sending = None
      /\ faults' = 0 /\ got = None => card.doing.sending = None
  BY <1>2, TokenIs
<1>4. ~shifted /\ Described => card.doing.sending = asked
  BY <1>1 DEF Addressed
<1>5. PICK e \in {"OK", "IO"} : Return(e) /\ (e = "OK" <=> got # None)
  BY <1>1, <1>2
<1>6. faults' = 0 => /\ ~shifted' /\ card'.late = NoLate /\ card'.doing.sending = None
                     /\ Good => ~card'.doing.idle /\ e = "OK"
  BY <1>1, <1>3, <1>4, <1>5 DEF Healthy, Good
<1>7. IInv' /\ Works
  BY <1>1, <1>3, <1>5, <1>6, TransferOver
<1>8. ~shifted' /\ Described /\ tfs_last_error' = "OK" => sent' = asked
  BY <1>1, <1>2, <1>3, <1>4, <1>5 DEF Return
<1> QED BY <1>7, <1>8

\* The data of a block that is written.
LEMMA WriteDataStep ==
  ASSUME IInv, write_data
  PROVE  /\ IInv' /\ Works
         /\ ~shifted' /\ Described => stored' \subseteq {asked}
<1>1. /\ TypeOK /\ Phase /\ Addressed /\ Healthy /\ pc = "write_data" /\ pc \in Transfers
      /\ UNCHANGED <<it, type, blk_count, resp, shifted>>
      /\ stored' \subseteq {card.doing.target}
      /\ card' = [card EXCEPT !.doing.target = None]
      /\ tfs_last_error = "OK" /\ faults \in 0 .. MaxFaults /\ MaxFaults \in Nat
      /\ shifted \in BOOLEAN /\ resp \in SUBSET R1 /\ card \in CardStates
  BY SizeAssumption DEF IInv, write_data, info, Transfers, Phase, TypeOK
<1>2. PICK e \in {"OK", "IO"} : /\ Return(e)
                                /\ \/ e = "OK" /\ UNCHANGED faults
                                   \/ faults' \in 0 .. MaxFaults /\ faults' # 0
  BY <1>1 DEF write_data, Fault
<1>3. /\ card' \in CardStates /\ card'.late = card.late
      /\ card'.doing.idle = card.doing.idle /\ card'.doing.sending = card.doing.sending
  <2> DEFINE d == [card.doing EXCEPT !.target = None]
             c == [card EXCEPT !.doing = d]
  <2>1. card.doing \in DoingStates
    BY <1>1 DEF CardStates, DoingStates
  <2>2. d \in DoingStates /\ d.idle = card.doing.idle /\ d.sending = card.doing.sending
    BY <2>1 DEF DoingStates, None
  <2>3. c = card'
    BY <1>1
  <2> HIDE DEF d
  <2>4. c \in CardStates /\ c.late = card.late /\ c.doing = d
    BY <1>1, <2>2 DEF CardStates, DoingStates
  <2> QED BY <2>2, <2>3, <2>4
<1>4. faults' = 0 => /\ ~shifted' /\ card'.late = NoLate /\ card'.doing.sending = None
                     /\ Good => ~card'.doing.idle /\ e = "OK"
  BY <1>1, <1>2, <1>3 DEF Healthy
<1>5. faults' \in 0 .. MaxFaults
  BY <1>1, <1>2
<1>6. IInv' /\ Works
  BY <1>1, <1>2, <1>3, <1>4, <1>5, TransferOver
<1>7. ~shifted' /\ Described => stored' \subseteq {asked}
  BY <1>1 DEF Addressed
<1> QED BY <1>6, <1>7

-----------------------------------------------------------------------------
(* The theorems.                                                           *)

\* The invariant holds before drive_init.
LEMMA InitInv ==
  ASSUME Init
  PROVE  IInv
<1>1. /\ it \in Cards /\ card = Doing(Fresh) /\ type = "MMC" /\ blk_count = None
      /\ tfs_last_error = "OK" /\ pc = "idle" /\ i = 0 /\ resp = NoAnswer /\ asked = None
      /\ stored = {} /\ shifted = FALSE /\ faults = 0
  BY DEF Init
<1>2. card \in CardStates /\ card.late = NoLate /\ card.doing.sending = None
  <2>1. it.delay \in Nat
    BY <1>1, CardFields
  <2>2. Fresh \in DoingStates /\ Fresh.sending = None
    BY <2>1 DEF Fresh, DoingStates, None
  <2> QED BY <1>1, <2>2 DEF Doing, NoLate, NoAnswer, None, CardStates, DoingStates
<1>3. TypeOK
  BY <1>1, SizeAssumption DEF TypeOK, Types, NoAnswer
<1>4. Phase
  BY <1>1, <1>2 DEF Phase, PCs, Probing, Getting, Accepted, Transfers
<1>5. Addressed
  BY <1>1 DEF Addressed, Ready, Probing, Getting, Accepted, Transfers
<1>6. Healthy
  BY <1>1, <1>2 DEF Healthy, Ready, Probing, Getting, Accepted, Transfers
<1> QED BY <1>3, <1>4, <1>5, <1>6 DEF IInv

\* Every action of the driver keeps the invariant, gives up no good card, and moves
\* no data but those of the block it was asked for.
LEMMA NextStep ==
  ASSUME IInv, Next
  PROVE  /\ IInv' /\ Works
         /\ ~shifted' /\ Described =>
              /\ pc = "read_data" /\ tfs_last_error' = "OK" => sent' = asked
              /\ stored' \subseteq {asked}
<1>1. CASE Call
  <2>1. pc = "idle"
    BY <1>1 DEF Call, drive_init, drive_read_block, drive_write_block, call_transfer
  <2> QED BY <1>1, <2>1, CallStep
<1>2. CASE read_data
  <2>1. pc = "read_data" /\ stored' = stored
    BY <1>2 DEF read_data
  <2>2. stored = {}
    BY <2>1 DEF IInv, Phase
  <2> QED BY <1>2, <2>1, <2>2, ReadDataStep
<1>3. CASE write_data
  <2>1. pc = "write_data"
    BY <1>3 DEF write_data
  <2> QED BY <1>3, <2>1, WriteDataStep
<1>4. CASE \/ reset \/ if_cond \/ probe_app \/ probe_op \/ app \/ get_ready \/ ocr
           \/ set_blocklen \/ send_cid \/ get_cid \/ send_csd \/ get_csd
           \/ read_command \/ write_command
  <2>1. pc \notin {"idle", "read_data"} /\ stored' = stored
    BY <1>4 DEF reset, if_cond, probe_app, probe_op, app, get_ready, ocr, set_blocklen, send_cid,
                get_cid, send_csd, get_csd, read_command, write_command, Must, ghosts
  <2>2. stored' = {}
    BY <2>1 DEF IInv, Phase
  <2>3. CASE set_blocklen \/ send_cid \/ send_csd
    <3>1. IInv' /\ Works
      BY <2>3, MustStep DEF set_blocklen, send_cid, send_csd
    <3> QED BY <2>1, <2>2, <3>1
  <2>4. CASE \/ reset \/ if_cond \/ probe_app \/ probe_op \/ app \/ get_ready \/ ocr
             \/ get_cid \/ get_csd \/ read_command \/ write_command
    <3>1. IInv' /\ Works
      BY <2>4, ResetStep, IfCondStep, ProbeAppStep, ProbeOpStep, AppStep, GetReadyStep, OcrStep,
         GetCidStep, GetCsdStep, CommandStep
    <3> QED BY <2>1, <2>2, <3>1
  <2> QED BY <1>4, <2>3, <2>4
<1> QED BY <1>1, <1>2, <1>3, <1>4 DEF Next, Step

\* And while nothing happens.
LEMMA StutterStep ==
  ASSUME IInv, UNCHANGED vars
  PROVE  IInv'
<1>1. (Described' <=> Described) /\ (Good' <=> Good) /\ BlkCount(it)' = BlkCount(it)
  BY SameCard DEF vars
<1>2. TypeOK' /\ Phase'
  BY <1>1 DEF IInv, TypeOK, Phase, vars
<1>3. Addressed'
  BY <1>1 DEF IInv, Addressed, Ready, vars
<1>4. Healthy'
  BY <1>1 DEF IInv, Healthy, Ready, vars
<1> QED BY <1>2, <1>3, <1>4 DEF IInv

\* What drive_init knows of the card at each of its steps, for every card, every number
\* of lost or late answers and every limit of tries.
THEOREM DriverSound == Spec => []IInv
<1>1. Init => IInv
  BY InitInv
<1>2. IInv /\ [Next]_vars => IInv'
  BY NextStep, StutterStep
<1> QED BY <1>1, <1>2, PTL DEF Spec

\* A card that drive_init accepts is addressed the way it wants: every block below
\* blk_count has an address of its own within 32 bits.
THEOREM AddressingCorrect == Spec => []BlocksReachable
<1>1. IInv => BlocksReachable
  <2>1. SUFFICES ASSUME IInv, Ready, ~shifted, Described, NEW b \in 0 .. blk_count - 1
                 PROVE  Target(Address(b)) = b
    BY DEF BlocksReachable, IInv
  <2>2. it \in Cards /\ blk_count = BlkCount(it) /\ (type = "SDHC" <=> it.kind = "SDHC")
    BY <2>1 DEF IInv, Phase, Addressed, Ready
  <2>3. BlkCount(it) \in 0 .. Word - 1 /\ Word \in Nat
    BY <2>2, BlkCountType, Sizes
  <2>4. b \in Nat /\ b < BlkCount(it)
    BY <2>1, <2>2, <2>3
  <2> QED BY <2>1, <2>2, <2>4, AddressRight
<1> QED BY <1>1, DriverSound, PTL

\* drive_init gives up no card, and no transfer fails, as long as every command is
\* answered in time and the card gets ready within the tries.
THEOREM GoodCardAccepted == Spec => GoodCardWorks
<1>1. IInv /\ [Next]_vars =>
        [tfs_last_error' \in {"NO_DEV", "IO"} /\ pc # "idle" /\ pc' = "idle" =>
           \/ faults' > 0 \/ ~it.voltage \/ it.delay > ReadyMax \/ ~Described]_vars
  <2>1. SUFFICES ASSUME IInv, Next, tfs_last_error' \in {"NO_DEV", "IO"}, pc' = "idle"
                 PROVE  \/ faults' > 0 \/ ~it.voltage \/ it.delay > ReadyMax \/ ~Described
    OBVIOUS
  <2>2. Works /\ faults' \in 0 .. MaxFaults
    BY <2>1, NextStep DEF IInv, TypeOK
  <2>3. it.delay \in Nat /\ ReadyMax \in Nat /\ MaxFaults \in Nat
    BY <2>1, CardFields, SizeAssumption DEF IInv, Phase
  <2> QED BY <2>1, <2>2, <2>3 DEF Works, Good
<1> QED BY <1>1, DriverSound, PTL DEF Spec, GoodCardWorks

\* Data that are returned without an error are those of the block that was asked for,
\* and no other block is stored.
THEOREM NoWrongBlock == Spec => TransfersRight
<1>1. IInv /\ [Next]_vars =>
        [~shifted' /\ Described =>
           /\ pc = "read_data" /\ tfs_last_error' = "OK" => sent' = asked
           /\ stored' \subseteq {asked}]_vars
  BY NextStep
<1> QED BY <1>1, DriverSound, PTL DEF Spec, TransfersRight
=============================================================================
