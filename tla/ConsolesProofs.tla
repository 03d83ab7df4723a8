---------------------------- MODULE ConsolesProofs ----------------------------
(***************************************************************************)
(* Proofs about the front ends of the boards, for names of every length,   *)
(* whatever is typed, and directories of every size.                       *)
(***************************************************************************)
EXTENDS Consoles, SequenceTheorems, FiniteSetTheorems, WellFoundedInduction, TLAPS

-----------------------------------------------------------------------------
(* Numbers.                                                                *)

\* A set of numbers that is not empty has a least one.
LEMMA LeastNumber ==
  ASSUME NEW S \in SUBSET Nat, S # {}
  PROVE  \E x \in S : \A y \in S : x <= y
<1>1. \E x \in S : \A y \in S : ~(<<y, x>> \in OpToRel(<, Nat))
  BY NatLessThanWellFounded, WFMin
<1>2. \A x, y \in S : ~(<<y, x>> \in OpToRel(<, Nat)) => x <= y
  <2> SUFFICES ASSUME NEW x \in S, NEW y \in S, ~(x <= y)
               PROVE  <<y, x>> \in OpToRel(<, Nat)
    OBVIOUS
  <2>1. y < x /\ x \in Nat /\ y \in Nat
    OBVIOUS
  <2> QED BY <2>1 DEF OpToRel
<1> QED BY <1>1, <1>2

\* What holds at 0 and, with one number, at the next, holds up to k.
LEMMA Places ==
  ASSUME NEW k \in Nat, NEW S, 0 \in S,
         \A n \in 0 .. k - 1 : n \in S => n + 1 \in S
  PROVE  \A n \in 0 .. k : n \in S
<1> DEFINE Bad == {n \in 0 .. k : n \notin S}
<1> SUFFICES ASSUME Bad # {} PROVE FALSE
  OBVIOUS
<1>1. PICK x \in Bad : \A y \in Bad : x <= y
  <2>1. Bad \in SUBSET Nat
    OBVIOUS
  <2> HIDE DEF Bad
  <2> QED BY <2>1, LeastNumber
<1>2. x # 0 /\ x - 1 \in 0 .. k - 1
  OBVIOUS
<1>3. x - 1 \notin Bad
  BY <1>1, <1>2
<1>4. x - 1 \in S
  BY <1>2, <1>3
<1>5. (x - 1) + 1 \in S
  BY <1>2, <1>4
<1> QED BY <1>5

\* The least number is the one that Min chooses.
LEMMA MinIs ==
  ASSUME NEW S \in SUBSET Nat, S # {}
  PROVE  Min(S) \in S /\ \A y \in S : Min(S) <= y
<1>1. \E x \in S : \A y \in S : x <= y
  BY LeastNumber
<1> QED BY <1>1 DEF Min

\* Of two numbers it is one of them.
LEMMA MinOfTwo ==
  ASSUME NEW a \in Nat, NEW b \in Nat
  PROVE  Min({a, b}) \in Nat /\ Min({a, b}) <= a /\ Min({a, b}) <= b /\ (b <= a => Min({a, b}) = b)
<1>1. {a, b} \in SUBSET Nat /\ {a, b} # {}
  OBVIOUS
<1>2. Min({a, b}) \in {a, b} /\ \A y \in {a, b} : Min({a, b}) <= y
  BY <1>1, MinIs
<1> QED BY <1>2

-----------------------------------------------------------------------------
(* Names.                                                                  *)

\* What the ZX81 makes of its keys.
Small(n) == \A k \in DOMAIN n : n[k] \notin DOMAIN LowerCase

\* What the calls are given as a name.
Name(n) == n \in Seq(Chars) /\ (Zx81 => Small(n))

\* What an item keeps of a name: its beginning.
LEMMA StoredName ==
  ASSUME NEW n \in Seq(Chars)
  PROVE  /\ Stored(n) \in ItemNames
         /\ \A k \in DOMAIN Stored(n) : k \in DOMAIN n /\ Stored(n)[k] = n[k]
         /\ Len(n) <= NameLen => Stored(n) = n
         /\ NameLen <= Len(n) => Len(Stored(n)) = NameLen
<1>1. NameLen \in Nat /\ Len(n) \in Nat
  BY ConsoleAssumption
<1> DEFINE k == Min({NameLen, Len(n)})
<1>2. k \in Nat /\ k <= NameLen /\ k <= Len(n) /\ (Len(n) <= NameLen => k = Len(n))
  BY <1>1, MinOfTwo
<1>3. {NameLen, Len(n)} = {Len(n), NameLen}
  OBVIOUS
<1>4. NameLen <= Len(n) => k = NameLen
  BY <1>1, <1>3, MinOfTwo
<1>5. Stored(n) = SubSeq(n, 1, k)
  BY DEF Stored
<1> HIDE DEF k
<1> QED BY <1>1, <1>2, <1>4, <1>5 DEF ItemNames

\* Small letters are their own small letters, and a name ends where it ended.
LEMMA Lowered ==
  /\ \A c : c \notin DOMAIN LowerCase => Lower(c) = c
  /\ Lower("NUL") = "NUL"
  /\ \A c : Lower(c) = "NUL" => c = "NUL"
<1>1. DOMAIN LowerCase = {"A", "B"} /\ LowerCase["A"] = "a" /\ LowerCase["B"] = "b"
  BY DEF LowerCase
<1>2. \A c : c \notin DOMAIN LowerCase => Lower(c) = c
  BY DEF Lower
<1>3. \A c \in DOMAIN LowerCase : Lower(c) \in {"a", "b"}
  BY <1>1 DEF Lower
<1> QED BY <1>1, <1>2, <1>3

\* Keys of the ZX81 give names of that kind.
LEMMA Converted ==
  ASSUME NEW t \in Typed \cup {<<>>}
  PROVE  term_zx2ascii(t) \in Seq(Chars) /\ Small(term_zx2ascii(t))
<1>1. t \in Seq(Chars) /\ \A i \in DOMAIN t : t[i] \notin DOMAIN LowerCase
  <2>1. CASE t = <<>>
    BY <2>1
  <2>2. CASE t \in Typed
    BY <2>2, ConsoleAssumption, NameAssumption
  <2> QED BY <2>1, <2>2
<1> DEFINE k == Min({Len(t), TermLen})
<1>2. k \in Nat /\ k <= Len(t)
  BY <1>1, ConsoleAssumption, MinOfTwo
<1>3. term_zx2ascii(t) = [i \in 1 .. k |-> zx2ascii(t[i])]
  BY DEF term_zx2ascii
<1> HIDE DEF k
<1>4. \A i \in 1 .. k : i \in DOMAIN t
  BY <1>1, <1>2
<1>5. \A i \in 1 .. k : zx2ascii(t[i]) \in Chars /\ zx2ascii(t[i]) \notin DOMAIN LowerCase
  <2> TAKE i \in 1 .. k
  <2>1. t[i] \in Chars /\ t[i] \notin DOMAIN LowerCase
    BY <1>1, <1>4
  <2>2. DOMAIN LowerCase = {"A", "B"}
    BY DEF LowerCase
  <2>3. zx2ascii(t[i]) = t[i] \/ zx2ascii(t[i]) = Space
    BY DEF zx2ascii
  <2>4. Space # "A" /\ Space # "B"
    BY Zenon DEF Space
  <2>5. Space \in Chars
    BY ConsoleAssumption
  <2> QED BY <2>1, <2>2, <2>3, <2>4, <2>5
<1>6. term_zx2ascii(t) \in Seq(Chars)
  BY <1>2, <1>3, <1>5
<1>7. DOMAIN term_zx2ascii(t) = 1 .. k
  BY <1>3
<1> QED BY <1>3, <1>5, <1>6, <1>7 DEF Small

\* A name without capital letters is what filename_cmp makes of it.
LEMMA FoldedSmall ==
  ASSUME NEW n \in Seq(Chars), Small(n)
  PROVE  Folded(n) = n
<1>1. \A k \in DOMAIN n : Lower(n[k]) = n[k]
  BY Lowered DEF Small
<1>2. n = [k \in DOMAIN n |-> n[k]]
  OBVIOUS
<1>3. [k \in DOMAIN n |-> Lower(n[k])] = [k \in DOMAIN n |-> n[k]]
  BY <1>1
<1> QED BY <1>2, <1>3 DEF Folded

\* A name ends where its NUL is.
LEMMA CharIs ==
  ASSUME NEW n \in Seq(Chars), NEW i \in Nat \ {0}
  PROVE  CharAt(n, i) = "NUL" <=> Len(n) < i
<1>1. CASE i <= Len(n)
  <2>1. CharAt(n, i) = n[i] /\ n[i] \in Chars
    BY <1>1 DEF CharAt
  <2> QED BY <1>1, <2>1, NameAssumption
<1>2. CASE ~(i <= Len(n))
  BY <1>2 DEF CharAt
<1> QED BY <1>1, <1>2

\* The comparison is taken to be right where no place stops it wrongly.
LEMMA ComparesTo ==
  ASSUME NEW n, NEW m
  PROVE  /\ (\A i \in 1 .. NameLen : Lower(CharAt(m, i)) = CharAt(n, i)) /\ CharAt(n, NameLen + 1) = "NUL"
              => filename_cmp(n, m)
         /\ (\A i \in 1 .. NameLen : CharAt(m, i) = CharAt(n, i)) => strncmp(n, m)
<1> DEFINE Z == {i \in 1 .. NameLen : CharAt(n, i) \in {"NUL"} \/ Lower(CharAt(m, i)) # CharAt(n, i)}
           A == {i \in 1 .. NameLen : CharAt(n, i) \in {"NUL"} \/ CharAt(m, i) # CharAt(n, i)}
<1>1. Z \in SUBSET Nat /\ A \in SUBSET Nat /\ Z \subseteq 1 .. NameLen /\ A \subseteq 1 .. NameLen
  BY ConsoleAssumption
<1>2. filename_cmp(n, m) = IF Z = {} THEN CharAt(n, NameLen + 1) = "NUL"
                           ELSE Lower(CharAt(m, Min(Z))) = CharAt(n, Min(Z))
  BY DEF filename_cmp, Compare
<1>3. strncmp(n, m) = IF A = {} THEN TRUE ELSE CharAt(m, Min(A)) = CharAt(n, Min(A))
  BY DEF strncmp, Compare, Same
<1> HIDE DEF Z, A
<1>4. (Z # {} => Min(Z) \in 1 .. NameLen) /\ (A # {} => Min(A) \in 1 .. NameLen)
  BY <1>1, MinIs
<1> QED BY <1>2, <1>3, <1>4

\* A name that an item would be stored under is found there, on the ZX81 if it is not
\* too long for filename_cmp.
LEMMA StoredIsFound ==
  ASSUME NEW n \in Seq(Chars), NEW m \in ItemNames, Zx81 => Small(n) /\ Len(n) <= NameLen,
         Folded(m) = Folded(Stored(n))
  PROVE  TFS_FILENAME_CMP(n, m)
<1>1. NameLen \in Nat \ {0} /\ Len(n) \in Nat /\ m \in Seq(Chars) /\ Len(m) <= NameLen
  BY ConsoleAssumption DEF ItemNames
<1>2. CASE Zx81
  <2>1. Len(n) <= NameLen /\ Stored(n) = n /\ Folded(n) = n
    BY <1>2, StoredName, FoldedSmall
  <2>2. [k \in DOMAIN m |-> Lower(m[k])] = n
    BY <1>2, <2>1 DEF Folded
  <2>3. DOMAIN m = DOMAIN n /\ Len(m) = Len(n)
    BY <1>1, <2>2
  <2>4. \A i \in 1 .. NameLen : Lower(CharAt(m, i)) = CharAt(n, i)
    <3> TAKE i \in 1 .. NameLen
    <3>1. CASE i <= Len(n)
      <4>1. i \in DOMAIN m /\ CharAt(m, i) = m[i] /\ CharAt(n, i) = n[i]
        BY <1>1, <2>3, <3>1 DEF CharAt
      <4> QED BY <2>2, <4>1
    <3>2. CASE ~(i <= Len(n))
      BY <2>3, <3>2, Lowered DEF CharAt
    <3> QED BY <3>1, <3>2
  <2>5. CharAt(n, NameLen + 1) = "NUL"
    BY <1>1, <2>1 DEF CharAt
  <2> QED BY <1>2, <2>4, <2>5, ComparesTo DEF TFS_FILENAME_CMP
<1>3. CASE ~Zx81
  <2>1. m = Stored(n)
    BY <1>3 DEF Folded
  <2>2. \A i \in 1 .. NameLen : CharAt(m, i) = CharAt(n, i)
    <3> TAKE i \in 1 .. NameLen
    <3>1. CASE Len(n) <= NameLen
      BY <2>1, <3>1, StoredName
    <3>2. CASE ~(Len(n) <= NameLen)
      <4>1. Len(m) = NameLen /\ i \in DOMAIN m /\ i <= Len(n)
        BY <1>1, <2>1, <3>2, StoredName
      <4> QED BY <2>1, <4>1, <1>1, StoredName DEF CharAt
    <3> QED BY <3>1, <3>2
  <2> QED BY <1>3, <2>2, ComparesTo DEF TFS_FILENAME_CMP
<1> QED BY <1>2, <1>3

\* And the ZX81 finds nothing else under it.
LEMMA FoundIsStored ==
  ASSUME Zx81, NEW n \in Seq(Chars), Small(n), NEW m \in ItemNames,
         TFS_FILENAME_CMP(n, m)
  PROVE  Len(n) <= NameLen /\ Folded(m) = n
<1>1. NameLen \in Nat \ {0} /\ Len(n) \in Nat /\ m \in Seq(Chars) /\ Len(m) <= NameLen /\ Len(m) \in Nat
  BY ConsoleAssumption DEF ItemNames
<1> DEFINE Z == {i \in 1 .. NameLen : CharAt(n, i) \in {"NUL"} \/ Lower(CharAt(m, i)) # CharAt(n, i)}
<1>2. IF Z = {} THEN CharAt(n, NameLen + 1) = "NUL"
      ELSE Lower(CharAt(m, Min(Z))) = CharAt(n, Min(Z))
  BY DEF TFS_FILENAME_CMP, filename_cmp, Compare
<1>3. \A i \in Nat \ {0} : CharAt(n, i) = "NUL" => Len(n) < i
  BY <1>1, CharIs
<1>4. \A i \in Nat \ {0} : CharAt(m, i) = "NUL" => Len(m) < i
  BY <1>1, CharIs
<1>5. Z \in SUBSET Nat
  BY <1>1
<1>6. PICK l \in 0 .. NameLen : /\ Len(n) <= l /\ (l < NameLen => Len(m) <= l)
                                /\ \A i \in 1 .. l : CharAt(n, i) # "NUL" /\ Lower(CharAt(m, i)) = CharAt(n, i)
  <2>1. CASE Z = {}
    <3>1. Len(n) <= NameLen
      BY <1>1, <1>2, <1>3, <2>1
    <3> QED BY <1>1, <2>1, <3>1
  <2>2. CASE Z # {}
    <3> DEFINE z == Min(Z)
    <3>1. z \in Z /\ \A y \in Z : z <= y
      BY <1>5, <2>2, MinIs
    <3>2. Lower(CharAt(m, z)) = CharAt(n, z)
      BY <1>2, <2>2
    <3>3. CharAt(n, z) = "NUL" /\ z \in 1 .. NameLen
      BY <3>1, <3>2
    <3>4. CharAt(m, z) = "NUL"
      BY <3>2, <3>3, Lowered
    <3>5. Len(n) <= z - 1 /\ Len(m) <= z - 1
      BY <1>1, <1>3, <1>4, <3>3, <3>4
    <3>6. \A i \in 1 .. z - 1 : i \notin Z /\ i \in 1 .. NameLen
      BY <1>1, <3>1, <3>3
    <3>7. \A i \in 1 .. z - 1 : CharAt(n, i) # "NUL" /\ Lower(CharAt(m, i)) = CharAt(n, i)
      BY <3>6
    <3>8. z - 1 \in 0 .. NameLen
      BY <1>1, <3>3
    <3> HIDE DEF z
    <3> QED BY <1>1, <3>5, <3>7, <3>8
  <2> QED BY <2>1, <2>2
<1>7. Len(n) = l
  BY <1>1, <1>6 DEF CharAt
<1>8. Len(m) = l
  <2>1. Len(m) <= l
    BY <1>1, <1>6
  <2>2. ASSUME Len(m) < l PROVE FALSE
    <3>1. CharAt(m, l) = "NUL" /\ l \in 1 .. l
      BY <1>1, <2>2 DEF CharAt
    <3> QED BY <1>6, <3>1, Lowered
  <2> QED BY <1>1, <2>1, <2>2
<1>9. \A i \in 1 .. l : Lower(m[i]) = n[i]
  BY <1>6, <1>7, <1>8 DEF CharAt
<1>10. Folded(m) = [i \in 1 .. l |-> Lower(m[i])]
  BY <1>1, <1>8 DEF Folded
<1>11. n = [i \in 1 .. l |-> n[i]]
  BY <1>7
<1> QED BY <1>1, <1>6, <1>7, <1>9, <1>10, <1>11

-----------------------------------------------------------------------------
(* Lines.                                                                  *)

Typist == {s \in [buf : Seq(Chars), screen : Seq(Chars)] : s.buf = s.screen}

\* typing applies Key to one key after the other.
LEMMA TypingSteps ==
  ASSUME NEW keys \in Seq(Chars)
  PROVE  /\ typing(keys)[0] = [buf |-> <<>>, screen |-> <<>>]
         /\ \A n \in 0 .. Len(keys) - 1 : typing(keys)[n + 1] = Key(typing(keys)[n], keys[n + 1])
<1> DEFINE None0 == [buf |-> <<>>, screen |-> <<>>]
           L == Len(keys)
           G(g) == [n \in 0 .. L |-> IF n = 0 THEN None0 ELSE Key(g[n - 1], keys[n])]
           Part(k, g) == g[0] = None0 /\ \A n \in 0 .. k - 1 : g[n + 1] = Key(g[n], keys[n + 1])
           S == {k \in 0 .. L : \E g : Part(k, g)}
<1>0. L \in Nat
  OBVIOUS
<1>1. typing(keys) = CHOOSE g : g = G(g)
  BY DEF typing
<1> HIDE DEF None0, L
<1>2. 0 \in S
  <2>1. Part(0, [n \in {0} |-> None0])
    OBVIOUS
  <2>2. 0 \in 0 .. L
    BY <1>0
  <2> HIDE DEF Part
  <2> QED BY <2>1, <2>2
<1>3. ASSUME NEW k \in 0 .. L - 1, k \in S
      PROVE  k + 1 \in S
  <2>1. PICK g : Part(k, g)
    BY <1>3
  <2> DEFINE h == [n \in 0 .. k + 1 |-> IF n = k + 1 THEN Key(g[k], keys[k + 1]) ELSE g[n]]
  <2>2. h[0] = None0
    BY <2>1, <1>3, <1>0
  <2>3. \A n \in 0 .. (k + 1) - 1 : h[n + 1] = Key(h[n], keys[n + 1])
    <3> TAKE n \in 0 .. (k + 1) - 1
    <3>1. h[n] = g[n]
      BY <1>3, <1>0
    <3>2. CASE n = k
      BY <3>1, <3>2, <1>3, <1>0
    <3>3. CASE n # k
      <4>1. n \in 0 .. k - 1 /\ n + 1 \in 0 .. k + 1 /\ n + 1 # k + 1
        BY <3>3, <1>3, <1>0
      <4>2. h[n + 1] = g[n + 1]
        BY <4>1
      <4> QED BY <4>1, <4>2, <3>1, <2>1
    <3> QED BY <3>2, <3>3
  <2>4. Part(k + 1, h)
    BY <2>2, <2>3
  <2>5. k + 1 \in 0 .. L
    BY <1>3, <1>0
  <2> HIDE DEF h, Part
  <2> QED BY <2>4, <2>5
<1>4. L \in S
  <2> HIDE DEF S
  <2>1. \A n \in 0 .. L : n \in S
    BY <1>0, <1>2, <1>3, Places
  <2> QED BY <2>1, <1>0
<1>5. PICK g : Part(L, g)
  BY <1>4
<1> DEFINE r == [n \in 0 .. L |-> g[n]]
<1>6. r = G(r)
  <2> SUFFICES ASSUME NEW n \in 0 .. L PROVE r[n] = G(r)[n]
    OBVIOUS
  <2>1. CASE n = 0
    BY <2>1, <1>5
  <2>2. CASE n # 0
    <3>1. n - 1 \in 0 .. L - 1 /\ n - 1 \in 0 .. L /\ (n - 1) + 1 = n
      BY <2>2, <1>0
    <3>2. g[n] = Key(g[n - 1], keys[n])
      BY <3>1, <1>5
    <3>3. r[n - 1] = g[n - 1] /\ r[n] = g[n]
      BY <3>1
    <3> QED BY <3>2, <3>3, <2>2
  <2> QED BY <2>1, <2>2
<1> DEFINE t == typing(keys)
<1>7. t = G(t)
  <2> HIDE DEF G, r
  <2> QED BY <1>6, <1>1
<1> HIDE DEF t
<1>8. t[0] = None0
  BY <1>7, <1>0
<1>9. ASSUME NEW n \in 0 .. L - 1
      PROVE  t[n + 1] = Key(t[n], keys[n + 1])
  <2>1. n + 1 \in 0 .. L /\ n + 1 # 0 /\ (n + 1) - 1 = n
    BY <1>0
  <2> QED BY <2>1, <1>7
<1> QED BY <1>8, <1>9 DEF t, None0, L

\* A key does to the buffer what it does to the screen.
LEMMA KeyTyped ==
  ASSUME NEW s \in Typist, NEW k \in Chars
  PROVE  Key(s, k) \in Typist
<1>1. s.buf \in Seq(Chars) /\ s.screen = s.buf
  BY DEF Typist
<1>2. Append(s.buf, k) \in Seq(Chars)
  BY <1>1
<1>3. s.buf # <<>> => Front(s.buf) \in Seq(Chars)
  <2> SUFFICES ASSUME s.buf # <<>> PROVE Front(s.buf) \in Seq(Chars)
    OBVIOUS
  <2>1. \A i \in 1 .. Len(s.buf) - 1 : s.buf[i] \in Chars
    BY <1>1
  <2> QED BY <1>1, <2>1, SubSeqProperties DEF Front
<1> QED BY <1>1, <1>2, <1>3 DEF Key, Echo, Typist

\* So the line that is carried out is the line that is seen.
LEMMA ReadLine ==
  ASSUME NEW keys \in Lines
  PROVE  read_line[keys] \in Typist
<1>1. keys \in Seq(Chars) /\ Len(keys) \in Nat
  BY ConsoleAssumption
<1> DEFINE t == typing(keys)
           S == {n \in 0 .. Len(keys) : t[n] \in Typist}
<1>2. 0 \in S
  <2>1. <<>> \in Seq(Chars)
    OBVIOUS
  <2>2. [buf |-> <<>>, screen |-> <<>>] \in Typist
    BY <2>1 DEF Typist
  <2>3. t[0] \in Typist
    BY <1>1, <2>2, TypingSteps
  <2>4. 0 \in 0 .. Len(keys)
    BY <1>1
  <2> HIDE DEF t
  <2> QED BY <2>3, <2>4
<1>3. \A n \in 0 .. Len(keys) - 1 : n \in S => n + 1 \in S
  <2> TAKE n \in 0 .. Len(keys) - 1
  <2>1. t[n + 1] = Key(t[n], keys[n + 1])
    BY <1>1, TypingSteps
  <2>2. n + 1 \in 0 .. Len(keys) /\ keys[n + 1] \in Chars
    BY <1>1
  <2> HIDE DEF t
  <2> QED BY <2>1, <2>2, KeyTyped
<1>4. \A n \in 0 .. Len(keys) : n \in S
  <2> HIDE DEF S
  <2> QED BY <1>1, <1>2, <1>3, Places
<1> QED BY <1>1, <1>4 DEF read_line

\* Parts of a line are sequences of characters.
LEMMA PartsOfLine ==
  ASSUME NEW l \in Seq(Chars)
  PROVE  /\ Trim(l) \in Seq(Chars) /\ Word(l) \in Seq(Chars)
         /\ Blanks(l) # {} => Rest(l) \in Seq(Chars)
<1>1. Len(l) \in Nat /\ \A i \in 1 .. Len(l) : l[i] \in Chars
  OBVIOUS
<1>2. Trim(l) \in Seq(Chars)
  <2> DEFINE S == {i \in DOMAIN l : ~Blank(l[i])} \cup {0}
             C == {Len(l) - x : x \in S}
  <2>1. S \subseteq 0 .. Len(l) /\ C \in SUBSET Nat /\ 0 \in S /\ C # {}
    BY <1>1
  <2>2. PICK c \in C : \A y \in C : c <= y
    <3> HIDE DEF C
    <3> QED BY <2>1, LeastNumber
  <2>3. PICK x \in S : c = Len(l) - x
    BY <2>2
  <2>4. \A y \in S : Len(l) - y \in C /\ y \in 0 .. Len(l)
    BY <2>1
  <2>5. \A y \in S : y <= x
    <3> HIDE DEF C, S
    <3> QED BY <1>1, <2>1, <2>2, <2>3, <2>4
  <2>6. Max(S) \in S
    <3> HIDE DEF C, S
    <3> QED BY <2>3, <2>5 DEF Max
  <2>7. Trim(l) = SubSeq(l, 1, Max(S))
    BY DEF Trim
  <2>8. Max(S) \in 0 .. Len(l)
    BY <2>1, <2>6
  <2> HIDE DEF S
  <2> QED BY <1>1, <2>7, <2>8, SubSeqProperties
<1>3. ASSUME Blanks(l) # {} PROVE Min(Blanks(l)) \in 1 .. Len(l)
  <2>1. Blanks(l) \subseteq 1 .. Len(l) /\ Blanks(l) \in SUBSET Nat
    BY <1>1 DEF Blanks
  <2> QED BY <1>3, <2>1, MinIs
<1>4. ASSUME Blanks(l) # {} PROVE Word(l) \in Seq(Chars) /\ Rest(l) \in Seq(Chars)
  <2> DEFINE b == Min(Blanks(l))
  <2>1. b \in 1 .. Len(l)
    BY <1>3, <1>4
  <2>2. Word(l) = SubSeq(l, 1, b - 1) /\ Rest(l) = SubSeq(l, b + 1, Len(l))
    BY <1>4 DEF Word, Rest
  <2> HIDE DEF b
  <2> QED BY <1>1, <2>1, <2>2, SubSeqProperties
<1>5. Blanks(l) = {} => Word(l) = l
  BY DEF Word
<1> QED BY <1>2, <1>4, <1>5

\* Every name that the AVR passes on is one.
LEMMA AvrNames ==
  ASSUME ~Zx81, NEW keys \in Lines
  PROVE  LET l == Trim(read_line[keys].buf)
         IN /\ \A n \in Params(l) : Name(n)
            /\ Blanks(l) # {} => /\ Name(Word(Rest(l)))
                                 /\ Blanks(Rest(l)) # {} => Name(Rest(Rest(l)))
<1> DEFINE l == Trim(read_line[keys].buf)
<1>1. read_line[keys].buf \in Seq(Chars)
  BY ReadLine DEF Typist
<1>2. l \in Seq(Chars)
  BY <1>1, PartsOfLine
<1> SUFFICES /\ \A n \in Params(l) : Name(n)
             /\ Blanks(l) # {} => /\ Name(Word(Rest(l)))
                                  /\ Blanks(Rest(l)) # {} => Name(Rest(Rest(l)))
  OBVIOUS
<1> HIDE DEF l
<1>3. Blanks(l) # {} => Rest(l) \in Seq(Chars)
  BY <1>2, PartsOfLine
<1>4. ASSUME NEW n \in Params(l) PROVE n \in Seq(Chars)
  <2>1. <<>> \in Seq(Chars) /\ Typed \subseteq Seq(Chars)
    BY ConsoleAssumption
  <2>2. n \in {<<>>} \cup Typed \/ (Blanks(l) # {} /\ n = Rest(l))
    BY DEF Params
  <2> QED BY <1>3, <2>1, <2>2
<1>5. Blanks(l) # {} => /\ Word(Rest(l)) \in Seq(Chars)
                        /\ Blanks(Rest(l)) # {} => Rest(Rest(l)) \in Seq(Chars)
  BY <1>3, PartsOfLine
<1>6. \A n \in Seq(Chars) : Name(n)
  BY DEF Name
<1> QED BY <1>4, <1>5, <1>6

-----------------------------------------------------------------------------
(* What the calls do to the items.                                         *)

Items == [dir : Slots \cup {ROOT}, name : ItemNames, type : {"FREE", "FILE", "DIR"},
          data : Programs \cup {None}]

\* find_file finds one of the items that match, if there are any.
LEMMA FindFile ==
  ASSUME NEW n
  PROVE  /\ find_file(n) \subseteq Matches(n) /\ Matches(n) \subseteq ItemsIn(cwd)
         /\ ItemsIn(cwd) \subseteq Slots
         /\ find_file(n) = {} => Matches(n) = {}
<1>1. Matches(n) \subseteq ItemsIn(cwd) /\ ItemsIn(cwd) \subseteq Slots
  BY DEF Matches, ItemsIn
<1>2. Matches(n) # {} => Min(Matches(n)) \in Matches(n)
  <2>1. Matches(n) \in SUBSET Nat
    BY <1>1, ConsoleAssumption
  <2> QED BY <2>1, MinIs
<1> QED BY <1>1, <1>2 DEF find_file

\* Distinct in the next state, the board being the same.
LEMMA DistinctNext ==
  ASSUME board' = board,
         overlong' \/ \A i, j \in Slots :
           items'[i].type # "FREE" /\ items'[j].type # "FREE" /\ items'[i].dir = items'[j].dir
             /\ Folded(items'[i].name) = Folded(items'[j].name) => i = j
  PROVE  Distinct'
BY DEF Distinct, Folded, Zx81

\* A call that changes no item keeps items and names in order.
LEMMA ItemsSame ==
  ASSUME Shapes, Distinct, UNCHANGED <<board, items, overlong>>,
         cwd' \in Slots \cup {ROOT, Unknown}, cwd' \in Slots => items[cwd'].type = "DIR",
         memory' \in Programs \cup {None}, tfs_last_error' \in Codes
  PROVE  Shapes' /\ Distinct'
<1>1. Shapes'
  BY DEF Shapes
<1>2. Distinct'
  BY DistinctNext DEF Distinct
<1> QED BY <1>1, <1>2

\* A name that find_file has not found is no other item's.
LEMMA NewName ==
  ASSUME Shapes, NEW n, Name(n), find_file(n) = {}, Zx81 => Len(n) <= NameLen,
         NEW j \in ItemsIn(cwd)
  PROVE  Folded(items[j].name) # Folded(Stored(n))
<1>1. j \notin Matches(n) /\ j \in Slots
  BY FindFile
<1>2. ~TFS_FILENAME_CMP(n, items[j].name)
  BY <1>1 DEF Matches
<1>3. items[j].name \in ItemNames
  BY <1>1 DEF Shapes
<1> QED BY <1>2, <1>3, StoredIsFound DEF Name

\* A new item of a name that nothing in the directory has.
LEMMA PutKeeps ==
  ASSUME Shapes, Distinct, board' = board, NEW n, Name(n), find_file(n) = {}, cwd # Unknown,
         NEW type \in {"FILE", "DIR"}, NEW data \in Programs \cup {None},
         Put(n, type, data), tfs_last_error' \in Codes
  PROVE  Shapes' /\ Distinct'
<1> DEFINE s == Min(FreeSlots)
           x == [dir |-> cwd, name |-> Stored(n), type |-> type, data |-> data]
<1>1. s \in Slots /\ items[s].type = "FREE"
  <2>1. FreeSlots \in SUBSET Nat /\ FreeSlots # {}
    BY ConsoleAssumption DEF FreeSlots, Put
  <2>2. s \in FreeSlots
    BY <2>1, MinIs
  <2> QED BY <2>2 DEF FreeSlots
<1>2. items' = [items EXCEPT ![s] = x] /\ cwd' = cwd /\ memory' = memory
      /\ overlong' = (overlong \/ (Zx81 /\ Len(n) > NameLen))
  BY DEF Put
<1>3. x \in Items /\ x.type = type /\ x.dir = cwd /\ x.name = Stored(n) /\ type # "FREE"
  BY StoredName DEF Items, Shapes, Name
<1>4. cwd # s /\ s # ROOT
  BY <1>1, ConsoleAssumption DEF Shapes, ROOT
<1> HIDE DEF s, x
<1>5. items \in [Slots -> Items]
  BY DEF Shapes, Items
<1>6. items'[s] = x /\ \A i \in Slots : i # s => items'[i] = items[i]
  BY <1>1, <1>2, <1>5
<1>7. items' \in [Slots -> Items]
  BY <1>1, <1>2, <1>3, <1>5
<1>8. cwd \in Slots \cup {ROOT} /\ (cwd \in Slots => items[cwd].type = "DIR" /\ items'[cwd] = items[cwd])
  BY <1>4, <1>6 DEF Shapes
<1>9. ASSUME NEW i \in Slots
      PROVE  /\ items'[i].dir # i
             /\ items'[i].dir # ROOT => items'[items'[i].dir].type = "DIR" /\ items'[i].type # "FREE"
  <2>1. CASE i = s
    BY <2>1, <1>3, <1>4, <1>6, <1>8
  <2>2. CASE i # s
    <3>1. items'[i] = items[i] /\ items[i].dir # i
      BY <2>2, <1>6 DEF Shapes
    <3>2. ASSUME items[i].dir # ROOT
          PROVE  items'[items[i].dir].type = "DIR" /\ items[i].type # "FREE"
      <4>1. items[items[i].dir].type = "DIR" /\ items[i].type # "FREE"
        BY <3>2 DEF Shapes
      <4>2. items[i].dir \in Slots /\ items[i].dir # s
        BY <3>2, <4>1, <1>1 DEF Shapes
      <4> QED BY <4>1, <4>2, <1>6
    <3> QED BY <3>1, <3>2
  <2> QED BY <2>1, <2>2
<1>10. Shapes'
  <2>1. memory' \in Programs \cup {None}
    BY <1>2 DEF Shapes
  <2> QED BY <1>2, <1>7, <1>8, <1>9, <2>1 DEF Shapes, Items
<1>12. ASSUME ~overlong', NEW j \in Slots, j # s, items'[j].type # "FREE", items'[j].dir = cwd
       PROVE  Folded(items'[j].name) # Folded(x.name)
  <2>1. j \in ItemsIn(cwd)
    BY <1>6, <1>12 DEF ItemsIn
  <2>2. Len(n) \in Nat /\ NameLen \in Nat
    BY ConsoleAssumption DEF Name
  <2>3. Zx81 => Len(n) <= NameLen
    <3>1. ~(Zx81 /\ Len(n) > NameLen)
      BY <1>2, <1>12, Zenon
    <3> QED BY <3>1, <2>2
  <2>4. Folded(items[j].name) # Folded(Stored(n))
    BY <2>1, <2>3, NewName, <1>2 DEF Put
  <2>5. items'[j] = items[j] /\ x.name = Stored(n)
    BY <1>3, <1>6, <1>12
  <2> QED BY <2>4, <2>5
<1>13. overlong' \/ \A i, j \in Slots :
           items'[i].type # "FREE" /\ items'[j].type # "FREE" /\ items'[i].dir = items'[j].dir
             /\ Folded(items'[i].name) = Folded(items'[j].name) => i = j
  <2> SUFFICES ASSUME ~overlong', NEW i \in Slots, NEW j \in Slots,
                      items'[i].type # "FREE", items'[j].type # "FREE", items'[i].dir = items'[j].dir,
                      Folded(items'[i].name) = Folded(items'[j].name), i # j
               PROVE  FALSE
    OBVIOUS
  <2>1. CASE i = s
    BY <2>1, <1>3, <1>6, <1>12
  <2>2. CASE j = s
    BY <2>2, <1>3, <1>6, <1>12
  <2>3. CASE i # s /\ j # s
    BY <2>3, <1>2, <1>6 DEF Distinct
  <2> QED BY <2>1, <2>2, <2>3
<1> QED BY <1>10, <1>13, DistinctNext

\* An item gets another name, or the same in other letters; nothing else of it that
\* matters here changes.
LEMMA RenamedKeeps ==
  ASSUME Shapes, Distinct, board' = board, NEW i \in ItemsIn(cwd), NEW n, Name(n),
         NEW data \in Programs \cup {None},
         items' = [items EXCEPT ![i] = [@ EXCEPT !.name = Stored(n), !.data = data]],
         \A j \in ItemsIn(cwd) : j # i /\ ~overlong' => Folded(items[j].name) # Folded(Stored(n)),
         overlong => overlong', UNCHANGED <<cwd, memory>>, tfs_last_error' \in Codes
  PROVE  Shapes' /\ Distinct'
<1>1. i \in Slots /\ items[i].type # "FREE" /\ items[i].dir = cwd
  BY DEF ItemsIn
<1>2. items \in [Slots -> Items]
  BY DEF Shapes, Items
<1>3. Stored(n) \in ItemNames
  BY StoredName DEF Name
<1>4. /\ items'[i].name = Stored(n) /\ items'[i].dir = items[i].dir /\ items'[i].type = items[i].type
      /\ \A j \in Slots : j # i => items'[j] = items[j]
  BY <1>1, <1>2 DEF Items
<1>5. items' \in [Slots -> Items]
  BY <1>1, <1>2, <1>3 DEF Items
<1>6. \A j \in Slots : items'[j].dir = items[j].dir /\ items'[j].type = items[j].type
  BY <1>4
<1>7. cwd' \in Slots => items'[cwd'].type = "DIR"
  BY <1>6 DEF Shapes
<1>8. Shapes'
  <2>1. memory' \in Programs \cup {None} /\ cwd' \in Slots \cup {ROOT, Unknown}
    BY DEF Shapes
  <2>2. ASSUME NEW j \in Slots
        PROVE  /\ items'[j].dir # j
               /\ items'[j].dir # ROOT => items'[items'[j].dir].type = "DIR" /\ items'[j].type # "FREE"
    <3>1. items[j].dir \in Slots \cup {ROOT}
      BY <1>2 DEF Items
    <3> QED BY <3>1, <1>6 DEF Shapes
  <2> QED BY <1>5, <1>7, <2>1, <2>2 DEF Shapes, Items
<1>10. overlong' \/ \A j, k \in Slots :
           items'[j].type # "FREE" /\ items'[k].type # "FREE" /\ items'[j].dir = items'[k].dir
             /\ Folded(items'[j].name) = Folded(items'[k].name) => j = k
  <2> SUFFICES ASSUME ~overlong', NEW j \in Slots, NEW k \in Slots,
                      items'[j].type # "FREE", items'[k].type # "FREE", items'[j].dir = items'[k].dir,
                      Folded(items'[j].name) = Folded(items'[k].name), j # k
               PROVE  FALSE
    OBVIOUS
  <2>1. CASE j = i
    <3>1. k \in ItemsIn(cwd) /\ items'[k] = items[k]
      BY <2>1, <1>1, <1>4, <1>6 DEF ItemsIn
    <3> QED BY <2>1, <3>1, <1>4
  <2>2. CASE k = i
    <3>1. j \in ItemsIn(cwd) /\ items'[j] = items[j]
      BY <2>2, <1>1, <1>4, <1>6 DEF ItemsIn
    <3> QED BY <2>2, <3>1, <1>4
  <2>3. CASE j # i /\ k # i
    BY <2>3, <1>4 DEF Distinct
  <2> QED BY <2>1, <2>2, <2>3
<1> QED BY <1>8, <1>10, DistinctNext

\* An item that nothing is in is freed.
LEMMA FreedKeeps ==
  ASSUME Shapes, Distinct, board' = board, NEW i \in ItemsIn(cwd), ItemsIn(i) = {},
         items' = [items EXCEPT ![i] = FreeItem],
         UNCHANGED <<cwd, memory, overlong>>, tfs_last_error' \in Codes
  PROVE  Shapes' /\ Distinct'
<1>1. i \in Slots /\ items[i].dir = cwd /\ i # ROOT
  BY ConsoleAssumption DEF ItemsIn, ROOT
<1>2. items \in [Slots -> Items] /\ cwd # i
  BY <1>1 DEF Shapes, Items
<1>3. FreeItem.dir = ROOT /\ FreeItem.type = "FREE" /\ FreeItem.name = <<>> /\ FreeItem \in Items
  <2>1. <<>> \in ItemNames
    BY ConsoleAssumption DEF ItemNames
  <2> QED BY <2>1 DEF FreeItem, Items
<1>4. items'[i] = FreeItem /\ \A j \in Slots : j # i => items'[j] = items[j]
  BY <1>1, <1>2
<1>5. items' \in [Slots -> Items]
  BY <1>1, <1>2, <1>3
<1>6. ASSUME NEW j \in Slots
      PROVE  /\ items'[j].dir # j
             /\ items'[j].dir # ROOT => items'[items'[j].dir].type = "DIR" /\ items'[j].type # "FREE"
  <2>1. CASE j = i
    BY <2>1, <1>1, <1>3, <1>4
  <2>2. CASE j # i
    <3>1. items'[j] = items[j] /\ items[j].dir # j /\ items[j].dir \in Slots \cup {ROOT}
      BY <2>2, <1>2, <1>4 DEF Shapes, Items
    <3>2. items[j].dir # i
      BY <1>1 DEF ItemsIn, Shapes
    <3> QED BY <3>1, <3>2, <1>4 DEF Shapes
  <2> QED BY <2>1, <2>2
<1>7. Shapes'
  <2>1. cwd' \in Slots \cup {ROOT, Unknown} /\ memory' \in Programs \cup {None}
    BY DEF Shapes
  <2>2. cwd' \in Slots => items'[cwd'].type = "DIR"
    BY <1>2, <1>4 DEF Shapes
  <2> QED BY <1>5, <1>6, <2>1, <2>2 DEF Shapes, Items
<1>9. overlong' \/ \A j, k \in Slots :
           items'[j].type # "FREE" /\ items'[k].type # "FREE" /\ items'[j].dir = items'[k].dir
             /\ Folded(items'[j].name) = Folded(items'[k].name) => j = k
  BY <1>3, <1>4 DEF Distinct
<1> QED BY <1>7, <1>9, DistinctNext

\* The drive is empty.
LEMMA FormatKeeps ==
  ASSUME Shapes, board' = board, items' = [i \in Slots |-> FreeItem], cwd' \in {ROOT, Unknown},
         UNCHANGED <<memory, overlong>>, tfs_last_error' \in {"OK", "IO"}
  PROVE  Shapes' /\ Distinct'
<1>1. FreeItem.dir = ROOT /\ FreeItem.type = "FREE" /\ FreeItem.name = <<>> /\ FreeItem \in Items
  <2>1. <<>> \in ItemNames
    BY ConsoleAssumption DEF ItemNames
  <2> QED BY <2>1 DEF FreeItem, Items
<1>2. ROOT \notin Slots /\ Unknown \notin Slots
  BY ConsoleAssumption DEF ROOT, Unknown
<1>3. Shapes'
  BY <1>1, <1>2 DEF Shapes, Items, Codes
<1>5. overlong' \/ \A j, k \in Slots :
           items'[j].type # "FREE" /\ items'[k].type # "FREE" /\ items'[j].dir = items'[k].dir
             /\ Folded(items'[j].name) = Folded(items'[k].name) => j = k
  BY <1>1
<1> QED BY <1>3, <1>5, DistinctNext

-----------------------------------------------------------------------------
(* The calls.                                                              *)

Sound == Shapes /\ Distinct

\* A call that fails changes nothing but the error.
LEMMA Fails ==
  ASSUME Sound, board' = board, NEW e \in Codes, Err(e)
  PROVE  Sound'
BY ItemsSame DEF Sound, Err, Shapes

\* A call without a device changes nothing.
LEMMA Nothing0 ==
  ASSUME Sound, UNCHANGED <<board, api>>
  PROVE  Sound'
BY ItemsSame DEF Sound, api, Shapes

\* A call that finds anything does not either.
LEMMA FindsAnything ==
  ASSUME Sound, board' = board, Anything
  PROVE  Sound'
BY ItemsSame DEF Sound, Anything, Shapes

\* md and SAVE ">name" keep the items in order.
LEMMA CreateDir ==
  ASSUME Sound, board' = board, NEW n, Name(n), tfs_create_dir(n)
  PROVE  Sound'
<1>1. CASE UNCHANGED api
  BY <1>1, Nothing0
<1>2. CASE \E e \in Codes : Err(e)
  BY <1>2, Fails
<1>3. CASE cwd # Unknown /\ find_file(n) = {} /\ Put(n, "DIR", None) /\ Written
  <2>1. tfs_last_error' \in Codes
    BY <1>3 DEF Written, Codes
  <2> QED BY <1>3, <2>1, PutKeeps DEF Sound
<1> QED BY <1>1, <1>2, FindsAnything, <1>3 DEF tfs_create_dir, Named, Call, Drive, Codes

\* SAVE of a program does, whether it is new, written over, or cut short.
LEMMA WriteFile ==
  ASSUME Sound, board' = board, Zx81, NEW n, Name(n), NEW prog \in Programs, tfs_write_file(n, prog)
  PROVE  Sound'
<1> DEFINE data == IF tfs_last_error' = "OK" THEN prog ELSE None
<1>1. CASE UNCHANGED api
  BY <1>1, Nothing0
<1>2. CASE \E e \in Codes : Err(e)
  BY <1>2, Fails
<1>3. data \in Programs \cup {None}
  OBVIOUS
<1> HIDE DEF data
<1>4. CASE cwd # Unknown /\ tfs_last_error' \in Codes /\ find_file(n) = {} /\ Put(n, "FILE", data)
  BY <1>3, <1>4, PutKeeps DEF Sound
<1>5. ASSUME tfs_last_error' \in Codes, NEW i \in find_file(n),
             items' = [items EXCEPT ![i].data = data, ![i].name = Stored(n)],
             UNCHANGED <<cwd, memory, overlong>>
      PROVE  Sound'
  <2>1. i \in Matches(n) /\ i \in ItemsIn(cwd) /\ i \in Slots
    BY <1>5, FindFile
  <2>2. items' = [items EXCEPT ![i] = [@ EXCEPT !.name = Stored(n), !.data = data]]
    <3>1. items[i] \in Items
      BY <2>1 DEF Sound, Shapes, Items
    <3> QED BY <1>5, <2>1, <3>1 DEF Sound, Shapes, Items
  <2>3. ASSUME NEW j \in ItemsIn(cwd), j # i, ~overlong'
        PROVE  Folded(items[j].name) # Folded(Stored(n))
    <3>1. items[i].name \in ItemNames
      BY <2>1 DEF Sound, Shapes
    <3>2. n \in Seq(Chars) /\ Small(n)
      BY DEF Name
    <3>3. Len(n) <= NameLen /\ Folded(items[i].name) = n
      BY <2>1, <3>1, <3>2, FoundIsStored DEF Matches
    <3>4. Folded(Stored(n)) = n
      BY <3>2, <3>3, StoredName, FoldedSmall
    <3>5. ~overlong
      BY <1>5, <2>3
    <3> QED BY <2>1, <2>3, <3>3, <3>4, <3>5 DEF Sound, Distinct, ItemsIn
  <2> QED BY <1>3, <1>5, <2>1, <2>2, <2>3, RenamedKeeps DEF Sound
<1>6. tfs_last_error' \in {"OK", "IO", "DISK_FULL"} => tfs_last_error' \in Codes
  BY DEF Codes
<1> QED BY <1>1, <1>2, FindsAnything, <1>4, <1>5, <1>6 DEF tfs_write_file, Named, Call, Drive, Codes, data

\* LOAD does: it changes memory only.
LEMMA ReadFile ==
  ASSUME Sound, board' = board, NEW n, tfs_read_file(n)
  PROVE  Sound'
<1>1. CASE UNCHANGED api
  BY <1>1, Nothing0
<1>2. CASE \E e \in Codes : Err(e)
  BY <1>2, Fails
<1>3. ASSUME NEW i \in find_file(n), UNCHANGED <<items, cwd, overlong>>,
             memory' \in {items[i].data, None}, tfs_last_error' \in Codes
      PROVE  Sound'
  <2>1. i \in Slots
    BY FindFile
  <2>2. items[i].data \in Programs \cup {None}
    BY <2>1 DEF Sound, Shapes
  <2> QED BY <1>3, <2>2, ItemsSame DEF Sound, Shapes
<1> QED BY <1>1, <1>2, FindsAnything, <1>3 DEF tfs_read_file, Named, Call, Drive, Codes

\* rm and SAVE "-name" do: what goes has nothing inside.
LEMMA Delete ==
  ASSUME Sound, board' = board, NEW n, tfs_delete(n)
  PROVE  Sound'
<1>1. CASE UNCHANGED api
  BY <1>1, Nothing0
<1>2. CASE \E e \in Codes : Err(e)
  BY <1>2, Fails
<1>3. ASSUME NEW i \in find_file(n), ItemsIn(i) = {}, items' = [items EXCEPT ![i] = FreeItem],
             Written, UNCHANGED <<cwd, memory, overlong>>
      PROVE  Sound'
  <2>1. i \in ItemsIn(cwd) /\ tfs_last_error' \in Codes
    BY <1>3, FindFile DEF Written, Codes
  <2> QED BY <1>3, <2>1, FreedKeeps DEF Sound
<1> QED BY <1>1, <1>2, FindsAnything, <1>3 DEF tfs_delete, Named, Call, Drive, Codes

\* mv and SAVE "=name:name" do: the name is free.
LEMMA Rename ==
  ASSUME Sound, board' = board, NEW n, NEW to, Name(to), tfs_rename(n, to)
  PROVE  Sound'
<1>1. CASE UNCHANGED api
  BY <1>1, Nothing0
<1>2. CASE \E e \in Codes : Err(e)
  BY <1>2, Fails
<1>3. ASSUME NEW i \in find_file(n), ~Taken(to), items' = [items EXCEPT ![i].name = Stored(to)],
             overlong' = (overlong \/ (Zx81 /\ Len(to) > NameLen)), Written, UNCHANGED <<cwd, memory>>
      PROVE  Sound'
  <2>1. i \in ItemsIn(cwd) /\ i \in Slots /\ tfs_last_error' \in Codes
    BY <1>3, FindFile DEF Written, Codes
  <2>2. items \in [Slots -> Items] /\ items[i] \in Items /\ items[i].data \in Programs \cup {None}
    BY <2>1 DEF Sound, Shapes, Items
  <2>3. items' = [items EXCEPT ![i] = [@ EXCEPT !.name = Stored(to), !.data = items[i].data]]
    BY <1>3, <2>1, <2>2 DEF Items
  <2>4. ASSUME NEW j \in ItemsIn(cwd), j # i, ~overlong'
        PROVE  Folded(items[j].name) # Folded(Stored(to))
    <3>1. Len(to) \in Nat /\ NameLen \in Nat
      BY ConsoleAssumption DEF Name
    <3>2. Zx81 => Len(to) <= NameLen
      <4>1. ~(Zx81 /\ Len(to) > NameLen)
        BY <1>3, <2>4, Zenon
      <4> QED BY <4>1, <3>1
    <3> QED BY <1>3, <3>2, NewName DEF Sound, Taken
  <2>5. overlong => overlong'
    BY <1>3
  <2> QED BY <1>3, <2>1, <2>2, <2>3, <2>4, <2>5, RenamedKeeps DEF Sound
<1> QED BY <1>1, <1>2, FindsAnything, <1>3 DEF tfs_rename, Named, Call, Drive, Codes

\* cd to a directory that is found.
LEMMA ChangeDir ==
  ASSUME Sound, board' = board, NEW n, tfs_change_dir(n)
  PROVE  Sound'
<1>1. CASE UNCHANGED api
  BY <1>1, Nothing0
<1>2. CASE \E e \in Codes : Err(e)
  BY <1>2, Fails
<1>3. ASSUME NEW i \in find_file(n), items[i].type = "DIR", Go(i)
      PROVE  Sound'
  BY <1>3, FindFile, ItemsSame DEF Sound, Go, Codes, Shapes
<1> QED BY <1>1, <1>2, FindsAnything, <1>3 DEF tfs_change_dir, Named, Call, Drive, Codes

\* cd to the directory above and to the root.
LEMMA ChangeDirUp ==
  ASSUME Sound, board' = board, tfs_change_dir_parent \/ tfs_change_dir_root
  PROVE  Sound'
<1>1. CASE UNCHANGED api
  BY <1>1, Nothing0
<1>2. CASE \E e \in Codes : Err(e)
  BY <1>2, Fails
<1>5. ROOT \notin Slots /\ Unknown \notin Slots
  BY ConsoleAssumption DEF ROOT, Unknown
<1>3. CASE cwd \notin {ROOT, Unknown} /\ Go(items[cwd].dir)
  <2>1. items[cwd].dir \in Slots \cup {ROOT}
        /\ (items[cwd].dir # ROOT => items[items[cwd].dir].type = "DIR")
    BY <1>3 DEF Sound, Shapes
  <2> QED BY <1>3, <1>5, <2>1, ItemsSame DEF Sound, Go, Codes, Shapes
<1>4. CASE tfs_change_dir_root
  <2>1. cwd' \in {ROOT, Unknown} /\ UNCHANGED <<items, tfs_last_error, memory, overlong>>
    BY <1>4 DEF tfs_change_dir_root, ToRoot
  <2> QED BY <1>5, <2>1, ItemsSame DEF Sound, Shapes
<1> QED BY <1>1, <1>2, FindsAnything, <1>3, <1>4 DEF tfs_change_dir_parent, Call, Drive, Codes

\* mkfs leaves an empty card.
LEMMA Format ==
  ASSUME Sound, board' = board, tfs_format
  PROVE  Sound'
<1>1. CASE UNCHANGED api
  BY <1>1, Nothing0
<1>2. CASE Err("IO")
  BY <1>2, Fails DEF Codes
<1>3. CASE items' = [i \in Slots |-> FreeItem] /\ cwd' \in {ROOT, Unknown} /\ tfs_last_error' \in {"OK", "IO"}
           /\ UNCHANGED <<memory, overlong>>
  BY <1>3, FormatKeeps DEF Sound
<1> QED BY <1>1, <1>2, <1>3 DEF tfs_format, Drive

\* Listings and the number of blocks in use change nothing.
LEMMA Shows ==
  ASSUME Sound, board' = board, list_dir \/ show_used
  PROVE  Sound'
<1>1. CASE UNCHANGED api
  BY <1>1, Nothing0
<1>2. CASE Err("IO") \/ Err("OK")
  BY <1>2, Fails DEF Codes
<1> QED BY <1>1, <1>2, FindsAnything DEF list_dir, show_used, Call, Drive, Codes

-----------------------------------------------------------------------------
(* The drive.                                                              *)

\* No call gets at the drive, or clears the error, without a device.
Access == /\ tfs_last_error = "NO_DEV" => tfs_last_error' = "NO_DEV" /\ (touched' => touched)
          /\ touched' => touched \/ ~ready

\* Every call of the file system leaves the drive alone while there is no device.
LEMMA CallAccess ==
  /\ \A n : tfs_create_dir(n) => Access
  /\ \A n, prog : tfs_write_file(n, prog) => Access
  /\ \A n : tfs_read_file(n) => Access
  /\ \A n : tfs_delete(n) => Access
  /\ \A n, to : tfs_rename(n, to) => Access
  /\ \A n : tfs_change_dir(n) => Access
  /\ tfs_change_dir_parent => Access
  /\ tfs_change_dir_root => Access
  /\ tfs_format => Access
  /\ list_dir => Access
  /\ show_used => Access
  /\ UNCHANGED api => Access
<1> DEFINE Calls(body) == \/ tfs_last_error = "NO_DEV" /\ UNCHANGED api
                          \/ tfs_last_error # "NO_DEV" /\ touched' = (touched \/ ~ready)
           Refuses == tfs_last_error # "NO_DEV" /\ UNCHANGED touched
<1>1. Calls(TRUE) => Access
  <2>1. UNCHANGED api => touched' = touched /\ tfs_last_error' = tfs_last_error
    BY DEF api
  <2> QED BY <2>1, Zenon DEF Access
<1>2. Refuses => Access
  BY DEF Access
<1>3. UNCHANGED api => Access
  BY DEF api, Access
<1>4. tfs_change_dir_root => Access
  BY DEF tfs_change_dir_root, Access
<1>5. /\ \A n : tfs_create_dir(n) => Calls(TRUE) \/ Refuses
      /\ \A n, prog : tfs_write_file(n, prog) => Calls(TRUE) \/ Refuses
      /\ \A n : tfs_read_file(n) => Calls(TRUE) \/ Refuses
      /\ \A n : tfs_delete(n) => Calls(TRUE) \/ Refuses
      /\ \A n, to : tfs_rename(n, to) => Calls(TRUE) \/ Refuses
      /\ \A n : tfs_change_dir(n) => Calls(TRUE) \/ Refuses
      /\ tfs_change_dir_parent => Calls(TRUE)
      /\ tfs_format => Calls(TRUE)
      /\ list_dir => Calls(TRUE)
      /\ show_used => Calls(TRUE)
  BY Zenon DEF tfs_create_dir, tfs_write_file, tfs_read_file, tfs_delete, tfs_rename, tfs_change_dir,
            tfs_change_dir_parent, tfs_format, list_dir, show_used, Named, Call, Drive
<1> QED BY <1>1, <1>2, <1>3, <1>4, <1>5

\* So the error stays until a SAVE writes over it.
LEMMA AccessKept ==
  ASSUME NoDevice, NoDeviceNoAccess, Access, UNCHANGED <<ready, forgotten>>
  PROVE  NoDevice' /\ NoDeviceNoAccess'
BY Zenon DEF NoDevice, NoDeviceNoAccess, Access

\* A SAVE that is rejected touches neither drive nor items.
LEMMA RejectKept ==
  ASSUME NEW e \in Codes, Sound, NoDevice, NoDeviceNoAccess, Reject(e), UNCHANGED <<board, ready>>
  PROVE  Sound' /\ NoDevice' /\ NoDeviceNoAccess'
<1>1. Sound'
  BY ItemsSame DEF Sound, Reject, Shapes
<1>2. NoDevice' /\ NoDeviceNoAccess'
  BY Zenon DEF NoDevice, NoDeviceNoAccess, Reject
<1> QED BY <1>1, <1>2

-----------------------------------------------------------------------------
(* The commands.                                                           *)

\* A step that is a call.
LEMMA Steady ==
  ASSUME IInv, Sound', Access, UNCHANGED <<ready, forgotten>>
  PROVE  IInv'
BY AccessKept DEF IInv, Sound

\* A line of the AVR keeps the invariant.
LEMMA AvrStep ==
  ASSUME IInv, AvrNext
  PROVE  IInv'
<1>1. PICK keys \in Lines : avr_named(keys) \/ avr_mv(keys) \/ avr_other(keys)
  BY DEF AvrNext
<1>2. Sound
  BY DEF IInv, Sound
<1>3. CASE avr_named(keys)
  <2> DEFINE l == Trim(read_line[keys].buf)
  <2>1. PICK n \in Params(l) : \/ tfs_create_dir(n) \/ tfs_delete(n) \/ tfs_change_dir_root
                               \/ tfs_change_dir_parent \/ tfs_change_dir(n)
    BY <1>3, Zenon DEF avr_named
  <2>2. ~Zx81 /\ UNCHANGED <<board, ready, forgotten>>
    BY <1>3 DEF avr_named, Quiet
  <2>3. Name(n)
    BY <2>2, AvrNames
  <2>4. Sound'
    BY <1>2, <2>1, <2>2, <2>3, CreateDir, Delete, ChangeDirUp, ChangeDir
  <2>5. Access
    BY <2>1, CallAccess
  <2> QED BY <2>2, <2>4, <2>5, Steady
<1>4. CASE avr_mv(keys)
  <2> DEFINE l == Trim(read_line[keys].buf)
  <2>1. \/ UNCHANGED api
        \/ Blanks(l) # {} /\ Blanks(Rest(l)) # {} /\ tfs_rename(Word(Rest(l)), Rest(Rest(l)))
    BY <1>4, Zenon DEF avr_mv
  <2>2. ~Zx81 /\ UNCHANGED <<board, ready, forgotten>>
    BY <1>4 DEF avr_mv, Quiet
  <2>3. Blanks(l) # {} /\ Blanks(Rest(l)) # {} => Name(Rest(Rest(l)))
    BY <2>2, AvrNames
  <2>4. Sound'
    BY <1>2, <2>1, <2>2, <2>3, Rename, Nothing0
  <2>5. Access
    BY <2>1, CallAccess
  <2> QED BY <2>2, <2>4, <2>5, Steady
<1>5. CASE avr_other(keys)
  <2>1. tfs_format \/ list_dir \/ show_used \/ UNCHANGED api
    BY <1>5 DEF avr_other
  <2>2. UNCHANGED <<board, ready, forgotten>>
    BY <1>5 DEF avr_other, Quiet
  <2>3. Sound'
    BY <1>2, <2>1, <2>2, Format, Shows, Nothing0
  <2>4. Access
    BY <2>1, CallAccess
  <2> QED BY <2>2, <2>3, <2>4, Steady
<1> QED BY <1>1, <1>3, <1>4, <1>5

\* So does a LOAD or SAVE of the ZX81.
LEMMA Zx81Step ==
  ASSUME IInv, Zx81Next
  PROVE  IInv'
<1>1. Sound
  BY DEF IInv, Sound
<1>2. ASSUME NEW t \in Typed \cup {<<>>}
      PROVE  term_zx2ascii(t) \in Seq(Chars) /\ Name(term_zx2ascii(t))
  BY <1>2, Converted DEF Name
<1>3. ASSUME NEW n, Name(n), NEW prog \in Programs, save_file(n, prog)
      PROVE  IInv'
  <2>1. Zx81 /\ UNCHANGED <<board, ready, forgotten>> /\ tfs_write_file(n, prog)
    BY <1>3 DEF save_file, Zx, Plain
  <2> QED BY <1>1, <1>3, <2>1, WriteFile, CallAccess, Steady
<1>4. ASSUME NEW n, NEW to, Name(to), save_rename(n, to)
      PROVE  IInv'
  <2>1. UNCHANGED <<board, ready, forgotten>> /\ tfs_rename(n, to)
    BY <1>4 DEF save_rename, Zx, Plain
  <2> QED BY <1>1, <1>4, <2>1, Rename, CallAccess, Steady
<1>5. ASSUME NEW n, Name(n), save_dir(n) \/ save_delete(n) \/ load_file(n) \/ load_cd(n)
      PROVE  IInv'
  <2>1. UNCHANGED <<board, ready, forgotten>>
    BY <1>5 DEF save_dir, save_delete, load_file, load_cd, Zx, Plain
  <2>2. tfs_create_dir(n) \/ tfs_delete(n) \/ tfs_read_file(n) \/ tfs_change_dir(n)
    BY <1>5 DEF save_dir, save_delete, load_file, load_cd
  <2>3. Sound'
    BY <1>1, <1>5, <2>1, <2>2, CreateDir, Delete, ReadFile, ChangeDir
  <2>4. Access
    BY <2>2, CallAccess
  <2> QED BY <2>1, <2>3, <2>4, Steady
<1>6. ASSUME NEW e \in Codes, Reject(e), UNCHANGED <<board, ready>>
      PROVE  IInv'
  BY <1>1, <1>6, RejectKept DEF IInv, Sound
<1>7. ASSUME UNCHANGED <<board, ready, forgotten>>,
             \/ tfs_format \/ tfs_change_dir_parent \/ tfs_change_dir_root \/ list_dir \/ show_used
             \/ UNCHANGED api
      PROVE  IInv'
  <2>1. Sound'
    BY <1>1, <1>7, Format, ChangeDirUp, Shows, Nothing0
  <2>2. Access
    BY <1>7, CallAccess
  <2> QED BY <1>7, <2>1, <2>2, Steady
<1>8. ASSUME save_no_colon \/ save_format \/ save_load_prefix \/ load_parent \/ load_root
             \/ load_dir \/ load_info \/ load_used
      PROVE  \/ (\E e \in Codes : Reject(e)) /\ UNCHANGED <<board, ready>>
             \/ UNCHANGED <<board, ready, forgotten>> /\
                  (tfs_format \/ tfs_change_dir_parent \/ tfs_change_dir_root \/ list_dir
                   \/ show_used \/ UNCHANGED api)
  <2>1. "NO_NAME" \in Codes /\ "NAME_INVAL" \in Codes
    BY DEF Codes
  <2>2. CASE save_no_colon \/ save_load_prefix
    BY <2>1, <2>2 DEF save_no_colon, save_load_prefix, Zx
  <2>3. CASE save_format
    BY <2>1, <2>3 DEF save_format, Zx, Plain
  <2>4. CASE load_parent \/ load_root \/ load_dir \/ load_info \/ load_used
    BY <2>4 DEF load_parent, load_root, load_dir, load_info, load_used, Zx, Plain
  <2> QED BY <1>8, <2>2, <2>3, <2>4
<1>9. CASE \E t \in Typed \cup {<<>>} :
             LET n == term_zx2ascii(t)
             IN \/ \E prog \in Programs : save_file(n, prog)
                \/ save_dir(n) \/ save_delete(n) \/ load_file(n) \/ load_cd(n)
                \/ \E to \in Typed \cup {<<>>} : save_rename(n, term_zx2ascii(to))
  <2>1. PICK t \in Typed \cup {<<>>} :
          \/ \E prog \in Programs : save_file(term_zx2ascii(t), prog)
          \/ save_dir(term_zx2ascii(t)) \/ save_delete(term_zx2ascii(t))
          \/ load_file(term_zx2ascii(t)) \/ load_cd(term_zx2ascii(t))
          \/ \E to \in Typed \cup {<<>>} : save_rename(term_zx2ascii(t), term_zx2ascii(to))
    BY <1>9
  <2> DEFINE n == term_zx2ascii(t)
  <2>2. Name(n)
    BY <1>2
  <2>3. CASE \E to \in Typed \cup {<<>>} : save_rename(n, term_zx2ascii(to))
    BY <1>2, <1>4, <2>3
  <2>4. CASE \E prog \in Programs : save_file(n, prog)
    BY <1>3, <2>2, <2>4
  <2>5. CASE save_dir(n) \/ save_delete(n) \/ load_file(n) \/ load_cd(n)
    BY <1>5, <2>2, <2>5
  <2> QED BY <2>1, <2>3, <2>4, <2>5
<1>10. CASE save_no_colon \/ save_format \/ save_load_prefix
           \/ load_parent \/ load_root \/ load_dir \/ load_info \/ load_used
  BY <1>6, <1>7, <1>8, <1>10
<1> QED BY <1>9, <1>10 DEF Zx81Next

\* The invariant holds when a board starts.
LEMMA InitInv ==
  ASSUME Init
  PROVE  IInv
<1>1. FreeItem.dir = ROOT /\ FreeItem.type = "FREE" /\ FreeItem.name = <<>> /\ FreeItem \in Items
  <2>1. <<>> \in ItemNames
    BY ConsoleAssumption DEF ItemNames
  <2> QED BY <2>1 DEF FreeItem, Items
<1> DEFINE f == [dir |-> ROOT, name |-> Foreign, type |-> "FILE", data |-> None]
<1>2. f \in Items /\ f.dir = ROOT /\ f.name = Foreign
  BY ConsoleAssumption DEF Items, ItemNames
<1> HIDE DEF f
<1>3. \A i \in Slots : items[i] = IF i = Min(Slots) THEN f ELSE FreeItem
  BY DEF Init, f
<1>4. items = [i \in Slots |-> items[i]]
  BY DEF Init
<1>5. \A i \in Slots : items[i] \in Items /\ items[i].dir = ROOT
                       /\ (i # Min(Slots) => items[i].type = "FREE")
                       /\ (items[i].name = Foreign \/ items[i].name = <<>>)
  BY <1>1, <1>2, <1>3
<1>6. ROOT \notin Slots
  BY ConsoleAssumption DEF ROOT
<1>7. items \in [Slots -> Items]
  BY <1>4, <1>5
<1>8. Shapes
  <2>1. cwd = ROOT /\ memory = None /\ tfs_last_error \in {"OK", "NO_DEV"}
    BY DEF Init
  <2>2. tfs_last_error \in Codes
    BY <2>1 DEF Codes
  <2> QED BY <1>5, <1>6, <1>7, <2>1, <2>2 DEF Shapes, Items
<1>9. Distinct
  BY <1>5 DEF Distinct
<1>10. NoDevice /\ NoDeviceNoAccess
  <2>1. ~touched /\ (~ready => tfs_last_error = "NO_DEV")
    BY Zenon DEF Init
  <2> QED BY <2>1 DEF NoDevice, NoDeviceNoAccess
<1> QED BY <1>8, <1>9, <1>10 DEF IInv

\* The inductive invariant of the front ends.
THEOREM Invariance == Spec => []IInv
<1>1. Init => IInv
  BY InitInv
<1>2. IInv /\ [Next]_vars => IInv'
  <2> SUFFICES ASSUME IInv, [Next]_vars PROVE IInv'
    OBVIOUS
  <2>1. CASE Next
    BY <2>1, AvrStep, Zx81Step DEF Next
  <2>2. CASE UNCHANGED vars
    <3>1. Sound' /\ Access
      BY <2>2, Nothing0, CallAccess DEF vars, IInv, Sound
    <3> QED BY <2>2, <3>1, Steady DEF vars
  <2> QED BY <2>1, <2>2
<1> QED BY <1>1, <1>2, PTL DEF Spec

\* No two items of a directory have one name, on the AVR whatever is typed, on the ZX81
\* until a name too long for filename_cmp is used; and no directory is lost: what an item
\* is in, and the current directory, is there and is a directory.
THEOREM NamesStayUnique == Spec => []NamesUnique
<1>1. IInv => NamesUnique
  <2> SUFFICES ASSUME IInv PROVE NamesUnique
    OBVIOUS
  <2>1. TypeOK
    BY DEF IInv, Shapes, TypeOK, ItemNames, Codes
  <2>2. ASSUME ~overlong, NEW d \in Slots \cup {ROOT}, NEW i \in ItemsIn(d), NEW j \in ItemsIn(d),
               items[i].name = items[j].name
        PROVE  i = j
    BY <2>2 DEF IInv, Distinct, ItemsIn
  <2> QED BY <2>1, <2>2 DEF NamesUnique
<1> QED BY <1>1, Invariance, PTL

\* Without a device no call gets at the drive, until a SAVE that is rejected has written
\* over TFS_ERR_NO_DEV.
THEOREM NothingWithoutDevice == Spec => []NoDeviceNoAccess
BY Invariance, PTL DEF IInv

-----------------------------------------------------------------------------
(* What is found under other names.                                        *)

\* What is found under a name is stored under it.
LEMMA MatchIsStored ==
  ASSUME NEW n, Name(n), NEW m \in ItemNames, TFS_FILENAME_CMP(n, m)
  PROVE  Folded(m) = Stored(n)
<1>1. n \in Seq(Chars) /\ Len(n) \in Nat /\ m \in Seq(Chars) /\ Len(m) \in Nat /\ Len(m) <= NameLen
      /\ NameLen \in Nat \ {0}
  BY ConsoleAssumption DEF ItemNames, Name
<1>2. CASE Zx81
  BY <1>1, <1>2, FoundIsStored, StoredName DEF Name
<1>3. CASE ~Zx81
  <2> DEFINE A == {i \in 1 .. NameLen : CharAt(n, i) \in {"NUL"} \/ CharAt(m, i) # CharAt(n, i)}
             L == Len(Stored(n))
  <2>1. A # {} => CharAt(m, Min(A)) = CharAt(n, Min(A))
    BY <1>3 DEF TFS_FILENAME_CMP, strncmp, Compare, Same
  <2>2. A \in SUBSET Nat
    BY <1>1
  <2>3. PICK l \in 0 .. NameLen : /\ l < NameLen => Len(n) <= l /\ Len(m) <= l
                                  /\ \A i \in 1 .. l : CharAt(n, i) # "NUL" /\ CharAt(m, i) = CharAt(n, i)
    <3>1. CASE A = {}
      BY <1>1, <3>1
    <3>2. CASE A # {}
      <4> DEFINE z == Min(A)
      <4>1. z \in A /\ \A y \in A : z <= y
        BY <2>2, <3>2, MinIs
      <4>2. CharAt(m, z) = CharAt(n, z)
        BY <2>1, <3>2
      <4>3. CharAt(n, z) = "NUL" /\ CharAt(m, z) = "NUL" /\ z \in 1 .. NameLen
        BY <4>1, <4>2
      <4>4. Len(n) <= z - 1 /\ Len(m) <= z - 1
        BY <1>1, <4>3, CharIs
      <4>5. \A i \in 1 .. z - 1 : i \notin A /\ i \in 1 .. NameLen
        BY <1>1, <4>1, <4>3
      <4>6. \A i \in 1 .. z - 1 : CharAt(n, i) # "NUL" /\ CharAt(m, i) = CharAt(n, i)
        BY <4>5
      <4>7. z - 1 \in 0 .. NameLen
        BY <1>1, <4>3
      <4> HIDE DEF z
      <4> QED BY <1>1, <4>4, <4>6, <4>7
    <3> QED BY <3>1, <3>2
  <2>4. l <= Len(n) /\ l <= Len(m)
    <3>1. CASE l = 0
      BY <1>1, <3>1
    <3>2. CASE l # 0
      <4>1. l \in 1 .. l /\ l \in Nat \ {0}
        BY <3>2
      <4>2. CharAt(n, l) # "NUL" /\ CharAt(m, l) # "NUL"
        BY <2>3, <4>1
      <4> QED BY <1>1, <4>1, <4>2, CharIs
    <3> QED BY <3>1, <3>2
  <2>5. Len(m) = l
    BY <1>1, <2>3, <2>4
  <2>6. L = l
    <3>1. CASE l < NameLen
      <4>1. Len(n) = l
        BY <1>1, <2>3, <2>4, <3>1
      <4> QED BY <1>1, <3>1, <4>1, StoredName
    <3>2. CASE l = NameLen
      BY <1>1, <2>4, <3>2, StoredName
    <3> QED BY <1>1, <3>1, <3>2
  <2>7. Stored(n) \in Seq(Chars) /\ DOMAIN Stored(n) = 1 .. l
    <3>1. Stored(n) \in Seq(Chars)
      BY <1>1, StoredName DEF ItemNames
    <3> QED BY <2>6, <3>1
  <2>8. \A i \in 1 .. l : Stored(n)[i] = n[i]
    BY <1>1, <2>7, StoredName
  <2>9. \A i \in 1 .. l : m[i] = n[i]
    BY <1>1, <2>3, <2>4 DEF CharAt
  <2>10. m = Stored(n)
    <3>1. m = [i \in 1 .. l |-> m[i]]
      BY <1>1, <2>5
    <3>2. Stored(n) = [i \in 1 .. l |-> Stored(n)[i]]
      BY <2>7
    <3> HIDE DEF A, L
    <3> QED BY <2>8, <2>9, <3>1, <3>2
  <2> QED BY <1>3, <2>10 DEF Folded
<1> QED BY <1>2, <1>3

\* What is stored of a name is compared as it is.
LEMMA StoredFolded ==
  ASSUME NEW n, Name(n)
  PROVE  Folded(Stored(n)) = Stored(n) /\ Stored(n) \in ItemNames
<1>1. Stored(n) \in ItemNames /\ Stored(n) \in Seq(Chars)
  BY StoredName DEF Name, ItemNames
<1>2. CASE Zx81
  <2>1. Small(Stored(n))
    BY <1>2, StoredName DEF Name, Small
  <2> QED BY <1>1, <2>1, FoldedSmall
<1>3. CASE ~Zx81
  BY <1>1, <1>3 DEF Folded
<1> QED BY <1>1, <1>2, <1>3

\* The step concerns only item i, which is not found under n in d, before or after.
LEMMA FoundSame ==
  ASSUME Shapes, Shapes', board' = board, NEW i \in Slots, NEW d, NEW n,
         \A j \in Slots : j # i => items'[j] = items[j],
         ~(i \in ItemsIn(d) /\ TFS_FILENAME_CMP(n, items[i].name)),
         ~(items'[i].type # "FREE" /\ items'[i].dir = d /\ TFS_FILENAME_CMP(n, items'[i].name))
  PROVE  Found(d, n)' = Found(d, n)
<1> DEFINE M == {j \in ItemsIn(d) : TFS_FILENAME_CMP(n, items[j].name)}
           N == {j \in Slots : items'[j].type # "FREE" /\ items'[j].dir = d
                               /\ TFS_FILENAME_CMP(n, items'[j].name)}
<1>1. M = N /\ M \in SUBSET Nat /\ i \notin M /\ M \subseteq Slots
  BY ConsoleAssumption DEF ItemsIn
<1>2. Found(d, n) = IF M = {} THEN FreeItem ELSE items[Min(M)]
  BY DEF Found
<1>3. Found(d, n)' = IF N = {} THEN FreeItem ELSE items'[Min(N)]
  <2>1. M' = N
    BY DEF ItemsIn, TFS_FILENAME_CMP, Zx81
  <2>2. Found(d, n)' = IF M' = {} THEN FreeItem ELSE items'[Min(M')]
    BY DEF Found, FreeItem
  <2> HIDE DEF M, N
  <2> QED BY <2>1, <2>2
<1>4. M # {} => Min(M) \in M
  BY <1>1, MinIs
<1> HIDE DEF M, N
<1>5. M # {} => items'[Min(M)] = items[Min(M)]
  BY <1>1, <1>4
<1>6. Found(d, n)' = IF M = {} THEN FreeItem ELSE items'[Min(M)]
  BY <1>1, <1>3
<1> QED BY <1>2, <1>5, <1>6

\* All names but those of the set N are found as they were, and all names in other
\* directories.
ZxNames == {term_zx2ascii(t) : t \in Typed}
OnlyIn(N) == \A d \in Slots \cup {ROOT}, n \in ZxNames :
               d # cwd \/ Stored(n) \notin {Stored(m) : m \in N} => Found(d, n)' = Found(d, n)

\* A name typed on the ZX81 is one that the calls can get.
LEMMA ZxName ==
  ASSUME NEW n \in ZxNames
  PROVE  Name(n)
BY Converted DEF ZxNames, Name

\* An item that was not there, or was found under a name of N, has gone or has a name of N.
LEMMA OnlyNamedItem ==
  ASSUME Shapes, Shapes', board' = board, NEW N, \A m \in N : Name(m), NEW i \in Slots,
         \A j \in Slots : j # i => items'[j] = items[j],
         \/ items[i].type = "FREE"
         \/ i \in ItemsIn(cwd) /\ \E m \in N : TFS_FILENAME_CMP(m, items[i].name),
         \/ items'[i].type = "FREE"
         \/ items'[i].dir = cwd /\ \E m \in N : items'[i].name = Stored(m)
  PROVE  OnlyIn(N)
<1> SUFFICES ASSUME NEW d \in Slots \cup {ROOT}, NEW n \in ZxNames,
                    d # cwd \/ Stored(n) \notin {Stored(m) : m \in N}
             PROVE  Found(d, n)' = Found(d, n)
  BY DEF OnlyIn
<1>1. Name(n)
  BY ZxName
<1>2. ASSUME i \in ItemsIn(d), TFS_FILENAME_CMP(n, items[i].name)
      PROVE  FALSE
  <2>1. items[i].type # "FREE" /\ items[i].dir = d
    BY <1>2 DEF ItemsIn
  <2>2. PICK m \in N : TFS_FILENAME_CMP(m, items[i].name)
    BY <2>1
  <2>3. d = cwd
    BY <2>1 DEF ItemsIn
  <2>4. items[i].name \in ItemNames
    BY DEF Shapes
  <2>5. Folded(items[i].name) = Stored(m) /\ Folded(items[i].name) = Stored(n)
    BY <1>1, <1>2, <2>2, <2>4, MatchIsStored
  <2> QED BY <2>2, <2>3, <2>5
<1>3. ASSUME items'[i].type # "FREE", items'[i].dir = d, TFS_FILENAME_CMP(n, items'[i].name)
      PROVE  FALSE
  <2>1. PICK m \in N : items'[i].name = Stored(m) /\ d = cwd
    BY <1>3
  <2>2. Folded(Stored(m)) = Stored(m) /\ Stored(m) \in ItemNames
    BY <2>1, StoredFolded
  <2>3. Folded(Stored(m)) = Stored(n)
    BY <1>1, <1>3, <2>1, <2>2, MatchIsStored
  <2> QED BY <2>1, <2>2, <2>3
<1> QED BY <1>2, <1>3, FoundSame

\* A new item is found under its name only.
LEMMA OnlyPut ==
  ASSUME Shapes, Shapes', board' = board, NEW N, \A m \in N : Name(m), NEW n \in N,
         NEW type, NEW data, Put(n, type, data)
  PROVE  OnlyIn(N)
<1> DEFINE s == Min(FreeSlots)
           x == [dir |-> cwd, name |-> Stored(n), type |-> type, data |-> data]
<1>1. s \in Slots /\ items[s].type = "FREE"
  <2>1. FreeSlots \in SUBSET Nat /\ FreeSlots # {}
    BY ConsoleAssumption DEF FreeSlots, Put
  <2>2. s \in FreeSlots
    BY <2>1, MinIs
  <2> QED BY <2>2 DEF FreeSlots
<1>2. items' = [items EXCEPT ![s] = x] /\ x.dir = cwd /\ x.name = Stored(n)
  BY DEF Put
<1> HIDE DEF s, x
<1>3. items'[s] = x /\ \A j \in Slots : j # s => items'[j] = items[j]
  BY <1>1, <1>2 DEF Shapes
<1> QED BY <1>1, <1>2, <1>3, OnlyNamedItem

\* The item that a name of N is found as is freed, or gets a name of N.
LEMMA OnlyChanged ==
  ASSUME Shapes, Shapes', board' = board, NEW N, \A m \in N : Name(m), NEW n \in N,
         NEW i \in find_file(n),
         \/ items' = [items EXCEPT ![i] = FreeItem]
         \/ \E m \in N : \E data : items' = [items EXCEPT ![i].data = data, ![i].name = Stored(m)]
         \/ \E m \in N : items' = [items EXCEPT ![i].name = Stored(m)]
  PROVE  OnlyIn(N)
<1>1. i \in Slots /\ i \in ItemsIn(cwd) /\ items[i].dir = cwd /\ TFS_FILENAME_CMP(n, items[i].name)
  BY FindFile DEF Matches, ItemsIn
<1>2. items[i] \in Items /\ items \in [Slots -> Items]
  BY <1>1 DEF Shapes, Items
<1>3. \A j \in Slots : j # i => items'[j] = items[j]
  BY <1>1, <1>2
<1>4. CASE items' = [items EXCEPT ![i] = FreeItem]
  <2>1. items'[i].type = "FREE"
    BY <1>1, <1>2, <1>4 DEF FreeItem
  <2> QED BY <1>1, <1>3, <2>1, OnlyNamedItem
<1>5. ASSUME NEW m \in N, NEW data, items' = [items EXCEPT ![i].data = data, ![i].name = Stored(m)]
      PROVE  OnlyIn(N)
  <2>1. items'[i].name = Stored(m) /\ items'[i].dir = cwd
    BY <1>1, <1>2, <1>5 DEF Items
  <2> QED BY <1>1, <1>3, <2>1, OnlyNamedItem
<1>6. ASSUME NEW m \in N, items' = [items EXCEPT ![i].name = Stored(m)]
      PROVE  OnlyIn(N)
  <2>1. items'[i].name = Stored(m) /\ items'[i].dir = cwd
    BY <1>1, <1>2, <1>6 DEF Items
  <2> QED BY <1>1, <1>3, <2>1, OnlyNamedItem
<1> QED BY <1>4, <1>5, <1>6

\* Each call changes the items in one of these ways, or not at all.
LEMMA CallsChange ==
  ASSUME Shapes, Shapes', board' = board, NEW N, \A m \in N : Name(m), NEW n \in N,
         \/ tfs_create_dir(n) \/ tfs_delete(n) \/ (\E prog : tfs_write_file(n, prog))
         \/ \E to \in N : tfs_rename(n, to)
  PROVE  items' = items \/ OnlyIn(N)
<1>1. CASE tfs_create_dir(n)
  <2>1. items' = items \/ Put(n, "DIR", None)
    BY <1>1 DEF tfs_create_dir, Named, Call, Drive, Anything, Err, api
  <2> QED BY <2>1, OnlyPut
<1>2. CASE tfs_delete(n)
  <2>1. items' = items \/ \E i \in find_file(n) : items' = [items EXCEPT ![i] = FreeItem]
    BY <1>2 DEF tfs_delete, Named, Call, Drive, Anything, Err, api
  <2> QED BY <2>1, OnlyChanged
<1>3. ASSUME NEW prog, tfs_write_file(n, prog)
      PROVE  items' = items \/ OnlyIn(N)
  <2>1. \/ items' = items
        \/ \E data : Put(n, "FILE", data)
        \/ \E i \in find_file(n) : \E data : items' = [items EXCEPT ![i].data = data, ![i].name = Stored(n)]
    BY <1>3 DEF tfs_write_file, Named, Call, Drive, Anything, Err, api
  <2> QED BY <2>1, OnlyPut, OnlyChanged
<1>4. ASSUME NEW to \in N, tfs_rename(n, to)
      PROVE  items' = items \/ OnlyIn(N)
  <2>1. items' = items \/ \E i \in find_file(n) : items' = [items EXCEPT ![i].name = Stored(to)]
    BY <1>4 DEF tfs_rename, Named, Call, Drive, Anything, Err, api
  <2> QED BY <2>1, OnlyChanged
<1> QED BY <1>1, <1>2, <1>3, <1>4

\* A line of the AVR changes what is found under its names only.
LEMMA AvrOnly ==
  ASSUME IInv, IInv', AvrNext, named' # {}
  PROVE  items' = items \/ OnlyIn(named')
<1>1. PICK keys \in Lines : avr_named(keys) \/ avr_mv(keys)
  BY DEF AvrNext, avr_other
<1>2. ~Zx81 /\ board' = board /\ Shapes /\ Shapes'
  BY <1>1 DEF avr_named, avr_mv, Quiet, IInv
<1> DEFINE l == Trim(read_line[keys].buf)
<1>3. CASE avr_named(keys)
  <2>1. PICK n \in Params(l) : /\ \/ tfs_create_dir(n) \/ tfs_delete(n) \/ tfs_change_dir_root
                                  \/ tfs_change_dir_parent \/ tfs_change_dir(n)
                               /\ named' = {n}
    BY <1>3, Zenon DEF avr_named
  <2>2. Name(n)
    BY <1>2, AvrNames
  <2>3. tfs_change_dir_root \/ tfs_change_dir_parent \/ tfs_change_dir(n) => items' = items
    BY DEF tfs_change_dir_root, tfs_change_dir_parent, tfs_change_dir, Named, Call, Drive, Anything, Err, Go, api
  <2> QED BY <1>2, <2>1, <2>2, <2>3, CallsChange
<1>4. CASE avr_mv(keys)
  <2> DEFINE q == Rest(l)
  <2>1. \/ UNCHANGED api
        \/ Blanks(l) # {} /\ Blanks(q) # {} /\ tfs_rename(Word(q), Rest(q)) /\ named' = {Word(q), Rest(q)}
    BY <1>4, Zenon DEF avr_mv
  <2>2. Blanks(l) # {} /\ Blanks(q) # {} => Name(Word(q)) /\ Name(Rest(q))
    BY <1>2, AvrNames
  <2>3. UNCHANGED api => items' = items
    BY DEF api
  <2> QED BY <1>2, <2>1, <2>2, <2>3, CallsChange
<1> QED BY <1>1, <1>3, <1>4

\* So does a LOAD or SAVE of the ZX81.
LEMMA Zx81Only ==
  ASSUME IInv, IInv', Zx81Next, named' # {}
  PROVE  items' = items \/ OnlyIn(named')
<1>1. Shapes /\ Shapes'
  BY DEF IInv
<1>2. PICK t \in Typed \cup {<<>>} :
          \/ \E prog \in Programs : save_file(term_zx2ascii(t), prog)
          \/ save_dir(term_zx2ascii(t)) \/ save_delete(term_zx2ascii(t))
          \/ load_file(term_zx2ascii(t)) \/ load_cd(term_zx2ascii(t))
          \/ \E to \in Typed \cup {<<>>} : save_rename(term_zx2ascii(t), term_zx2ascii(to))
  BY DEF Zx81Next, save_no_colon, save_format, save_load_prefix, load_parent, load_root, load_dir,
         load_info, load_used, Zx
<1> DEFINE n == term_zx2ascii(t)
<1>3. \A to \in Typed \cup {<<>>} : Name(term_zx2ascii(to))
  BY Converted DEF Name
<1>4. Name(n)
  BY <1>3
<1> HIDE DEF n
<1>5. ASSUME NEW prog \in Programs, save_file(n, prog)
      PROVE  items' = items \/ OnlyIn(named')
  <2>1. board' = board /\ named' = {n} /\ tfs_write_file(n, prog)
    BY <1>5 DEF save_file, Zx
  <2> QED BY <1>1, <1>4, <2>1, CallsChange
<1>6. CASE save_dir(n) \/ save_delete(n)
  <2>1. board' = board /\ named' = {n} /\ (tfs_create_dir(n) \/ tfs_delete(n))
    BY <1>6 DEF save_dir, save_delete, Zx
  <2> QED BY <1>1, <1>4, <2>1, CallsChange
<1>7. CASE load_file(n) \/ load_cd(n)
  BY <1>7 DEF load_file, load_cd, tfs_read_file, tfs_change_dir, Named, Call, Drive, Anything, Err, Go, api
<1>8. ASSUME NEW to, Name(to), save_rename(n, to)
      PROVE  items' = items \/ OnlyIn(named')
  <2>1. board' = board /\ named' = {n, to} /\ tfs_rename(n, to)
    BY <1>8 DEF save_rename, Zx
  <2> QED BY <1>1, <1>4, <1>8, <2>1, CallsChange
<1> QED BY <1>2, <1>3, <1>5, <1>6, <1>7, <1>8 DEF n

\* A command changes what is found under the names that it gives, as far as they are
\* stored, and under no other, in the current directory only; formatting apart, and the time
\* between a format that fails and one that succeeds.
THEOREM OnlyNamedChanges == Spec => OnlyNamed
<1> DEFINE A == named' # {} /\ items' # items =>
                  \A d \in Slots \cup {ROOT}, n \in {term_zx2ascii(t) : t \in Typed} :
                    d # cwd \/ Stored(n) \notin {Stored(m) : m \in named'} => Found(d, n)' = Found(d, n)
<1>1. IInv /\ IInv' /\ [Next]_vars => [A]_vars
  <2> SUFFICES ASSUME IInv, IInv', Next, named' # {}, items' # items PROVE OnlyIn(named')
    BY DEF OnlyIn, ZxNames
  <2> QED BY AvrOnly, Zx81Only DEF Next
<1> QED BY <1>1, Invariance, PTL DEF Spec, OnlyNamed

-----------------------------------------------------------------------------
(* Printed numbers.                                                        *)

\* A loop makes one pass after the other.
LEMMA LoopSteps ==
  ASSUME NEW pass, NEW a, NEW L \in Nat
  PROVE  /\ Loop(pass, a, L)[0] = a
         /\ \A n \in 0 .. L - 1 : Loop(pass, a, L)[n + 1] = pass[n + 1][Loop(pass, a, L)[n]]
<1> DEFINE G(g) == [n \in 0 .. L |-> IF n = 0 THEN a ELSE pass[n][g[n - 1]]]
           Part(k, g) == g[0] = a /\ \A n \in 0 .. k - 1 : g[n + 1] = pass[n + 1][g[n]]
           S == {k \in 0 .. L : \E g : Part(k, g)}
<1>1. Loop(pass, a, L) = CHOOSE g : g = G(g)
  BY DEF Loop
<1>2. 0 \in S
  <2>1. Part(0, [n \in {0} |-> a])
    OBVIOUS
  <2>2. 0 \in 0 .. L
    OBVIOUS
  <2> HIDE DEF Part
  <2> QED BY <2>1, <2>2
<1>3. ASSUME NEW k \in 0 .. L - 1, k \in S
      PROVE  k + 1 \in S
  <2>1. PICK g : Part(k, g)
    BY <1>3
  <2> DEFINE h == [n \in 0 .. k + 1 |-> IF n = k + 1 THEN pass[k + 1][g[k]] ELSE g[n]]
  <2>2. h[0] = a
    BY <2>1
  <2>3. \A n \in 0 .. (k + 1) - 1 : h[n + 1] = pass[n + 1][h[n]]
    <3> TAKE n \in 0 .. (k + 1) - 1
    <3>1. h[n] = g[n]
      OBVIOUS
    <3>2. CASE n = k
      BY <3>1, <3>2
    <3>3. CASE n # k
      <4>1. n \in 0 .. k - 1 /\ n + 1 \in 0 .. k + 1 /\ n + 1 # k + 1
        BY <3>3
      <4>2. h[n + 1] = g[n + 1]
        BY <4>1
      <4> QED BY <4>1, <4>2, <3>1, <2>1
    <3> QED BY <3>2, <3>3
  <2>4. Part(k + 1, h)
    BY <2>2, <2>3
  <2>5. k + 1 \in 0 .. L
    OBVIOUS
  <2> HIDE DEF h, Part
  <2> QED BY <2>4, <2>5
<1>4. L \in S
  <2> HIDE DEF S
  <2>1. \A n \in 0 .. L : n \in S
    BY <1>2, <1>3, Places
  <2> QED BY <2>1
<1>5. PICK g : Part(L, g)
  BY <1>4
<1> DEFINE r == [n \in 0 .. L |-> g[n]]
<1>6. r = G(r)
  <2> SUFFICES ASSUME NEW n \in 0 .. L PROVE r[n] = G(r)[n]
    OBVIOUS
  <2>1. CASE n = 0
    BY <2>1, <1>5
  <2>2. CASE n # 0
    <3>1. n - 1 \in 0 .. L - 1 /\ n - 1 \in 0 .. L /\ (n - 1) + 1 = n
      BY <2>2
    <3>2. g[n] = pass[n][g[n - 1]]
      BY <3>1, <1>5
    <3>3. r[n - 1] = g[n - 1] /\ r[n] = g[n]
      BY <3>1
    <3> QED BY <3>2, <3>3, <2>2
  <2> QED BY <2>1, <2>2
<1> DEFINE t == Loop(pass, a, L)
<1>7. t = G(t)
  <2> HIDE DEF G, r
  <2> QED BY <1>6, <1>1
<1> HIDE DEF t
<1>8. t[0] = a
  BY <1>7
<1>9. ASSUME NEW n \in 0 .. L - 1
      PROVE  t[n + 1] = pass[n + 1][t[n]]
  <2>1. n + 1 \in 0 .. L /\ n + 1 # 0 /\ (n + 1) - 1 = n
    OBVIOUS
  <2> QED BY <2>1, <1>7
<1> QED BY <1>8, <1>9 DEF t

\* The places of a number are worth Radix times as much each.
LEMMA PowerIs ==
  /\ Power[0] = 1
  /\ \A n \in 0 .. MaxExp + 1 : Power[n] \in Nat \ {0}
  /\ \A n \in 0 .. MaxExp : Power[n + 1] = Radix * Power[n] /\ Power[n + 1] > Power[n]
<1> DEFINE pass == [k \in 1 .. MaxExp + 1 |-> [v \in Nat |-> Radix * v]]
           S == {n \in 0 .. MaxExp + 1 : Power[n] \in Nat \ {0}}
<1>0. MaxExp \in Nat /\ Radix \in Nat /\ Radix > 1
  BY ConsoleAssumption
<1>1. Power[0] = 1 /\ \A n \in 0 .. MaxExp : Power[n + 1] = pass[n + 1][Power[n]]
  <2>1. MaxExp + 1 \in Nat /\ (MaxExp + 1) - 1 = MaxExp
    BY <1>0
  <2> HIDE DEF pass
  <2>2. /\ Loop(pass, 1, MaxExp + 1)[0] = 1
        /\ \A n \in 0 .. (MaxExp + 1) - 1 :
             Loop(pass, 1, MaxExp + 1)[n + 1] = pass[n + 1][Loop(pass, 1, MaxExp + 1)[n]]
    BY <2>1, LoopSteps
  <2>3. Power = Loop(pass, 1, MaxExp + 1)
    BY DEF Power, pass
  <2> QED BY <2>1, <2>2, <2>3
<1>2. \A n \in 0 .. MaxExp : Power[n] \in Nat => Power[n + 1] = Radix * Power[n]
  <2> TAKE n \in 0 .. MaxExp
  <2> HAVE Power[n] \in Nat
  <2>1. n + 1 \in 1 .. MaxExp + 1
    BY <1>0
  <2>2. pass[n + 1] = [v \in Nat |-> Radix * v]
    BY <2>1
  <2> HIDE DEF pass
  <2> QED BY <1>1, <2>2
<1>3. \A v \in Nat \ {0} : Radix * v \in Nat /\ Radix * v > v
  BY <1>0
<1>4. \A n \in 0 .. MaxExp + 1 : n \in S
  <2>1. 0 \in S
    BY <1>0, <1>1
  <2>2. ASSUME NEW n \in 0 .. MaxExp, n \in S PROVE n + 1 \in S
    <3>1. Power[n] \in Nat \ {0} /\ n + 1 \in 0 .. MaxExp + 1
      BY <1>0, <2>2
    <3>2. Power[n + 1] = Radix * Power[n]
      BY <1>2, <3>1
    <3>3. Power[n + 1] \in Nat \ {0}
      BY <1>3, <3>1, <3>2
    <3> QED BY <3>1, <3>3
  <2>3. MaxExp + 1 \in Nat /\ (MaxExp + 1) - 1 = MaxExp
    BY <1>0
  <2> HIDE DEF S
  <2> QED BY <2>1, <2>2, <2>3, Places
<1>5. \A n \in 0 .. MaxExp : Power[n] \in Nat \ {0}
  BY <1>0, <1>4
<1> HIDE DEF pass
<1>6. \A n \in 0 .. MaxExp : Power[n + 1] = Radix * Power[n] /\ Power[n + 1] > Power[n]
  BY <1>2, <1>3, <1>5
<1> QED BY <1>1, <1>4, <1>6


\* Each digit counts Radix times the ones before it.
LEMMA ValuesAre ==
  ASSUME NEW ds \in Seq(Nat)
  PROVE  /\ Values(ds)[0] = 0
         /\ \A n \in 0 .. Len(ds) : Values(ds)[n] \in Nat
         /\ \A n \in 0 .. Len(ds) - 1 : Values(ds)[n + 1] = Radix * Values(ds)[n] + ds[n + 1]
<1> DEFINE L == Len(ds)
           V == Values(ds)
           pass == [k \in 1 .. L |-> [v \in Nat |-> Radix * v + ds[k]]]
           S == {n \in 0 .. L : V[n] \in Nat}
<1>0. L \in Nat /\ Radix \in Nat /\ \A n \in 1 .. L : ds[n] \in Nat
  BY ConsoleAssumption
<1>1. V[0] = 0 /\ \A n \in 0 .. L - 1 : V[n + 1] = pass[n + 1][V[n]]
  <2>1. V = Loop(pass, 0, L)
    BY DEF Values
  <2> HIDE DEF pass, V, L
  <2> QED BY <1>0, <2>1, LoopSteps
<1> HIDE DEF V, L
<1>2. ASSUME NEW n \in 0 .. L - 1, V[n] \in Nat
      PROVE  V[n + 1] = Radix * V[n] + ds[n + 1]
  <2>1. n + 1 \in 1 .. L
    BY <1>0
  <2>2. pass[n + 1] = [v \in Nat |-> Radix * v + ds[n + 1]]
    BY <2>1
  <2> HIDE DEF pass
  <2> QED BY <1>1, <1>2, <2>2
<1> HIDE DEF pass
<1>3. \A n \in 0 .. L : n \in S
  <2>1. 0 \in S
    BY <1>0, <1>1
  <2>2. ASSUME NEW n \in 0 .. L - 1, n \in S PROVE n + 1 \in S
    <3>1. V[n] \in Nat /\ n + 1 \in 0 .. L /\ ds[n + 1] \in Nat
      BY <1>0, <2>2
    <3>2. V[n + 1] = Radix * V[n] + ds[n + 1]
      BY <1>2, <3>1
    <3>3. Radix * V[n] \in Nat
      BY <1>0, <3>1
    <3>4. V[n + 1] \in Nat
      BY <3>1, <3>2, <3>3
    <3> QED BY <3>1, <3>4
  <2> HIDE DEF S
  <2> QED BY <1>0, <2>1, <2>2, Places
<1> QED BY <1>0, <1>1, <1>2, <1>3 DEF V, L

\* No digits have no value.
LEMMA ValueOfNone == Value(<<>>) = 0
<1>1. <<>> \in Seq(Nat) /\ Len(<<>>) = 0
  OBVIOUS
<1> QED BY <1>1, ValuesAre DEF Value

\* A digit behind the others.
LEMMA ValueAppended ==
  ASSUME NEW ds \in Seq(Nat), NEW d \in Nat
  PROVE  Value(ds) \in Nat /\ Value(Append(ds, d)) = Radix * Value(ds) + d
<1> DEFINE e == Append(ds, d)
           L == Len(ds)
           V == Values(ds)
           W == Values(e)
           S == {n \in 0 .. L : W[n] = V[n]}
<1>1. /\ e \in Seq(Nat) /\ Len(e) = L + 1 /\ L \in Nat /\ e[L + 1] = d
      /\ \A n \in 1 .. L : e[n] = ds[n]
  OBVIOUS
<1>2. V[0] = 0 /\ \A n \in 0 .. L - 1 : V[n + 1] = Radix * V[n] + ds[n + 1]
  BY ValuesAre
<1>3. \A n \in 0 .. L : V[n] \in Nat
  BY ValuesAre
<1> HIDE DEF e, V, L
<1>4. W[0] = 0 /\ \A n \in 0 .. L : W[n + 1] = Radix * W[n] + e[n + 1]
  <2>1. \A n \in 0 .. Len(e) - 1 : W[n + 1] = Radix * W[n] + e[n + 1]
    BY <1>1, ValuesAre
  <2>2. W[0] = 0
    BY <1>1, ValuesAre
  <2>3. Len(e) - 1 = L
    BY <1>1
  <2> HIDE DEF W
  <2> QED BY <2>1, <2>2, <2>3
<1> HIDE DEF W
<1>5. \A n \in 0 .. L : n \in S
  <2>1. 0 \in S
    BY <1>1, <1>2, <1>4
  <2>2. ASSUME NEW n \in 0 .. L - 1, n \in S PROVE n + 1 \in S
    <3>1. W[n] = V[n] /\ n + 1 \in 1 .. L /\ n \in 0 .. L /\ n + 1 \in 0 .. L
      BY <1>1, <2>2
    <3>2. e[n + 1] = ds[n + 1]
      BY <1>1, <3>1
    <3>3. W[n + 1] = Radix * W[n] + e[n + 1] /\ V[n + 1] = Radix * V[n] + ds[n + 1]
      BY <1>2, <1>4, <3>1
    <3> QED BY <3>1, <3>2, <3>3
  <2> HIDE DEF S
  <2> QED BY <1>1, <2>1, <2>2, Places
<1>6. L \in 0 .. L
  BY <1>1
<1>7. W[L] = V[L] /\ W[L + 1] = Radix * W[L] + e[L + 1]
  BY <1>4, <1>5, <1>6
<1> QED BY <1>1, <1>3, <1>6, <1>7 DEF Value, V, W, L, e

\* A digit in front of the others.
LEMMA ValuePrepended ==
  ASSUME NEW ds \in Seq(Nat), NEW d \in Nat, Len(ds) <= MaxExp + 1
  PROVE  Value(ds) \in Nat /\ Value(<<d>> \o ds) = d * Power[Len(ds)] + Value(ds)
<1> DEFINE e == <<d>> \o ds
           L == Len(ds)
           V == Values(ds)
           W == Values(e)
           S == {n \in 0 .. L : W[n + 1] = d * Power[n] + V[n]}
<1>1. /\ e \in Seq(Nat) /\ Len(e) = L + 1 /\ L \in Nat /\ e[1] = d
      /\ \A n \in 1 .. L : e[n + 1] = ds[n]
  OBVIOUS
<1>2. V[0] = 0 /\ \A n \in 0 .. L - 1 : V[n + 1] = Radix * V[n] + ds[n + 1]
  BY ValuesAre
<1>3. \A n \in 0 .. L : V[n] \in Nat
  BY ValuesAre
<1>0. L <= MaxExp + 1 /\ MaxExp \in Nat /\ Radix \in Nat
  BY ConsoleAssumption
<1> HIDE DEF e, V, L
<1>4. W[0] = 0 /\ \A n \in 0 .. L : W[n + 1] = Radix * W[n] + e[n + 1]
  <2>1. \A n \in 0 .. Len(e) - 1 : W[n + 1] = Radix * W[n] + e[n + 1]
    BY <1>1, ValuesAre
  <2>2. W[0] = 0
    BY <1>1, ValuesAre
  <2>3. Len(e) - 1 = L
    BY <1>1
  <2> HIDE DEF W
  <2> QED BY <2>1, <2>2, <2>3
<1> HIDE DEF W
<1>5. \A n \in 0 .. L : n \in S
  <2>1. 0 \in S
    <3>1. 0 \in 0 .. L /\ 0 + 1 = 1
      BY <1>1
    <3>2. W[1] = Radix * W[0] + e[1]
      BY <1>4, <3>1
    <3>3. W[1] = d
      BY <1>0, <1>1, <1>4, <3>2
    <3> QED BY <1>2, <3>1, <3>3, PowerIs
  <2>2. ASSUME NEW n \in 0 .. L - 1, n \in S PROVE n + 1 \in S
    <3>1. /\ W[n + 1] = d * Power[n] + V[n] /\ n + 1 \in 1 .. L /\ n \in 0 .. L /\ n + 1 \in 0 .. L
          /\ n \in 0 .. MaxExp /\ (n + 1) + 1 \in Nat
      BY <1>0, <1>1, <2>2
    <3>2. e[(n + 1) + 1] = ds[n + 1] /\ ds[n + 1] \in Nat
      BY <1>1, <3>1 DEF L
    <3>3. W[(n + 1) + 1] = Radix * W[n + 1] + e[(n + 1) + 1] /\ V[n + 1] = Radix * V[n] + ds[n + 1]
      BY <1>2, <1>4, <3>1
    <3>4. Power[n + 1] = Radix * Power[n] /\ Power[n] \in Nat /\ V[n] \in Nat
      BY <1>0, <1>3, <3>1, PowerIs
    <3>5. \A p, v, x \in Nat : Radix * (d * p + v) + x = d * (Radix * p) + (Radix * v + x)
      BY <1>0
    <3>6. Radix * (d * Power[n] + V[n]) + ds[n + 1] = d * (Radix * Power[n]) + (Radix * V[n] + ds[n + 1])
      BY <3>2, <3>4, <3>5, Zenon
    <3>7. W[(n + 1) + 1] = Radix * (d * Power[n] + V[n]) + ds[n + 1]
      BY <3>1, <3>2, <3>3
    <3>8. d * Power[n + 1] + V[n + 1] = d * (Radix * Power[n]) + (Radix * V[n] + ds[n + 1])
      BY <3>3, <3>4
    <3>9. W[(n + 1) + 1] = d * Power[n + 1] + V[n + 1]
      BY <3>6, <3>7, <3>8
    <3> QED BY <3>1, <3>9
  <2> HIDE DEF S
  <2> QED BY <1>1, <2>1, <2>2, Places
<1>6. L \in 0 .. L
  BY <1>1
<1>7. W[L + 1] = d * Power[L] + V[L]
  BY <1>5, <1>6
<1> QED BY <1>1, <1>3, <1>6, <1>7 DEF Value, V, W, L, e

\* Quotient and remainder.
LEMMA Divided ==
  ASSUME NEW a \in Nat, NEW m \in Nat \ {0}
  PROVE  /\ a \div m \in Nat /\ a % m \in 0 .. m - 1 /\ a = (a \div m) * m + (a % m)
OBVIOUS

\* The first digit is not a zero that could be left out.
Tidy(out) == out # <<>> /\ (out[1] # 0 \/ out = <<0>>)

\* uart_putdw_dec: what is out and what is left make up the number, and what is left is less
\* than the place of the last digit.
LEMMA LeftPass ==
  ASSUME NEW w \in Nat, NEW n \in 0 .. MaxExp, NEW s \in Printing,
         w = Value(s.out) * Power[n + 1] + s.w, s.w < Power[n + 1], s.out = <<>> \/ s.out[1] # 0
  PROVE  LET r == LeftToRight[MaxExp + 1 - n][s]
         IN /\ r \in Printing /\ w = Value(r.out) * Power[n] + r.w /\ r.w < Power[n]
            /\ r.out = <<>> \/ r.out[1] # 0 \/ (n = 0 /\ r.out = <<0>>)
            /\ n = 0 => r.out # <<>>
<1> DEFINE num == Power[n]
           b == s.w \div num
           r == LeftToRight[MaxExp + 1 - n][s]
           k == MaxExp + 1 - n
<1>0. /\ MaxExp \in Nat /\ n \in Nat /\ Radix \in Nat /\ k \in 1 .. MaxExp + 1 /\ MaxExp + 1 - k = n
  BY ConsoleAssumption
<1>1. s.w \in Nat /\ s.out \in Seq(Nat)
  BY DEF Printing
<1>2. num \in Nat \ {0} /\ Power[n + 1] = Radix * num /\ (n = 0 <=> num = 1)
  <2>1. num \in Nat \ {0} /\ Power[n + 1] = Radix * num /\ (n = 0 => num = 1)
    BY <1>0, PowerIs
  <2>2. ASSUME n # 0 PROVE num # 1
    <3>1. n - 1 \in 0 .. MaxExp /\ (n - 1) + 1 = n
      BY <1>0, <2>2
    <3>2. num > Power[n - 1] /\ Power[n - 1] \in Nat \ {0}
      BY <1>0, <3>1, PowerIs
    <3> QED BY <2>1, <3>2
  <2> QED BY <2>1, <2>2
<1>3. b \in Nat /\ s.w - b * num \in 0 .. num - 1
  <2>1. b \in Nat /\ s.w % num \in 0 .. num - 1 /\ s.w = b * num + (s.w % num)
    BY <1>1, <1>2, Divided
  <2> HIDE DEF num, b
  <2>2. b * num \in Nat
    BY <1>2, <2>1
  <2> DEFINE q == b * num
             t == s.w % num
  <2>3. q \in Nat /\ t \in 0 .. num - 1 /\ s.w = q + t
    BY <2>1, <2>2
  <2> HIDE DEF q, t
  <2>4. s.w - q = t
    BY <1>2, <2>3
  <2>5. s.w - q \in 0 .. num - 1
    BY <2>3, <2>4
  <2> QED BY <2>1, <2>5 DEF q
<1>4. r = [w |-> s.w - b * num, out |-> IF b > 0 \/ s.out # <<>> \/ num = 1 THEN Append(s.out, b) ELSE s.out]
  BY <1>0 DEF LeftToRight
<1> HIDE DEF r, num, b
<1>5. CASE b > 0 \/ s.out # <<>> \/ num = 1
  <2>1. r.out = Append(s.out, b) /\ r.w = s.w - b * num
    BY <1>4, <1>5
  <2>2. /\ Append(s.out, b) \in Seq(Nat) /\ Append(s.out, b) # <<>>
        /\ s.out = <<>> => Append(s.out, b) = <<b>> /\ Append(s.out, b)[1] = b
        /\ s.out # <<>> => Append(s.out, b)[1] = s.out[1]
    <3>1. Append(s.out, b) \in Seq(Nat) /\ Append(s.out, b) # <<>>
      <4> DEFINE o == s.out
      <4>1. o \in Seq(Nat) /\ b \in Nat
        BY <1>1, <1>3
      <4> HIDE DEF o
      <4>2. Append(o, b) \in Seq(Nat) /\ Len(Append(o, b)) = Len(o) + 1 /\ Len(o) \in Nat
        BY <4>1
      <4>3. Len(<<>>) = 0
        OBVIOUS
      <4>4. Append(o, b) # <<>>
        BY <4>2, <4>3
      <4> QED BY <4>2, <4>4 DEF o
    <3>2. s.out = <<>> => Append(s.out, b) = <<b>> /\ Append(s.out, b)[1] = b
      OBVIOUS
    <3>3. s.out # <<>> => Append(s.out, b)[1] = s.out[1]
      <4> HAVE s.out # <<>>
      <4>1. Len(s.out) \in Nat /\ 1 \in 1 .. Len(s.out)
        BY <1>1
      <4> QED BY <1>1, <1>3, <4>1
    <3> QED BY <3>1, <3>2, <3>3
  <2>3. Value(s.out) \in Nat /\ Value(r.out) = Radix * Value(s.out) + b
    BY <1>1, <1>3, <2>1, ValueAppended
  <2>4. \A v, p, x \in Nat : (Radix * v + b) * p + (x - b * p) = v * (Radix * p) + x
    BY <1>0, <1>3
  <2>5. (Radix * Value(s.out) + b) * num + (s.w - b * num) = Value(s.out) * (Radix * num) + s.w
    BY <1>1, <1>2, <2>3, <2>4, Zenon
  <2>6. w = Value(r.out) * num + r.w
    BY <1>2, <2>1, <2>3, <2>5
  <2>7. r \in Printing
    BY <1>3, <1>4, <1>5, <2>2 DEF Printing
  <2>8. r.out[1] # 0 \/ (n = 0 /\ r.out = <<0>>)
    BY <1>2, <1>3, <1>5, <2>1, <2>2
  <2> QED BY <1>2, <1>3, <2>1, <2>2, <2>6, <2>7, <2>8 DEF r, num
<1>6. CASE ~(b > 0 \/ s.out # <<>> \/ num = 1)
  <2>1. b = 0 /\ s.out = <<>> /\ num # 1 /\ r = [w |-> s.w - b * num, out |-> s.out]
    BY <1>3, <1>4, <1>6
  <2>2. r.w = s.w /\ r.out = <<>> /\ r \in Printing
    BY <1>1, <1>2, <2>1 DEF Printing
  <2>3. w = s.w /\ s.w < num
    <3>1. Value(s.out) = 0 /\ Power[n + 1] \in Nat
      BY <1>0, <2>1, ValueOfNone, PowerIs
    <3>2. 0 * Power[n + 1] = 0 /\ 0 * num = 0
      BY <1>2, <3>1
    <3> QED BY <1>1, <1>2, <1>3, <2>1, <3>1, <3>2
  <2>4. w = Value(r.out) * num + r.w
    BY <1>1, <1>2, <2>2, <2>3, ValueOfNone
  <2> QED BY <1>2, <2>1, <2>2, <2>3, <2>4 DEF r, num
<1> QED BY <1>5, <1>6

\* So the digits have the value of the number.
LEMMA PrintedLeft ==
  ASSUME NEW w \in Numbers
  PROVE  LET out == uart_putdw_dec(w) IN out \in Seq(Nat) /\ Value(out) = w /\ Tidy(out)
<1> DEFINE M == MaxExp + 1
           a == [w |-> w, out |-> <<>>]
           r == Loop(LeftToRight, a, M)
           Good(k) == /\ r[k] \in Printing
                      /\ w = Value(r[k].out) * Power[M - k] + r[k].w /\ r[k].w < Power[M - k]
                      /\ r[k].out = <<>> \/ r[k].out[1] # 0 \/ (k = M /\ r[k].out = <<0>>)
                      /\ k = M => r[k].out # <<>>
           S == {k \in 0 .. M : Good(k)}
<1>0. M \in Nat /\ MaxExp \in Nat /\ M > 0 /\ M - 0 = M /\ M - M = 0
  BY ConsoleAssumption
<1>1. w \in Nat /\ w < Power[M] /\ Power[M] \in Nat
  <2>1. Power[M] \in Nat
    BY <1>0, PowerIs
  <2> QED BY <2>1 DEF Numbers
<1>2. r[0] = a /\ \A k \in 0 .. M - 1 : r[k + 1] = LeftToRight[k + 1][r[k]]
  BY <1>0, LoopSteps
<1> HIDE DEF r
<1>3. \A k \in 0 .. M : k \in S
  <2>1. 0 \in S
    <3>1. a.w = w /\ a.out = <<>> /\ a \in Printing
      BY <1>1 DEF Printing
    <3>2. Value(a.out) * Power[M - 0] + a.w = w
      BY <1>0, <1>1, <3>1, ValueOfNone
    <3> QED BY <1>0, <1>1, <1>2, <3>1, <3>2
  <2>2. ASSUME NEW k \in 0 .. M - 1, k \in S PROVE k + 1 \in S
    <3> DEFINE n == M - (k + 1)
    <3>1. k # M /\ n \in 0 .. MaxExp /\ n + 1 = M - k /\ MaxExp + 1 - n = k + 1 /\ (n = 0 <=> k + 1 = M)
          /\ k + 1 \in 0 .. M
      BY <1>0
    <3>2. Good(k)
      BY <2>2
    <3>3. LET q == LeftToRight[MaxExp + 1 - n][r[k]]
          IN /\ q \in Printing /\ w = Value(q.out) * Power[n] + q.w /\ q.w < Power[n]
             /\ q.out = <<>> \/ q.out[1] # 0 \/ (n = 0 /\ q.out = <<0>>)
             /\ n = 0 => q.out # <<>>
      <4> HIDE DEF n
      <4> QED BY <1>1, <3>1, <3>2, LeftPass
    <3>4. Good(k + 1)
      <4>1. r[k + 1] = LeftToRight[MaxExp + 1 - n][r[k]]
        BY <1>2, <3>1
      <4> QED BY <3>1, <3>3, <4>1
    <3> HIDE DEF Good
    <3> QED BY <3>1, <3>4
  <2> HIDE DEF S
  <2> QED BY <1>0, <2>1, <2>2, Places
<1>4. Good(M)
  <2>1. M \in 0 .. M
    BY <1>0
  <2> HIDE DEF Good, M
  <2> QED BY <1>3, <2>1
<1>5. Power[M - M] = 1
  BY <1>0, PowerIs
<1>6. r[M].out \in Seq(Nat) /\ r[M].w \in Nat
  BY <1>4 DEF Printing
<1>7. Value(r[M].out) \in Nat
  BY <1>6, ValueAppended
<1>8. Value(r[M].out) = w
  BY <1>4, <1>5, <1>6, <1>7
<1> QED BY <1>4, <1>6, <1>8 DEF uart_putdw_dec, r, Tidy

\* A row of numbers with one in front.
LEMMA InFront ==
  ASSUME NEW d \in Nat, NEW o \in Seq(Nat)
  PROVE  /\ <<d>> \o o \in Seq(Nat) /\ Len(<<d>> \o o) = Len(o) + 1
         /\ <<d>> \o o # <<>> /\ (<<d>> \o o)[1] = d /\ (o = <<>> => <<d>> \o o = <<d>>)
<1>1. <<d>> \o o \in Seq(Nat) /\ Len(<<d>> \o o) = Len(o) + 1 /\ Len(o) \in Nat /\ (<<d>> \o o)[1] = d
  OBVIOUS
<1>2. Len(<<>>) = 0
  OBVIOUS
<1>3. <<d>> \o o # <<>>
  BY <1>1, <1>2
<1>4. o = <<>> => <<d>> \o o = <<d>>
  OBVIOUS
<1> QED BY <1>1, <1>3, <1>4

\* term_putul: what is left stands in front of the digits that are out, and gets less with
\* each of them.
LEMMA RightPass ==
  ASSUME NEW w \in Nat, NEW k \in 1 .. MaxExp + 1, NEW s \in Printing,
         Len(s.out) <= k - 1, s.out = <<>> => k = 1,
         w = s.w * Power[Len(s.out)] + Value(s.out), s.w < Power[MaxExp + 1 - (k - 1)],
         s.out # <<>> /\ s.w = 0 => Tidy(s.out)
  PROVE  LET r == RightToLeft[k][s]
         IN /\ r \in Printing /\ Len(r.out) <= k /\ r.out # <<>>
            /\ w = r.w * Power[Len(r.out)] + Value(r.out) /\ r.w < Power[MaxExp + 1 - k]
            /\ r.w = 0 => Tidy(r.out)
<1> DEFINE n == MaxExp + 1 - k
           r == RightToLeft[k][s]
           L == Len(s.out)
           q == s.w \div Radix
           m == s.w % Radix
<1>1. s.w \in Nat /\ s.out \in Seq(Nat) /\ L \in Nat
  BY DEF Printing
<1>0. /\ MaxExp \in Nat /\ Radix \in Nat \ {0} /\ k \in Nat /\ n \in 0 .. MaxExp
      /\ MaxExp + 1 - (k - 1) = n + 1 /\ L \in 0 .. MaxExp /\ L + 1 <= k /\ L <= MaxExp + 1
  <2>1. MaxExp \in Nat /\ Radix \in Nat \ {0} /\ L <= k - 1
    BY ConsoleAssumption
  <2>2. k \in Nat /\ k <= MaxExp + 1 /\ 1 <= k
    BY <2>1
  <2>3. L \in 0 .. MaxExp /\ L + 1 <= k /\ L <= MaxExp + 1
    <3> HIDE DEF L
    <3> QED BY <1>1, <2>1, <2>2
  <2> QED BY <2>1, <2>2, <2>3
<1>2. Power[n + 1] = Radix * Power[n] /\ Power[L + 1] = Radix * Power[L]
      /\ Power[n] \in Nat \ {0} /\ Power[L] \in Nat
  <2>1. n \in 0 .. MaxExp /\ L \in 0 .. MaxExp /\ n \in 0 .. MaxExp + 1 /\ L \in 0 .. MaxExp + 1
    BY <1>0
  <2> HIDE DEF n, L
  <2> QED BY <2>1, PowerIs
<1>3. r = IF s.w = 0 /\ s.out # <<>> THEN s ELSE [w |-> q, out |-> <<m>> \o s.out]
  BY DEF RightToLeft
<1>4. q \in Nat /\ m \in 0 .. Radix - 1 /\ s.w = q * Radix + m
  BY <1>0, <1>1, Divided
<1> HIDE DEF n, r, L, q, m
<1>5. CASE s.w = 0 /\ s.out # <<>>
  <2>1. r = s /\ s.w < Power[n]
    BY <1>2, <1>3, <1>5
  <2>2. Len(r.out) <= k
    BY <1>0, <1>1, <2>1 DEF L
  <2> QED BY <1>5, <2>1, <2>2 DEF r, n
<1>6. CASE ~(s.w = 0 /\ s.out # <<>>)
  <2>1. r = [w |-> q, out |-> <<m>> \o s.out] /\ m \in Nat
    BY <1>0, <1>3, <1>4, <1>6
  <2>2. /\ <<m>> \o s.out \in Seq(Nat) /\ Len(<<m>> \o s.out) = L + 1 /\ <<m>> \o s.out # <<>>
        /\ (<<m>> \o s.out)[1] = m /\ (s.out = <<>> => <<m>> \o s.out = <<m>>)
    BY <1>1, <2>1, InFront DEF L
  <2>3. r.w = q /\ r.out = <<m>> \o s.out /\ r \in Printing
    BY <1>4, <2>1, <2>2 DEF Printing
  <2>4. Value(s.out) \in Nat /\ Value(r.out) = m * Power[L] + Value(s.out)
    BY <1>0, <1>1, <2>1, <2>3, ValuePrepended DEF L
  <2>5. \A p, v \in Nat : (q * Radix + m) * p + v = q * (Radix * p) + (m * p + v)
    BY <1>0, <1>4, <2>1
  <2>6. (q * Radix + m) * Power[L] + Value(s.out) = q * (Radix * Power[L]) + (m * Power[L] + Value(s.out))
    BY <1>2, <2>4, <2>5, Zenon
  <2>7. w = r.w * Power[Len(r.out)] + Value(r.out)
    <3>1. w = (q * Radix + m) * Power[L] + Value(s.out)
      BY <1>4 DEF L
    <3>2. Power[Len(r.out)] = Radix * Power[L]
      BY <1>2, <2>2, <2>3
    <3> QED BY <2>3, <2>4, <2>6, <3>1, <3>2
  <2>8. r.w < Power[n]
    <3>1. q * Radix + m < Radix * Power[n]
      BY <1>0, <1>2, <1>4
    <3>2. ASSUME q >= Power[n] PROVE FALSE
      <4>1. \A x, y \in Nat : x >= y => x * Radix >= Radix * y
        BY <1>0
      <4>2. \A x, y \in Nat : x * Radix \in Nat /\ Radix * y \in Nat
        BY <1>0
      <4>3. q \in Nat /\ Power[n] \in Nat
        BY <1>2, <1>4
      <4>4. q * Radix >= Radix * Power[n] /\ q * Radix \in Nat /\ Radix * Power[n] \in Nat
        BY <3>2, <4>1, <4>2, <4>3, Zenon
      <4> QED BY <1>4, <2>1, <3>1, <4>4
    <3> QED BY <1>2, <1>4, <2>3, <3>2
  <2>9. ASSUME r.w = 0 PROVE Tidy(r.out)
    <3>1. q = 0 /\ s.w = m
      BY <1>0, <1>4, <2>3, <2>9
    <3>2. CASE s.out = <<>>
      BY <2>2, <2>3, <3>2 DEF Tidy
    <3>3. CASE s.out # <<>>
      BY <1>6, <2>2, <2>3, <3>1, <3>3 DEF Tidy
    <3> QED BY <3>2, <3>3
  <2>10. Len(r.out) <= k
    BY <1>0, <2>2, <2>3
  <2> QED BY <2>2, <2>3, <2>7, <2>8, <2>9, <2>10 DEF r, n
<1> QED BY <1>5, <1>6

\* So its digits have the value of the number, too.
LEMMA PrintedRight ==
  ASSUME NEW w \in Numbers
  PROVE  LET out == term_putul(w) IN out \in Seq(Nat) /\ Value(out) = w /\ Tidy(out)
<1> DEFINE M == MaxExp + 1
           a == [w |-> w, out |-> <<>>]
           r == Loop(RightToLeft, a, M)
           Good(k) == /\ r[k] \in Printing /\ Len(r[k].out) <= k /\ (r[k].out = <<>> => k = 0)
                      /\ w = r[k].w * Power[Len(r[k].out)] + Value(r[k].out) /\ r[k].w < Power[M - k]
                      /\ r[k].out # <<>> /\ r[k].w = 0 => Tidy(r[k].out)
           S == {k \in 0 .. M : Good(k)}
<1>0. M \in Nat /\ MaxExp \in Nat /\ M > 0 /\ M - 0 = M /\ M - M = 0
  BY ConsoleAssumption
<1>1. w \in Nat /\ w < Power[M] /\ Power[M] \in Nat
  <2>1. Power[M] \in Nat
    BY <1>0, PowerIs
  <2> QED BY <2>1 DEF Numbers
<1>2. r[0] = a /\ \A k \in 0 .. M - 1 : r[k + 1] = RightToLeft[k + 1][r[k]]
  BY <1>0, LoopSteps
<1> HIDE DEF r
<1>3. \A k \in 0 .. M : k \in S
  <2>1. 0 \in S
    <3>1. a.w = w /\ a.out = <<>> /\ a \in Printing /\ Len(a.out) = 0
      BY <1>1 DEF Printing
    <3>2. a.w * Power[Len(a.out)] + Value(a.out) = w
      BY <1>1, <3>1, ValueOfNone, PowerIs
    <3>3. Good(0)
      <4> DEFINE x == r[0]
      <4>1. x = a
        BY <1>2
      <4>2. /\ x.w = w /\ x.out = <<>> /\ x \in Printing /\ Len(x.out) = 0
            /\ x.w * Power[Len(x.out)] + Value(x.out) = w
        <5> HIDE DEF a, x
        <5> QED BY <3>1, <3>2, <4>1
      <4>3. x.w < Power[M - 0]
        BY <1>0, <1>1, <4>2
      <4> HIDE DEF x, a, M
      <4>4. /\ x \in Printing /\ Len(x.out) <= 0 /\ (x.out = <<>> => 0 = 0)
            /\ w = x.w * Power[Len(x.out)] + Value(x.out) /\ x.w < Power[M - 0]
            /\ x.out # <<>> /\ x.w = 0 => Tidy(x.out)
        BY <4>2, <4>3
      <4> QED BY <4>4 DEF x
    <3>4. 0 \in 0 .. M
      BY <1>0
    <3> HIDE DEF Good
    <3> QED BY <3>3, <3>4
  <2>2. ASSUME NEW k \in 0 .. M - 1, k \in S PROVE k + 1 \in S
    <3>1. /\ k + 1 \in 1 .. MaxExp + 1 /\ (k + 1) - 1 = k /\ k + 1 \in 0 .. M /\ k + 1 # 0
          /\ (k = 0 => k + 1 = 1)
      BY <1>0
    <3>2. Good(k)
      BY <2>2
    <3>3. LET q == RightToLeft[k + 1][r[k]]
          IN /\ q \in Printing /\ Len(q.out) <= k + 1 /\ q.out # <<>>
             /\ w = q.w * Power[Len(q.out)] + Value(q.out) /\ q.w < Power[MaxExp + 1 - (k + 1)]
             /\ q.w = 0 => Tidy(q.out)
      <4> DEFINE j == k + 1
                 s == r[k]
      <4>1. j \in 1 .. MaxExp + 1 /\ j - 1 = k /\ MaxExp + 1 - (j - 1) = M - k
        BY <1>0, <3>1
      <4>2. /\ s \in Printing /\ Len(s.out) <= j - 1 /\ (s.out = <<>> => j = 1)
            /\ w = s.w * Power[Len(s.out)] + Value(s.out) /\ s.w < Power[MaxExp + 1 - (j - 1)]
            /\ s.out # <<>> /\ s.w = 0 => Tidy(s.out)
        BY <3>1, <3>2, <4>1
      <4> HIDE DEF j, s
      <4>3. LET q == RightToLeft[j][s]
            IN /\ q \in Printing /\ Len(q.out) <= j /\ q.out # <<>>
               /\ w = q.w * Power[Len(q.out)] + Value(q.out) /\ q.w < Power[MaxExp + 1 - j]
               /\ q.w = 0 => Tidy(q.out)
        BY <1>1, <4>1, <4>2, RightPass
      <4> QED BY <4>3 DEF j, s
    <3>4. r[k + 1] = RightToLeft[k + 1][r[k]]
      BY <1>2
    <3>5. Good(k + 1)
      <4> DEFINE x == r[k + 1]
      <4>1. /\ x \in Printing /\ Len(x.out) <= k + 1 /\ x.out # <<>>
            /\ w = x.w * Power[Len(x.out)] + Value(x.out) /\ x.w < Power[MaxExp + 1 - (k + 1)]
            /\ x.w = 0 => Tidy(x.out)
        BY <3>3, <3>4
      <4> HIDE DEF x
      <4>2. /\ x \in Printing /\ Len(x.out) <= k + 1 /\ (x.out = <<>> => k + 1 = 0)
            /\ w = x.w * Power[Len(x.out)] + Value(x.out) /\ x.w < Power[M - (k + 1)]
            /\ x.out # <<>> /\ x.w = 0 => Tidy(x.out)
        <5>1. x.out = <<>> => k + 1 = 0
          BY <4>1
        <5>2. x.w < Power[M - (k + 1)]
          <6>1. M - (k + 1) = MaxExp + 1 - (k + 1)
            BY <1>0
          <6> HIDE DEF M
          <6> QED BY <4>1, <6>1
        <5>3. x.out # <<>> /\ x.w = 0 => Tidy(x.out)
          BY <4>1
        <5> QED BY <4>1, <5>1, <5>2, <5>3, Zenon
      <4> QED BY <4>2 DEF x
    <3> HIDE DEF Good
    <3> QED BY <3>1, <3>5
  <2> HIDE DEF S
  <2> QED BY <1>0, <2>1, <2>2, Places
<1>4. Good(M)
  <2>1. M \in 0 .. M
    BY <1>0
  <2> HIDE DEF Good, M
  <2> QED BY <1>3, <2>1
<1>5. Power[M - M] = 1
  BY <1>0, PowerIs
<1>6. r[M].out \in Seq(Nat) /\ r[M].w \in Nat /\ Len(r[M].out) \in 0 .. M
  <2> DEFINE o == r[M].out
  <2>1. o \in Seq(Nat) /\ r[M].w \in Nat /\ Len(o) <= M
    BY <1>4 DEF Printing
  <2> HIDE DEF o, M
  <2>2. Len(o) \in 0 .. M
    BY <1>0, <2>1
  <2> QED BY <2>1, <2>2 DEF o
<1>7. Value(r[M].out) \in Nat /\ Power[Len(r[M].out)] \in Nat
  BY <1>6, ValueAppended, PowerIs
<1>8. r[M].w = 0 /\ r[M].out # <<>>
  <2> DEFINE x == r[M]
  <2>1. x.w < Power[M - M] /\ (x.out = <<>> => M = 0)
    BY <1>4
  <2>2. x.w \in Nat
    BY <1>6
  <2> HIDE DEF x, M
  <2>3. x.w = 0 /\ x.out # <<>>
    BY <1>0, <1>5, <2>1, <2>2
  <2> QED BY <2>3 DEF x
<1>9. Value(r[M].out) = w
  BY <1>4, <1>7, <1>8
<1> QED BY <1>4, <1>6, <1>8, <1>9 DEF term_putul, r

-----------------------------------------------------------------------------
(* What is shown.                                                          *)

\* What ScreenTrue says of what a command has shown.
TrueOf(s) ==
  /\ s.line = s.screen
  /\ s.summary /\ cwd # Unknown =>
       \A t \in {"FILE", "DIR"} : Cardinality(Here(t)) < CountMod =>
         IF s.message THEN s.count[t] <= Cardinality(Here(t)) ELSE s.count[t] = Cardinality(Here(t))
  /\ s.number # None => /\ Value(s.digits) = s.number
                        /\ Head(s.digits \o <<0>>) = 0 => s.digits = <<0>>

\* Nothing is true.
LEMMA NothingTrue == TrueOf(Nothing)
BY DEF TrueOf, Nothing

\* So is the line that was typed.
LEMMA LineTrue ==
  ASSUME NEW keys \in Lines, ShowLine(keys)
  PROVE  TrueOf(shown')
<1> DEFINE l == read_line[keys]
<1>1. l.buf = l.screen
  BY ReadLine DEF Typist
<1> HIDE DEF l
<1>2. shown' = [Nothing EXCEPT !.line = l.buf, !.screen = l.screen]
  BY DEF ShowLine, l
<1>3. shown'.line = l.buf /\ shown'.screen = l.screen /\ shown'.summary = FALSE /\ shown'.number = None
  BY <1>2 DEF Nothing
<1> QED BY <1>1, <1>3 DEF TrueOf

\* A listing that has come to the end has all items: each has fewer before it than there are.
LEMMA AllListed == Listing(Cardinality(ItemsIn(cwd))) = ItemsIn(cwd)
<1> DEFINE I == ItemsIn(cwd)
<1>1. I \subseteq Slots /\ Slots \subseteq Nat /\ IsFiniteSet(I)
  BY ConsoleAssumption, FS_Subset DEF ItemsIn
<1> HIDE DEF I
<1>2. ASSUME NEW i \in I PROVE Cardinality({j \in I : j < i}) < Cardinality(I)
  <2> DEFINE B == {j \in I : j < i}
  <2>1. B \subseteq I /\ i \notin B
    BY <1>1
  <2> HIDE DEF B
  <2>2. IsFiniteSet(B) /\ Cardinality(B) <= Cardinality(I) /\ (Cardinality(B) = Cardinality(I) => B = I)
    BY <1>1, <2>1, FS_Subset
  <2>3. Cardinality(B) \in Nat /\ Cardinality(I) \in Nat /\ B # I
    BY <1>1, <2>1, <2>2, FS_CardinalityType
  <2> QED BY <2>2, <2>3 DEF B
<1> QED BY <1>2 DEF Listing, I

\* What has been listed are not more than there are, and below CountMod they are counted as
\* they are.
LEMMA CountedWell ==
  ASSUME NEW k, NEW t \in {"FILE", "DIR"}, Cardinality(Here(t)) < CountMod
  PROVE  /\ Counted(k)[t] = Cardinality(Listing(k) \cap Here(t))
         /\ Counted(k)[t] <= Cardinality(Here(t))
<1> DEFINE H == Here(t)
           L == Listing(k) \cap H
<1>1. Slots \subseteq Nat /\ IsFiniteSet(Slots) /\ CountMod \in Nat \ {0}
  BY ConsoleAssumption
<1>2. L \subseteq H /\ H \subseteq Slots
  BY DEF Here, ItemsIn
<1>3. Counted(k)[t] = Cardinality(L) % CountMod
  BY DEF Counted
<1>4. Cardinality(H) < CountMod
  OBVIOUS
<1> HIDE DEF L, H
<1>5. IsFiniteSet(H)
  BY <1>1, <1>2, FS_Subset
<1>6. IsFiniteSet(L) /\ Cardinality(L) <= Cardinality(H)
  BY <1>2, <1>5, FS_Subset
<1>7. Cardinality(L) \in Nat /\ Cardinality(H) \in Nat
  BY <1>5, <1>6, FS_CardinalityType
<1>8. \A c, m \in Nat : c < m => c % m = c
  OBVIOUS
<1>9. Cardinality(L) % CountMod = Cardinality(L)
  BY <1>1, <1>4, <1>6, <1>7, <1>8
<1> QED BY <1>3, <1>6, <1>9 DEF L, H

\* So the numbers in the summary are those of files and directories, or fewer under an error.
LEMMA ListTrue ==
  ASSUME list_dir
  PROVE  TrueOf(shown')
<1>1. ASSUME NEW count, NEW done \in BOOLEAN, Show(count, done)
      PROVE  /\ shown'.line = <<>> /\ shown'.screen = <<>> /\ shown'.number = None /\ shown'.count = count
             /\ shown'.summary = (done \/ ~Zx81) /\ shown'.message = (tfs_last_error' # "OK")
  BY <1>1 DEF Show, Nothing, print_error
<1>2. CASE cwd = Unknown
  <2>1. \E count : \E done \in BOOLEAN : Show(count, done)
    BY <1>2 DEF list_dir
  <2> QED BY <1>1, <1>2, <2>1 DEF TrueOf
<1>3. ASSUME cwd # Unknown, NEW k, NEW done \in BOOLEAN, Show(Counted(k), done),
             done \/ ~Zx81 => tfs_last_error' # "OK" \/ k = Cardinality(ItemsIn(cwd))
      PROVE  TrueOf(shown')
  <2>1. /\ shown'.line = <<>> /\ shown'.screen = <<>> /\ shown'.number = None /\ shown'.count = Counted(k)
        /\ shown'.summary => shown'.message \/ k = Cardinality(ItemsIn(cwd))
    BY <1>1, <1>3
  <2>2. ASSUME shown'.summary, NEW t \in {"FILE", "DIR"}, Cardinality(Here(t)) < CountMod
        PROVE  IF shown'.message THEN shown'.count[t] <= Cardinality(Here(t))
                                 ELSE shown'.count[t] = Cardinality(Here(t))
    <3>1. CASE shown'.message
      BY <2>1, <2>2, <3>1, CountedWell
    <3>2. CASE ~shown'.message
      <4>1. Listing(k) = ItemsIn(cwd)
        BY <2>1, <2>2, <3>2, AllListed
      <4>2. Listing(k) \cap Here(t) = Here(t)
        BY <4>1 DEF Here
      <4> QED BY <2>1, <2>2, <3>2, <4>2, CountedWell
    <3> QED BY <3>1, <3>2
  <2> QED BY <2>1, <2>2 DEF TrueOf
<1>4. CASE cwd # Unknown /\ tfs_last_error' = "OK"
  <2>1. \/ Show(Counted(Cardinality(ItemsIn(cwd))), TRUE)
        \/ Zx81 /\ \E k : Show(Counted(k), FALSE)
    BY <1>4 DEF list_dir, Pages
  <2> QED BY <1>3, <1>4, <2>1
<1>5. CASE cwd # Unknown /\ tfs_last_error' # "OK"
  <2>1. \E k : Show(Counted(k), FALSE)
    BY <1>5 DEF list_dir
  <2> QED BY <1>3, <1>5, <2>1
<1> QED BY <1>2, <1>4, <1>5

\* Digits that are tidy have no zero in front that could be left out.
LEMMA NoZero ==
  ASSUME NEW out \in Seq(Nat), Tidy(out)
  PROVE  Head(out \o <<0>>) = 0 => out = <<0>>
<1>1. Len(out) \in Nat /\ Len(out) # 0
  BY DEF Tidy
<1>2. out \o <<0>> \in Seq(Nat) /\ Len(out \o <<0>>) = Len(out) + 1 /\ (out \o <<0>>)[1] = out[1]
  BY <1>1
<1>3. Head(out \o <<0>>) = out[1]
  BY <1>1, <1>2
<1> QED BY <1>3 DEF Tidy

\* The number of blocks in use is printed with its value.
LEMMA UsedTrue ==
  ASSUME show_used
  PROVE  TrueOf(shown')
<1>1. PICK n \in Numbers : \/ shown' = [Nothing EXCEPT !.message = TRUE]
                           \/ shown' = [Nothing EXCEPT !.number = n, !.digits = Digits[n].ZX81]
                           \/ shown' = [Nothing EXCEPT !.number = n, !.digits = Digits[n].AVR]
  <2>1. 0 \in Numbers
    <3>1. MaxExp + 1 \in 0 .. MaxExp + 1
      BY ConsoleAssumption
    <3>2. Power[MaxExp + 1] \in Nat \ {0}
      BY <3>1, PowerIs
    <3> QED BY <3>2 DEF Numbers
  <2> QED BY <2>1 DEF show_used
<1> DEFINE a == uart_putdw_dec(n)
           b == term_putul(n)
<1>2. Digits[n].AVR = a /\ Digits[n].ZX81 = b
  BY DEF Digits
<1>3. a \in Seq(Nat) /\ Value(a) = n /\ Tidy(a)
  BY PrintedLeft
<1>4. b \in Seq(Nat) /\ Value(b) = n /\ Tidy(b)
  BY PrintedRight
<1> HIDE DEF a, b
<1>5. CASE shown' = [Nothing EXCEPT !.message = TRUE]
  BY <1>5 DEF TrueOf, Nothing
<1>6. ASSUME NEW out \in {a, b}, shown' = [Nothing EXCEPT !.number = n, !.digits = out]
      PROVE  TrueOf(shown')
  <2>1. shown'.line = shown'.screen /\ shown'.summary = FALSE /\ shown'.number = n /\ shown'.digits = out
    BY <1>6 DEF Nothing
  <2> QED BY <1>3, <1>4, <2>1, NoZero DEF TrueOf
<1> QED BY <1>1, <1>2, <1>5, <1>6

\* Every command shows what is true.
LEMMA NextTrue ==
  ASSUME Next
  PROVE  TrueOf(shown')
<1>1. \/ shown' = Nothing \/ list_dir \/ show_used \/ \E keys \in Lines : ShowLine(keys)
  <2>1. CASE Zx81Next
    BY <2>1, Zenon DEF Zx81Next, save_file, save_dir, save_delete, save_rename, save_no_colon, save_format,
      save_load_prefix, load_file, load_cd, load_parent, load_root, load_dir, load_info, load_used, Plain, Reject
  <2>2. CASE AvrNext
    BY <2>2, Zenon DEF AvrNext, avr_named, avr_mv, avr_other
  <2> QED BY <2>1, <2>2 DEF Next
<1> QED BY <1>1, NothingTrue, LineTrue, ListTrue, UsedTrue

\* The line that the AVR carries out is the one that is seen, a summary has the numbers of files
\* and directories there are, or fewer with an error message under it, and numbers are printed
\* with their value and no zeros in front: whatever is typed and in directories of every size
\* that a counter holds, on a drive whose format has not failed.
THEOREM ScreenStaysTrue == Spec => ScreenTrue
<1>1. [Next]_vars =>
        [/\ shown'.line = shown'.screen
         /\ shown'.summary /\ cwd # Unknown =>
              \A t \in {"FILE", "DIR"} : Cardinality(Here(t)) < CountMod =>
                IF shown'.message THEN shown'.count[t] <= Cardinality(Here(t))
                                  ELSE shown'.count[t] = Cardinality(Here(t))
         /\ shown'.number # None => /\ Value(shown'.digits) = shown'.number
                                    /\ Head(shown'.digits \o <<0>>) = 0 => shown'.digits = <<0>>]_vars
  BY NextTrue DEF TrueOf
<1> QED BY <1>1, PTL DEF Spec, ScreenTrue
=============================================================================
