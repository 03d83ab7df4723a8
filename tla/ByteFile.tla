------------------------------ MODULE ByteFile ------------------------------
(***************************************************************************)
(* What an open file promises its user: a row of bytes that can be written *)
(* and read at any place.  A write beyond the end fills the gap with       *)
(* zeros, a read stops at the end.  A call is made, takes effect at one    *)
(* moment with the arguments it was made with, and is over.                *)
(***************************************************************************)
EXTENDS Integers, Sequences

CONSTANTS Bytes,    \* what is written
          MaxSize   \* bound: last byte position a call reaches

VARIABLES content,  \* the bytes of the file
          call,     \* the running call
          got       \* the bytes the last call has read

vars == <<content, call, got>>

NoCall == [op |-> "none", len |-> 0, offset |-> 0, v |-> 0]

Arguments == {NoCall}
  \cup [op : {"write"}, len : 0 .. MaxSize, offset : 0 .. MaxSize, v : Bytes]
  \cup [op : {"read"}, len : 0 .. MaxSize, offset : 0 .. MaxSize, v : {0}]

ByteAt(i) == IF i <= Len(content) THEN content[i] ELSE 0
Least(m, n) == IF m < n THEN m ELSE n

\* The content with len bytes v put at an offset.
Written(offset, len, v) ==
  [i \in 1 .. (IF offset + len > Len(content) THEN offset + len ELSE Len(content)) |->
     IF i > offset /\ i <= offset + len THEN v ELSE ByteAt(i)]

Call == /\ call = NoCall
        /\ call' \in Arguments
        /\ got' = <<>>
        /\ UNCHANGED content

Write == /\ call.op = "write"
         /\ content' = IF call.len = 0 THEN content
                       ELSE Written(call.offset, call.len, call.v)
         /\ call' = NoCall
         /\ UNCHANGED got

Read == /\ call.op = "read"
        /\ got' = SubSeq(content, call.offset + 1,
                         Least(call.offset + call.len, Len(content)))
        /\ call' = NoCall
        /\ UNCHANGED content

Init == content = <<>> /\ call = NoCall /\ got = <<>>

Next == Call \/ Write \/ Read

Spec == Init /\ [][Next]_vars
=============================================================================
