------------------------------ MODULE MCConsoles ------------------------------
(* Consoles for TLC.                                                       *)
EXTENDS Consoles

\* Names of one and of two characters, the longest there are, and two that are cut to the
\* latter: one when it is stored, the other by term_buf too.
MCTyped   == {<<"a">>, <<"a", "graphic">>, <<"a", " ", "a">>, <<"a", " ", "b", "b">>}
MCForeign == <<"A">>
MCSlots   == 1 .. 3

\* A command word with up to two names, blanks in front, behind and between, keys that
\* are taken back, and more than there is room for.
Words == {"md", "rm", "cd", "mkfs", "ls", "du", "exit", "b"}
Arguments == {<<"a">>, <<"a", "b">>, <<"a", "b", "a">>, <<"/">>, <<"..">>}
MCLines ==
  {<<c>> : c \in Words \cup {"mv"}} \cup {<<>>, <<" ", "md">>}
  \cup {<<c, " ">> \o a : c \in {"md", "rm", "cd"}, a \in Arguments}
  \cup {<<"mv", " ">> \o a \o <<" ">> \o b : a \in {<<"a">>, <<"a", "b">>, <<>>}, b \in Arguments \cup {<<>>}}
  \cup {<<"BS", "md", " ", "b", "BS", "a", " ">>, <<"md", " ", "a", "b", "a", "a", "a", "a", "b", "BS", "b">>}

MCChars == {" ", "a", "b", "A", "graphic", "BS", "/", "..", "mv"} \cup Words

\* The next command does not depend on what the last one was and has shown, on memory, or
\* on which error there is unless it is TFS_ERR_NO_DEV.
MCView == <<board, items, cwd, tfs_last_error = "NO_DEV", on, ready, touched, forgotten, overlong>>
=============================================================================
