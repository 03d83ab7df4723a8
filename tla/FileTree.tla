------------------------------ MODULE FileTree ------------------------------
(***************************************************************************)
(* What the basic API promises its callers while no transfer fails: a tree *)
(* of directories and files, a current directory and, for every call, a    *)
(* status and a result.  A tree is a set of entries; an entry is named by  *)
(* its path from the root.  Nothing is said about blocks.                  *)
(***************************************************************************)
EXTENDS Integers, Sequences

CONSTANTS Names,      \* names of files and directories
          NoName,     \* the empty name
          Payloads,   \* what callers write into files
          Lens,       \* lengths of payloads and of read buffers
          DataLen     \* bytes in a chunk, the unit payloads are cut into

VARIABLES tree, cwd, call, status

tvars == <<tree, cwd, call, status>>

Arguments(op, names, args) == [op |-> op, names |-> names, args |-> args]

\* A payload of a length, cut into chunks; chunk i of payload v is <<v, i>>.
NChunks(len)     == (len + DataLen - 1) \div DataLen
ChunksOf(v, len) == [i \in 1 .. NChunks(len) |-> <<v, i>>]

DirEntry(p) == [path |-> p, type |-> "dir", size |-> 0, data |-> <<>>]
FileEntry(p, len, data) ==
  [path |-> p, type |-> "file", size |-> len, data |-> data]

Path(n)     == Append(cwd, n)
At(p)       == {e \in tree : e.path = p}
Exists(n)   == At(Path(n)) # {}
IsDir(n)    == \E e \in At(Path(n)) : e.type = "dir"
IsFile(n)   == \E e \in At(Path(n)) : e.type = "file"
Children(p) == {e \in tree : Len(e.path) = Len(p) + 1 /\ SubSeq(e.path, 1, Len(p)) = p}
Below(p)    == {e \in tree : Len(e.path) >= Len(p) /\ SubSeq(e.path, 1, Len(p)) = p}

TInit == tree = {} /\ cwd = <<>> /\ status = "OK" /\ call = Arguments("init", <<>>, <<>>)

Answer(err) == status' = err
Refuse(err) == Answer(err) /\ UNCHANGED <<tree, cwd>>

Format == tree' = {} /\ cwd' = <<>> /\ Answer("OK")

\* Moving to the root always succeeds and leaves the status of the last call.
ChangeDirRoot == cwd' = <<>> /\ UNCHANGED <<tree, status>>

ChangeDirParent ==
  \/ cwd = <<>> /\ Refuse("NOT_EXIST")
  \/ cwd # <<>> /\ cwd' = SubSeq(cwd, 1, Len(cwd) - 1) /\ Answer("OK") /\ UNCHANGED tree

ChangeDir(n) ==
  \/ ~IsDir(n) /\ Refuse("NOT_EXIST")
  \/ IsDir(n) /\ cwd' = Path(n) /\ Answer("OK") /\ UNCHANGED tree

CreateDir(n) ==
  \/ Exists(n) /\ Refuse("FILE_EXIST")
  \/ ~Exists(n) /\ Refuse("DISK_FULL")
  \/ ~Exists(n) /\ tree' = tree \cup {DirEntry(Path(n))} /\ Answer("OK") /\ UNCHANGED cwd

\* A file that did not fit keeps the size that was asked for and the blocks
\* that were written.
WriteFile(n, v, len, overwrite) ==
  \/ Exists(n) /\ ~(overwrite /\ IsFile(n)) /\ Refuse("FILE_EXIST")
  \/ ~Exists(n) /\ Refuse("DISK_FULL")
  \/ IsFile(n) /\ overwrite /\ Refuse("DISK_FULL")
  \/ /\ Exists(n) => overwrite /\ IsFile(n)
     /\ \E k \in 0 .. Len(ChunksOf(v, len)) :
          /\ tree' = (tree \ At(Path(n)))
                     \cup {FileEntry(Path(n), len, SubSeq(ChunksOf(v, len), 1, k))}
          /\ Answer(IF k = Len(ChunksOf(v, len)) THEN "OK" ELSE "DISK_FULL")
     /\ UNCHANGED cwd

\* Reading finds all that was written, up to the size of the buffer; what is
\* asked for and was never stored is reported.  Of a file of no bytes it is not said
\* that it can be read.
ReadFile(n, max_len) ==
  \/ ~IsFile(n) /\ Refuse("NOT_EXIST")
  \/ \E e \in At(Path(n)) :
       /\ e.type = "file"
       /\ Refuse(IF Len(e.data) >= NChunks(IF e.size > max_len THEN max_len ELSE e.size)
                  THEN "OK" ELSE "UNEXP_EOF")
  \/ (\E e \in At(Path(n)) : e.type = "file" /\ e.size = 0) /\ Refuse("IO")

Delete(n, types) ==
  \/ (\A e \in At(Path(n)) : e.type \notin types) /\ Refuse("NOT_EXIST")
  \/ IsDir(n) /\ Children(Path(n)) # {} /\ Refuse("NOT_EMPTY")
  \/ /\ \E e \in At(Path(n)) : e.type \in types
     /\ Children(Path(n)) = {}
     /\ tree' = tree \ At(Path(n))
     /\ Answer("OK")
     /\ UNCHANGED cwd

\* Everything below a renamed directory moves with it.
Renamed(e, to) == [e EXCEPT !.path[Len(cwd) + 1] = to]

Rename(from, to) ==
  \/ Exists(to) /\ Refuse("FILE_EXIST")
  \/ ~Exists(to) /\ ~Exists(from) /\ Refuse(IF from = NoName THEN "NO_NAME" ELSE "NOT_EXIST")
  \/ /\ ~Exists(to) /\ Exists(from)
     /\ tree' = (tree \ Below(Path(from))) \cup {Renamed(e, to) : e \in Below(Path(from))}
     /\ Answer("OK")
     /\ UNCHANGED cwd

ReadDir == Refuse("OK")

\* A restart: the root directory is current again.
Restart == cwd' = <<>> /\ Answer("OK") /\ UNCHANGED tree

\* A call without a name is refused; a file may be renamed from no name only
\* once the new name has been looked at.
Nameless(n, A) == IF n = NoName THEN Refuse("NO_NAME") ELSE A

Is(op, names, args) == call' = Arguments(op, names, args)
GivenNames == Names \cup {NoName}

TNext ==
  \/ Is("format", <<>>, <<>>) /\ Format
  \/ Is("init", <<>>, <<>>) /\ Restart
  \/ Is("change_dir_root", <<>>, <<>>) /\ ChangeDirRoot
  \/ Is("change_dir_parent", <<>>, <<>>) /\ ChangeDirParent
  \/ Is("read_dir", <<>>, <<>>) /\ ReadDir
  \/ \E n \in GivenNames :
       \/ Is("change_dir", <<n>>, <<>>) /\ Nameless(n, ChangeDir(n))
       \/ Is("create_dir", <<n>>, <<>>) /\ Nameless(n, CreateDir(n))
       \/ \E v \in Payloads, len \in Lens, ow \in BOOLEAN :
            Is("write_file", <<n>>, <<v, len, ow>>) /\ Nameless(n, WriteFile(n, v, len, ow))
       \/ \E max_len \in Lens :
            Is("read_file", <<n>>, <<max_len>>) /\ Nameless(n, ReadFile(n, max_len))
       \/ \E types \in {{"dir"}, {"file"}, {"dir", "file"}} :
            Is("delete", <<n>>, <<types>>) /\ Nameless(n, Delete(n, types))
       \/ \E to \in GivenNames :
            Is("rename", <<n, to>>, <<>>) /\ Nameless(to, Rename(n, to))

TSpec == TInit /\ [][TNext]_tvars
=============================================================================
