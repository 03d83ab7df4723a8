------------------------------- MODULE PathTree -------------------------------
(***************************************************************************)
(* What a mounted file system promises the kernel: files and directories   *)
(* that are named by their path, how often each file is open, and for      *)
(* every request a result.  A request that fails changes nothing, except   *)
(* that an I/O error may come behind the change.                           *)
(***************************************************************************)
EXTENDS Integers, Sequences, SequencesExt, FiniteSets, Functions

CONSTANTS MaxFds   \* files that can be open at a time

VARIABLES nodes,   \* the type of every path there is
          opened,  \* how often the file of a path is open
          req,     \* the last request: op, path and to, the second path of a rename
          result,  \* "OK" or an error
          answer   \* what a request has found out

pvars == <<nodes, opened, req, result, answer>>

IsDir(p)    == p = <<>> \/ (p \in DOMAIN nodes /\ nodes[p] = "DIR")
IsFile(p)   == p \in DOMAIN nodes /\ nodes[p] = "FILE"
Inside(p)   == {q \in DOMAIN nodes : q # <<>> /\ Front(q) = p}
OpenIn(p)   == IF p \in DOMAIN opened THEN opened[p] ELSE 0

PInit == /\ nodes = <<>> /\ opened = <<>>
         /\ req = [op |-> "none", path |-> <<>>, to |-> <<>>]
         /\ result = "OK" /\ answer = {}

Done(found) == result' = "OK" /\ answer' = found
Changed     == result' \in {"OK", "EIO"} /\ answer' = {}
Same        == UNCHANGED <<nodes, opened>>

\* A new path below a directory.
Make(p, type) ==
  /\ p # <<>> /\ p \notin DOMAIN nodes /\ IsDir(Front(p))
  /\ nodes' = [q \in DOMAIN nodes \cup {p} |-> IF q = p THEN type ELSE nodes[q]]
  /\ opened' = [q \in DOMAIN nodes' |-> OpenIn(q)]
  /\ Changed

\* A file that is not open, or a directory with nothing in it.
Delete(p, type) ==
  /\ p \in DOMAIN nodes /\ nodes[p] = type /\ Inside(p) = {} /\ opened[p] = 0
  /\ nodes' = Restrict(nodes, DOMAIN nodes \ {p})
  /\ opened' = Restrict(opened, DOMAIN nodes \ {p})
  /\ Changed

\* A new name in the same directory, also for all that is below.
Moved(p, to, q) == IF IsPrefix(p, q) THEN to \o SubSeq(q, Len(p) + 1, Len(q)) ELSE q
Rename(p, to) ==
  /\ p \in DOMAIN nodes /\ to # <<>> /\ to \notin DOMAIN nodes /\ Front(p) = Front(to)
  /\ nodes' = [q \in {Moved(p, to, r) : r \in DOMAIN nodes} |-> nodes[Moved(to, p, q)]]
  /\ opened' = [q \in DOMAIN nodes' |-> opened[Moved(to, p, q)]]
  /\ Changed

Count(p, n) == opened' = [opened EXCEPT ![p] = @ + n] /\ UNCHANGED nodes /\ Done({})

\* When that many files are open, a descriptor may be handed out that no request accepts.
Dead(p) == /\ opened[p] = 0 /\ Cardinality({q \in DOMAIN opened : opened[q] > 0}) >= MaxFds
           /\ Same /\ Done({})

Look(p) == (IsDir(p) \/ IsFile(p)) /\ Same /\ Done({IF IsDir(p) THEN "DIR" ELSE "FILE"})
List(p) == IsDir(p) /\ Same /\ Done({Last(q) : q \in Inside(p)})

Succeed ==
  LET p == req'.path
  IN \/ req'.op = "mkdir" /\ Make(p, "DIR")
     \/ req'.op = "mknod" /\ Make(p, "FILE")
     \/ req'.op = "unlink" /\ Delete(p, "FILE")
     \/ req'.op = "rmdir" /\ Delete(p, "DIR")
     \/ req'.op = "rename" /\ Rename(p, req'.to)
     \/ req'.op = "getattr" /\ Look(p)
     \/ req'.op = "readdir" /\ List(p)
     \/ req'.op = "open" /\ IsFile(p) /\ (Count(p, 1) \/ Dead(p))
     \/ req'.op = "truncate" /\ IsFile(p) /\ Same /\ Done({})
     \/ req'.op = "release" /\ OpenIn(p) > 0 /\ Count(p, -1)
     \/ req'.op \in {"read", "write", "ftruncate"} /\ OpenIn(p) > 0 /\ Same /\ Done({})
     \/ req'.op = "statfs" /\ Same /\ Done({})

Fail == result' # "OK" /\ answer' = {} /\ Same

PNext == Succeed \/ Fail
PSpec == PInit /\ [][PNext]_pvars
=============================================================================
