-------------------------------- MODULE MCFuse --------------------------------
(* Fuse for TLC.                                                           *)
EXTENDS Fuse

\* Two names, and one that is too long and begins like the first.
MCNames == {"a", "b", "along"}
MCCut   == [n \in MCNames |-> IF n = "along" THEN "a" ELSE n]
MCIds   == 1 .. 3

\* What the next request depends on: where which item is, by the place of its directory
\* and not by its number; a walk begins at the root, so not where the last one has ended,
\* and not what the last request was and has returned.
MCItem(id) == [tree[id] EXCEPT !.dir = IF tree[id].dir = ROOT THEN BadFd ELSE place[tree[id].dir]]
MCView == <<[q \in Places |-> {MCItem(id) : id \in {i \in Existing : place[i] = q}}],
            tfs_last_error, usage, held, spoiled>>

\* Nothing is said once a count has come to UsageMod, so nothing behind that is looked at.
MCSound == "wrapped" \notin spoiled
=============================================================================
