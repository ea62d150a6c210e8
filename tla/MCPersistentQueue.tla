------------------------- MODULE MCPersistentQueue -------------------------
(* Instances of PersistentQueue for TLC: a download, a convert, the same     *)
(* backup twice, and a backup of bookmarks, which comes back from the file   *)
(* without its target.                                                       *)
EXTENDS PersistentQueue, TLC

CONSTANTS download, convert, backup1, backup2, bookmarks

MCTargetOf == [j \in Job |-> CASE j = download  -> "download"
                               [] j = convert   -> "convert"
                               [] j = bookmarks -> "bookmarks"
                               [] OTHER         -> "backup"]
MCFiledAs  == [j \in Job |-> IF j = bookmarks THEN "send" ELSE MCTargetOf[j]]
MCLaneOf   == [j \in Job |-> IF j = download THEN "default" ELSE "secondary"]
MCBackup   == Job \intersect {backup1, backup2, bookmarks}
MCChildJob == Job \intersect {convert}

Symmetry == {p @@ q : p \in Permutations(Web), q \in Permutations({backup1, backup2})}

\* A view that forgets what no later step and no invariant reads: the lane once
\* the job is chosen, which operation is saving, unless its end is reported,
\* what a reading holds besides the waiting jobs, which jobs a child sent, and
\* whether a job was rebuilt that is in no list a push or a retry looks at.
Reported == {"push", "push_batch", "pop"}
Remembered(c) ==
    CASE c.pc = "merge" -> [c EXCEPT !.file = [NoFile EXCEPT !.waiting = c.file.waiting]]
      [] c.pc \in {"save", "write"} ->
             [c EXCEPT !.lane = "default",
                       !.op   = IF c.op \in Reported THEN c.op ELSE "flush",
                       !.jobs = IF c.op \in Reported THEN c.jobs ELSE {}]
      [] OTHER -> c
View == <<mem, executing, held, disk, sentinel, child, up, crashes, used,
          rebuilt \intersect (Active(mem) \union mem.failed),
          cooling, accepted, cleared, overflowed, backedUp,
          [t \in Thread |-> Remembered(thread[t])]>>

=============================================================================
