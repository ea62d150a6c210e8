-------------------------- MODULE MCWorkerLedger --------------------------
(***************************************************************************)
(* Instances of WorkerLedger for TLC.  Job ids are numbers; the plan each  *)
(* id stands for:                                                          *)
(*   1  update of novel n1 by its id, site s1                              *)
(*   2  download of a new novel from the same site s1                      *)
(*   3  convert of novel n1 by its URL: no site, the same novel as 1       *)
(*   4  the plan of 1 again: the id a fresh row for it would get           *)
(***************************************************************************)
EXTENDS WorkerLedger, TLC

Plan == (1 :> [kind |-> "update",   target |-> "n1",     site |-> "s1", novel |-> "n1", key |-> "update:n1"])
     @@ (2 :> [kind |-> "download", target |-> "url2",   site |-> "s1", novel |-> NULL, key |-> "download:url2"])
     @@ (3 :> [kind |-> "convert",  target |-> "n1-url", site |-> "s1", novel |-> "n1", key |-> "convert:n1-url"])
     @@ (4 :> [kind |-> "update",   target |-> "n1",     site |-> "s1", novel |-> "n1", key |-> "update:n1"])

MCKindOf   == [j \in Job |-> Plan[j].kind]
MCTargetOf == [j \in Job |-> Plan[j].target]
MCSiteOf   == [j \in Job |-> Plan[j].site]
MCNovelOf  == [j \in Job |-> Plan[j].novel]
MCKeyOf    == [j \in Job |-> Plan[j].key]

Slots == Permutations(Inv)

(***************************************************************************)
(* What of a state can still matter: no statement reads the site, target,  *)
(* flag and attempts of a settled row, a local after its last use, or a    *)
(* write whose token the row no longer carries.                            *)
(***************************************************************************)
SeenRow(r) == IF r.status \notin Terminal THEN r
              ELSE [r EXCEPT !.waiting = FALSE, !.attempts = 0,
                             !.site = IF r.token = NULL THEN NULL ELSE @,
                             !.target = IF r.token = NULL THEN NULL ELSE @]

SeenInv(v) == CASE v.pc = "busy" -> [v EXCEPT !.stale = FALSE]
                [] v.pc \in {"exec", "exhausted", "redispatch"} ->
                       [v EXCEPT !.stale = FALSE, !.site = IF v.pc = "exec" THEN @ ELSE NULL,
                                 !.wall = IF v.pc = "exec" THEN @ ELSE 0]
                [] OTHER -> v

SeenWrites == {w \in writes : rows[w.job].status = "running" /\ rows[w.job].token = w.token}

Seen == <<[j \in Job |-> SeenRow(rows[j])], queue, [i \in Inv |-> SeenInv(inv[i])],
          SeenWrites, faults>>
=============================================================================
