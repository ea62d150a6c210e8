--------------------------- MODULE MCQueueWorkers ---------------------------
(* An instance of QueueWorkers: 3 converts a novel and is tried twice, 5    *)
(* is an auto update of the library, 7 shows two diffs of that novel.       *)
EXTENDS QueueWorkers

CONSTANTS n1, d1, s1

MCLaneOf(x) == IF x \in {3, s1} THEN "secondary" ELSE "default"
MCTargetsOf(j) == IF j = 5 THEN {} ELSE {n1}
MCUrlSite(j) == NULL
MCSiteOf(n) == "site1"
MCMaxRetries(j) == IF j = 3 THEN 1 ELSE 0
MCPhasesOf(j) == IF j = 7 THEN 2 ELSE 1
=============================================================================
