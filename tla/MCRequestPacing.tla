-------------------------- MODULE MCRequestPacing --------------------------
(* Two clients of one site: 1 is narou, 2 has a floor.                     *)
EXTENDS RequestPacing

MCFloor == [c \in Client |-> IF c = 2 THEN 2 ELSE 0]
MCNarou == [c \in Client |-> c = 1]
MCRequests == [c \in Client |-> IF c = 1 THEN 3 ELSE 1]
MCSettings == {[interval |-> 1, steps |-> 0], [interval |-> 2, steps |-> 2]}
=============================================================================
