------------------------------ MODULE MCQueue ------------------------------
(* Instances of Queue for TLC. *)
EXTENDS Queue

CONSTANTS work, dlq, m1, m2, m3, t1, t2

NoDeadLetter   == [q \in Consumed |-> None]
WorkDeadLetter == [q \in Consumed |-> IF q = work THEN dlq ELSE None]
=============================================================================
