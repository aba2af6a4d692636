-------------------------- MODULE MCMySQLConnection --------------------------
(* Jobs and connections are model values.  SizeOf gives a transaction two  *)
(* statements, the fewest that can be separated, and t0 none.              *)
EXTENDS MySQLConnection, TLC

CONSTANT t0             \* a transaction to which nothing was appended

SizeOf == [j \in Trx \cup Plain |-> IF j \in Plain THEN 1 ELSE IF j = t0 THEN 0 ELSE 2]
Symmetry == Permutations(Trx \ {t0}) \cup Permutations(Async) \cup Permutations(Synch)
=============================================================================
