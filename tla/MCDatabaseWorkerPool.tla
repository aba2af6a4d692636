------------------------ MODULE MCDatabaseWorkerPool ------------------------
(* Operations and clients are model values, interchangeable within their   *)
(* kind.  The .cfg files choose how many threads of each sort there are.   *)
EXTENDS DatabaseWorkerPool, TLC

Symmetry ==
    Permutations(OneWay) \cup Permutations(WithResult) \cup Permutations(Ping)
        \cup Permutations(Client)
=============================================================================
