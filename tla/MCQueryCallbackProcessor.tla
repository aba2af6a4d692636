---------------------- MODULE MCQueryCallbackProcessor ----------------------
(* Two chains of two callbacks and one of a single callback: a chain can   *)
(* go back into the vector, end early, or be added from within another.    *)
EXTENDS QueryCallbackProcessor

CONSTANTS c1, c2, c3

LengthOf == [c \in Chain |-> IF c = c3 THEN 1 ELSE 2]
=============================================================================
