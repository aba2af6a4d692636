--------------------------- MODULE MCUpdateFetcher ---------------------------
(* Three names and two contents: a file can be renamed, copied and changed *)
(* while another stays; the base database brings a row that awaits its     *)
(* hash and an archived one.                                               *)
EXTENDS UpdateFetcher

CONSTANTS h1, h2

F(n, h, s) == [name |-> n, hash |-> h, state |-> s]

TheBases == {{F(1, NoHash, "RELEASED")}, {F(2, h1, "ARCHIVED")}}

TheFirstFiles == {{F(1, h2, "RELEASED"), F(2, h1, "ARCHIVED")},
                  {F(1, h1, "RELEASED"), F(3, h1, "RELEASED")}}

Settings(redundancy, cleanMax) ==
    [redundancy |-> redundancy, rehash |-> TRUE, archived |-> FALSE, cleanMax |-> cleanMax]

TheConfigs == {Settings(TRUE, 1), Settings(FALSE, -1)}
=============================================================================
