------------------------ MODULE MCDatabaseParameter ------------------------
(* Two executions of the script store different URLs, two environments.    *)
EXTENDS DatabaseParameter

CONSTANTS w1, w2, u1, u2

MCUrlOf == [w \in {w1, w2} |-> IF w = w1 THEN u1 ELSE u2]

=============================================================================
