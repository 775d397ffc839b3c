------------------------------ MODULE MCServer -------------------------------
(* Two processes of one federated configuration, and two standalone ones that *)
(* were given one path.                                                       *)
EXTENDS Server

CONSTANTS fed1, fed2, alone1, alone2, x, y, port

Paths == [p \in {fed1, fed2, alone1, alone2} |-> IF p \in {fed1, fed2} THEN x ELSE y]
Ports == [p \in {fed1, fed2, alone1, alone2} |-> IF p \in {fed1, fed2} THEN port ELSE NoPort]
=============================================================================
