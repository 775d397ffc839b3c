------------------------------ MODULE MCDialer -------------------------------
(* A daemon that has one peer configured twice and another once.            *)
EXTENDS Dialer

CONSTANTS twin1, twin2, other, i1, i2

Ids == [e \in {twin1, twin2, other} |-> IF e = other THEN i2 ELSE i1]
=============================================================================
