----------------------------- MODULE MCLocalBus -----------------------------
(* Small instances of one daemon's bus.                                     *)
EXTENDS LocalBus, TLC

\* Connections, and keys, are interchangeable in safety checks.
ConnSymmetry == Permutations(Conn) \union Permutations(Key)
=============================================================================
