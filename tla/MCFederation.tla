---------------------------- MODULE MCFederation ----------------------------
(* Small clusters for model checking the federation of the type table.      *)
EXTENDS Federation

\* Two daemons that dial each other.
Pair == {<<1, 2>>, <<2, 1>>}

\* Three daemons, each dialing the next.
Ring == {<<1, 2>>, <<2, 3>>, <<3, 1>>}
=============================================================================
