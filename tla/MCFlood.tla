------------------------------ MODULE MCFlood ------------------------------
(* Small clusters for model checking the flood of messages.                 *)
EXTENDS Flood

\* Three daemons, each dialing the next.
Ring == {<<1, 2>>, <<2, 3>>, <<3, 1>>}

\* The ring and a shortcut: copies reach daemon 3 on two links at once.
Chord == Ring \union {<<1, 3>>}

\* Daemon 3 has a smaller limit than the others, and what daemon 2's clients
\* publish may be over it.
Limits == <<2, 2, 1>>
Mixed == <<{1}, {1, 2}, {1}>>

\* One limit everywhere.
One == [d \in Daemon |-> 1]
Equal == [d \in Daemon |-> {1}]
=============================================================================
