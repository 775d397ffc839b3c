----------------------------- MODULE MCExchange ----------------------------
(* A client, its bodies, and small limits.                                  *)
EXTENDS Exchange

\* No line; an empty line; the terminator as text; a line that is stuffed; a
\* body that does not fit; a line that stuffing makes too long, and one after it.
Bodies == {<<>>, << <<>> >>, << <<Dot>> >>, << <<"x">>, <<Dot>> >>, << <<Dot, "x">> >>,
           << <<>>, <<"x">>, <<>> >>, << <<Dot, Dot, Dot>>, <<"x">> >>}

Pushed == {<<>>, << <<Dot>> >>}
=============================================================================
