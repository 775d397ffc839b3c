----------------------------- MODULE LineReader -----------------------------
(***************************************************************************)
(* How octets become lines (take_line and its callers in macro-busd/src/   *)
(* conn.rs).  The daemon appends what each read brings to rbuf and takes   *)
(* lines off its front, with one limit for commands and another for body   *)
(* lines; what is left of an over-long body line it reads as a command.    *)
(* The client's read_line (macro-bus-client/src/lib.rs) is the same reader *)
(* with one limit and reads of one octet, and a federation link's          *)
(* (federation.rs) the same reader with no limit.                          *)
(***************************************************************************)
EXTENDS Naturals, Sequences, FiniteSets

CONSTANTS
    MaxCommand,   \* max_command_line_bytes
    MaxBodyLine,  \* max_body_line_bytes
    Skipped,      \* in place of a body line that was not kept
    MaxRead,      \* octets a read brings at most
    MaxInput      \* bound: octets the other end sends

ASSUME LimitAssumption == {MaxCommand, MaxBodyLine} \subseteq Nat
ASSUME ReadAssumption == MaxRead \in Nat \ {0} /\ MaxInput \in Nat

\* Carriage return, line feed, and any other octet.
Octet == {"CR", "LF", "x"}

VARIABLES
    input,   \* all that the other end sends
    wire,    \* what of it has not arrived
    rbuf,    \* what has arrived and is in no line yet
    mode,    \* whether a command or a body line is read
    taken,   \* history: the lines taken
    state    \* what the reader does next

vars == <<input, wire, rbuf, mode, taken, state>>

Init ==
    /\ input \in UNION {[1 .. n -> Octet] : n \in 0 .. MaxInput}
    /\ wire = input
    /\ rbuf = <<>>
    /\ mode = "command"
    /\ taken = <<>>
    /\ state = "take"

\* The limit take_line is called with.
Limit == IF mode = "command" THEN MaxCommand ELSE MaxBodyLine

\* The ends of line in b.
Feeds(b) == {i \in DOMAIN b : b[i] = "LF"}

\* Mutant: the buffer is split at the last end of line it holds.
LastFeed(b) == CHOOSE i \in Feeds(b) : \A j \in Feeds(b) : j <= i

\* Where the first line of b ends.
FirstFeed(b) == CHOOSE i \in Feeds(b) : \A j \in Feeds(b) : i <= j

\* A line without the carriage return before its line feed.
Strip(b) == IF b # <<>> /\ b[Len(b)] = "CR" THEN SubSeq(b, 1, Len(b) - 1) ELSE b

\* The text of the first line of b.
FirstLine(b) == Strip(SubSeq(b, 1, FirstFeed(b) - 1))

\* What take_line measures: a complete line without its end, an incomplete one
\* with whatever has arrived of its end.
Measured(b) == IF Feeds(b) = {} THEN b ELSE FirstLine(b)

\* Mutant: only a complete line is measured.
TooLongOnceComplete(b) == Feeds(b) # {} /\ Len(Measured(b)) > Limit

\* Mutant: the limit itself is too long.
TooLongAtLimit(b) == Len(Measured(b)) >= Limit

\* LineTake::TooLong.
TooLong(b) == Len(Measured(b)) > Limit

\* Mutant: the reader waits for more before it looks at its buffer again.
ReadNext == "need"

\* What follows a line: the next may be in the buffer already.
AfterLine == "take"

\* The buffer after its first line is taken off.
Rest(b) == SubSeq(b, FirstFeed(b) + 1, Len(b))

\* LineTake::Line.  What the line says decides what the next one is.
TakeLine ==
    /\ state = "take"
    /\ ~ TooLong(rbuf)
    /\ Feeds(rbuf) # {}
    /\ taken' = Append(taken, FirstLine(rbuf))
    /\ rbuf' = Rest(rbuf)
    /\ mode' \in {"command", "body"}
    /\ state' = AfterLine
    /\ UNCHANGED <<input, wire>>

\* LineTake::TooLong, of a command: serve returns.
RefuseCommand ==
    /\ state = "take"
    /\ mode = "command"
    /\ TooLong(rbuf)
    /\ state' = "refused"
    /\ UNCHANGED <<input, wire, rbuf, mode, taken>>

\* LineTake::TooLong, of a body line: read_body returns and serve goes on to the
\* next command.  A complete line is gone, an incomplete one stays.
RefuseBodyLine ==
    /\ state = "take"
    /\ mode = "body"
    /\ TooLong(rbuf)
    /\ mode' = "command"
    /\ IF Feeds(rbuf) = {}
       THEN UNCHANGED <<rbuf, taken>>
       ELSE rbuf' = Rest(rbuf) /\ taken' = Append(taken, Skipped)
    /\ UNCHANGED <<input, wire, state>>

\* LineTake::Need.
Need ==
    /\ state = "take"
    /\ ~ TooLong(rbuf)
    /\ Feeds(rbuf) = {}
    /\ state' = "need"
    /\ UNCHANGED <<input, wire, rbuf, mode, taken>>

\* A read brings the next n octets.
Read(n) ==
    /\ state = "need"
    /\ n <= Len(wire)
    /\ rbuf' = rbuf \o SubSeq(wire, 1, n)
    /\ wire' = SubSeq(wire, n + 1, Len(wire))
    /\ state' = "take"
    /\ UNCHANGED <<input, mode, taken>>

\* The stream ends; what there is of a line is given up.
Eof ==
    /\ state = "need"
    /\ wire = <<>>
    /\ state' = "eof"
    /\ UNCHANGED <<input, wire, rbuf, mode, taken>>

Next ==
    \/ TakeLine \/ RefuseCommand \/ RefuseBodyLine \/ Need \/ Eof
    \/ \E n \in 1 .. MaxRead : Read(n)

\* The task that reads is scheduled, and what was sent arrives.
Spec == Init /\ [][Next]_vars /\ WF_vars(Next)

-----------------------------------------------------------------------------
(* Properties.                                                             *)

\* Every variable keeps its shape, and the buffer its size: whatever arrives,
\* it never holds more than the longest line allowed and one read.
TypeOK ==
    /\ input \in Seq(Octet) /\ wire \in Seq(Octet) /\ rbuf \in Seq(Octet)
    /\ taken \in Seq(Seq(Octet) \union {Skipped})
    /\ mode \in {"command", "body"}
    /\ state \in {"take", "need", "refused", "eof"}
    /\ \E m \in {MaxCommand, MaxBodyLine} : Len(rbuf) <= m + MaxRead

\* Where the n-th line of the input ends, and what it says: the reference that
\* the splitting is compared with, which knows nothing of reads and buffers.
End(n) == IF n = 0 THEN 0
          ELSE CHOOSE i \in Feeds(input) :
                   Cardinality({j \in Feeds(input) : j <= i}) = n
Line(n) == Strip(SubSeq(input, End(n - 1) + 1, End(n) - 1))

\* However the octets are spread over reads, the lines taken are the input's
\* first lines but for over-long body lines, and the next one starts at the
\* front of the buffer: no octet is lost between two lines, nor taken twice.
LinesFaithful ==
    /\ Len(taken) <= Cardinality(Feeds(input))
    /\ \A n \in DOMAIN taken :
          \/ taken[n] = Line(n)
          \/ taken[n] = Skipped /\ Len(Line(n)) > MaxBodyLine
    /\ rbuf \o wire = SubSeq(input, End(Len(taken)) + 1, Len(input))

\* A connection is closed over a line only when its text alone, with no part of
\* its end, has reached the limit.  (The documented limit is one more: a text of
\* just the limit is refused if its carriage return arrives before its line
\* feed.)
RefusedAtLimit ==
    state = "refused" =>
        Len(IF Feeds(rbuf) = {} THEN Strip(rbuf) ELSE FirstLine(rbuf)) >= MaxCommand

\* If every line stays below both limits all of them are taken, pipelined as
\* they may be: none waits in the buffer for octets that nobody sends.
EveryLineTaken ==
    (\A n \in 1 .. Cardinality(Feeds(input)), m \in {MaxCommand, MaxBodyLine} :
            Len(Line(n)) < m)
        ~> Len(taken) = Cardinality(Feeds(input))
=============================================================================
