--------------------------------- MODULE Bus ---------------------------------
(***************************************************************************)
(* What one daemon's bus promises a subscriber, with no task, lock, queue  *)
(* or wake-up in sight.  A message accepted by the bus is at once due to   *)
(* the connections subscribed at that instant and to no other; what is due *)
(* is delivered in the order the bus accepted it; a message may be missed  *)
(* instead, only the latest one due, and is then counted, and the          *)
(* connection is told of misses that happened and of no others.            *)
(***************************************************************************)
EXTENDS Naturals, Sequences

CONSTANTS Conn, Type

VARIABLES
    listeners,  \* the connections subscribed to each type
    accepted,   \* how many messages the bus accepted
    due,        \* the messages each connection has yet to get, in order
    got,        \* the id of the last message each connection got
    missed,     \* the messages each connection missed, by type
    told        \* the misses each connection was told of

vars == <<listeners, accepted, due, got, missed, told>>

None == [t \in Type |-> 0]

Init ==
    /\ listeners = [t \in Type |-> {}]
    /\ accepted = 0
    /\ due = [c \in Conn |-> <<>>]
    /\ got = [c \in Conn |-> 0]
    /\ missed = [c \in Conn |-> None]
    /\ told = [c \in Conn |-> None]

Join(c, t) ==
    /\ listeners' = [listeners EXCEPT ![t] = @ \union {c}]
    /\ UNCHANGED <<accepted, due, got, missed, told>>

\* What is due to c of a type it no longer wants stays due.
Part(c, t) ==
    /\ listeners' = [listeners EXCEPT ![t] = @ \ {c}]
    /\ UNCHANGED <<accepted, due, got, missed, told>>

Accept(t) ==
    LET m == [id |-> accepted + 1, type |-> t]
    IN  /\ accepted' = accepted + 1
        /\ due' = [c \in Conn |-> IF c \in listeners[t] THEN Append(due[c], m) ELSE due[c]]
        /\ UNCHANGED <<listeners, got, missed, told>>

Deliver(c) ==
    /\ due[c] # <<>>
    /\ got' = [got EXCEPT ![c] = Head(due[c]).id]
    /\ due' = [due EXCEPT ![c] = Tail(@)]
    /\ UNCHANGED <<listeners, accepted, missed, told>>

Miss(c) ==
    /\ due[c] # <<>>
    /\ due' = [due EXCEPT ![c] = SubSeq(@, 1, Len(@) - 1)]
    /\ missed' = [missed EXCEPT ![c][due[c][Len(due[c])].type] = @ + 1]
    /\ UNCHANGED <<listeners, accepted, got, told>>

Report(c) ==
    /\ told' \in [Conn -> [Type -> Nat]]
    /\ \A t \in Type : told[c][t] <= told'[c][t] /\ told'[c][t] <= missed[c][t]
    /\ \A d \in Conn \ {c} : told'[d] = told[d]
    /\ UNCHANGED <<listeners, accepted, due, got, missed>>

Leave(c) ==
    /\ listeners' = [t \in Type |-> listeners[t] \ {c}]
    /\ due' = [due EXCEPT ![c] = <<>>]
    /\ UNCHANGED <<accepted, got, missed, told>>

Next ==
    \/ \E t \in Type : Accept(t)
    \/ \E c \in Conn : \/ Deliver(c) \/ Miss(c) \/ Report(c) \/ Leave(c)
                       \/ \E t \in Type : Join(c, t) \/ Part(c, t)

Spec == Init /\ [][Next]_vars
=============================================================================
