---------------------------- MODULE ServerProofs ----------------------------
(***************************************************************************)
(* What holds of daemon processes on one machine, however many there are   *)
(* and however their paths and ports are configured.                       *)
(***************************************************************************)
EXTENDS Server, TLAPS

-----------------------------------------------------------------------------
(* Type correctness.                                                       *)

LEMMA TypeInit == Init => TypeOK
  BY StartsAssumption DEF Init, TypeOK, Points

\* Who hangs up leaves no connection of its own and no other's.
LEMMA HangUpType ==
    ASSUME TypeOK, NEW p \in Proc, HangUp(p)
    PROVE  /\ client' \in [Client -> Proc \union {None}]
           /\ served' \subseteq {c \in Client : client'[c] # None}
           /\ \A c \in Client : client'[c] = IF client[c] = p THEN None ELSE client[c]
  BY DEF TypeOK, HangUp

LEMMA TypeStep == ASSUME TypeOK, [Next]_vars PROVE TypeOK'
<1> USE DEF TypeOK, Points, Goto
<1>1. ASSUME NEW p \in Proc, End(p), UNCHANGED <<file, starts>>, gaveUp' \subseteq Proc
      PROVE  TypeOK'
  BY <1>1, HangUpType DEF End
<1>2. ASSUME NEW p \in Proc, PortTaken(p) \/ GiveUp(p) \/ Exit(p) \/ Kill(p) PROVE TypeOK'
  BY <1>1, <1>2 DEF PortTaken, GiveUp, Exit, Kill
<1>3. ASSUME NEW p \in Proc, TakePort(p) \/ Look(p) \/ Remove(p) \/ Bind(p) \/ Chmod(p) \/ Stop(p)
      PROVE  TypeOK'
  BY <1>3, PathAssumption DEF TakePort, Look, Found, Remove, Bind, Chmod, Stop
<1>4. ASSUME NEW p \in Proc, Start(p) PROVE TypeOK'
  BY <1>4, StartsAssumption DEF Start
<1>5. ASSUME NEW p \in Proc, Drop(p) PROVE TypeOK'
  BY <1>5, PathAssumption DEF Drop
<1>6. ASSUME NEW p \in Proc, NEW c \in Client, Accept(p, c) PROVE TypeOK'
  BY <1>6, NoneAssumption DEF Accept
<1>7. ASSUME NEW c \in Client, NEW x \in Path, Connect(c, x) PROVE TypeOK'
  BY <1>7, NoneAssumption DEF Connect
<1>8. ASSUME NEW c \in Client, Leave(c) PROVE TypeOK'
  BY <1>8 DEF Leave
<1>9. CASE UNCHANGED vars
  BY <1>9 DEF vars
<1> QED
  BY <1>2, <1>3, <1>4, <1>5, <1>6, <1>7, <1>8, <1>9 DEF Next, Step

\* Every variable keeps its shape, and only connected clients are served.
THEOREM TypeCorrect == Spec => []TypeOK
  BY TypeInit, TypeStep, PTL DEF Spec

-----------------------------------------------------------------------------
(* The port guards the socket.                                             *)

\* Two processes never hold one port.
PortInv ==
    \A p, q \in Proc :
        p # q /\ Port[p] = Port[q] /\ Port[p] # NoPort => ~ (Holds(p) /\ Holds(q))

\* What bind has established at the path of a guarded process stands until the
\* process removes it itself.
FileInv ==
    \A p \in Proc : Guarded(p) =>
        /\ pc[p] = "bind" => file[SocketPath[p]] = NoFile
        /\ pc[p] \in {"chmod", "serve", "drop"} => file[SocketPath[p]] = p

\* Past its look at the path a process never finds there what is no socket.
SocketInv ==
    \A p \in Proc : pc[p] \in {"remove", "bind", "chmod", "serve", "drop"}
        => file[SocketPath[p]] # Other

\* A process with a client has its port still.
ClientInv == \A c \in Client : client[c] # None => Holds(client[c])

ServerInv == TypeOK /\ PortInv /\ FileInv /\ SocketInv /\ ClientInv /\ StaleNeverBlocks

LEMMA ServerInvInit == Init => ServerInv
<1> SUFFICES ASSUME Init PROVE ServerInv
  OBVIOUS
<1>1. TypeOK
  BY TypeInit
<1>2. PortInv /\ FileInv /\ SocketInv /\ ClientInv /\ StaleNeverBlocks
  BY DEF Init, PortInv, FileInv, SocketInv, ClientInv, StaleNeverBlocks, Holds
<1> QED
  BY <1>1, <1>2 DEF ServerInv

\* Of two processes on one guarded path at most one has its port.
LEMMA OneHolder ==
    ASSUME PortInv, NEW p \in Proc, NEW q \in Proc, p # q,
           SocketPath[p] = SocketPath[q], Guarded(p)
    PROVE  ~ (Holds(p) /\ Holds(q))
  BY DEF PortInv, Guarded

\* A port is taken only if it is free, and then kept.
LEMMA PortInvStep == ASSUME TypeOK, PortInv, [Next]_vars PROVE PortInv'
<1>1. ASSUME NEW p \in Proc, TakePort(p) PROVE PortInv'
  <2>1. /\ PortFree(p)
        /\ \A q \in Proc \ {p} : pc'[q] = pc[q]
    BY <1>1 DEF TakePort, Goto, TypeOK
  <2>2. \A q \in Proc \ {p} : Holds(q)' = Holds(q)
    BY <2>1 DEF Holds
  <2>3. ~ Holds(p) /\ \A q \in Proc : Port[q] = Port[p] /\ Port[p] # NoPort => ~ Holds(q)
    BY <1>1, <2>1 DEF PortFree, TakePort, Holds
  <2> QED
    BY <2>2, <2>3 DEF PortInv
<1>2. ASSUME \A q \in Proc : Holds(q)' => Holds(q) PROVE PortInv'
  BY <1>2 DEF PortInv
<1>3. ASSUME NEW p \in Proc, NEW x \in Points, pc' = [pc EXCEPT ![p] = x],
             x \in {"off", "port"} \/ Holds(p)
      PROVE  PortInv'
  BY <1>2, <1>3 DEF Holds, TypeOK
<1>4. ASSUME NEW p \in Proc, PortTaken(p) \/ GiveUp(p) \/ Exit(p) \/ Kill(p) PROVE PortInv'
  BY <1>3, <1>4 DEF PortTaken, GiveUp, Exit, Kill, End, Goto, Points
<1>5. ASSUME NEW p \in Proc, Look(p) \/ Remove(p) \/ Bind(p) \/ Chmod(p) \/ Stop(p) \/ Drop(p)
      PROVE  PortInv'
  BY <1>3, <1>5 DEF Look, Found, Remove, Bind, Chmod, Stop, Drop, Goto, Points, Holds
<1>6. ASSUME NEW p \in Proc, Start(p) PROVE PortInv'
  BY <1>3, <1>6 DEF Start, Goto, Points
<1>7. ASSUME UNCHANGED pc PROVE PortInv'
  BY <1>7 DEF PortInv, Holds
<1>8. CASE \/ \E p \in Proc, c \in Client : Accept(p, c)
           \/ \E c \in Client : Leave(c) \/ \E x \in Path : Connect(c, x)
           \/ UNCHANGED vars
  BY <1>7, <1>8 DEF Accept, Leave, Connect, vars
<1> QED
  BY <1>1, <1>4, <1>5, <1>6, <1>8 DEF Next, Step

\* What each kind of step does to one process and the file at its path.
LEMMA FileSteps ==
    ASSUME TypeOK, PortInv, SocketInv, [Next]_vars, NEW p \in Proc
    PROVE  LET x == SocketPath[p]
               f == file[x]
           IN  \/ pc'[p] = pc[p] /\ file'[x] = f
               \/ pc'[p] \in {"off", "port", "look", "exit"} /\ (file'[x] = f \/ f # Other)
               \/ pc[p] = "look" /\ f = NoFile /\ pc'[p] = "bind" /\ file'[x] = f
               \/ pc[p] = "look" /\ f # Other /\ pc'[p] = "remove" /\ file'[x] = f
               \/ pc[p] = "remove" /\ pc'[p] = "bind" /\ file'[x] = NoFile
               \/ pc[p] = "bind" /\ f = NoFile /\ pc'[p] = "chmod" /\ file'[x] = p
               \/ pc[p] = "chmod" /\ pc'[p] = "serve" /\ file'[x] = f
               \/ pc[p] = "serve" /\ pc'[p] = "drop" /\ file'[x] = f
               \/ /\ pc'[p] = pc[p] /\ file'[x] \in Proc \union {NoFile} /\ f # Other
                  /\ ~ (Guarded(p) /\ Holds(p))
<1> DEFINE x == SocketPath[p]
           f == file[x]
           Goal == \/ pc'[p] = pc[p] /\ file'[x] = f
                   \/ pc'[p] \in {"off", "port", "look", "exit"} /\ (file'[x] = f \/ f # Other)
                   \/ pc[p] = "look" /\ f = NoFile /\ pc'[p] = "bind" /\ file'[x] = f
                   \/ pc[p] = "look" /\ f # Other /\ pc'[p] = "remove" /\ file'[x] = f
                   \/ pc[p] = "remove" /\ pc'[p] = "bind" /\ file'[x] = NoFile
                   \/ pc[p] = "bind" /\ f = NoFile /\ pc'[p] = "chmod" /\ file'[x] = p
                   \/ pc[p] = "chmod" /\ pc'[p] = "serve" /\ file'[x] = f
                   \/ pc[p] = "serve" /\ pc'[p] = "drop" /\ file'[x] = f
                   \/ /\ pc'[p] = pc[p] /\ file'[x] \in Proc \union {NoFile} /\ f # Other
                      /\ ~ (Guarded(p) /\ Holds(p))
<1>1. x \in Path /\ pc \in [Proc -> Points] /\ file \in [Path -> Proc \union {NoFile, Other}]
  BY PathAssumption DEF TypeOK
<1>2. ASSUME NEW q \in Proc, NEW y \in Points, UNCHANGED file, pc' = [pc EXCEPT ![q] = y],
             q = p => \/ y \in {"off", "port", "look", "exit"}
                      \/ pc[p] = "look" /\ f # Other /\ y = "remove"
                      \/ pc[p] = "look" /\ f = NoFile /\ y = "bind"
                      \/ pc[p] = "chmod" /\ y = "serve"
                      \/ pc[p] = "serve" /\ y = "drop"
      PROVE  Goal
  BY <1>1, <1>2
<1>3. ASSUME NEW q \in Proc, Remove(q) \/ Bind(q) \/ Drop(q) PROVE Goal
  <2>1. \E y \in Points, g \in Proc \union {NoFile} :
            /\ pc' = [pc EXCEPT ![q] = y] /\ file' = [file EXCEPT ![SocketPath[q]] = g]
            /\ \/ pc[q] = "remove" /\ y = "bind" /\ g = NoFile
               \/ pc[q] = "bind" /\ y = "chmod" /\ g = q /\ file[SocketPath[q]] = NoFile
               \/ pc[q] = "drop" /\ y = "exit" /\ g = NoFile
    BY <1>3 DEF Remove, Bind, Drop, Goto, Points
  <2>2. PICK y \in Points, g \in Proc \union {NoFile} :
            /\ pc' = [pc EXCEPT ![q] = y] /\ file' = [file EXCEPT ![SocketPath[q]] = g]
            /\ \/ pc[q] = "remove" /\ y = "bind" /\ g = NoFile
               \/ pc[q] = "bind" /\ y = "chmod" /\ g = q /\ file[SocketPath[q]] = NoFile
               \/ pc[q] = "drop" /\ y = "exit" /\ g = NoFile
    BY <2>1
  <2>3. file[SocketPath[q]] # Other /\ Holds(q)
    BY <2>2 DEF SocketInv, Holds
  <2>4. CASE q = p
    BY <1>1, <2>2, <2>3, <2>4
  <2>5. CASE q # p /\ SocketPath[q] # x
    BY <1>1, <2>2, <2>5
  <2>6. CASE q # p /\ SocketPath[q] = x
    <3>1. ~ (Guarded(p) /\ Holds(p))
      BY <2>3, <2>6, OneHolder
    <3> QED
      BY <1>1, <2>2, <2>3, <2>6, <3>1
  <2> QED
    BY <2>4, <2>5, <2>6
<1>4. ASSUME NEW q \in Proc, PortTaken(q) \/ GiveUp(q) \/ Exit(q) \/ Kill(q) \/ Start(q) \/ TakePort(q)
      PROVE  Goal
  BY <1>2, <1>4 DEF PortTaken, GiveUp, Exit, Kill, Start, TakePort, End, Goto, Points
<1>5. ASSUME NEW q \in Proc, Look(q) \/ Chmod(q) \/ Stop(q) PROVE Goal
  BY <1>2, <1>5 DEF Look, Found, Chmod, Stop, Goto, Points
<1>6. CASE \/ \E q \in Proc, c \in Client : Accept(q, c)
           \/ \E c \in Client : Leave(c) \/ \E y \in Path : Connect(c, y)
           \/ UNCHANGED vars
  BY <1>6 DEF Accept, Leave, Connect, vars
<1> QED
  BY <1>3, <1>4, <1>5, <1>6 DEF Next, Step

LEMMA SocketInvStep == ASSUME TypeOK, PortInv, SocketInv, [Next]_vars PROVE SocketInv'
<1> SUFFICES ASSUME NEW p \in Proc,
                    pc'[p] \in {"remove", "bind", "chmod", "serve", "drop"}
             PROVE  file'[SocketPath[p]] # Other
  BY DEF SocketInv
<1> QED
  BY FileSteps, NoneAssumption DEF SocketInv

LEMMA FileInvStep == ASSUME TypeOK, PortInv, FileInv, SocketInv, [Next]_vars PROVE FileInv'
<1> SUFFICES ASSUME NEW p \in Proc, Guarded(p)
             PROVE  /\ pc'[p] = "bind" => file'[SocketPath[p]] = NoFile
                    /\ pc'[p] \in {"chmod", "serve", "drop"} => file'[SocketPath[p]] = p
  BY DEF FileInv, Guarded
<1> QED
  BY FileSteps DEF FileInv, Holds

\* Whatever lies at a path that is no socket stays there.
LEMMA OtherStays ==
    ASSUME TypeOK, PortInv, SocketInv, [Next]_vars, NEW p \in Proc, file[SocketPath[p]] = Other
    PROVE  file'[SocketPath[p]] = Other
<1>1. pc[p] \notin {"remove", "bind", "chmod", "serve", "drop"}
  BY DEF SocketInv
<1> QED
  BY <1>1, FileSteps

\* Only what is no socket makes a guarded process give up.
LEMMA StaleStep ==
    ASSUME TypeOK, PortInv, FileInv, SocketInv, StaleNeverBlocks, [Next]_vars
    PROVE  StaleNeverBlocks'
<1> SUFFICES ASSUME NEW p \in gaveUp', Guarded(p) PROVE file'[SocketPath[p]] = Other
  BY DEF StaleNeverBlocks, Guarded
<1>1. CASE p \in gaveUp
  BY <1>1, OtherStays DEF StaleNeverBlocks, TypeOK
<1>2. CASE p \notin gaveUp
  <2>1. p \in Proc /\ GiveUp(p)
    BY <1>2 DEF Next, Step, vars, TakePort, PortTaken, Look, Remove, Bind, Chmod, GiveUp,
                Drop, Exit, Start, Stop, Kill, Accept, Leave, Connect
  <2>2. ~ (pc[p] = "bind" /\ file[SocketPath[p]] # NoFile)
    BY <2>1 DEF FileInv
  <2>3. ~ (pc[p] = "chmod" /\ file[SocketPath[p]] = NoFile)
    BY <2>1, NoneAssumption DEF FileInv
  <2>4. file[SocketPath[p]] = Other
    BY <2>1, <2>2, <2>3 DEF GiveUp
  <2> QED
    BY <2>1, <2>4, OtherStays
<1> QED
  BY <1>1, <1>2

\* A client is connected to a process that has been listening and is not over.
LEMMA ClientInvStep == ASSUME TypeOK, ClientInv, [Next]_vars PROVE ClientInv'
<1>1. pc \in [Proc -> Points] /\ client \in [Client -> Proc \union {None}] /\ None \notin Proc
  BY NoneAssumption DEF TypeOK
<1>2. ASSUME NEW p \in Proc, End(p) PROVE ClientInv'
  <2>1. /\ \A c \in Client : client'[c] = IF client[c] = p THEN None ELSE client[c]
        /\ \A q \in Proc \ {p} : pc'[q] = pc[q]
    BY <1>1, <1>2, HangUpType DEF End, Goto
  <2> QED
    BY <1>1, <2>1 DEF ClientInv, Holds
<1>3. ASSUME NEW p \in Proc, Holds(p) \/ pc[p] \in {"off", "port"}, NEW y \in Points \ {"off"},
             y # "port" \/ ~ Holds(p), pc' = [pc EXCEPT ![p] = y],
             \A c \in Client : client'[c] \in {client[c], None}
      PROVE  ClientInv'
  BY <1>1, <1>3 DEF ClientInv, Holds
<1>4. ASSUME NEW p \in Proc, PortTaken(p) \/ GiveUp(p) \/ Exit(p) \/ Kill(p) PROVE ClientInv'
  BY <1>2, <1>4 DEF PortTaken, GiveUp, Exit, Kill
<1>5. ASSUME NEW p \in Proc,
             TakePort(p) \/ Look(p) \/ Remove(p) \/ Bind(p) \/ Chmod(p) \/ Stop(p) \/ Start(p)
      PROVE  ClientInv'
  BY <1>3, <1>5 DEF TakePort, Look, Found, Remove, Bind, Chmod, Stop, Start, Goto, Points, Holds
<1>6. ASSUME NEW p \in Proc, Drop(p) PROVE ClientInv'
  <2>1. /\ Holds(p) /\ pc' = [pc EXCEPT ![p] = "exit"]
        /\ \A c \in Client : client'[c] \in {client[c], None}
    BY <1>6 DEF Drop, Goto, Holds
  <2> QED
    BY <1>3, <2>1 DEF Points
<1>7. ASSUME NEW c \in Client, NEW x \in Path, Connect(c, x) PROVE ClientInv'
  <2>1. /\ UNCHANGED pc /\ Holds(file[x]) /\ file[x] \in Proc
        /\ client' = [client EXCEPT ![c] = file[x]]
    BY <1>7 DEF Connect, Listening, Holds
  <2> QED
    BY <1>1, <2>1 DEF ClientInv, Holds
<1>8. ASSUME NEW c \in Client, Leave(c) PROVE ClientInv'
  BY <1>1, <1>8 DEF Leave, ClientInv, Holds
<1>9. ASSUME UNCHANGED <<pc, client>> PROVE ClientInv'
  BY <1>9 DEF ClientInv, Holds
<1>10. CASE (\E p \in Proc, c \in Client : Accept(p, c)) \/ UNCHANGED vars
  BY <1>9, <1>10 DEF Accept, vars
<1> QED
  BY <1>4, <1>5, <1>6, <1>7, <1>8, <1>10 DEF Next, Step

LEMMA ServerInvariant == Spec => []ServerInv
<1>1. ServerInv /\ [Next]_vars => ServerInv'
  BY TypeStep, PortInvStep, FileInvStep, SocketInvStep, ClientInvStep, StaleStep DEF ServerInv
<1> QED
  BY <1>1, ServerInvInit, PTL DEF Spec

\* The path of a serving daemon leads to it, whoever else starts, stops or is
\* killed, as long as all processes on the path share a federation port.
THEOREM PathLeadsHome == Spec => []Reachable
<1>1. ServerInv => Reachable
  BY DEF ServerInv, FileInv, Reachable
<1> QED
  BY <1>1, ServerInvariant, PTL

\* Clients of one guarded path are on one bus.
THEOREM ClientsMeet == Spec => []OneBus
<1>1. ServerInv => OneBus
  <2> SUFFICES ASSUME ServerInv, NEW c \in Client, NEW d \in Client,
                      client[c] # None, client[d] # None, Guarded(client[c]),
                      SocketPath[client[c]] = SocketPath[client[d]]
               PROVE  client[c] = client[d]
    BY DEF OneBus
  <2>1. client[c] \in Proc /\ client[d] \in Proc
    BY DEF ServerInv, TypeOK
  <2>2. Holds(client[c]) /\ Holds(client[d])
    BY DEF ServerInv, ClientInv
  <2> QED
    BY <2>1, <2>2, OneHolder DEF ServerInv
<1> QED
  BY <1>1, ServerInvariant, PTL

\* A socket left at the path, by a kill or by a process that is just stopping,
\* never keeps a guarded daemon from starting.
THEOREM StaleHarmless == Spec => []StaleNeverBlocks
<1>1. ServerInv => StaleNeverBlocks
  BY DEF ServerInv
<1> QED
  BY <1>1, ServerInvariant, PTL
=============================================================================
