------------------------------- MODULE Server -------------------------------
(***************************************************************************)
(* Daemon processes on one machine: start-up, the local socket and         *)
(* shutdown (macro-busd/src/main.rs, lib.rs and server.rs).  A process     *)
(* that starts takes its federation port first, if it has one, then        *)
(* replaces whatever socket it finds at its path, serves until it is       *)
(* interrupted, and removes the file at the path, whosever that is.        *)
(*                                                                         *)
(* Where a process stands:                                                 *)
(*   off    -> not running                                                 *)
(*   port   -> Cluster::start is about to bind its listener                *)
(*   look   -> LocalServer::bind is about to look at the path              *)
(*   remove -> it found a socket there                                     *)
(*   bind   -> the path was free, or its socket is removed                 *)
(*   chmod  -> the socket is bound                                         *)
(*   serve  -> LocalServer::serve accepts connections                      *)
(*   drop   -> serve has returned, the file is still to be removed         *)
(*   exit   -> the listening socket is closed, the process is ending       *)
(***************************************************************************)
EXTENDS Naturals

CONSTANTS
    Proc,       \* processes
    Path,       \* the paths their configurations name
    SocketPath, \* server.socket_path of each process
    Port,       \* cluster.listen of each process
    NoPort,     \* a process that accepts no peer links
    Client,
    NoFile,     \* nothing is at a path
    Other,      \* something that is no socket is at a path
    None,       \* a client without a connection
    MaxStarts   \* bound: processes started

ASSUME PathAssumption == SocketPath \in [Proc -> Path] /\ DOMAIN Port = Proc
ASSUME NoneAssumption == {NoFile, Other, None} \cap Proc = {} /\ NoFile # Other
ASSUME StartsAssumption == MaxStarts \in Nat

VARIABLES
    pc,      \* where each process stands
    file,    \* whose socket is at each path
    client,  \* the process each client is connected to
    served,  \* the clients whose connection was accepted
    gaveUp,  \* history: processes that could not bind their path
    starts

vars == <<pc, file, client, served, gaveUp, starts>>

Points == {"off", "port", "look", "remove", "bind", "chmod", "serve", "drop", "exit"}

Init ==
    /\ pc = [p \in Proc |-> "off"]
    /\ file \in [Path -> {NoFile, Other}]
    /\ client = [c \in Client |-> None]
    /\ served = {}
    /\ gaveUp = {}
    /\ starts = 0

Goto(p, x) == pc' = [pc EXCEPT ![p] = x]

\* Mutant: the accepted connections of p outlive it.
AcceptedRemain(p) ==
    /\ client' = [c \in Client |-> IF client[c] = p THEN None ELSE client[c]]
    /\ UNCHANGED served

\* The connections of process p are closed, accepted or not.
HangUp(p) ==
    /\ client' = [c \in Client |-> IF client[c] = p THEN None ELSE client[c]]
    /\ served' = {c \in served : client[c] # p}

\* A process ends, and everything it holds but the socket's file goes with it.
End(p) == Goto(p, "off") /\ HangUp(p)

-----------------------------------------------------------------------------
(* run, bind and serve.                                                    *)

Start(p) ==
    /\ pc[p] = "off"
    /\ starts < MaxStarts
    /\ starts' = starts + 1
    /\ Goto(p, "port")
    /\ UNCHANGED <<file, client, served, gaveUp>>

\* Mutant: a process that shuts down closes its federation port first.
HeldUntilStopped(p) == pc[p] \notin {"off", "port", "drop", "exit"}

\* A process has its port from Cluster::start until it ends.
Holds(p) == pc[p] \notin {"off", "port"}

\* Mutant: the port may be shared.
PortShared(p) == TRUE

PortFree(p) == Port[p] = NoPort \/ \A q \in Proc : Port[q] = Port[p] => ~ Holds(q)

\* Cluster::start binds the listener, if there is one to bind.
TakePort(p) ==
    /\ pc[p] = "port"
    /\ PortFree(p)
    /\ Goto(p, "look")
    /\ UNCHANGED <<file, client, served, gaveUp, starts>>

\* The address is in use: run returns the error.
PortTaken(p) ==
    /\ pc[p] = "port"
    /\ ~ PortFree(p)
    /\ End(p)
    /\ UNCHANGED <<file, gaveUp, starts>>

\* Mutant: a socket found at the path is left there.
FoundFree(p) == "bind"

\* What to do about the socket found at the path.
Found(p) == IF file[SocketPath[p]] = NoFile THEN "bind" ELSE "remove"

\* symlink_metadata: nothing, or somebody's socket.
Look(p) ==
    /\ pc[p] = "look"
    /\ file[SocketPath[p]] # Other
    /\ Goto(p, Found(p))
    /\ UNCHANGED <<file, client, served, gaveUp, starts>>

\* remove_file, whatever has become of the socket by now.
Remove(p) ==
    /\ pc[p] = "remove"
    /\ file' = [file EXCEPT ![SocketPath[p]] = NoFile]
    /\ Goto(p, "bind")
    /\ UNCHANGED <<client, served, gaveUp, starts>>

\* UnixListener::bind creates the file.
Bind(p) ==
    /\ pc[p] = "bind"
    /\ file[SocketPath[p]] = NoFile
    /\ file' = [file EXCEPT ![SocketPath[p]] = p]
    /\ Goto(p, "chmod")
    /\ UNCHANGED <<client, served, gaveUp, starts>>

\* set_permissions finds the file.
Chmod(p) ==
    /\ pc[p] = "chmod"
    /\ file[SocketPath[p]] # NoFile
    /\ Goto(p, "serve")
    /\ UNCHANGED <<file, client, served, gaveUp, starts>>

\* bind returns an error: no socket at the path, a file there again, or none.
\* There is no LocalServer yet whose Drop would remove the file.
GiveUp(p) ==
    /\ \/ pc[p] = "look" /\ file[SocketPath[p]] = Other
       \/ pc[p] = "bind" /\ file[SocketPath[p]] # NoFile
       \/ pc[p] = "chmod" /\ file[SocketPath[p]] = NoFile
    /\ gaveUp' = gaveUp \union {p}
    /\ End(p)
    /\ UNCHANGED <<file, starts>>

\* A connection is accepted, and its task spawned.
Accept(p, c) ==
    /\ pc[p] = "serve"
    /\ client[c] = p
    /\ served' = served \union {c}
    /\ UNCHANGED <<pc, file, client, gaveUp, starts>>

\* ctrl-c: serve returns.
Stop(p) ==
    /\ pc[p] = "serve"
    /\ Goto(p, "drop")
    /\ UNCHANGED <<file, client, served, gaveUp, starts>>

\* LocalServer's Drop removes the file; then the listening socket is closed,
\* and connections that were never accepted with it.
Drop(p) ==
    /\ pc[p] = "drop"
    /\ file' = [file EXCEPT ![SocketPath[p]] = NoFile]
    /\ client' = [c \in Client |-> IF client[c] = p /\ c \notin served THEN None ELSE client[c]]
    /\ Goto(p, "exit")
    /\ UNCHANGED <<served, gaveUp, starts>>

\* main returns.
Exit(p) ==
    /\ pc[p] = "exit"
    /\ End(p)
    /\ UNCHANGED <<file, gaveUp, starts>>

\* The process is killed (ctrl-c too, before serve listens for it).
Kill(p) ==
    /\ pc[p] # "off"
    /\ End(p)
    /\ UNCHANGED <<file, gaveUp, starts>>

-----------------------------------------------------------------------------
(* Clients.                                                                *)

\* Whether p listens on the socket it bound.
Listening(p) == pc[p] \in {"chmod", "serve", "drop"}

\* A client connects to whoever listens on the socket at a path.
Connect(c, x) ==
    /\ client[c] = None
    /\ file[x] \in Proc
    /\ Listening(file[x])
    /\ client' = [client EXCEPT ![c] = file[x]]
    /\ UNCHANGED <<pc, file, served, gaveUp, starts>>

Leave(c) ==
    /\ client[c] # None
    /\ client' = [client EXCEPT ![c] = None]
    /\ served' = served \ {c}
    /\ UNCHANGED <<pc, file, gaveUp, starts>>

-----------------------------------------------------------------------------
Step(p) ==
    \/ TakePort(p) \/ PortTaken(p) \/ Look(p) \/ Remove(p) \/ Bind(p) \/ Chmod(p)
    \/ GiveUp(p) \/ Drop(p) \/ Exit(p)

Next ==
    \/ \E p \in Proc : \/ Step(p) \/ Start(p) \/ Stop(p) \/ Kill(p)
                       \/ \E c \in Client : Accept(p, c)
    \/ \E c \in Client : Leave(c) \/ \E x \in Path : Connect(c, x)

Spec == Init /\ [][Next]_vars

-----------------------------------------------------------------------------
(* Properties.                                                             *)

\* Every variable keeps its shape, and only connected clients are served.
TypeOK ==
    /\ pc \in [Proc -> Points]
    /\ file \in [Path -> Proc \union {NoFile, Other}]
    /\ client \in [Client -> Proc \union {None}]
    /\ served \subseteq {c \in Client : client[c] # None}
    /\ gaveUp \subseteq Proc
    /\ starts \in 0 .. MaxStarts

\* Whoever else is configured with p's path has p's federation port too.
Guarded(p) ==
    \A q \in Proc \ {p} : SocketPath[q] = SocketPath[p] => Port[q] = Port[p] /\ Port[p] # NoPort

\* The path of a serving daemon leads to it, through restarts, kills that leave
\* the file, and starts of a second process while the first one stops: the port
\* is taken before the file is touched and kept until after it is removed.
\* (Without a common port a second process unlinks the socket of a daemon that
\* runs, and the first one's Drop the socket of the second.)
Reachable ==
    \A p \in Proc : Guarded(p) /\ pc[p] = "serve" => file[SocketPath[p]] = p

\* Clients that are connected through one path are connected to one daemon, so
\* they can hear each other.
OneBus ==
    \A c, d \in Client :
        client[c] # None /\ client[d] # None /\ Guarded(client[c])
            /\ SocketPath[client[c]] = SocketPath[client[d]]
        => client[c] = client[d]

\* What an earlier life left at the path, however it ended, never keeps a
\* daemon from starting: only something that is no socket does.
StaleNeverBlocks ==
    \A p \in gaveUp : Guarded(p) => file[SocketPath[p]] = Other
=============================================================================
