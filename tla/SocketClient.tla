---------------------------- MODULE SocketClient ----------------------------
(***************************************************************************)
(* The client of the socket IPC library                                    *)
(* (aml_socketipc_v2/common/socket_client.c).                              *)
(*                                                                         *)
(* Three threads share one global connection.  The main thread connects,   *)
(* starts the two others and registers; serverMessageDispatchWorker        *)
(* ("dispatch") reads messages and reconnects at the end of the stream;    *)
(* heartBeatDetector ("detector") reconnects when heartbeats stay away.    *)
(*                                                                         *)
(* A connection is an open file: it lives as long as sockfd names it or    *)
(* the dispatcher is blocked in a read of it, for close() in one thread    *)
(* does not end a read in another.  The closed descriptor is NoConn.       *)
(***************************************************************************)
EXTENDS Integers

CONSTANTS Conns,     \* identities of sockets
          NoConn,    \* sockfd is not an open descriptor
          MaxInits,  \* bound: calls of ClientInit
          MaxDowns,  \* bound: times the server goes down
          MaxHangs   \* bound: times the server's host or the network is lost

ASSUME ConnsAssumption == NoConn \notin Conns
ASSUME BoundsAssumption == MaxInits \in Nat /\ MaxDowns \in Nat /\ MaxHangs \in Nat

VARIABLES
    server,      \* "up": it accepts connections, "down": it refuses them
    conn,        \* what each socket is connected to
    open,        \* sockets that are open descriptors
    sock,        \* clientSocketData.sockfd
    isConnected, \* clientSocketData.isConnected
    beats,       \* clientSocketData.beats, seconds without a heartbeat
    beatMutex,   \* holder of beatMutex, or "free"
    recMutex,    \* holder of reconnectionMutex, or "free"
    pc,          \* where each thread is
    dconn,       \* the socket the dispatcher's read() is in
    inits, downs, hangs  \* counters for the bounds

netVars  == <<server, conn>>
connVars == <<open, sock, isConnected>>
mutexes  == <<beatMutex, recMutex>>
bounds   == <<inits, downs, hangs>>
vars     == <<netVars, connVars, beats, mutexes, pc, dconn, bounds>>

-----------------------------------------------------------------------------
Threads == {"main", "dispatch", "detector"}

\* Inside handleClientReconnection, with and without the mutex.
Reconnecting == {"disc", "close", "sock", "conn", "status", "register", "unlock"}
MainPcs == {"off", "sock", "conn", "spawn", "register", "run",
            "join_dispatch", "join_detector", "exit_disc", "exit_close"}
WorkerPcs == Reconnecting \cup {"off", "lock", "read", "body", "beat", "check", "sleep"}

\* The far end of a socket ("none" before connect); whether the server has the
\* REGISTER message of it; what is there to read next ("rest": a business
\* message without its header); whether its reader lost the message boundaries.
File == [peer : {"none", "up", "hung", "closed"}, reg : BOOLEAN,
         inbox : {"none", "beat", "data", "rest"}, skew : BOOLEAN]
NewFile == [peer |-> "none", reg |-> FALSE, inbox |-> "none", skew |-> FALSE]

TypeOK ==
    /\ server \in {"up", "down"}
    /\ conn \in [Conns -> File]
    /\ open \subseteq Conns
    /\ sock \in Conns \cup {NoConn} /\ dconn \in Conns \cup {NoConn}
    /\ isConnected \in BOOLEAN
    /\ beats \in {0, 10, 20, 30, 40}
    /\ beatMutex \in {"free", "detector"}
    /\ recMutex \in {"free", "dispatch", "detector"}
    /\ pc \in [Threads -> MainPcs \cup WorkerPcs]
    /\ inits \in Nat /\ downs \in Nat /\ hangs \in Nat

Init ==
    /\ server \in {"up", "down"}
    /\ conn = [c \in Conns |-> NewFile]
    /\ open = {}
    /\ sock = NoConn /\ dconn = NoConn
    /\ isConnected = FALSE
    /\ beats = 0
    /\ beatMutex = "free" /\ recMutex = "free"
    /\ pc = [t \in Threads |-> "off"]
    /\ inits = 0 /\ downs = 0 /\ hangs = 0

Go(t, to) == pc' = [pc EXCEPT ![t] = to]

\* exit(), or SIGPIPE, which nothing in the library catches.  inits stays: the
\* process is not started again.
Die ==
    /\ pc' = [t \in Threads |-> "off"]
    /\ open' = {} /\ sock' = NoConn /\ dconn' = NoConn
    /\ isConnected' = FALSE /\ beats' = 0
    /\ beatMutex' = "free" /\ recMutex' = "free"
    /\ inits' = MaxInits
    /\ conn' = [c \in Conns |-> NewFile]
    /\ UNCHANGED <<server, downs, hangs>>

-----------------------------------------------------------------------------
(* Connecting and registering, by ClientInit or inside a reconnection.     *)

\* initClientData; isConnected is not touched.
ClientInit ==
    /\ pc["main"] = "off" /\ inits < MaxInits
    /\ inits' = inits + 1
    /\ Go("main", "sock")
    /\ sock' = NoConn
    /\ beats' = 0
    /\ beatMutex' = "free" /\ recMutex' = "free"
    /\ UNCHANGED <<netVars, open, isConnected, dconn, downs, hangs>>

Socket(t) ==
    /\ pc[t] = "sock"
    /\ \E c \in Conns \ (open \cup {dconn}) :
          /\ sock' = c
          /\ open' = open \cup {c}
    /\ Go(t, "conn")
    /\ UNCHANGED <<netVars, isConnected, beats, mutexes, dconn, bounds>>

\* connect is tried every second until the server accepts.  (EISCONN needs a
\* second thread connecting the same socket.)
Connect(t) ==
    /\ pc[t] = "conn"
    /\ server = "up" /\ sock # NoConn /\ conn[sock].peer = "none"
    /\ conn' = [conn EXCEPT ![sock].peer = "up"]
    /\ Go(t, IF t = "main" THEN "spawn" ELSE "status")
    /\ UNCHANGED <<server, connVars, beats, mutexes, dconn, bounds>>

Unregistered(t) == IF t = "main" THEN "run" ELSE "unlock"  \* mutant: no REGISTER
AfterConnected(t) == "register"

Spawn ==
    /\ pc["main"] = "spawn"
    /\ pc' = [pc EXCEPT !["main"] = AfterConnected("main"), !["dispatch"] = "read",
                        !["detector"] = "check"]
    /\ UNCHANGED <<netVars, connVars, beats, mutexes, dconn, bounds>>

handleClientConnection(t) ==
    /\ pc[t] = "status"
    /\ isConnected' = TRUE
    /\ Go(t, AfterConnected(t))
    /\ UNCHANGED <<netVars, open, sock, beats, mutexes, dconn, bounds>>

\* ClientWriteMsg2Server(REGISTER) to whatever sockfd names now.  The first
\* write after the peer closed succeeds, a later one fails.
clientRegister2Server(t) ==
    /\ pc[t] = "register"
    /\ \/ /\ sock # NoConn /\ conn[sock].peer # "none"
          /\ conn' = [conn EXCEPT ![sock].reg = @ \/ conn[sock].peer = "up"]
          /\ Go(t, IF t = "main" THEN "run" ELSE "unlock")
          /\ UNCHANGED <<server, connVars, beats, mutexes, dconn, bounds>>
       \/ (sock # NoConn => conn[sock].peer \in {"none", "closed"}) /\ Die

\* ClientWriteMsg2Server(BUSINESS_DATA) by the application changes nothing here,
\* unless the write raises SIGPIPE.
ClientWriteMsg2Server ==
    /\ pc["main"] = "run"
    /\ sock # NoConn /\ conn[sock].peer \in {"none", "closed"}
    /\ Die

-----------------------------------------------------------------------------
(* handleClientReconnection.                                               *)

AnyTime == TRUE                       \* mutant: no reconnectionMutex
RecMutexFree == recMutex = "free"

LockReconnection(t) ==
    /\ pc[t] = "lock"
    /\ RecMutexFree
    /\ recMutex' = t
    /\ Go(t, "disc")
    /\ UNCHANGED <<netVars, connVars, beats, beatMutex, dconn, bounds>>

StatusKept == isConnected             \* mutant: isConnected is not reset
StatusDown == FALSE

\* handleClientDisconnection of a worker, or of ClientExit; the application's
\* disconnection handler is never called, for initClientData drops it.
MarkDisconnected(t) ==
    /\ pc[t] \in {"disc", "exit_disc"}
    /\ isConnected' = StatusDown
    /\ Go(t, IF t = "main" THEN "exit_close" ELSE "close")
    /\ UNCHANGED <<netVars, open, sock, beats, mutexes, dconn, bounds>>

Close(t) ==
    /\ pc[t] \in {"close", "exit_close"}
    /\ open' = open \ {sock}
    /\ sock' = NoConn
    /\ conn' = IF sock \in {NoConn, dconn} THEN conn ELSE [conn EXCEPT ![sock] = NewFile]
    /\ Go(t, IF t = "main" THEN "off" ELSE "sock")
    /\ UNCHANGED <<server, isConnected, beats, mutexes, dconn, bounds>>

StillHeld(t) == t                     \* mutant: the mutex is not given back
Released(t) == "free"

\* The dispatcher reads on; the detector still has beatMutex to give back, and
\* leaves beats where it is.
UnlockReconnection(t) ==
    /\ pc[t] = "unlock"
    /\ recMutex' = Released(t)
    /\ \/ t = "dispatch" /\ Go(t, "read") /\ UNCHANGED beatMutex
       \/ t = "detector" /\ Go(t, "sleep") /\ beatMutex' = "free"
    /\ UNCHANGED <<netVars, connVars, beats, dconn, bounds>>

-----------------------------------------------------------------------------
(* serverMessageDispatchWorker.                                            *)

Readable == sock # NoConn /\ conn[sock].peer # "none"

\* A call of readn for a header or a body: it enters read() of the socket that
\* sockfd names now.  Without a connected socket it returns -1; the loop then
\* starts over with a header.
EnterRead ==
    /\ pc["dispatch"] \in {"read", "body"} /\ dconn = NoConn
    /\ \/ Readable /\ dconn' = sock /\ UNCHANGED pc
       \/ /\ ~Readable /\ pc["dispatch"] = "body"
          /\ Go("dispatch", "read") /\ UNCHANGED dconn
    /\ UNCHANGED <<netVars, connVars, beats, mutexes, bounds>>

\* read() is over and leaves the file as f; one that is closed goes with it.
LeaveRead(f, to) ==
    /\ conn' = [conn EXCEPT ![dconn] = IF dconn \in open THEN f ELSE NewFile]
    /\ dconn' = NoConn
    /\ Go("dispatch", to)
    /\ UNCHANGED <<server, connVars, beats, mutexes, bounds>>

Reading(in) == dconn # NoConn /\ conn[dconn].inbox \in in

\* Where the boundaries are lost, any bytes may stand in the place of a header.
ReadHeader ==
    /\ pc["dispatch"] = "read" /\ Reading({"beat", "data", "rest"})
    /\ LET f == conn[dconn]
           lost == f.skew \/ f.inbox = "rest"
       IN \/ f.inbox = "data" /\ ~lost /\ LeaveRead([f EXCEPT !.inbox = "rest"], "body")
          \/ f.inbox = "beat" /\ ~lost /\ LeaveRead([f EXCEPT !.inbox = "none"], "beat")
          \/ lost /\ \E to \in {"read", "beat"} : LeaveRead([f EXCEPT !.inbox = "none"], to)

\* The body, or the bytes of another message when sockfd has been replaced
\* since the header was read.
ReadBody ==
    /\ pc["dispatch"] = "body" /\ Reading({"beat", "data", "rest"})
    /\ LeaveRead([conn[dconn] EXCEPT !.inbox = "none",
                                     !.skew = @ \/ conn[dconn].inbox # "rest"], "read")

\* readn returns 0; the dispatcher does not ask whether the socket that ended
\* is still the current one.
ReadEnd ==
    /\ pc["dispatch"] \in {"read", "body"} /\ Reading({"none"})
    /\ conn[dconn].peer = "closed"
    /\ LeaveRead(conn[dconn], "lock")

GotBeat ==
    /\ pc["dispatch"] = "beat" /\ beatMutex = "free"
    /\ beats' = 0
    /\ Go("dispatch", "read")
    /\ UNCHANGED <<netVars, connVars, mutexes, dconn, bounds>>

-----------------------------------------------------------------------------
(* heartBeatDetector.                                                      *)

Patient == beats > 40                 \* mutant: one check later
TimedOut == beats > 30

CheckBeats ==
    /\ pc["detector"] = "check" /\ beatMutex = "free"
    /\ \/ /\ TimedOut
          /\ beatMutex' = "detector"
          /\ Go("detector", "lock")
          /\ UNCHANGED beats
       \/ /\ ~TimedOut
          /\ beats' = beats + 10
          /\ Go("detector", "sleep")
          /\ UNCHANGED beatMutex
    /\ UNCHANGED <<netVars, connVars, recMutex, dconn, bounds>>

\* Ten seconds: longer than ClientInit takes to write the REGISTER message.
Wake ==
    /\ pc["detector"] = "sleep" /\ pc["main"] # "register"
    /\ Go("detector", "check")
    /\ UNCHANGED <<netVars, connVars, beats, mutexes, dconn, bounds>>

-----------------------------------------------------------------------------
(* ClientExit.                                                             *)

ClientExit ==
    /\ pc["main"] = "run"
    /\ Go("main", "join_dispatch")
    /\ UNCHANGED <<netVars, connVars, beats, mutexes, dconn, bounds>>

\* Where a thread heeds pthread_cancel: read, close, connect, write and sleep;
\* waiting for a mutex is no such place.
CancelPoints == {"read", "body", "close", "conn", "register", "sleep"}

\* pthread_cancel and pthread_join; the mutexes the thread holds stay locked.
CancelDispatch ==
    /\ pc["main"] = "join_dispatch" /\ pc["dispatch"] \in CancelPoints
    /\ pc' = [pc EXCEPT !["dispatch"] = "off", !["main"] = "join_detector"]
    /\ dconn' = NoConn
    /\ conn' = IF dconn \in open \cup {NoConn} THEN conn ELSE [conn EXCEPT ![dconn] = NewFile]
    /\ UNCHANGED <<server, connVars, beats, mutexes, bounds>>

CancelDetector ==
    /\ pc["main"] = "join_detector" /\ pc["detector"] \in CancelPoints
    /\ pc' = [pc EXCEPT !["detector"] = "off", !["main"] = "exit_disc"]
    /\ UNCHANGED <<netVars, connVars, beats, mutexes, dconn, bounds>>

-----------------------------------------------------------------------------
(* The server, as far as the client can tell.                              *)

\* A heartbeat or a business message to a registered client.
Send(c, m) ==
    /\ conn[c].peer = "up" /\ conn[c].reg /\ conn[c].inbox = "none"
    /\ conn' = [conn EXCEPT ![c].inbox = m]
    /\ UNCHANGED <<server, connVars, beats, mutexes, pc, dconn, bounds>>

\* What becomes of the connections the server still knows.
Lose(how) ==
    conn' = [c \in Conns |-> IF conn[c].peer = "up" THEN [conn[c] EXCEPT !.peer = how]
                                                    ELSE conn[c]]

\* The process ends: every connection it still knows is closed.
ServerDown ==
    /\ server = "up" /\ downs < MaxDowns
    /\ downs' = downs + 1
    /\ server' = "down"
    /\ Lose("closed")
    /\ UNCHANGED <<connVars, beats, mutexes, pc, dconn, inits, hangs>>

ServerUp ==
    /\ server = "down"
    /\ server' = "up"
    /\ UNCHANGED <<conn, connVars, beats, mutexes, pc, dconn, bounds>>

\* The host of the server, or the way to it, is lost and comes back: nothing
\* more is heard of the connections it had.
Hang ==
    /\ server = "up" /\ hangs < MaxHangs
    /\ hangs' = hangs + 1
    /\ Lose("hung")
    /\ UNCHANGED <<server, connVars, beats, mutexes, pc, dconn, inits,
                   downs>>

-----------------------------------------------------------------------------
Reconnect(t) ==
    \/ LockReconnection(t) \/ MarkDisconnected(t) \/ Close(t) \/ Socket(t)
    \/ Connect(t) \/ handleClientConnection(t) \/ clientRegister2Server(t)
    \/ UnlockReconnection(t)

Main == \/ Socket("main") \/ Connect("main") \/ Spawn \/ clientRegister2Server("main")
        \/ CancelDispatch \/ CancelDetector \/ MarkDisconnected("main") \/ Close("main")
Dispatch == EnterRead \/ ReadHeader \/ ReadBody \/ ReadEnd \/ GotBeat
            \/ Reconnect("dispatch")
Detector == CheckBeats \/ Wake \/ Reconnect("detector")

Next ==
    \/ ClientInit \/ ClientWriteMsg2Server \/ ClientExit
    \/ Main \/ Dispatch \/ Detector
    \/ \E c \in Conns, m \in {"beat", "data"} : Send(c, m)
    \/ ServerDown \/ ServerUp \/ Hang

Spec == Init /\ [][Next]_vars

\* Threads run; a thread that waits for a mutex gets it, as the detector sleeps
\* ten seconds without any; a cancelled thread goes at its next cancellation
\* point; and the server sends heartbeats.
FairSpec ==
    /\ Spec
    /\ SF_vars(Main) /\ SF_vars(Dispatch) /\ SF_vars(Detector)
    /\ \A c \in Conns : WF_vars(Send(c, "beat"))

-----------------------------------------------------------------------------
(* Properties.                                                             *)

\* Reconnecting loses no descriptor, whoever reconnects and whenever: the only
\* socket that is open is the one sockfd names.
NoLeak == open \subseteq {sock}

\* When no reconnection is under way and ClientInit has returned, a connection
\* that works is one the server knows the registration of: otherwise it would
\* never send a heartbeat or a message there.
SettledRegistered ==
    /\ recMutex = "free" /\ pc["main"] = "run"
    /\ sock # NoConn /\ conn[sock].peer = "up"
    => conn[sock].reg

\* ClientGetConnectionStatus never reports a connection before connect or after
\* close, whichever thread reconnects.
StatusSafe == isConnected => sock # NoConn /\ conn[sock].peer # "none"

\* When the server stays up, every reconnection comes to an end: the two
\* workers, two mutexes and the retry loops do not block one another.  (Only
\* ClientExit can leave the mutex with a thread that is gone.)
ReconnectEnds ==
    <>[](server = "up") =>
        []<>(recMutex = "free" \/ pc["main"] \notin {"run", "register"})

\* A dispatcher that was cancelled inside a reconnection left its mutex locked,
\* and the detector waits for it.
Orphaned == pc["dispatch"] = "off" /\ recMutex = "dispatch" /\ pc["detector"] = "lock"

\* When the server stays up, ClientExit returns (or the process ends), except
\* when it cancels the dispatcher inside a reconnection the detector waits for.
ExitReturns ==
    <>[](server = "up") =>
        (pc["main"] = "join_dispatch" ~> pc["main"] = "off" \/ Orphaned)

\* While the server stays up and the client runs, the dispatcher again and again
\* reads the current connection, whoever replaced it ...
Reads == []<>(dconn # NoConn /\ dconn = sock)

\* ... unless the connection before died without a word: a reconnection frees
\* the dispatcher from every other socket it may be reading.
ReadsUnlessHung == <>[](server = "up" /\ pc["main"] = "run" /\ hangs = 0) => Reads

\* timing_diagram.md: after the "Reconnect and register" of the heartbeat thread
\* (line 27) the worker goes on with "MsgWorker->>MsgWorker: Receive message from
\* server" (line 37).
Receives == <>[](server = "up" /\ pc["main"] = "run") => Reads

=============================================================================
