-------------------------- MODULE SocketClientProofs --------------------------
(***************************************************************************)
(* Reconnecting is exclusive, loses no descriptor, never reports a          *)
(* connection that is not there, leaves none unregistered and blocks only   *)
(* by ClientExit, for any number of sockets, calls and server failures.     *)
(***************************************************************************)
EXTENDS SocketClient, TLAPS

Workers == {"dispatch", "detector"}

\* A worker that reconnects holds the mutex, so that there is one at a time;
\* the main thread connects and disconnects when no worker is left.
Exclusive ==
    /\ \A t \in Workers : pc[t] \in Reconnecting => recMutex = t
    /\ pc["main"] \in {"off", "sock", "conn", "spawn", "exit_disc", "exit_close"}
       => \A t \in Workers : pc[t] = "off"
    /\ pc["main"] = "join_detector" => pc["dispatch"] = "off"
    /\ pc["main"] \in MainPcs
    /\ \A t \in Workers : pc[t] \in WorkerPcs

\* What a thread between close and connect has made of the globals.
InBetween ==
    \A t \in Threads :
        /\ pc[t] \in {"close", "sock", "conn", "exit_close"} => ~isConnected
        /\ pc[t] = "sock" => sock = NoConn
        /\ pc[t] = "conn" => sock \in open
        /\ pc[t] = "status" => sock \in open /\ conn[sock].peer # "none"

\* StatusSafe with the descriptor open, and no status without the workers.
Connected ==
    /\ isConnected => sock \in open /\ conn[sock].peer # "none"
    /\ pc["main"] \in {"off", "spawn"} => ~isConnected
    /\ pc["main"] = "off" => sock = NoConn

IInv == TypeOK /\ Exclusive /\ InBetween /\ Connected /\ NoLeak

-----------------------------------------------------------------------------
\* The initial state satisfies the inductive invariant.
LEMMA InitIInv == Init => IInv
<1>. SUFFICES ASSUME Init PROVE IInv  OBVIOUS
<1>. USE DEF Init
<1>1. TypeOK  BY DEF TypeOK, File, NewFile, MainPcs, WorkerPcs, Threads
<1>2. Exclusive  BY DEF Exclusive, Workers, Reconnecting, MainPcs, WorkerPcs, Threads
<1>3. InBetween  BY DEF InBetween, Threads
<1>4. Connected  BY DEF Connected, Threads
<1>5. NoLeak  BY DEF NoLeak
<1>. QED  BY <1>1, <1>2, <1>3, <1>4, <1>5 DEF IInv

\* The pcs at which a thread is about to change, or has just changed, sockfd.
Changing == {"disc", "close", "sock", "conn", "status", "exit_disc", "exit_close", "spawn"}

\* No two threads change the connection at once.
LEMMA OneAtATime ==
    ASSUME Exclusive, NEW t \in Threads, NEW u \in Threads,
           pc[t] \in Changing, pc[u] \in Changing
    PROVE  t = u
<1>1. CASE t \in Workers /\ u \in Workers
  <2>1. pc[t] \in Reconnecting /\ pc[u] \in Reconnecting
    BY <1>1 DEF Exclusive, Changing, WorkerPcs, Reconnecting
  <2>. QED  BY <1>1, <2>1 DEF Exclusive
<1>2. CASE t = "main" /\ u \in Workers
  BY <1>2 DEF Exclusive, Changing, MainPcs, Reconnecting
<1>3. CASE u = "main" /\ t \in Workers
  BY <1>3 DEF Exclusive, Changing, MainPcs, Reconnecting
<1>. QED  BY <1>1, <1>2, <1>3 DEF Threads, Workers

\* ClientInit preserves the inductive invariant.
LEMMA Step_ClientInit ==
    ASSUME IInv, ClientInit PROVE IInv'
<1>. USE ConnsAssumption DEF IInv, ClientInit, Go, netVars, connVars, mutexes, bounds
<1>1. TypeOK'  BY DEF TypeOK, File, NewFile, MainPcs, WorkerPcs, Reconnecting, Threads
<1>2. Exclusive'  BY DEF TypeOK, Exclusive, Workers, Reconnecting, MainPcs, WorkerPcs,
  Threads
<1>3. InBetween'  BY DEF TypeOK, File, NewFile, InBetween, Exclusive, Connected, NoLeak,
  Workers, Reconnecting, Threads
<1>4. Connected'  BY DEF TypeOK, File, NewFile, InBetween, Exclusive, Connected, NoLeak,
  Workers, Reconnecting, MainPcs, Threads
<1>5. NoLeak'  BY DEF TypeOK, NoLeak, Connected, Threads
<1>. QED  BY <1>1, <1>2, <1>3, <1>4, <1>5

\* Socket preserves the inductive invariant.
LEMMA Step_Socket ==
    ASSUME NEW t \in Threads, IInv, Socket(t) PROVE IInv'
<1>. USE ConnsAssumption DEF IInv, Socket, Go, netVars, connVars, mutexes, bounds
<1>1. TypeOK'  BY DEF TypeOK, File, NewFile, MainPcs, WorkerPcs, Reconnecting, Threads
<1>2. Exclusive'  BY DEF TypeOK, Exclusive, Workers, Reconnecting, MainPcs, WorkerPcs,
  Threads
<1>3. InBetween'  BY DEF TypeOK, File, NewFile, InBetween, Exclusive, Connected, NoLeak,
  Workers, Reconnecting, Threads
<1>4. Connected'  BY DEF TypeOK, File, NewFile, InBetween, Exclusive, Connected, NoLeak,
  Workers, Reconnecting, MainPcs, Threads
<1>5. NoLeak'  BY DEF TypeOK, NoLeak, InBetween, Threads
<1>. QED  BY <1>1, <1>2, <1>3, <1>4, <1>5

\* Connect preserves the inductive invariant.
LEMMA Step_Connect ==
    ASSUME NEW t \in Threads, IInv, Connect(t) PROVE IInv'
<1>. USE ConnsAssumption DEF IInv, Connect, Go, netVars, connVars, mutexes, bounds
<1>1. TypeOK'  BY DEF TypeOK, File, NewFile, MainPcs, WorkerPcs, Reconnecting, Threads
<1>2. Exclusive'  BY DEF TypeOK, Exclusive, Workers, Reconnecting, MainPcs, WorkerPcs,
  Threads
<1>3. InBetween'
  <2>1. \A u \in Threads \ {t} : pc[u] \notin Changing
    BY OneAtATime DEF Changing
  <2>2. sock' = sock /\ isConnected' = isConnected /\ open' = open
        /\ conn'[sock].peer = "up" /\ sock \in Conns
    BY DEF TypeOK, File
  <2>3. sock \in open
    BY DEF InBetween, TypeOK
  <2>4. pc'[t] \in {"spawn", "status"} /\ \A u \in Threads \ {t} : pc'[u] = pc[u]
    BY DEF TypeOK
  <2>. QED  BY <2>1, <2>2, <2>3, <2>4 DEF InBetween, Changing
<1>4. Connected'  BY DEF TypeOK, File, NewFile, InBetween, Exclusive, Connected, NoLeak,
  Workers, Reconnecting, MainPcs, Threads
<1>5. NoLeak'  BY DEF TypeOK, NoLeak, InBetween, Threads
<1>. QED  BY <1>1, <1>2, <1>3, <1>4, <1>5

\* Spawn preserves the inductive invariant.
LEMMA Step_Spawn ==
    ASSUME IInv, Spawn PROVE IInv'
<1>. USE ConnsAssumption DEF IInv, Spawn, AfterConnected, Go, netVars, connVars, mutexes,
  bounds
<1>1. TypeOK'  BY DEF TypeOK, File, NewFile, MainPcs, WorkerPcs, Reconnecting, Threads
<1>2. Exclusive'  BY DEF TypeOK, Exclusive, Workers, Reconnecting, MainPcs, WorkerPcs,
  Threads
<1>3. InBetween'  BY DEF TypeOK, File, NewFile, InBetween, Exclusive, Connected, NoLeak,
  Workers, Reconnecting, Threads
<1>4. Connected'  BY DEF TypeOK, File, NewFile, InBetween, Exclusive, Connected, NoLeak,
  Workers, Reconnecting, MainPcs, Threads
<1>5. NoLeak'  BY DEF TypeOK, NoLeak, InBetween, Threads
<1>. QED  BY <1>1, <1>2, <1>3, <1>4, <1>5

\* handleClientConnection preserves the inductive invariant.
LEMMA Step_handleClientConnection ==
    ASSUME NEW t \in Threads, IInv, handleClientConnection(t) PROVE IInv'
<1>. USE ConnsAssumption DEF IInv, handleClientConnection, AfterConnected, Go, netVars,
  connVars, mutexes, bounds
<1>1. TypeOK'  BY DEF TypeOK, File, NewFile, MainPcs, WorkerPcs, Reconnecting, Threads
<1>2. Exclusive'  BY DEF TypeOK, Exclusive, Workers, Reconnecting, MainPcs, WorkerPcs,
  Threads
<1>3. InBetween'
  <2>1. \A u \in Threads \ {t} : pc[u] \notin Changing
    BY OneAtATime DEF Changing
  <2>. QED
    BY <2>1 DEF TypeOK, File, NewFile, Changing, InBetween, Exclusive, Connected, NoLeak,
       MainPcs, WorkerPcs, Workers, Reconnecting, Threads
<1>4. Connected'  BY DEF TypeOK, File, NewFile, InBetween, Exclusive, Connected, NoLeak,
  Workers, Reconnecting, MainPcs, Threads
<1>5. NoLeak'  BY DEF TypeOK, NoLeak, InBetween, Threads
<1>. QED  BY <1>1, <1>2, <1>3, <1>4, <1>5

\* clientRegister2Server preserves the inductive invariant.
LEMMA Step_clientRegister2Server ==
    ASSUME NEW t \in Threads, IInv, clientRegister2Server(t) PROVE IInv'
<1>. USE ConnsAssumption DEF IInv, clientRegister2Server, Die, Go, netVars, connVars,
  mutexes, bounds
<1>1. TypeOK'
  <2>1. CASE Die
    BY <2>1, BoundsAssumption DEF TypeOK, File, NewFile, MainPcs, Threads
  <2>2. CASE sock # NoConn /\ conn' = [conn EXCEPT ![sock].reg = @ \/ conn[sock].peer = "up"]
             /\ Go(t, IF t = "main" THEN "run" ELSE "unlock")
             /\ UNCHANGED <<server, connVars, beats, mutexes, dconn, bounds>>
    <3>1. conn' \in [Conns -> File]
      <4>1. sock \in Conns /\ conn[sock] \in File  BY <2>2 DEF TypeOK
      <4>2. [conn[sock] EXCEPT !.reg = @ \/ conn[sock].peer = "up"] \in File
        BY <4>1 DEF File
      <4>. QED  BY <2>2, <4>1, <4>2 DEF TypeOK
    <3>2. pc' \in [Threads -> MainPcs \cup WorkerPcs]
      BY <2>2 DEF TypeOK, MainPcs, WorkerPcs, Reconnecting
    <3>. QED  BY <2>2, <3>1, <3>2 DEF TypeOK
  <2>. QED  BY <2>1, <2>2
<1>2. Exclusive'  BY DEF TypeOK, Exclusive, Workers, Reconnecting, MainPcs, WorkerPcs,
  Threads
<1>3. InBetween'  BY DEF TypeOK, File, NewFile, InBetween, Exclusive, Connected, NoLeak,
  Workers, Reconnecting, Threads
<1>4. Connected'  BY DEF TypeOK, File, NewFile, InBetween, Exclusive, Connected, NoLeak,
  Workers, Reconnecting, MainPcs, Threads
<1>5. NoLeak'  BY DEF TypeOK, NoLeak, InBetween, Threads
<1>. QED  BY <1>1, <1>2, <1>3, <1>4, <1>5

\* ClientWriteMsg2Server preserves the inductive invariant.
LEMMA Step_ClientWriteMsg2Server ==
    ASSUME IInv, ClientWriteMsg2Server PROVE IInv'
<1>. USE ConnsAssumption DEF IInv, ClientWriteMsg2Server, Die, Go, netVars, connVars,
  mutexes, bounds
<1>1. TypeOK'
  BY BoundsAssumption DEF TypeOK, File, NewFile, MainPcs, WorkerPcs, Reconnecting, Threads
<1>2. Exclusive'  BY DEF TypeOK, Exclusive, Workers, Reconnecting, MainPcs, WorkerPcs,
  Threads
<1>3. InBetween'  BY DEF TypeOK, File, NewFile, InBetween, Exclusive, Connected, NoLeak,
  Workers, Reconnecting, Threads
<1>4. Connected'  BY DEF TypeOK, File, NewFile, InBetween, Exclusive, Connected, NoLeak,
  Workers, Reconnecting, MainPcs, Threads
<1>5. NoLeak'  BY DEF TypeOK, NoLeak, InBetween, Threads
<1>. QED  BY <1>1, <1>2, <1>3, <1>4, <1>5

\* LockReconnection preserves the inductive invariant.
LEMMA Step_LockReconnection ==
    ASSUME NEW t \in Threads, IInv, LockReconnection(t) PROVE IInv'
<1>. USE ConnsAssumption DEF IInv, LockReconnection, RecMutexFree, Go, netVars, connVars,
  mutexes, bounds
<1>1. TypeOK'  BY DEF TypeOK, Exclusive, Workers, File, NewFile, MainPcs, WorkerPcs,
  Reconnecting, Threads
<1>2. Exclusive'  BY DEF TypeOK, Exclusive, Workers, Reconnecting, MainPcs, WorkerPcs,
  Threads
<1>3. InBetween'  BY DEF TypeOK, File, NewFile, InBetween, Exclusive, Connected, NoLeak,
  Workers, Reconnecting, Threads
<1>4. Connected'  BY DEF TypeOK, File, NewFile, InBetween, Exclusive, Connected, NoLeak,
  Workers, Reconnecting, MainPcs, Threads
<1>5. NoLeak'  BY DEF TypeOK, NoLeak, InBetween, Threads
<1>. QED  BY <1>1, <1>2, <1>3, <1>4, <1>5

\* MarkDisconnected preserves the inductive invariant.
LEMMA Step_MarkDisconnected ==
    ASSUME NEW t \in Threads, IInv, MarkDisconnected(t) PROVE IInv'
<1>. USE ConnsAssumption DEF IInv, MarkDisconnected, StatusDown, Go, netVars, connVars,
  mutexes, bounds
<1>1. TypeOK'
  BY ZenonT(60) DEF TypeOK, File, NewFile, MainPcs, WorkerPcs, Reconnecting, Threads
<1>2. Exclusive'  BY DEF TypeOK, Exclusive, Workers, Reconnecting, MainPcs, WorkerPcs,
  Threads
<1>3. InBetween'  BY DEF TypeOK, File, NewFile, InBetween, Exclusive, Connected, NoLeak,
  Workers, Reconnecting, Threads
<1>4. Connected'  BY DEF TypeOK, File, NewFile, InBetween, Exclusive, Connected, NoLeak,
  Workers, Reconnecting, MainPcs, Threads
<1>5. NoLeak'  BY DEF TypeOK, NoLeak, InBetween, Threads
<1>. QED  BY <1>1, <1>2, <1>3, <1>4, <1>5

\* Close preserves the inductive invariant.
LEMMA Step_Close ==
    ASSUME NEW t \in Threads, IInv, Close(t) PROVE IInv'
<1>. USE ConnsAssumption DEF IInv, Close, Go, netVars, connVars, mutexes, bounds
<1>1. TypeOK'  BY DEF TypeOK, File, NewFile, MainPcs, WorkerPcs, Reconnecting, Threads
<1>2. Exclusive'  BY DEF TypeOK, Exclusive, Workers, Reconnecting, MainPcs, WorkerPcs,
  Threads
<1>3. InBetween'
  <2>1. \A u \in Threads \ {t} : pc[u] \notin Changing
    BY OneAtATime DEF Changing
  <2>. QED
    BY <2>1 DEF TypeOK, File, NewFile, Changing, InBetween, Exclusive, Connected, NoLeak,
       MainPcs, WorkerPcs, Workers, Reconnecting, Threads
<1>4. Connected'  BY DEF TypeOK, File, NewFile, InBetween, Exclusive, Connected, NoLeak,
  Workers, Reconnecting, MainPcs, Threads
<1>5. NoLeak'  BY DEF TypeOK, NoLeak, InBetween, Threads
<1>. QED  BY <1>1, <1>2, <1>3, <1>4, <1>5

\* UnlockReconnection preserves the inductive invariant.
LEMMA Step_UnlockReconnection ==
    ASSUME NEW t \in Threads, IInv, UnlockReconnection(t) PROVE IInv'
<1>. USE ConnsAssumption DEF IInv, UnlockReconnection, Released, Go, netVars, connVars,
  mutexes, bounds
<1>1. TypeOK'  BY DEF TypeOK, File, NewFile, MainPcs, WorkerPcs, Reconnecting, Threads
<1>2. Exclusive'  BY DEF TypeOK, Exclusive, Workers, Reconnecting, MainPcs, WorkerPcs,
  Threads
<1>3. InBetween'  BY DEF TypeOK, File, NewFile, InBetween, Exclusive, Connected, NoLeak,
  Workers, Reconnecting, Threads
<1>4. Connected'  BY DEF TypeOK, File, NewFile, InBetween, Exclusive, Connected, NoLeak,
  Workers, Reconnecting, MainPcs, Threads
<1>5. NoLeak'  BY DEF TypeOK, NoLeak, InBetween, Threads
<1>. QED  BY <1>1, <1>2, <1>3, <1>4, <1>5

\* EnterRead preserves the inductive invariant.
LEMMA Step_EnterRead ==
    ASSUME IInv, EnterRead PROVE IInv'
<1>. USE ConnsAssumption DEF IInv, EnterRead, Readable, Go, netVars, connVars, mutexes,
  bounds
<1>1. TypeOK'  BY DEF TypeOK, File, NewFile, MainPcs, WorkerPcs, Reconnecting, Threads
<1>2. Exclusive'  BY DEF TypeOK, Exclusive, Workers, Reconnecting, MainPcs, WorkerPcs,
  Threads
<1>3. InBetween'  BY DEF TypeOK, File, NewFile, InBetween, Exclusive, Connected, NoLeak,
  Workers, Reconnecting, Threads
<1>4. Connected'  BY DEF TypeOK, File, NewFile, InBetween, Exclusive, Connected, NoLeak,
  Workers, Reconnecting, MainPcs, Threads
<1>5. NoLeak'  BY DEF TypeOK, NoLeak, InBetween, Threads
<1>. QED  BY <1>1, <1>2, <1>3, <1>4, <1>5

\* The end of a read keeps the types when the file it leaves is one.
LEMMA LeaveReadType ==
    ASSUME TypeOK, dconn \in Conns, NEW f \in File, NEW to \in WorkerPcs, LeaveRead(f, to)
    PROVE  TypeOK'
<1>1. NewFile \in File  BY DEF NewFile, File
<1>. QED  BY <1>1 DEF LeaveRead, Go, TypeOK, connVars, mutexes, bounds

\* ReadHeader preserves the inductive invariant.
LEMMA Step_ReadHeader ==
    ASSUME IInv, ReadHeader PROVE IInv'
<1>. USE ConnsAssumption DEF IInv, ReadHeader, LeaveRead, Reading, Go, netVars, connVars,
  mutexes, bounds
<1>1. TypeOK'
  <2>1. dconn \in Conns /\ conn[dconn] \in File  BY DEF TypeOK
  <2>2. \A in \in {"none", "rest"} : [conn[dconn] EXCEPT !.inbox = in] \in File
    BY <2>1 DEF File
  <2>3. PICK f \in File, to \in {"read", "body", "beat"} : LeaveRead(f, to)
    BY <2>2 DEF LeaveRead
  <2>. QED  BY <2>1, <2>3, LeaveReadType DEF WorkerPcs
<1>2. Exclusive'  BY DEF TypeOK, Exclusive, Workers, Reconnecting, MainPcs, WorkerPcs,
  Threads
<1>3. InBetween'  BY DEF TypeOK, File, NewFile, InBetween, Exclusive, Connected, NoLeak,
  Workers, Reconnecting, Threads
<1>4. Connected'  BY DEF TypeOK, File, NewFile, InBetween, Exclusive, Connected, NoLeak,
  Workers, Reconnecting, MainPcs, Threads
<1>5. NoLeak'  BY DEF TypeOK, NoLeak, InBetween, Threads
<1>. QED  BY <1>1, <1>2, <1>3, <1>4, <1>5

\* ReadBody preserves the inductive invariant.
LEMMA Step_ReadBody ==
    ASSUME IInv, ReadBody PROVE IInv'
<1>. USE ConnsAssumption DEF IInv, ReadBody, LeaveRead, Reading, Go, netVars, connVars,
  mutexes, bounds
<1>1. TypeOK'
  <2>1. dconn \in Conns /\ conn[dconn] \in File  BY DEF TypeOK
  <2>2. [conn[dconn] EXCEPT !.inbox = "none",
                            !.skew = @ \/ conn[dconn].inbox # "rest"] \in File
    BY <2>1 DEF File
  <2>. QED  BY <2>1, <2>2, LeaveReadType DEF WorkerPcs
<1>2. Exclusive'  BY DEF TypeOK, Exclusive, Workers, Reconnecting, MainPcs, WorkerPcs,
  Threads
<1>3. InBetween'  BY DEF TypeOK, File, NewFile, InBetween, Exclusive, Connected, NoLeak,
  Workers, Reconnecting, Threads
<1>4. Connected'  BY DEF TypeOK, File, NewFile, InBetween, Exclusive, Connected, NoLeak,
  Workers, Reconnecting, MainPcs, Threads
<1>5. NoLeak'  BY DEF TypeOK, NoLeak, InBetween, Threads
<1>. QED  BY <1>1, <1>2, <1>3, <1>4, <1>5

\* ReadEnd preserves the inductive invariant.
LEMMA Step_ReadEnd ==
    ASSUME IInv, ReadEnd PROVE IInv'
<1>. USE ConnsAssumption DEF IInv, ReadEnd, LeaveRead, Reading, Go, netVars, connVars,
  mutexes, bounds
<1>1. TypeOK'  BY DEF TypeOK, File, NewFile, MainPcs, WorkerPcs, Reconnecting, Threads
<1>2. Exclusive'  BY DEF TypeOK, Exclusive, Workers, Reconnecting, MainPcs, WorkerPcs,
  Threads
<1>3. InBetween'  BY DEF TypeOK, File, NewFile, InBetween, Exclusive, Connected, NoLeak,
  Workers, Reconnecting, Threads
<1>4. Connected'  BY DEF TypeOK, File, NewFile, InBetween, Exclusive, Connected, NoLeak,
  Workers, Reconnecting, MainPcs, Threads
<1>5. NoLeak'  BY DEF TypeOK, NoLeak, InBetween, Threads
<1>. QED  BY <1>1, <1>2, <1>3, <1>4, <1>5

\* GotBeat preserves the inductive invariant.
LEMMA Step_GotBeat ==
    ASSUME IInv, GotBeat PROVE IInv'
<1>. USE ConnsAssumption DEF IInv, GotBeat, Go, netVars, connVars, mutexes, bounds
<1>1. TypeOK'  BY DEF TypeOK, File, NewFile, MainPcs, WorkerPcs, Reconnecting, Threads
<1>2. Exclusive'  BY DEF TypeOK, Exclusive, Workers, Reconnecting, MainPcs, WorkerPcs,
  Threads
<1>3. InBetween'  BY DEF TypeOK, File, NewFile, InBetween, Exclusive, Connected, NoLeak,
  Workers, Reconnecting, Threads
<1>4. Connected'  BY DEF TypeOK, File, NewFile, InBetween, Exclusive, Connected, NoLeak,
  Workers, Reconnecting, MainPcs, Threads
<1>5. NoLeak'  BY DEF TypeOK, NoLeak, InBetween, Threads
<1>. QED  BY <1>1, <1>2, <1>3, <1>4, <1>5

\* CheckBeats preserves the inductive invariant.
LEMMA Step_CheckBeats ==
    ASSUME IInv, CheckBeats PROVE IInv'
<1>. USE ConnsAssumption DEF IInv, CheckBeats, TimedOut, Go, netVars, connVars, mutexes,
  bounds
<1>1. TypeOK'  BY DEF TypeOK, File, NewFile, MainPcs, WorkerPcs, Reconnecting, Threads
<1>2. Exclusive'  BY DEF TypeOK, Exclusive, Workers, Reconnecting, MainPcs, WorkerPcs,
  Threads
<1>3. InBetween'  BY DEF TypeOK, File, NewFile, InBetween, Exclusive, Connected, NoLeak,
  Workers, Reconnecting, Threads
<1>4. Connected'  BY DEF TypeOK, File, NewFile, InBetween, Exclusive, Connected, NoLeak,
  Workers, Reconnecting, MainPcs, Threads
<1>5. NoLeak'  BY DEF TypeOK, NoLeak, InBetween, Threads
<1>. QED  BY <1>1, <1>2, <1>3, <1>4, <1>5

\* Wake preserves the inductive invariant.
LEMMA Step_Wake ==
    ASSUME IInv, Wake PROVE IInv'
<1>. USE ConnsAssumption DEF IInv, Wake, Go, netVars, connVars, mutexes, bounds
<1>1. TypeOK'  BY DEF TypeOK, File, NewFile, MainPcs, WorkerPcs, Reconnecting, Threads
<1>2. Exclusive'  BY DEF TypeOK, Exclusive, Workers, Reconnecting, MainPcs, WorkerPcs,
  Threads
<1>3. InBetween'  BY DEF TypeOK, File, NewFile, InBetween, Exclusive, Connected, NoLeak,
  Workers, Reconnecting, Threads
<1>4. Connected'  BY DEF TypeOK, File, NewFile, InBetween, Exclusive, Connected, NoLeak,
  Workers, Reconnecting, MainPcs, Threads
<1>5. NoLeak'  BY DEF TypeOK, NoLeak, InBetween, Threads
<1>. QED  BY <1>1, <1>2, <1>3, <1>4, <1>5

\* ClientExit preserves the inductive invariant.
LEMMA Step_ClientExit ==
    ASSUME IInv, ClientExit PROVE IInv'
<1>. USE ConnsAssumption DEF IInv, ClientExit, Go, netVars, connVars, mutexes, bounds
<1>1. TypeOK'  BY DEF TypeOK, File, NewFile, MainPcs, WorkerPcs, Reconnecting, Threads
<1>2. Exclusive'  BY DEF TypeOK, Exclusive, Workers, Reconnecting, MainPcs, WorkerPcs,
  Threads
<1>3. InBetween'  BY DEF TypeOK, File, NewFile, InBetween, Exclusive, Connected, NoLeak,
  Workers, Reconnecting, Threads
<1>4. Connected'  BY DEF TypeOK, File, NewFile, InBetween, Exclusive, Connected, NoLeak,
  Workers, Reconnecting, MainPcs, Threads
<1>5. NoLeak'  BY DEF TypeOK, NoLeak, InBetween, Threads
<1>. QED  BY <1>1, <1>2, <1>3, <1>4, <1>5

\* CancelDispatch preserves the inductive invariant.
LEMMA Step_CancelDispatch ==
    ASSUME IInv, CancelDispatch PROVE IInv'
<1>. USE ConnsAssumption DEF IInv, CancelDispatch, CancelPoints, Go, netVars, connVars,
  mutexes, bounds
<1>1. TypeOK'  BY DEF TypeOK, File, NewFile, MainPcs, WorkerPcs, Reconnecting, Threads
<1>2. Exclusive'  BY DEF TypeOK, Exclusive, Workers, Reconnecting, MainPcs, WorkerPcs,
  Threads
<1>3. InBetween'  BY DEF TypeOK, File, NewFile, InBetween, Exclusive, Connected, NoLeak,
  Workers, Reconnecting, Threads
<1>4. Connected'  BY DEF TypeOK, File, NewFile, InBetween, Exclusive, Connected, NoLeak,
  Workers, Reconnecting, MainPcs, Threads
<1>5. NoLeak'  BY DEF TypeOK, NoLeak, InBetween, Threads
<1>. QED  BY <1>1, <1>2, <1>3, <1>4, <1>5

\* CancelDetector preserves the inductive invariant.
LEMMA Step_CancelDetector ==
    ASSUME IInv, CancelDetector PROVE IInv'
<1>. USE ConnsAssumption DEF IInv, CancelDetector, CancelPoints, Go, netVars, connVars,
  mutexes, bounds
<1>1. TypeOK'  BY DEF TypeOK, File, NewFile, MainPcs, WorkerPcs, Reconnecting, Threads
<1>2. Exclusive'  BY DEF TypeOK, Exclusive, Workers, Reconnecting, MainPcs, WorkerPcs,
  Threads
<1>3. InBetween'  BY DEF TypeOK, File, NewFile, InBetween, Exclusive, Connected, NoLeak,
  Workers, Reconnecting, Threads
<1>4. Connected'  BY DEF TypeOK, File, NewFile, InBetween, Exclusive, Connected, NoLeak,
  Workers, Reconnecting, MainPcs, Threads
<1>5. NoLeak'  BY DEF TypeOK, NoLeak, InBetween, Threads
<1>. QED  BY <1>1, <1>2, <1>3, <1>4, <1>5

\* ServerDown preserves the inductive invariant.
LEMMA Step_ServerDown ==
    ASSUME IInv, ServerDown PROVE IInv'
<1>. USE ConnsAssumption DEF IInv, ServerDown, Lose, Go, netVars, connVars, mutexes, bounds
<1>1. TypeOK'  BY DEF TypeOK, File, NewFile, MainPcs, WorkerPcs, Reconnecting, Threads
<1>2. Exclusive'  BY DEF TypeOK, Exclusive, Workers, Reconnecting, MainPcs, WorkerPcs,
  Threads
<1>3. InBetween'  BY DEF TypeOK, File, NewFile, InBetween, Exclusive, Connected, NoLeak,
  Workers, Reconnecting, Threads
<1>4. Connected'  BY DEF TypeOK, File, NewFile, InBetween, Exclusive, Connected, NoLeak,
  Workers, Reconnecting, MainPcs, Threads
<1>5. NoLeak'  BY DEF TypeOK, NoLeak, InBetween, Threads
<1>. QED  BY <1>1, <1>2, <1>3, <1>4, <1>5

\* ServerUp preserves the inductive invariant.
LEMMA Step_ServerUp ==
    ASSUME IInv, ServerUp PROVE IInv'
<1>. USE ConnsAssumption DEF IInv, ServerUp, Go, netVars, connVars, mutexes, bounds
<1>1. TypeOK'  BY DEF TypeOK, File, NewFile, MainPcs, WorkerPcs, Reconnecting, Threads
<1>2. Exclusive'  BY DEF TypeOK, Exclusive, Workers, Reconnecting, MainPcs, WorkerPcs,
  Threads
<1>3. InBetween'  BY DEF TypeOK, File, NewFile, InBetween, Exclusive, Connected, NoLeak,
  Workers, Reconnecting, Threads
<1>4. Connected'  BY DEF TypeOK, File, NewFile, InBetween, Exclusive, Connected, NoLeak,
  Workers, Reconnecting, MainPcs, Threads
<1>5. NoLeak'  BY DEF TypeOK, NoLeak, InBetween, Threads
<1>. QED  BY <1>1, <1>2, <1>3, <1>4, <1>5

\* Hang preserves the inductive invariant.
LEMMA Step_Hang ==
    ASSUME IInv, Hang PROVE IInv'
<1>. USE ConnsAssumption DEF IInv, Hang, Lose, Go, netVars, connVars, mutexes, bounds
<1>1. TypeOK'  BY DEF TypeOK, File, NewFile, MainPcs, WorkerPcs, Reconnecting, Threads
<1>2. Exclusive'  BY DEF TypeOK, Exclusive, Workers, Reconnecting, MainPcs, WorkerPcs,
  Threads
<1>3. InBetween'  BY DEF TypeOK, File, NewFile, InBetween, Exclusive, Connected, NoLeak,
  Workers, Reconnecting, Threads
<1>4. Connected'  BY DEF TypeOK, File, NewFile, InBetween, Exclusive, Connected, NoLeak,
  Workers, Reconnecting, MainPcs, Threads
<1>5. NoLeak'  BY DEF TypeOK, NoLeak, InBetween, Threads
<1>. QED  BY <1>1, <1>2, <1>3, <1>4, <1>5

\* A message from the server preserves the inductive invariant.
LEMMA Step_Send ==
    ASSUME NEW c \in Conns, NEW m \in {"beat", "data"}, IInv, Send(c, m) PROVE IInv'
<1>. USE ConnsAssumption DEF IInv, Send, connVars, mutexes, bounds
<1>1. TypeOK'  BY DEF TypeOK, File
<1>2. Exclusive'  BY DEF Exclusive
<1>3. InBetween'  BY DEF TypeOK, File, InBetween, NoLeak
<1>4. Connected'  BY DEF TypeOK, File, Connected
<1>5. NoLeak'  BY DEF NoLeak
<1>. QED  BY <1>1, <1>2, <1>3, <1>4, <1>5

\* Every step preserves the inductive invariant: one case per action.
LEMMA NextIInv == IInv /\ [Next]_vars => IInv'
<1>. SUFFICES ASSUME IInv, [Next]_vars PROVE IInv'  OBVIOUS
<1>1. CASE UNCHANGED vars
  BY <1>1 DEF vars, netVars, connVars, mutexes, bounds, IInv, TypeOK, Exclusive,
              InBetween, Connected, NoLeak
<1>2. CASE ClientInit \/ ClientWriteMsg2Server \/ ClientExit
  BY <1>2, Step_ClientInit, Step_ClientWriteMsg2Server, Step_ClientExit
<1>3. ASSUME NEW t \in Threads, Reconnect(t) PROVE IInv'
  BY <1>3, Step_LockReconnection, Step_MarkDisconnected, Step_Close, Step_Socket,
     Step_Connect, Step_handleClientConnection, Step_clientRegister2Server,
     Step_UnlockReconnection DEF Reconnect
<1>4. CASE Main
  BY <1>4, Step_Socket, Step_Connect, Step_Spawn, Step_clientRegister2Server,
     Step_CancelDispatch, Step_CancelDetector, Step_MarkDisconnected, Step_Close
     DEF Main, Threads
<1>5. CASE Dispatch
  BY <1>3, <1>5, Step_EnterRead, Step_ReadHeader, Step_ReadBody, Step_ReadEnd,
     Step_GotBeat DEF Dispatch, Threads
<1>6. CASE Detector
  BY <1>3, <1>6, Step_CheckBeats, Step_Wake DEF Detector, Threads
<1>7. CASE \E c \in Conns, m \in {"beat", "data"} : Send(c, m)
  BY <1>7, Step_Send
<1>8. CASE ServerDown \/ ServerUp \/ Hang
  BY <1>8, Step_ServerDown, Step_ServerUp, Step_Hang
<1>. QED  BY <1>1, <1>2, <1>4, <1>5, <1>6, <1>7, <1>8 DEF Next

-----------------------------------------------------------------------------
\* Every reachable state satisfies the inductive invariant.
THEOREM Invariance == Spec => []IInv
  BY InitIInv, NextIInv, PTL DEF Spec

\* Whichever threads reconnect, and wherever ClientExit cancels them, the only
\* open socket is the one sockfd names.
THEOREM NoDescriptorLost == Spec => []NoLeak
<1>1. IInv => NoLeak  BY DEF IInv
<1>. QED  BY <1>1, Invariance, PTL

\* ClientGetConnectionStatus reports a connection only between connect and
\* close of the socket that sockfd names.
THEOREM StatusTruthful == Spec => []StatusSafe
<1>1. IInv => StatusSafe
  BY ConnsAssumption DEF IInv, TypeOK, Connected, StatusSafe
<1>. QED  BY <1>1, Invariance, PTL

\* Every variable keeps its type: the bytes of one message are read as another's without
\* leaving the file, and the heartbeats are counted to 40 at most.
THEOREM TypeCorrect == Spec => []TypeOK
<1>1. IInv => TypeOK  BY DEF IInv
<1>. QED  BY <1>1, Invariance, PTL

-----------------------------------------------------------------------------
(* Registration.                                                           *)

\* sockfd names an open file or none; a file nobody has is as new; and a connection that
\* is not registered is about to be, by a thread that is still reconnecting.
SockOpen == sock # NoConn => sock \in open
Clean == \A c \in Conns : c \notin open /\ c # dconn => conn[c] = NewFile
Known ==
    pc["main"] = "run" /\ sock # NoConn /\ conn[sock].peer = "up" =>
        conn[sock].reg \/ \E t \in Workers : pc[t] \in {"status", "register"}

RInv == SockOpen /\ Clean /\ Known

\* The initial state has no file.
LEMMA InitRInv == Init => RInv
  BY DEF Init, RInv, SockOpen, Clean, Known, Threads

\* ClientInit keeps the registration.
LEMMA Known_ClientInit ==
    ASSUME IInv, RInv, ClientInit PROVE RInv'
<1>. USE ConnsAssumption DEF RInv, ClientInit, Go, netVars, connVars, mutexes, bounds
<1>1. SockOpen'  BY DEF IInv, TypeOK, SockOpen, InBetween
<1>2. Clean'  BY DEF IInv, TypeOK, Clean, SockOpen, InBetween, File, NewFile
<1>3. Known'  BY DEF IInv, TypeOK, Known, Clean, SockOpen, Workers, Threads, File, NewFile,
  Exclusive, InBetween, Reconnecting
<1>. QED  BY <1>1, <1>2, <1>3

\* Socket keeps the registration.
LEMMA Known_Socket ==
    ASSUME NEW t \in Threads, IInv, RInv, Socket(t) PROVE RInv'
<1>. USE ConnsAssumption DEF RInv, Socket, Go, netVars, connVars, mutexes, bounds
<1>1. SockOpen'  BY DEF IInv, TypeOK, SockOpen, InBetween
<1>2. Clean'  BY DEF IInv, TypeOK, Clean, SockOpen, InBetween, File, NewFile
<1>3. Known'  BY DEF IInv, TypeOK, Known, Clean, SockOpen, Workers, Threads, File, NewFile,
  Exclusive, InBetween, Reconnecting
<1>. QED  BY <1>1, <1>2, <1>3

\* Connect keeps the registration.
LEMMA Known_Connect ==
    ASSUME NEW t \in Threads, IInv, RInv, Connect(t) PROVE RInv'
<1>. USE ConnsAssumption DEF RInv, Connect, Go, netVars, connVars, mutexes, bounds
<1>1. SockOpen'  BY DEF IInv, TypeOK, SockOpen, InBetween
<1>2. Clean'  BY DEF IInv, TypeOK, Clean, SockOpen, InBetween, File, NewFile
<1>3. Known'  BY DEF IInv, TypeOK, Known, Clean, SockOpen, Workers, Threads, File, NewFile,
  Exclusive, InBetween, Reconnecting
<1>. QED  BY <1>1, <1>2, <1>3

\* Spawn keeps the registration.
LEMMA Known_Spawn ==
    ASSUME IInv, RInv, Spawn PROVE RInv'
<1>. USE ConnsAssumption DEF RInv, Spawn, AfterConnected, Go, netVars, connVars, mutexes,
  bounds
<1>1. SockOpen'  BY DEF IInv, TypeOK, SockOpen, InBetween
<1>2. Clean'  BY DEF IInv, TypeOK, Clean, SockOpen, InBetween, File, NewFile
<1>3. Known'  BY DEF IInv, TypeOK, Known, Clean, SockOpen, Workers, Threads, File, NewFile,
  Exclusive, InBetween, Reconnecting
<1>. QED  BY <1>1, <1>2, <1>3

\* handleClientConnection keeps the registration.
LEMMA Known_handleClientConnection ==
    ASSUME NEW t \in Threads, IInv, RInv, handleClientConnection(t) PROVE RInv'
<1>. USE ConnsAssumption DEF RInv, handleClientConnection, AfterConnected, Go, netVars,
  connVars, mutexes, bounds
<1>1. SockOpen'  BY DEF IInv, TypeOK, SockOpen, InBetween
<1>2. Clean'  BY DEF IInv, TypeOK, Clean, SockOpen, InBetween, File, NewFile
<1>3. Known'  BY DEF IInv, TypeOK, Known, Clean, SockOpen, Workers, Threads, File, NewFile,
  Exclusive, InBetween, Reconnecting
<1>. QED  BY <1>1, <1>2, <1>3

\* clientRegister2Server keeps the registration.
LEMMA Known_clientRegister2Server ==
    ASSUME NEW t \in Threads, IInv, RInv, clientRegister2Server(t) PROVE RInv'
<1>. USE ConnsAssumption DEF RInv, clientRegister2Server, Go, netVars, connVars, mutexes,
  bounds
<1>1. CASE Die
  BY <1>1 DEF Die, IInv, TypeOK, SockOpen, Clean, Known, Threads
<1>2. CASE /\ sock # NoConn /\ conn[sock].peer # "none"
           /\ conn' = [conn EXCEPT ![sock].reg = @ \/ conn[sock].peer = "up"]
           /\ Go(t, IF t = "main" THEN "run" ELSE "unlock")
           /\ UNCHANGED <<server, connVars, beats, mutexes, dconn, bounds>>
  <2>1. sock \in Conns /\ conn[sock] \in File /\ sock \in open
    BY <1>2 DEF IInv, TypeOK, SockOpen
  <2>2. SockOpen'  BY <1>2 DEF SockOpen
  <2>3. Clean'
    <3>1. \A c \in Conns : c # sock => conn'[c] = conn[c]  BY <1>2 DEF IInv, TypeOK
    <3>. QED  BY <1>2, <2>1, <3>1 DEF Clean
  <2>4. conn'[sock].peer = conn[sock].peer
        /\ (conn[sock].peer = "up" => conn'[sock].reg)
    <3>1. conn'[sock] = [conn[sock] EXCEPT !.reg = @ \/ conn[sock].peer = "up"]
      BY <1>2, <2>1 DEF IInv, TypeOK
    <3>2. conn'[sock].peer = conn[sock].peer
          /\ conn'[sock].reg = (conn[sock].reg \/ conn[sock].peer = "up")
      BY <2>1, <3>1 DEF File
    <3>. QED  BY <3>2, Zenon
  <2>5. Known'  BY <1>2, <2>4 DEF Known
  <2>. QED  BY <2>2, <2>3, <2>5
<1>. QED  BY <1>1, <1>2

\* ClientWriteMsg2Server keeps the registration.
LEMMA Known_ClientWriteMsg2Server ==
    ASSUME IInv, RInv, ClientWriteMsg2Server PROVE RInv'
<1>. USE ConnsAssumption DEF RInv, ClientWriteMsg2Server, Die, Go, netVars, connVars,
  mutexes, bounds
<1>1. SockOpen'  BY DEF IInv, TypeOK, SockOpen, InBetween
<1>2. Clean'  BY DEF IInv, TypeOK, Clean, SockOpen, InBetween, File, NewFile
<1>3. Known'  BY DEF IInv, TypeOK, Known, Clean, SockOpen, Workers, Threads, File, NewFile,
  Exclusive, InBetween, Reconnecting
<1>. QED  BY <1>1, <1>2, <1>3

\* LockReconnection keeps the registration.
LEMMA Known_LockReconnection ==
    ASSUME NEW t \in Workers, IInv, RInv, LockReconnection(t) PROVE RInv'
<1>. USE ConnsAssumption DEF RInv, LockReconnection, RecMutexFree, Go, netVars, connVars,
  mutexes, bounds
<1>1. SockOpen'  BY DEF IInv, TypeOK, SockOpen, InBetween
<1>2. Clean'  BY DEF IInv, TypeOK, Clean, SockOpen, InBetween, File, NewFile
<1>3. Known'  BY DEF IInv, TypeOK, Known, Clean, SockOpen, Workers, Threads, File, NewFile,
  Exclusive, InBetween, Reconnecting
<1>. QED  BY <1>1, <1>2, <1>3

\* MarkDisconnected keeps the registration.
LEMMA Known_MarkDisconnected ==
    ASSUME NEW t \in Threads, IInv, RInv, MarkDisconnected(t) PROVE RInv'
<1>. USE ConnsAssumption DEF RInv, MarkDisconnected, StatusDown, Go, netVars, connVars,
  mutexes, bounds
<1>1. SockOpen'  BY DEF IInv, TypeOK, SockOpen, InBetween
<1>2. Clean'  BY DEF IInv, TypeOK, Clean, SockOpen, InBetween, File, NewFile
<1>3. Known'  BY DEF IInv, TypeOK, Known, Clean, SockOpen, Workers, Threads, File, NewFile,
  Exclusive, InBetween, Reconnecting
<1>. QED  BY <1>1, <1>2, <1>3

\* Close keeps the registration.
LEMMA Known_Close ==
    ASSUME NEW t \in Threads, IInv, RInv, Close(t) PROVE RInv'
<1>. USE ConnsAssumption DEF RInv, Close, Go, netVars, connVars, mutexes, bounds
<1>1. SockOpen'  BY DEF IInv, TypeOK, SockOpen, InBetween
<1>2. Clean'  BY ZenonT(60) DEF IInv, TypeOK, Clean, SockOpen, InBetween, File, NewFile
<1>3. Known'  BY DEF IInv, TypeOK, Known, Clean, SockOpen, Workers, Threads, File, NewFile,
  Exclusive, InBetween, Reconnecting
<1>. QED  BY <1>1, <1>2, <1>3

\* UnlockReconnection keeps the registration.
LEMMA Known_UnlockReconnection ==
    ASSUME NEW t \in Workers, IInv, RInv, UnlockReconnection(t) PROVE RInv'
<1>. USE ConnsAssumption DEF RInv, UnlockReconnection, Released, Go, netVars, connVars,
  mutexes, bounds
<1>1. SockOpen'  BY DEF IInv, TypeOK, SockOpen, InBetween
<1>2. Clean'  BY DEF IInv, TypeOK, Clean, SockOpen, InBetween, File, NewFile
<1>3. Known'  BY DEF IInv, TypeOK, Known, Clean, SockOpen, Workers, Threads, File, NewFile,
  Exclusive, InBetween, Reconnecting
<1>. QED  BY <1>1, <1>2, <1>3

\* EnterRead keeps the registration.
LEMMA Known_EnterRead ==
    ASSUME IInv, RInv, EnterRead PROVE RInv'
<1>. USE ConnsAssumption DEF RInv, EnterRead, Readable, Go, netVars, connVars, mutexes,
  bounds
<1>1. SockOpen'  BY DEF IInv, TypeOK, SockOpen, InBetween
<1>2. Clean'  BY DEF IInv, TypeOK, Clean, SockOpen, InBetween, File, NewFile
<1>3. Known'  BY DEF IInv, TypeOK, Known, Clean, SockOpen, Workers, Threads, File, NewFile,
  Exclusive, InBetween, Reconnecting
<1>. QED  BY <1>1, <1>2, <1>3

\* ReadHeader keeps the registration.
LEMMA Known_ReadHeader ==
    ASSUME IInv, RInv, ReadHeader PROVE RInv'
<1>. USE ConnsAssumption DEF RInv, ReadHeader, LeaveRead, Reading, Go, netVars, connVars,
  mutexes, bounds
<1>1. SockOpen'  BY DEF IInv, TypeOK, SockOpen, InBetween
<1>2. Clean'  BY ZenonT(60) DEF IInv, TypeOK, Clean, SockOpen, InBetween, File, NewFile
<1>3. Known'  BY DEF IInv, TypeOK, Known, Clean, SockOpen, Workers, Threads, File, NewFile,
  Exclusive, InBetween, Reconnecting
<1>. QED  BY <1>1, <1>2, <1>3

\* ReadBody keeps the registration.
LEMMA Known_ReadBody ==
    ASSUME IInv, RInv, ReadBody PROVE RInv'
<1>. USE ConnsAssumption DEF RInv, ReadBody, LeaveRead, Reading, Go, netVars, connVars,
  mutexes, bounds
<1>1. SockOpen'  BY DEF IInv, TypeOK, SockOpen, InBetween
<1>2. Clean'  BY DEF IInv, TypeOK, Clean, SockOpen, InBetween, File, NewFile
<1>3. Known'  BY DEF IInv, TypeOK, Known, Clean, SockOpen, Workers, Threads, File, NewFile,
  Exclusive, InBetween, Reconnecting
<1>. QED  BY <1>1, <1>2, <1>3

\* ReadEnd keeps the registration.
LEMMA Known_ReadEnd ==
    ASSUME IInv, RInv, ReadEnd PROVE RInv'
<1>. USE ConnsAssumption DEF RInv, ReadEnd, LeaveRead, Reading, Go, netVars, connVars,
  mutexes, bounds
<1>1. SockOpen'  BY DEF IInv, TypeOK, SockOpen, InBetween
<1>2. Clean'  BY DEF IInv, TypeOK, Clean, SockOpen, InBetween, File, NewFile
<1>3. Known'  BY DEF IInv, TypeOK, Known, Clean, SockOpen, Workers, Threads, File, NewFile,
  Exclusive, InBetween, Reconnecting
<1>. QED  BY <1>1, <1>2, <1>3

\* GotBeat keeps the registration.
LEMMA Known_GotBeat ==
    ASSUME IInv, RInv, GotBeat PROVE RInv'
<1>. USE ConnsAssumption DEF RInv, GotBeat, Go, netVars, connVars, mutexes, bounds
<1>1. SockOpen'  BY DEF IInv, TypeOK, SockOpen, InBetween
<1>2. Clean'  BY DEF IInv, TypeOK, Clean, SockOpen, InBetween, File, NewFile
<1>3. Known'  BY DEF IInv, TypeOK, Known, Clean, SockOpen, Workers, Threads, File, NewFile,
  Exclusive, InBetween, Reconnecting
<1>. QED  BY <1>1, <1>2, <1>3

\* CheckBeats keeps the registration.
LEMMA Known_CheckBeats ==
    ASSUME IInv, RInv, CheckBeats PROVE RInv'
<1>. USE ConnsAssumption DEF RInv, CheckBeats, TimedOut, Go, netVars, connVars, mutexes,
  bounds
<1>1. SockOpen'  BY DEF IInv, TypeOK, SockOpen, InBetween
<1>2. Clean'  BY DEF IInv, TypeOK, Clean, SockOpen, InBetween, File, NewFile
<1>3. Known'  BY DEF IInv, TypeOK, Known, Clean, SockOpen, Workers, Threads, File, NewFile,
  Exclusive, InBetween, Reconnecting
<1>. QED  BY <1>1, <1>2, <1>3

\* Wake keeps the registration.
LEMMA Known_Wake ==
    ASSUME IInv, RInv, Wake PROVE RInv'
<1>. USE ConnsAssumption DEF RInv, Wake, Go, netVars, connVars, mutexes, bounds
<1>1. SockOpen'  BY DEF IInv, TypeOK, SockOpen, InBetween
<1>2. Clean'  BY DEF IInv, TypeOK, Clean, SockOpen, InBetween, File, NewFile
<1>3. Known'  BY DEF IInv, TypeOK, Known, Clean, SockOpen, Workers, Threads, File, NewFile,
  Exclusive, InBetween, Reconnecting
<1>. QED  BY <1>1, <1>2, <1>3

\* ClientExit keeps the registration.
LEMMA Known_ClientExit ==
    ASSUME IInv, RInv, ClientExit PROVE RInv'
<1>. USE ConnsAssumption DEF RInv, ClientExit, Go, netVars, connVars, mutexes, bounds
<1>1. SockOpen'  BY DEF IInv, TypeOK, SockOpen, InBetween
<1>2. Clean'  BY DEF IInv, TypeOK, Clean, SockOpen, InBetween, File, NewFile
<1>3. Known'  BY DEF IInv, TypeOK, Known, Clean, SockOpen, Workers, Threads, File, NewFile,
  Exclusive, InBetween, Reconnecting
<1>. QED  BY <1>1, <1>2, <1>3

\* CancelDispatch keeps the registration.
LEMMA Known_CancelDispatch ==
    ASSUME IInv, RInv, CancelDispatch PROVE RInv'
<1>. USE ConnsAssumption DEF RInv, CancelDispatch, CancelPoints, Go, netVars, connVars,
  mutexes, bounds
<1>1. SockOpen'  BY DEF IInv, TypeOK, SockOpen, InBetween
<1>2. Clean'  BY DEF IInv, TypeOK, Clean, SockOpen, InBetween, File, NewFile
<1>3. Known'  BY DEF IInv, TypeOK, Known, Clean, SockOpen, Workers, Threads, File, NewFile,
  Exclusive, InBetween, Reconnecting
<1>. QED  BY <1>1, <1>2, <1>3

\* CancelDetector keeps the registration.
LEMMA Known_CancelDetector ==
    ASSUME IInv, RInv, CancelDetector PROVE RInv'
<1>. USE ConnsAssumption DEF RInv, CancelDetector, CancelPoints, Go, netVars, connVars,
  mutexes, bounds
<1>1. SockOpen'  BY DEF IInv, TypeOK, SockOpen, InBetween
<1>2. Clean'  BY DEF IInv, TypeOK, Clean, SockOpen, InBetween, File, NewFile
<1>3. Known'  BY DEF IInv, TypeOK, Known, Clean, SockOpen, Workers, Threads, File, NewFile,
  Exclusive, InBetween, Reconnecting
<1>. QED  BY <1>1, <1>2, <1>3

\* ServerDown keeps the registration.
LEMMA Known_ServerDown ==
    ASSUME IInv, RInv, ServerDown PROVE RInv'
<1>. USE ConnsAssumption DEF RInv, ServerDown, Lose, Go, netVars, connVars, mutexes, bounds
<1>1. SockOpen'  BY DEF IInv, TypeOK, SockOpen, InBetween
<1>2. Clean'
  <2>1. \A c \in Conns : conn[c] = NewFile => conn'[c] = conn[c]
    BY DEF NewFile
  <2>. QED  BY <2>1 DEF Clean
<1>3. Known'  BY DEF IInv, TypeOK, Known, Clean, SockOpen, Workers, Threads, File, NewFile,
  Exclusive, InBetween, Reconnecting
<1>. QED  BY <1>1, <1>2, <1>3

\* ServerUp keeps the registration.
LEMMA Known_ServerUp ==
    ASSUME IInv, RInv, ServerUp PROVE RInv'
<1>. USE ConnsAssumption DEF RInv, ServerUp, Go, netVars, connVars, mutexes, bounds
<1>1. SockOpen'  BY DEF IInv, TypeOK, SockOpen, InBetween
<1>2. Clean'  BY DEF IInv, TypeOK, Clean, SockOpen, InBetween, File, NewFile
<1>3. Known'  BY DEF IInv, TypeOK, Known, Clean, SockOpen, Workers, Threads, File, NewFile,
  Exclusive, InBetween, Reconnecting
<1>. QED  BY <1>1, <1>2, <1>3

\* Hang keeps the registration.
LEMMA Known_Hang ==
    ASSUME IInv, RInv, Hang PROVE RInv'
<1>. USE ConnsAssumption DEF RInv, Hang, Lose, Go, netVars, connVars, mutexes, bounds
<1>1. SockOpen'  BY DEF IInv, TypeOK, SockOpen, InBetween
<1>2. Clean'
  <2>1. \A c \in Conns : conn[c] = NewFile => conn'[c] = conn[c]
    BY DEF NewFile
  <2>. QED  BY <2>1 DEF Clean
<1>3. Known'  BY DEF IInv, TypeOK, Known, Clean, SockOpen, Workers, Threads, File, NewFile,
  Exclusive, InBetween, Reconnecting
<1>. QED  BY <1>1, <1>2, <1>3

\* A message from the server keeps the registration.
LEMMA Known_Send ==
    ASSUME NEW c \in Conns, NEW m \in {"beat", "data"}, IInv, RInv, Send(c, m) PROVE RInv'
<1>. USE ConnsAssumption DEF RInv, Send, Go, netVars, connVars, mutexes, bounds
<1>1. SockOpen'  BY DEF IInv, TypeOK, SockOpen, InBetween
<1>2. Clean'
  <2>1. conn[c] # NewFile  BY DEF NewFile
  <2>2. \A d \in Conns : d # c => conn'[d] = conn[d]  BY DEF IInv, TypeOK
  <2>. QED  BY <2>1, <2>2 DEF Clean
<1>3. Known'  BY DEF IInv, TypeOK, Known, Clean, SockOpen, Workers, Threads, File, NewFile,
  Exclusive, InBetween, Reconnecting
<1>. QED  BY <1>1, <1>2, <1>3

\* Every step keeps the registration: one case per action.
LEMMA NextRInv == IInv /\ RInv /\ [Next]_vars => RInv'
<1>. SUFFICES ASSUME IInv, RInv, [Next]_vars PROVE RInv'  OBVIOUS
<1>1. CASE UNCHANGED vars
  BY <1>1 DEF vars, netVars, connVars, mutexes, bounds, RInv, SockOpen, Clean, Known
<1>2. CASE ClientInit \/ ClientWriteMsg2Server \/ ClientExit
  BY <1>2, Known_ClientInit, Known_ClientWriteMsg2Server, Known_ClientExit
<1>3. ASSUME NEW t \in Workers, Reconnect(t) PROVE RInv'
  BY <1>3, Known_LockReconnection, Known_MarkDisconnected, Known_Close, Known_Socket,
     Known_Connect, Known_handleClientConnection, Known_clientRegister2Server,
     Known_UnlockReconnection DEF Reconnect, Workers, Threads
<1>4. CASE Main
  BY <1>4, Known_Socket, Known_Connect, Known_Spawn, Known_clientRegister2Server,
     Known_CancelDispatch, Known_CancelDetector, Known_MarkDisconnected, Known_Close
     DEF Main, Threads
<1>5. CASE Dispatch
  BY <1>3, <1>5, Known_EnterRead, Known_ReadHeader, Known_ReadBody, Known_ReadEnd,
     Known_GotBeat DEF Dispatch, Workers
<1>6. CASE Detector
  BY <1>3, <1>6, Known_CheckBeats, Known_Wake DEF Detector, Workers
<1>7. ASSUME NEW c \in Conns, NEW m \in {"beat", "data"}, Send(c, m) PROVE RInv'
  BY <1>7, Known_Send
<1>8. CASE ServerDown \/ ServerUp \/ Hang
  BY <1>8, Known_ServerDown, Known_ServerUp, Known_Hang
<1>. QED  BY <1>1, <1>2, <1>4, <1>5, <1>6, <1>7, <1>8 DEF Next

\* A connection that works is registered once the reconnection that made it is over: the
\* REGISTER message of clientRegister2Server goes to the socket that is current then, and
\* a worker that replaces that socket registers the new one before it gives the mutex back.
THEOREM RegisteredWhenSettled == Spec => []SettledRegistered
<1>1. ASSUME IInv, RInv PROVE SettledRegistered
  <2>1. SUFFICES ASSUME recMutex = "free", pc["main"] = "run", sock # NoConn,
                        conn[sock].peer = "up"
                 PROVE  conn[sock].reg
    BY DEF SettledRegistered
  <2>2. \A t \in Workers : pc[t] \notin {"status", "register"}
    BY <1>1, <2>1 DEF IInv, Exclusive, Reconnecting, Workers
  <2>. QED  BY <1>1, <2>1, <2>2 DEF RInv, Known
<1>. QED  BY <1>1, Invariance, InitRInv, NextRInv, PTL DEF Spec

-----------------------------------------------------------------------------
(* The mutexes: what ReconnectEnds and ExitReturns rest on besides the schedule. *)

\* pthread_cancel has ended the worker, and ClientExit is still to return, or has.
Cancelled(t) ==
    pc[t] = "off" /\ pc["main"] \in {"join_detector", "exit_disc", "exit_close", "off"}

\* Who holds reconnectionMutex reconnects; the detector takes beatMutex before it.
Holders ==
    /\ recMutex # "free" => pc[recMutex] \in Reconnecting \/ Cancelled(recMutex)
    /\ beatMutex # "free" =>
          pc[beatMutex] \in Reconnecting \cup {"lock"} \/ Cancelled(beatMutex)

\* A thread that goes to connect has a socket that was never connected, so that connect
\* succeeds as soon as the server accepts.
FreshSocket ==
    \A t \in Threads : pc[t] = "conn" => sock # NoConn /\ conn[sock].peer = "none"

\* What a thread may wait for in vain: a mutex, or a connect that cannot succeed.
Stalled(t) ==
    \/ pc[t] = "lock" /\ recMutex # "free"
    \/ pc[t] \in {"beat", "check"} /\ beatMutex # "free"
    \/ pc[t] = "conn" /\ ~(sock # NoConn /\ conn[sock].peer = "none")

\* A thread waits only for a worker that holds a mutex and can go on itself, unless
\* ClientExit cancelled that worker.
OnlyExitBlocks ==
    \A t \in Threads : Stalled(t) =>
        \/ Orphaned
        \/ \E u \in Workers : (recMutex = u \/ beatMutex = u) /\ pc[u] # "off" /\ ~Stalled(u)

\* Every step leaves the mutexes with threads that will give them back, or that are gone.
LEMMA NextHolders == IInv /\ Holders /\ [Next]_vars => Holders'
<1>. SUFFICES ASSUME IInv, Holders, [Next]_vars PROVE Holders'  OBVIOUS
<1>0. /\ pc \in [Threads -> MainPcs \cup WorkerPcs] /\ recMutex \in {"free"} \cup Workers
      /\ beatMutex \in {"free", "detector"} /\ Threads = {"main"} \cup Workers
      /\ pc["main"] \in MainPcs /\ \A t \in Workers : pc[t] \in WorkerPcs
  BY DEF IInv, TypeOK, Exclusive, Threads, Workers
<1>. USE <1>0 DEF Holders, Cancelled, Reconnecting, Go, Workers
<1>1. ASSUME ClientInit \/ ClientWriteMsg2Server \/ ClientExit \/ Spawn PROVE Holders'
  <2>1. ClientInit => Holders'  BY DEF ClientInit
  <2>2. ClientWriteMsg2Server => Holders'  BY DEF ClientWriteMsg2Server, Die
  <2>3. ClientExit => Holders'  BY DEF ClientExit, mutexes
  <2>4. CASE Spawn
    <3>1. recMutex = "free" /\ beatMutex = "free"
      BY <2>4 DEF Spawn, IInv, Exclusive
    <3>. QED  BY <2>4, <3>1 DEF Spawn, mutexes
  <2>. QED  BY <1>1, <2>1, <2>2, <2>3, <2>4
<1>2. ASSUME NEW t \in Threads, Socket(t) \/ Connect(t) PROVE Holders'
  BY <1>2 DEF Socket, Connect, mutexes, MainPcs, WorkerPcs
<1>3. ASSUME NEW t \in Threads, handleClientConnection(t) \/ clientRegister2Server(t)
      PROVE  Holders'
  BY <1>3 DEF handleClientConnection, clientRegister2Server, AfterConnected, Die, mutexes,
     MainPcs, WorkerPcs
<1>4. ASSUME NEW t \in Workers, LockReconnection(t) PROVE Holders'
  BY <1>4 DEF LockReconnection, RecMutexFree
<1>5. ASSUME NEW t \in Threads, MarkDisconnected(t) \/ Close(t) PROVE Holders'
  BY <1>5 DEF MarkDisconnected, Close, mutexes, MainPcs, WorkerPcs
<1>6. ASSUME NEW t \in Workers, UnlockReconnection(t) PROVE Holders'
  <2>1. recMutex = t  BY <1>6 DEF UnlockReconnection, IInv, Exclusive
  <2>. QED  BY <1>6, <2>1 DEF UnlockReconnection, Released
<1>7. ASSUME CancelDispatch \/ CancelDetector PROVE Holders'
  BY <1>7 DEF CancelDispatch, CancelDetector, mutexes
<1>8. ASSUME EnterRead \/ ReadHeader \/ ReadBody \/ ReadEnd \/ GotBeat PROVE Holders'
  BY <1>8 DEF EnterRead, ReadHeader, ReadBody, ReadEnd, GotBeat, LeaveRead, mutexes
<1>9. ASSUME CheckBeats \/ Wake PROVE Holders'
  BY <1>9 DEF CheckBeats, Wake, mutexes
<1>10. ASSUME \/ \E c \in Conns, m \in {"beat", "data"} : Send(c, m)
              \/ ServerDown \/ ServerUp \/ Hang
       PROVE  Holders'
  BY <1>10 DEF Send, ServerDown, ServerUp, Hang, mutexes
<1>11. CASE UNCHANGED vars  BY <1>11 DEF vars, mutexes
<1>. QED
  BY <1>1, <1>2, <1>3, <1>4, <1>5, <1>6, <1>7, <1>8, <1>9, <1>10, <1>11
  DEF Next, Main, Dispatch, Detector, Reconnect

\* Nobody connects, replaces or closes the socket that a thread is about to connect.
LEMMA NextFreshSocket == IInv /\ RInv /\ FreshSocket /\ [Next]_vars => FreshSocket'
<1>. SUFFICES ASSUME IInv, RInv, FreshSocket, [Next]_vars, NEW u \in Threads,
                     pc'[u] = "conn"
              PROVE  sock' # NoConn /\ conn'[sock'].peer = "none"
  BY DEF FreshSocket
<1>. DEFINE Same == pc[u] = "conn" /\ sock' = sock /\ conn' = conn
            Fresh == sock' # NoConn /\ conn'[sock'].peer = "none"
<1>0. /\ pc \in [Threads -> MainPcs \cup WorkerPcs] /\ conn \in [Conns -> File]
      /\ Threads = {"main"} \cup Workers /\ sock \in Conns \cup {NoConn}
      /\ dconn \in Conns \cup {NoConn} /\ NewFile.peer = "none" /\ NewFile \in File
  BY DEF IInv, TypeOK, Threads, Workers, NewFile, File
<1>1. pc[u] = "conn" => sock \in Conns /\ sock # NoConn /\ conn[sock].peer = "none"
  BY <1>0 DEF FreshSocket
<1>2. ASSUME pc[u] = "conn", sock' = sock, conn' \in [Conns -> File],
             \A c \in Conns : conn[c].peer = "none" => conn'[c].peer = "none"
      PROVE  Fresh
  BY <1>1, <1>2
<1>3. Same => Fresh  BY <1>1
<1>. USE <1>0 DEF Go
<1>4. ASSUME ClientInit PROVE Fresh
  BY <1>4 DEF ClientInit, IInv, Exclusive
<1>5. ASSUME ClientExit \/ Spawn PROVE Same
  BY <1>5 DEF ClientExit, Spawn, AfterConnected, netVars, connVars
<1>6. ~Die  BY DEF Die
<1>7. ASSUME NEW t \in Threads, Socket(t) PROVE Fresh
  <2>1. pc[u] # "conn" \/ u = t  BY <1>7, OneAtATime DEF Socket, Changing, IInv
  <2>2. u = t  BY <1>7, <2>1 DEF Socket
  <2>3. PICK c \in Conns \ (open \cup {dconn}) : sock' = c  BY <1>7 DEF Socket
  <2>4. conn' = conn /\ conn[c] = NewFile  BY <1>7, <2>3 DEF Socket, netVars, RInv, Clean
  <2>. QED  BY <2>3, <2>4, ConnsAssumption
<1>8. ASSUME NEW t \in Threads, Connect(t) \/ Close(t) PROVE Fresh
  <2>1. pc[t] \in Changing /\ pc'[t] # "conn"
    BY <1>8 DEF Connect, Close, Changing
  <2>2. u # t /\ pc[u] = "conn"  BY <1>8, <2>1 DEF Connect, Close
  <2>. QED  BY <2>1, <2>2, OneAtATime DEF Changing, IInv
<1>9. ASSUME NEW t \in Threads, clientRegister2Server(t) PROVE Fresh
  <2>1. sock \in Conns /\ conn' = [conn EXCEPT ![sock].reg = @ \/ conn[sock].peer = "up"]
        /\ pc[u] = "conn" /\ sock' = sock
    BY <1>6, <1>9 DEF clientRegister2Server, connVars
  <2>2. conn'[sock].peer = conn[sock].peer  BY <2>1 DEF File
  <2>. QED  BY <1>1, <2>1, <2>2
<1>10. ASSUME NEW t \in Threads, \/ handleClientConnection(t) \/ LockReconnection(t)
                                 \/ MarkDisconnected(t) \/ UnlockReconnection(t)
       PROVE  Same
  BY <1>10 DEF handleClientConnection, AfterConnected, LockReconnection, MarkDisconnected,
     UnlockReconnection, netVars, connVars
<1>11. ASSUME CancelDetector \/ EnterRead \/ GotBeat \/ CheckBeats \/ Wake PROVE Same
  BY <1>11 DEF CancelDetector, EnterRead, GotBeat, CheckBeats, Wake, netVars, connVars
<1>12. ASSUME NEW f \in File, NEW to, LeaveRead(f, to), to # "conn", dconn \in Conns,
              f.peer = conn[dconn].peer
       PROVE  Fresh
  BY <1>2, <1>12 DEF LeaveRead, connVars
<1>13. ASSUME ReadHeader \/ ReadBody \/ ReadEnd PROVE Fresh
  <2>1. dconn \in Conns /\ conn[dconn] \in File
    BY <1>13 DEF ReadHeader, ReadBody, ReadEnd, Reading
  <2>2. \A in \in {"none", "rest"} :
           LET f == [conn[dconn] EXCEPT !.inbox = in]
           IN  f \in File /\ f.peer = conn[dconn].peer
    BY <2>1 DEF File
  <2>4. CASE ReadHeader
    <3>1. PICK in \in {"none", "rest"}, to \in {"body", "beat", "read"} :
             LeaveRead([conn[dconn] EXCEPT !.inbox = in], to)
      BY <2>4 DEF ReadHeader
    <3>. QED  BY <1>12, <2>1, <2>2, <3>1
  <2>5. CASE ReadBody
    <3>. DEFINE f == [conn[dconn] EXCEPT !.inbox = "none",
                                         !.skew = @ \/ conn[dconn].inbox # "rest"]
    <3>1. f \in File /\ f.peer = conn[dconn].peer  BY <2>1 DEF File
    <3>2. LeaveRead(f, "read")  BY <2>5 DEF ReadBody
    <3>. HIDE DEF f
    <3>. QED  BY <1>12, <2>1, <3>1, <3>2
  <2>6. CASE ReadEnd  BY <1>12, <2>1, <2>6 DEF ReadEnd
  <2>. QED  BY <1>13, <2>4, <2>5, <2>6
<1>14. ASSUME CancelDispatch PROVE Fresh
  BY <1>2, <1>14 DEF CancelDispatch, connVars
<1>15. ASSUME NEW c \in Conns, NEW m \in {"beat", "data"}, Send(c, m) PROVE Fresh
  BY <1>2, <1>15 DEF Send, connVars, File
<1>16. ASSUME NEW how \in {"closed", "hung"}, Lose(how), pc' = pc, sock' = sock PROVE Fresh
  BY <1>1, <1>16 DEF Lose
<1>17. ASSUME ServerDown \/ ServerUp \/ Hang PROVE Fresh
  BY <1>3, <1>16, <1>17 DEF ServerDown, ServerUp, Hang, connVars
<1>18. ASSUME UNCHANGED vars PROVE Fresh  BY <1>3, <1>18 DEF vars, netVars, connVars
<1>. HIDE DEF Same, Fresh
<1>19. {"main", "dispatch", "detector"} \subseteq Threads  BY DEF Threads
<1>20. ASSUME Main PROVE Fresh
  BY <1>3, <1>5, <1>7, <1>8, <1>9, <1>10, <1>11, <1>14, <1>19, <1>20 DEF Main
<1>21. ASSUME Dispatch PROVE Fresh
  BY <1>3, <1>7, <1>8, <1>9, <1>10, <1>11, <1>13, <1>19, <1>21 DEF Dispatch, Reconnect
<1>22. ASSUME Detector PROVE Fresh
  BY <1>3, <1>7, <1>8, <1>9, <1>10, <1>11, <1>19, <1>22 DEF Detector, Reconnect
<1>23. Fresh
  BY <1>3, <1>4, <1>5, <1>6, <1>15, <1>17, <1>18, <1>20, <1>21, <1>22
  DEF Next, ClientWriteMsg2Server
<1>. QED  BY <1>23 DEF Fresh

\* The client's two mutexes and its connect() never block it for good, whoever reconnects
\* and wherever the server fails: only ClientExit can leave a mutex with a thread that is
\* gone.
THEOREM OnlyExitBlocksClient == Spec => []OnlyExitBlocks
<1>1. ASSUME IInv, Holders, FreshSocket PROVE OnlyExitBlocks
  <2>. SUFFICES ASSUME NEW t \in Threads, Stalled(t), ~Orphaned
                PROVE  \E u \in Workers :
                          (recMutex = u \/ beatMutex = u) /\ pc[u] # "off" /\ ~Stalled(u)
    BY DEF OnlyExitBlocks
  <2>0. /\ Threads = {"main"} \cup Workers /\ recMutex \in {"free"} \cup Workers
        /\ beatMutex \in {"free", "detector"} /\ Workers = {"dispatch", "detector"}
        /\ pc["main"] \in MainPcs
    BY <1>1 DEF IInv, TypeOK, Exclusive, Threads, Workers
  <2>1. t \in Workers /\ pc[t] # "off" /\ pc[t] \in {"lock", "beat", "check"}
    BY <1>1, <2>0 DEF Stalled, MainPcs, FreshSocket
  <2>2. pc["dispatch"] = "off" \/ ~Cancelled("detector")
    BY <1>1, <2>0 DEF Cancelled, IInv, Exclusive
  <2>3. ASSUME NEW u \in Workers, pc[u] \in Reconnecting
        PROVE  pc[u] # "off" /\ ~Stalled(u)
    BY <1>1, <2>0, <2>3 DEF Reconnecting, Stalled, FreshSocket
  <2>4. pc["detector"] \notin {"beat", "check"} \/ beatMutex = "free"
    BY <1>1, <2>0 DEF Holders, Cancelled, Reconnecting
  <2>5. CASE recMutex # "free"
    <3>1. recMutex \in Workers /\ (pc[recMutex] \in Reconnecting \/ Cancelled(recMutex))
      BY <1>1, <2>0, <2>5 DEF Holders
    <3>2. CASE pc[recMutex] \in Reconnecting  BY <2>3, <3>1, <3>2
    <3>3. CASE Cancelled(recMutex)
      BY <2>0, <2>1, <2>2, <2>4, <3>1, <3>3 DEF Cancelled, Orphaned, Stalled
    <3>. QED  BY <3>1, <3>2, <3>3
  <2>6. CASE recMutex = "free"
    <3>1. pc[t] \in {"beat", "check"} /\ beatMutex = "detector"
      BY <2>0, <2>1, <2>6 DEF Stalled
    <3>2. CASE pc["detector"] \in Reconnecting  BY <2>0, <2>3, <3>1, <3>2
    <3>3. CASE pc["detector"] = "lock"  BY <2>0, <2>6, <3>1, <3>3 DEF Stalled
    <3>4. ~Cancelled("detector")  BY <2>0, <2>1, <2>2 DEF Cancelled
    <3>. QED  BY <1>1, <3>1, <3>2, <3>3, <3>4 DEF Holders
  <2>. QED  BY <2>5, <2>6
<1>2. Init => Holders /\ FreshSocket  BY DEF Init, Holders, FreshSocket, Threads
<1>. QED
  BY <1>1, <1>2, NextHolders, NextFreshSocket, Invariance, InitRInv, NextRInv, PTL DEF Spec

=============================================================================
