------------------------------ MODULE SocketIpc ------------------------------
(***************************************************************************)
(* The first socket IPC library (aml_socketipc.c).  A process opens        *)
(* channels ("handles"); one service thread answers what arrives on any of *)
(* them, with serv_mutex held.  The first ipc_open starts the thread and   *)
(* the last ipc_close is to end it.  A caller in another process sends a   *)
(* datagram and waits for an answer on the socket of its peer object.      *)
(*                                                                         *)
(* Requests and answers are the numbers of the calls.  Each peer object is *)
(* used by one thread, as the buffer in it asks for.                       *)
(***************************************************************************)
EXTENDS Integers, Sequences, FiniteSets

CONSTANTS Handles,    \* channels a process can open
          Apps,       \* its threads that open and close them
          Workers,    \* service threads; NoWorker before the first
          NoWorker,
          Peers,      \* callers
          Target,     \* the channel each of them calls
          NoHandle,   \* no channel
          MaxCalls    \* bound: calls of each peer

ASSUME IpcNamesAssumption ==
    /\ NoHandle \notin Handles /\ NoWorker \notin Workers
    /\ "free" \notin Apps \cup Workers /\ Apps \cap Workers = {}
    /\ Target \in [Peers -> Handles]
ASSUME IpcBoundsAssumption == MaxCalls \in Nat

VARIABLES
    serv_list,       \* the handles in the order of the list
    serv_mutex,      \* its holder, or "free"
    serv_status,     \* the service thread is to go on
    serv_pthread_id, \* the service thread ipc_init has created last
    worker,          \* where each service thread is
    ready,           \* the handles select() has found readable
    app,             \* what each thread is doing, and on which handle
    handle,
    sock,            \* each handle: "none", "bound" or "freed"
    requests,        \* datagrams at each handle
    answers,         \* datagrams at each peer
    calling,         \* each peer waits for its answer
    current,         \* its number of calls so far
    late,            \* history: how many of them have timed out
    failed,          \* history: a channel could not be opened
    misused          \* history: a freed handle was followed, or one that never was

threadVars == <<serv_status, serv_pthread_id, worker, ready>>
appVars    == <<app, handle>>
peerVars   == <<answers, calling, current, late>>
ipcVars == <<serv_list, serv_mutex, threadVars, appVars, sock, requests, peerVars, failed,
             misused>>

-----------------------------------------------------------------------------
InList(h) == \E n \in 1 .. Len(serv_list) : serv_list[n] = h
Freed(h) == sock[h] = "freed"

IpcTypeOK ==
    /\ serv_list \in Seq(Handles)
    /\ serv_mutex \in {"free"} \cup Apps \cup Workers
    /\ serv_status \in BOOLEAN /\ serv_pthread_id \in Workers \cup {NoWorker}
    /\ worker \in [Workers -> {"none", "check", "lock", "select", "handle", "gone"}]
    /\ ready \subseteq Handles
    /\ app \in [Apps -> {"idle", "open", "close", "join", "release"}]
    /\ handle \in [Apps -> Handles \cup {NoHandle}]
    /\ sock \in [Handles -> {"none", "bound", "freed"}]
    /\ requests \in [Handles -> Seq(Peers \X Nat)]
    /\ answers \in [Peers -> Seq(Nat)] /\ calling \in [Peers -> BOOLEAN]
    /\ current \in [Peers -> Nat] /\ late \in [Peers -> Nat]
    /\ failed \in BOOLEAN /\ misused \in BOOLEAN

IpcInit ==
    /\ serv_list = <<>> /\ serv_mutex = "free"
    /\ serv_status = FALSE /\ serv_pthread_id = NoWorker
    /\ worker = [w \in Workers |-> "none"] /\ ready = {}
    /\ app = [a \in Apps |-> "idle"] /\ handle = [a \in Apps |-> NoHandle]
    /\ sock = [h \in Handles |-> "none"] /\ requests = [h \in Handles |-> <<>>]
    /\ answers = [p \in Peers |-> <<>>] /\ calling = [p \in Peers |-> FALSE]
    /\ current = [p \in Peers |-> 0] /\ late = [p \in Peers |-> 0]
    /\ failed = FALSE /\ misused = FALSE

Step(a, to) == app' = [app EXCEPT ![a] = to]

\* From then on the process may do anything: it is not followed any further.
Defined == ~misused

-----------------------------------------------------------------------------
(* ipc_open and ipc_close.                                                 *)

\* ipc_create_channel and ipc_open_peer; NoHandle if the address cannot be bound.
OpenChannel(a, h) ==
    /\ Defined /\ app[a] = "idle" /\ Step(a, "open")
    /\ handle' = [handle EXCEPT ![a] = h]
    /\ \/ /\ h \in Handles /\ sock[h] = "none"
          /\ sock' = [sock EXCEPT ![h] = "bound"] /\ failed' = failed
       \/ /\ h = NoHandle /\ ~failed /\ failed' = TRUE /\ sock' = sock
    /\ UNCHANGED <<serv_list, serv_mutex, threadVars, requests, peerVars, misused>>

\* ipc_init, if the list is empty.  (The bound: there is a thread left to start.)
StartUnless(busy) ==
    IF busy THEN UNCHANGED threadVars
    ELSE /\ \E w \in Workers :
               /\ worker[w] \in {"none", "gone"}
               /\ serv_pthread_id' = w /\ worker' = [worker EXCEPT ![w] = "check"]
         /\ serv_status' = TRUE /\ ready' = ready

AfterLinking(h) == TRUE                                  \* mutant
HasThread(h) == serv_list # <<>>

\* The part of ipc_open under serv_mutex.
OpenLink(a) ==
    LET h == handle[a] IN
    /\ Defined /\ app[a] = "open" /\ serv_mutex = "free"
    /\ StartUnless(HasThread(h))
    /\ serv_list' = IF h = NoHandle THEN serv_list ELSE <<h>> \o serv_list
    /\ Step(a, "idle") /\ handle' = [handle EXCEPT ![a] = NoHandle]
    /\ UNCHANGED <<serv_mutex, sock, requests, peerVars, failed, misused>>

\* A handle that is in the list and that no thread is closing.
CloseBegin(a, h) ==
    /\ Defined /\ app[a] = "idle" /\ sock[h] = "bound"
    /\ \A b \in Apps : handle[b] # h
    /\ Step(a, "close") /\ handle' = [handle EXCEPT ![a] = h]
    /\ UNCHANGED <<serv_list, serv_mutex, threadVars, sock, requests, peerVars, failed,
                   misused>>

\* The search of ipc_close leaves the list as it is, except for its first handle if
\* tmp_prev, which is not initialised, happens to be NULL: elsewhere it assigns to
\* tmp_prev what should go to tmp_prev->next_serv.
Unlinked(h) == {serv_list} \cup (IF serv_list[1] = h THEN {Tail(serv_list)} ELSE {})

\* What it comes past on its way may be freed already.
Searched(h) ==
    {serv_list[i] : i \in {j \in 1 .. Len(serv_list) : \A k \in 1 .. j : serv_list[k] # h}}

\* Then ipc_exit, if nothing is left: the join keeps the mutex.
CloseUnlink(a) ==
    /\ Defined /\ app[a] = "close" /\ serv_mutex = "free"
    /\ serv_list' \in Unlinked(handle[a])
    /\ IF serv_list' = <<>>
       THEN serv_mutex' = a /\ serv_status' = FALSE /\ Step(a, "join")
       ELSE serv_mutex' = "free" /\ serv_status' = serv_status /\ Step(a, "release")
    /\ misused' = \E h \in Searched(handle[a]) : Freed(h)
    /\ UNCHANGED <<serv_pthread_id, worker, ready, handle, sock, requests, peerVars, failed>>

\* pthread_join has returned; a locked mutex is not destroyed (EBUSY), and unlocked then.
CloseJoined(a) ==
    /\ Defined /\ app[a] = "join" /\ worker[serv_pthread_id] = "gone"
    /\ serv_mutex' = "free" /\ Step(a, "release")
    /\ UNCHANGED <<serv_list, threadVars, handle, sock, requests, peerVars, failed, misused>>

\* ipc_close_channel, without the mutex.
CloseRelease(a) ==
    /\ Defined /\ app[a] = "release" /\ Step(a, "idle")
    /\ sock' = [sock EXCEPT ![handle[a]] = "freed"]
    /\ requests' = [requests EXCEPT ![handle[a]] = <<>>]
    /\ handle' = [handle EXCEPT ![a] = NoHandle]
    /\ UNCHANGED <<serv_list, serv_mutex, threadVars, peerVars, failed, misused>>

\* ipc_close of the peer that ipc_open returns when it could not open the channel: no
\* handle is found, and ipc_close_channel follows the one that is missing.
CloseFailed(a) ==
    /\ Defined /\ app[a] = "idle" /\ serv_mutex = "free"
    /\ failed /\ \A b \in Apps : app[b] = "open" => handle[b] # NoHandle
    /\ misused' = TRUE
    /\ UNCHANGED <<serv_list, serv_mutex, threadVars, appVars, sock, requests, peerVars,
                   failed>>

-----------------------------------------------------------------------------
(* serv_pthread_func.                                                      *)

WorkerCheck(w) ==
    /\ Defined /\ worker[w] = "check"
    /\ worker' = [worker EXCEPT ![w] = IF serv_status THEN "lock" ELSE "gone"]
    /\ UNCHANGED <<serv_list, serv_mutex, serv_status, serv_pthread_id, ready, appVars, sock,
                   requests, peerVars, failed, misused>>

\* The list is walked for FD_SET, and again after select().
WorkerLock(w) ==
    /\ Defined /\ worker[w] = "lock" /\ serv_mutex = "free"
    /\ serv_mutex' = w /\ worker' = [worker EXCEPT ![w] = "select"]
    /\ misused' = \E h \in Handles : InList(h) /\ Freed(h)
    /\ UNCHANGED <<serv_list, serv_status, serv_pthread_id, ready, appVars, sock, requests,
                   peerVars, failed>>

WorkerSelect(w) ==
    /\ Defined /\ worker[w] = "select" /\ worker' = [worker EXCEPT ![w] = "handle"]
    /\ ready' = {h \in Handles : InList(h) /\ requests[h] # <<>>}
    /\ misused' = \E h \in Handles : InList(h) /\ Freed(h)
    /\ UNCHANGED <<serv_list, serv_mutex, serv_status, serv_pthread_id, appVars, sock,
                   requests, peerVars, failed>>

Peeked(h) == requests[h]                                 \* mutant
Received(h) == Tail(requests[h])

\* ipc_socket_handle: the handler answers where the request came from, or does not.
WorkerHandle(w, h) ==
    /\ Defined /\ worker[w] = "handle" /\ h \in ready /\ ~Freed(h)
    /\ ready' = ready \ {h}
    /\ requests' = [requests EXCEPT ![h] = Received(h)]
    /\ LET p == Head(requests[h])[1] IN
       answers' \in {answers, [answers EXCEPT ![p] = Append(@, Head(requests[h])[2])]}
    /\ UNCHANGED <<serv_list, serv_mutex, serv_status, serv_pthread_id, worker, appVars, sock,
                   calling, current, late, failed, misused>>

\* The handle was freed since select() returned.
WorkerMisuse(w, h) ==
    /\ Defined /\ worker[w] = "handle" /\ InList(h) /\ Freed(h)
    /\ misused' = TRUE
    /\ UNCHANGED <<serv_list, serv_mutex, threadVars, appVars, sock, requests, peerVars,
                   failed>>

WorkerUnlock(w) ==
    /\ Defined /\ worker[w] = "handle" /\ ready = {}
    /\ serv_mutex' = "free" /\ worker' = [worker EXCEPT ![w] = "check"]
    /\ UNCHANGED <<serv_list, serv_status, serv_pthread_id, ready, appVars, sock, requests,
                   peerVars, failed, misused>>

-----------------------------------------------------------------------------
(* ipc_call_va.                                                            *)

\* sendto fails, and with it the call, if the address is not bound.
PeerCall(p) ==
    LET h == Target[p] IN
    /\ ~calling[p] /\ current[p] < MaxCalls /\ sock[h] = "bound"
    /\ current' = [current EXCEPT ![p] = @ + 1] /\ calling' = [calling EXCEPT ![p] = TRUE]
    /\ requests' = [requests EXCEPT ![h] = Append(@, <<p, current[p] + 1>>)]
    /\ UNCHANGED <<serv_list, serv_mutex, threadVars, appVars, sock, answers, late, failed,
                   misused>>

\* The first datagram that is there is taken for the answer.
PeerTake(p) ==
    /\ calling[p] /\ answers[p] # <<>>
    /\ calling' = [calling EXCEPT ![p] = FALSE]
    /\ answers' = [answers EXCEPT ![p] = Tail(@)]
    /\ UNCHANGED <<serv_list, serv_mutex, threadVars, appVars, sock, requests, current, late,
                   failed, misused>>

PeerTimeout(p) ==
    /\ calling[p] /\ answers[p] = <<>>
    /\ calling' = [calling EXCEPT ![p] = FALSE] /\ late' = [late EXCEPT ![p] = @ + 1]
    /\ UNCHANGED <<serv_list, serv_mutex, threadVars, appVars, sock, requests, answers,
                   current, failed, misused>>

-----------------------------------------------------------------------------
IpcNext ==
    \/ \E a \in Apps :
          \/ \E h \in Handles \cup {NoHandle} : OpenChannel(a, h)
          \/ OpenLink(a)
          \/ \E h \in Handles : CloseBegin(a, h)
          \/ CloseUnlink(a) \/ CloseJoined(a) \/ CloseRelease(a) \/ CloseFailed(a)
    \/ \E w \in Workers :
          \/ WorkerCheck(w) \/ WorkerLock(w) \/ WorkerSelect(w) \/ WorkerUnlock(w)
          \/ \E h \in Handles : WorkerHandle(w, h) \/ WorkerMisuse(w, h)
    \/ \E p \in Peers : PeerCall(p) \/ PeerTake(p) \/ PeerTimeout(p)

IpcSpec == IpcInit /\ [][IpcNext]_ipcVars

-----------------------------------------------------------------------------
(* What must hold.                                                         *)

\* As long as a handle is listed, a service thread reads from it, and one only, unless
\* ipc_open has started one for a channel it could not open.
Live(w) == worker[w] \in {"check", "lock", "select", "handle"}

ServedWhileListed ==
    /\ serv_list # <<>> => serv_status /\ serv_pthread_id \in Workers /\ Live(serv_pthread_id)
    /\ ~failed => Cardinality({w \in Workers : Live(w)}) <= 1

\* What is taken for the answer to a call is no older than by one call for each one
\* that has timed out, on a socket that is never flushed.
OwnAnswer ==
    [][\A p \in Peers :
         PeerTake(p) => current[p] - late[p] <= Head(answers[p])
                        /\ Head(answers[p]) <= current[p]]_ipcVars
=============================================================================
