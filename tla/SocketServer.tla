---------------------------- MODULE SocketServer ----------------------------
(***************************************************************************)
(* The server of the socket IPC library                                    *)
(* (aml_socketipc_v2/common/socket_server.c and util_list.c).              *)
(*                                                                         *)
(* Four threads share two lists.  The application ("app") and              *)
(* heartBeatSenderWorker ("beat") append messages to serverMsgsList;       *)
(* messageSenderWorker ("sender") takes them off and walks clientFdList;   *)
(* epollEventHandlerWorker ("epoll") accepts clients, lists them when      *)
(* they register and deletes them when they hang up.  serverMsgsMutex      *)
(* covers the append and the look at the first message, not the removal of *)
(* it, and nothing covers clientFdList.                                    *)
(*                                                                         *)
(* A message is its number, which is the node of serverMsgsList that holds *)
(* it; NULL is 0.  A client is its connection, and a node of clientFdList  *)
(* is the connection with the number of its REGISTER: a client that sends  *)
(* two is listed twice.                                                    *)
(***************************************************************************)
EXTENDS Integers, Sequences, FiniteSets

CONSTANTS Conns,      \* connections of clients
          NoConn,     \* the end of clientFdList; the file of a closed descriptor
          Fds,        \* descriptor numbers accept can return
          NoFd,       \* not accepted yet
          Types,      \* serverMsgType of business messages
          HEARTBEAT,  \* the other kind of message
          Wants,      \* registerBitmap of each client, in each of its REGISTERs
          MaxMsgs,    \* bound: messages enqueued
          MaxRegs,    \* bound: REGISTERs each client sends
          MaxInits    \* bound: calls of ServerInit

ASSUME NamesAssumption == NoConn \notin Conns /\ HEARTBEAT \notin Types
ASSUME FdsAssumption == Fds \subseteq Nat /\ NoFd \notin Fds
ASSUME WantsAssumption == Wants \in [Conns -> SUBSET Types]
ASSUME RegsAssumption == MaxRegs \in [Conns -> Nat]
ASSUME BoundsAssumption == MaxMsgs \in Nat /\ MaxInits \in Nat

VARIABLES
    pc,            \* where each thread is; "dead" after a crash
    mutex,         \* holder of serverMsgsMutex, or "free"
    head, tail,    \* serverMsgsList
    next,          \* Node.next of each message
    kind,          \* serverMsgType of each message
    count,         \* messages allocated so far
    freed,         \* nodes of serverMsgsList that were freed
    ptail,         \* the tail push_back() has read
    msg,           \* pMsg of the sender
    after,         \* list->head->next as pop_front() has read it
    clientFdList,  \* its nodes, in the order of registration
    it, wfd,       \* the node the sender has reached, and the fd it read there
    peer,          \* the client's end of each connection
    regs,          \* how many REGISTERs were read from each client
    fdOf,          \* the descriptor each connection was accepted as
    file,          \* what each descriptor is open on
    watched,       \* descriptors in the epoll set
    hungup,        \* the descriptor the epoll thread is about to close
    offered,       \* history: the last message writen() was given for each connection,
    turn,          \* and for which of its registrations
    audience,      \* history: clients listed when the walk began
    overlap,       \* history: pop_front() met push_back() at the last node
    ub,            \* history: a node was used after free()
    recycled,      \* history: wfd was closed since the sender has read it
    inits          \* counter for the bound

queueVars  == <<mutex, head, tail, next, kind, count, freed, ptail>>
senderVars == <<msg, after, it, wfd, audience>>
netVars    == <<peer, regs, fdOf, file, watched, hungup, clientFdList>>
history    == <<offered, turn, overlap, ub, recycled>>
vars == <<pc, queueVars, senderVars, netVars, history, inits>>

-----------------------------------------------------------------------------
NULL == 0
Threads == {"app", "beat", "sender", "epoll"}
Pushers == {"app", "beat"}
PushPcs == {"head", "first", "tail", "link", "set"}   \* inside push_back()
PopPcs == {"pop_read", "pop_head", "pop_tail"}
SenderPcs == PopPcs \cup {"lock", "asleep", "visit", "write", "step"}
Pcs == PushPcs \cup SenderPcs \cup {"off", "dead", "idle", "close"}

Registrations == Conns \X (Nat \ {0})
End == <<NoConn, 0>>                                  \* behind the last node
OnList == {clientFdList[i] : i \in 1 .. Len(clientFdList)}
Listed == {r[1] : r \in OnList}
Messages == 1 .. count
Nodes == 0 .. MaxMsgs

TypeOK ==
    /\ pc \in [Threads -> Pcs]
    /\ mutex \in {"free"} \cup Pushers
    /\ head \in Nodes /\ tail \in Nodes /\ ptail \in Nodes
    /\ msg \in Nodes /\ after \in Nodes /\ count \in Nodes
    /\ next \in [1 .. MaxMsgs -> Nodes] /\ freed \subseteq 1 .. MaxMsgs
    /\ kind \in [1 .. MaxMsgs -> Types \cup {HEARTBEAT}]
    /\ clientFdList \in Seq(Registrations)
    /\ it \in Registrations \cup {End}
    /\ wfd \in Fds \cup {NoFd} /\ (pc["sender"] = "write" => wfd \in Fds)
    /\ peer \in [Conns -> {"away", "open", "closed", "reset", "broken", "gone"}]
    /\ regs \in [Conns -> Nat]
    /\ fdOf \in [Conns -> Fds \cup {NoFd}]
    /\ file \in [Fds -> Conns \cup {NoConn}]
    /\ watched \subseteq Fds /\ hungup \in Fds \cup {NoFd}
    /\ offered \in [Conns -> Nodes] /\ turn \in [Conns -> Nat] /\ audience \subseteq Conns
    /\ overlap \in BOOLEAN /\ ub \in BOOLEAN /\ recycled \in BOOLEAN
    /\ inits \in Nat

Init ==
    /\ pc = [t \in Threads |-> "off"]
    /\ mutex = "free"
    /\ head = NULL /\ tail = NULL /\ ptail = NULL
    /\ next = [n \in 1 .. MaxMsgs |-> NULL]
    /\ kind = [n \in 1 .. MaxMsgs |-> HEARTBEAT]
    /\ count = 0 /\ freed = {}
    /\ msg = NULL /\ after = NULL
    /\ clientFdList = <<>> /\ it = End /\ wfd = NoFd
    /\ peer = [c \in Conns |-> "away"] /\ regs = [c \in Conns |-> 0]
    /\ fdOf = [c \in Conns |-> NoFd] /\ file = [f \in Fds |-> NoConn]
    /\ watched = {} /\ hungup = NoFd
    /\ offered = [c \in Conns |-> NULL] /\ turn = [c \in Conns |-> 0] /\ audience = {}
    /\ overlap = FALSE /\ ub = FALSE /\ recycled = FALSE
    /\ inits = 0

Go(t, to) == pc' = [pc EXCEPT ![t] = to]

\* Every thread ends with the process.
Die == pc' = [t \in Threads |-> "dead"]

-----------------------------------------------------------------------------
(* ServerInit and ServerExit, both called by the application.              *)

\* initServerData creates both lists, the mutex and the condition anew; the
\* first step of the epoll thread creates its epoll set.
ServerInit ==
    /\ pc["app"] = "off" /\ inits < MaxInits
    /\ inits' = inits + 1
    /\ pc' = [t \in Threads |-> IF t = "sender" THEN "lock" ELSE "idle"]
    /\ mutex' = "free"
    /\ head' = NULL /\ tail' = NULL
    /\ clientFdList' = <<>> /\ watched' = {}
    /\ UNCHANGED <<next, kind, count, freed, ptail, senderVars, peer, regs, fdOf, file,
                   hungup, history>>

\* Where pthread_cancel ends a thread: where it waits, sleeps, reads or writes.
CancelPoint(t) ==
    CASE t = "epoll"  -> {"idle", "close"}
      [] t = "sender" -> {"asleep", "write"}
      [] OTHER        -> {"idle"}

\* The threads are cancelled and joined one after the other: each stays for good at
\* one of these points, so that they end together loses nothing.  Then both
\* lists are freed and the listening socket is closed; the connections stay open, and
\* so does the epoll set.  A sender cancelled in pthread_cond_wait has locked the mutex,
\* which no thread takes again.
ServerExit ==
    /\ \A t \in Threads : pc[t] \in CancelPoint(t)
    /\ pc' = [t \in Threads |-> "off"]
    /\ clientFdList' = <<>> /\ head' = NULL /\ tail' = NULL /\ freed' = Messages
    /\ it' = End /\ wfd' = NoFd /\ msg' = NULL /\ audience' = {} /\ hungup' = NoFd
    /\ UNCHANGED <<mutex, next, kind, count, ptail, after, peer, regs, fdOf, file, watched,
                   history, inits>>

-----------------------------------------------------------------------------
(* EnqueueServerMsg: push_back() step by step, under the mutex.            *)

KindsOf(t) == IF t = "app" THEN Types ELSE {HEARTBEAT}

\* Without a client the message is dropped.  (The bound: who goes for the mutex
\* has a message left to append.)
EnqueueServerMsg(t) ==
    /\ pc[t] = "idle" /\ clientFdList # <<>>
    /\ count + Cardinality({u \in Pushers : pc[u] = "lock"}) < MaxMsgs
    /\ Go(t, "lock")
    /\ UNCHANGED <<queueVars, senderVars, netVars, history, inits>>

\* At the last node, push_back() and pop_front() change the same fields.
AtLastNode == pc["sender"] \in PopPcs /\ next[msg] = NULL

PushLock(t) ==
    /\ pc[t] = "lock" /\ mutex = "free" /\ count < MaxMsgs
    /\ mutex' = t
    /\ count' = count + 1
    /\ \E k \in KindsOf(t) : kind' = [kind EXCEPT ![count + 1] = k]
    /\ next' = [next EXCEPT ![count + 1] = NULL]
    /\ overlap' = (overlap \/ AtLastNode)
    /\ Go(t, "head")
    /\ UNCHANGED <<head, tail, freed, ptail, senderVars, netVars,
                   offered, turn, ub, recycled, inits>>

PushHead(t) ==
    /\ pc[t] = "head"
    /\ Go(t, IF head = NULL THEN "first" ELSE "tail")
    /\ UNCHANGED <<queueVars, senderVars, netVars, history, inits>>

PushFirst(t) ==
    /\ pc[t] = "first"
    /\ head' = count
    /\ Go(t, "set")
    /\ UNCHANGED <<mutex, tail, next, kind, count, freed, ptail, senderVars,
                   netVars, history, inits>>

\* pop_front() may have set tail to NULL since head was read: list->tail->next
\* then faults.
PushTail(t) ==
    /\ pc[t] = "tail"
    /\ ptail' = tail
    /\ IF tail = NULL THEN Die ELSE Go(t, "link")
    /\ UNCHANGED <<mutex, head, tail, next, kind, count, freed, senderVars,
                   netVars, history, inits>>

PushLink(t) ==
    /\ pc[t] = "link"
    /\ next' = [next EXCEPT ![ptail] = count]
    /\ ub' = (ub \/ ptail \in freed)
    /\ \/ Go(t, "set")
       \/ ptail \in freed /\ Die
    /\ ptail' = NULL
    /\ UNCHANGED <<mutex, head, tail, kind, count, freed, senderVars, netVars,
                   offered, turn, overlap, recycled, inits>>

\* The sender, signalled in pthread_cond_wait, waits for the mutex again.
NoSignal == pc                                           \* mutant
Signal == IF pc["sender"] = "asleep" THEN [pc EXCEPT !["sender"] = "lock"] ELSE pc

\* The last assignment of push_back(), pthread_cond_signal and the unlock.
PushSet(t) ==
    /\ pc[t] = "set"
    /\ tail' = count
    /\ mutex' = "free"
    /\ pc' = [Signal EXCEPT ![t] = "idle"]
    /\ UNCHANGED <<head, next, kind, count, freed, ptail, senderVars, netVars, history,
                   inits>>

-----------------------------------------------------------------------------
(* messageSenderWorker.                                                    *)

\* pthread_cond_wait, which lets the mutex go.
SenderWait ==
    /\ pc["sender"] = "lock" /\ mutex = "free" /\ head = NULL
    /\ Go("sender", "asleep")
    /\ UNCHANGED <<queueVars, senderVars, netVars, history, inits>>

\* The node i places after node r.
Node(r, i) ==
    LET j == i + CHOOSE k \in 1 .. Len(clientFdList) : clientFdList[k] = r
    IN  IF j > Len(clientFdList) THEN End ELSE clientFdList[j]
NextButOne(r) == Node(r, 2)                              \* mutant
Following(r) == Node(r, 1)

Arrive(r) ==
    /\ it' = r
    /\ Go("sender", IF r = End THEN "pop_read" ELSE "visit")

\* front(), between the lock and the unlock; what is appended or who registers
\* before the walk reads the head of clientFdList might as well come before.
SenderFront ==
    /\ pc["sender"] = "lock" /\ mutex = "free" /\ head # NULL
    /\ msg' = head
    /\ Arrive(IF clientFdList = <<>> THEN End ELSE clientFdList[1])
    /\ audience' = IF ub THEN {} ELSE Listed
    /\ UNCHANGED <<queueVars, after, wfd, netVars, history, inits>>

\* The bitmap is tested for business messages only.
AnyClient(c, k) == TRUE                                  \* mutant
Addressee(c, k) == k = HEARTBEAT \/ k \in Wants[c]

\* The epoll thread may have freed the node: what is read there is anything, and
\* nothing is recorded from then on.
Corrupt ==
    /\ ub' = TRUE /\ audience' = {}
    /\ offered' = [c \in Conns |-> NULL] /\ turn' = [c \in Conns |-> 0]
Sound == UNCHANGED <<ub, audience, offered, turn>>

WalkVisit ==
    /\ pc["sender"] = "visit"
    /\ \/ /\ it \in OnList /\ Addressee(it[1], kind[msg])
          /\ wfd' = fdOf[it[1]] /\ Go("sender", "write") /\ Sound
       \/ /\ it \in OnList /\ ~Addressee(it[1], kind[msg])
          /\ wfd' = NoFd /\ Go("sender", "step") /\ Sound
       \/ /\ it \notin OnList /\ Corrupt
          /\ \/ wfd' \in Fds /\ Go("sender", "write")
             \/ wfd' = NoFd /\ (Go("sender", "step") \/ Die)
    /\ UNCHANGED <<queueVars, msg, after, it, netVars, overlap, recycled, inits>>

WalkStep ==
    /\ pc["sender"] = "step"
    /\ \/ it \in OnList /\ Arrive(Following(it)) /\ Sound
       \/ it \notin OnList /\ Corrupt /\ \E r \in OnList \cup {End} : Arrive(r)
       \/ it \notin OnList /\ Corrupt /\ it' = it /\ Die
    /\ UNCHANGED <<queueVars, msg, after, wfd, netVars, overlap, recycled, inits>>

Open(c) == c # NoConn /\ peer[c] = "open"

Written(to) == Go("sender", to) /\ wfd' = NoFd /\ recycled' = FALSE

\* writen() to an open connection.  If the socket buffer is too full for all of the
\* message, the rest is dropped with a line in the log: the client has been offered
\* it, and nothing else differs for the server.
WriteSent ==
    LET c == file[wfd] IN
    /\ pc["sender"] = "write" /\ Open(c)
    /\ offered' = IF ub THEN offered ELSE [offered EXCEPT ![c] = msg]
    /\ turn' = IF ub THEN turn ELSE [turn EXCEPT ![c] = it[2]]
    /\ Written("step")
    /\ UNCHANGED <<queueVars, msg, after, it, audience, netVars, overlap, ub, inits>>

\* A closed descriptor is an error; so is a connection that was reset, once.  A
\* client that has closed its end answers a reset.  After either, another write
\* raises SIGPIPE, which nothing catches.
WriteLost ==
    LET c == file[wfd] IN
    /\ pc["sender"] = "write" /\ ~Open(c)
    /\ peer' = IF c = NoConn THEN peer ELSE [peer EXCEPT ![c] = "broken"]
    /\ IF c # NoConn /\ peer[c] = "broken"
       THEN Die /\ UNCHANGED <<wfd, recycled>> ELSE Written("step")
    /\ UNCHANGED <<queueVars, msg, after, it, audience, regs, fdOf, file, watched, hungup,
                   clientFdList, offered, turn, overlap, ub, inits>>

\* pop_front(), after the mutex was given back.  Its test of the new head and the
\* assignment to tail are one step after the assignment to head: an append that
\* slips in between leaves the same list as one after pop_tail.
PopRead ==
    /\ pc["sender"] = "pop_read"
    /\ after' = next[head]
    /\ overlap' = (overlap \/ (mutex # "free" /\ next[head] = NULL))
    /\ audience' = {}
    /\ Go("sender", "pop_head")
    /\ UNCHANGED <<queueVars, msg, it, wfd, netVars, offered, turn, ub, recycled,
                   inits>>

SameHead == head                                         \* mutant
Emptied == NULL                                          \* mutant
HeadAfterPop == after
SameTail == tail                                         \* mutant
TailAfterPop == NULL

PopHead ==
    /\ pc["sender"] = "pop_head"
    /\ head' = HeadAfterPop
    /\ after' = NULL
    /\ IF after = NULL
       THEN Go("sender", "pop_tail") /\ UNCHANGED <<freed, msg>>
       ELSE Go("sender", "lock") /\ freed' = freed \cup {msg} /\ msg' = NULL
    /\ UNCHANGED <<mutex, tail, next, kind, count, ptail, it, wfd, audience, netVars,
                   history, inits>>

PopTail ==
    /\ pc["sender"] = "pop_tail"
    /\ tail' = TailAfterPop
    /\ freed' = freed \cup {msg} /\ msg' = NULL
    /\ Go("sender", "lock")
    /\ UNCHANGED <<mutex, head, next, kind, count, ptail, after, it, wfd, audience,
                   netVars, history, inits>>

-----------------------------------------------------------------------------
(* epollEventHandlerWorker.                                                *)

\* A client has connected.  accept returns the lowest number that is free.
EpollAccept(c, f) ==
    /\ pc["epoll"] = "idle"
    /\ peer[c] = "away"
    /\ peer' = [peer EXCEPT ![c] = "open"]
    /\ file[f] = NoConn /\ \A g \in Fds : g < f => file[g] # NoConn
    /\ file' = [file EXCEPT ![f] = c]
    /\ fdOf' = [fdOf EXCEPT ![c] = f]
    /\ watched' = watched \cup {f}
    /\ UNCHANGED <<pc, queueVars, senderVars, regs, hungup, clientFdList, history, inits>>

\* handleRegisterMessage, which does not look for the descriptor in the list.  What a
\* client has sent shows only as it is read: the library sends a REGISTER when it has
\* connected, ClientInit another one if the dispatcher has reconnected meanwhile,
\* and an application may send its own.  They are read although it has left since.
EpollRegister(f) ==
    LET c == file[f] IN
    /\ pc["epoll"] = "idle"
    /\ f \in watched /\ regs[c] < MaxRegs[c]
    /\ regs' = [regs EXCEPT ![c] = @ + 1]
    /\ clientFdList' = Append(clientFdList, <<c, regs[c] + 1>>)
    /\ UNCHANGED <<pc, queueVars, senderVars, peer, fdOf, file, watched, hungup,
                   history, inits>>

\* Every node with the value is deleted; the others keep their order.
HeadDeleted(f) == IF clientFdList # <<>> /\ fdOf[clientFdList[1][1]] = f   \* mutant
                  THEN Tail(clientFdList) ELSE clientFdList
Kept(f) == {i \in 1 .. Len(clientFdList) : fdOf[clientFdList[i][1]] # f}
Rank(f, i) == Cardinality({k \in Kept(f) : k <= i})
deleteIntNodeWithValue(f) ==
    [j \in 1 .. Cardinality(Kept(f)) |-> clientFdList[CHOOSE i \in Kept(f) : Rank(f, i) = j]]

\* The client is deleted from the list; then its descriptor is closed.
Drop(f) ==
    /\ pc["epoll"] = "idle" /\ f \in watched
    /\ clientFdList' = deleteIntNodeWithValue(f)
    /\ hungup' = f
    /\ Go("epoll", "close")
    /\ UNCHANGED <<queueVars, senderVars, peer, regs, fdOf, file, watched, history, inits>>

\* What readn() returns 0 for.  On a reset connection it returns -1 for the
\* header, which stays uninitialised; then the stack overflows under the body, or
\* the read of the body returns 0.
OnlyListed(c) == c \in Listed /\ peer[c] \in {"closed", "broken", "reset"}  \* mutant
HungUp(c) == peer[c] \in {"closed", "broken", "reset"}

EpollHangup(f) == Drop(f) /\ HungUp(file[f])

\* A message without a body, which readn() returns 0 for as well: the client is taken
\* for one that has hung up.
EpollEmpty(f) == Drop(f) /\ Open(file[f])

EpollOverflow(f) ==
    LET c == file[f] IN
    /\ pc["epoll"] = "idle"
    /\ f \in watched /\ peer[c] = "reset"
    /\ Die
    /\ UNCHANGED <<queueVars, senderVars, netVars, history, inits>>

\* The connection is forgotten, with what the histories say of it.
EpollClose ==
    LET c == file[hungup] IN
    /\ pc["epoll"] = "close"
    /\ watched' = watched \ {hungup}
    /\ file' = [file EXCEPT ![hungup] = NoConn]
    /\ hungup' = NoFd
    /\ peer' = [peer EXCEPT ![c] = "gone"]
    /\ regs' = [regs EXCEPT ![c] = 0]
    /\ fdOf' = [fdOf EXCEPT ![c] = NoFd]
    /\ offered' = [offered EXCEPT ![c] = NULL] /\ turn' = [turn EXCEPT ![c] = 0]
    /\ recycled' = (recycled \/ (pc["sender"] = "write" /\ wfd = hungup))
    /\ Go("epoll", "idle")
    /\ UNCHANGED <<queueVars, senderVars, clientFdList, overlap, ub, inits>>

-----------------------------------------------------------------------------
(* Clients.  What one does before it is accepted is seen no sooner than that, *)
(* and what it sends when it is read.                                        *)

Listening == pc["app"] \notin {"off", "dead"}

\* A client that closes with unread messages resets the connection.
PeerClose(c) ==
    /\ peer[c] = "open" /\ Listening
    /\ \/ peer' = [peer EXCEPT ![c] = "closed"]
       \/ offered[c] # NULL /\ peer' = [peer EXCEPT ![c] = "reset"]
    /\ UNCHANGED <<pc, queueVars, senderVars, regs, fdOf, file, watched, hungup,
                   clientFdList, history, inits>>

-----------------------------------------------------------------------------
Push(t) == PushLock(t) \/ PushHead(t) \/ PushFirst(t) \/ PushTail(t) \/ PushLink(t)
           \/ PushSet(t)
Sender == SenderWait \/ SenderFront \/ WalkVisit \/ WalkStep
          \/ WriteSent \/ WriteLost
          \/ PopRead \/ PopHead \/ PopTail
EpollClient == \/ \E c \in Conns, f \in Fds : EpollAccept(c, f)
               \/ \E f \in Fds : EpollRegister(f) \/ EpollEmpty(f)
EpollEnd == \/ \E f \in Fds : EpollHangup(f) \/ EpollOverflow(f)
            \/ EpollClose
Epoll == EpollClient \/ EpollEnd
Peers == \E c \in Conns : PeerClose(c)

Next ==
    \/ ServerInit \/ ServerExit
    \/ \E t \in Pushers : EnqueueServerMsg(t) \/ Push(t)
    \/ Sender
    \/ Epoll
    \/ Peers

Spec == Init /\ [][Next]_vars

\* Each thread is scheduled; but a client need not come, nor send anything.
FairSpec ==
    /\ Spec
    /\ \A t \in Pushers : WF_vars(Push(t))
    /\ WF_vars(Sender) /\ WF_vars(EpollEnd)

-----------------------------------------------------------------------------
(* What must hold.                                                         *)

\* A client is listed only while its descriptor is open on its own connection: the
\* epoll thread deletes the node before it closes the descriptor.
ListedOpen == \A c \in Listed : fdOf[c] \in Fds /\ file[fdOf[c]] = c

\* The two lists share nothing with a lock, but as long as no append met a removal
\* at the last node, serverMsgsList links every message that waits, in order.
QueueIntact ==
    (~overlap /\ mutex = "free" /\ pc["sender"] \notin PopPcs /\ pc["app"] # "dead") =>
        LET waiting == Messages \ freed IN
        IF waiting = {} THEN head = NULL /\ tail = NULL
        ELSE /\ head \in waiting /\ \A n \in waiting : head <= n
             /\ tail = count
             /\ \A n \in waiting : next[n] = IF n = count THEN NULL ELSE n + 1

\* No client is offered messages out of order, even after messages were lost, nor a
\* message more than once for each of its registrations, unless the walk has gone
\* through a freed node.
Later(c) == msg > offered[c] \/ (msg = offered[c] /\ it[2] > turn[c])
InOrder == [][WriteSent => ub \/ Later(file[wfd])]_vars

\* What is sent to a connection is a heartbeat or of a type in its bitmap, and comes
\* after its registration, unless the descriptor number had been that of a client
\* the sender was about to write to.
Addressed ==
    [][WriteSent =>
         LET c == file[wfd] IN
         ub \/ recycled \/ (regs[c] > 0 /\ kind[msg] \in Wants[c] \cup {HEARTBEAT})]_vars

\* Although clients come and go during a walk, it passes no client that is listed from
\* its beginning to its end.
Complete ==
    (pc["sender"] = "pop_read" /\ ~ub) =>
        \A c \in audience \cap Listed :
            \/ kind[msg] \notin Wants[c] \cup {HEARTBEAT}
            \/ peer[c] # "open" \/ offered[c] = msg

Ended == pc["app"] \in {"off", "dead"}

\* Every message that is enqueued is taken off again: the signal is not missed.
Drains == []<>(freed = Messages \/ overlap \/ ub \/ Ended)

\* A client that hangs up, in whatever way, is forgotten and its descriptor closed.
Left(c) == fdOf[c] # NoFd /\ peer[c] # "open"

HangupCleaned == []<>(Ended \/ \A c \in Conns : ~Left(c))

\* The timing diagram: a business message given to EnqueueServerMsg is sent to the
\* clients that are registered for it and stay.
Delivered ==
    \A c \in Conns, n \in 1 .. MaxMsgs :
        (n \in Messages \ freed /\ msg # n /\ c \in Listed /\ kind[n] \in Wants[c]) ~>
            (offered[c] = n \/ peer[c] # "open" \/ ub \/ Ended)
-----------------------------------------------------------------------------
(* What serverMsgsList is for its users: a queue of messages.  A message is *)
(* in it from the assignment that makes it reachable from head until the    *)
(* one that moves head past it.                                             *)

NotInList == {"head", "first", "tail", "link"}  \* push_back() has not linked its node
Unlinked == IF \E t \in Pushers : pc[t] \in NotInList THEN 1 ELSE 0

\* The nodes reached from head, in the order of their links.
Chain(s) ==
    /\ head = IF s = <<>> THEN NULL ELSE s[1]
    /\ \A i \in 1 .. Len(s) : next[s[i]] = IF i = Len(s) THEN NULL ELSE s[i + 1]
InList == CHOOSE s \in UNION {[1 .. k -> 1 .. MaxMsgs] : k \in Nodes} : Chain(s)

Raced == overlap \/ ub \/ pc["app"] = "dead"

Queue == INSTANCE MessageQueue WITH
            Clients <- Conns,
            up      <- pc["app"] # "off",
            waiting <- IF Raced THEN <<>> ELSE InList,
            last    <- count - Unlinked,
            served  <- IF Raced \/ head = NULL THEN {}
                       ELSE {c \in Conns : offered[c] = head},
            broken  <- Raced

\* The list in its many steps implements the queue: no message is put twice, passed
\* over or taken off before its turn, and the message offered is always the first.
ImplementsQueue == Queue!Spec
=============================================================================
