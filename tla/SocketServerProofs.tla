-------------------------- MODULE SocketServerProofs --------------------------
(***************************************************************************)
(* For any number of clients, descriptors, messages and calls: a listed    *)
(* client has its own open descriptor, serverMsgsList holds what waits as  *)
(* long as no race has met at its last node, the walk passes nobody, and   *)
(* the list implements the queue of MessageQueue.  No signal is missed and *)
(* no connection forgotten.                                                *)
(***************************************************************************)
EXTENDS SocketServer, FiniteSetTheorems, SequenceTheorems, WellFoundedInduction, TLAPS

\* Who is inside push_back() holds the mutex, and an empty list found there stays
\* empty.
Appending ==
    \A t \in Pushers :
        /\ pc[t] \in PushPcs => mutex = t
        /\ pc[t] = "first" => head = NULL

\* The message the sender walks with is still the first of serverMsgsList.
Sending ==
    /\ pc["sender"] \in {"visit", "write", "step", "pop_read", "pop_head"}
       => head \in 1 .. MaxMsgs /\ msg = head
    /\ pc["sender"] = "pop_tail" => msg \in 1 .. MaxMsgs

\* A connection and its descriptor name each other, from accept to close.
Paired ==
    /\ \A f \in Fds : file[f] \in Conns => fdOf[file[f]] = f
    /\ \A c \in Conns : fdOf[c] \in Fds => file[fdOf[c]] = c
    /\ \A f \in watched : file[f] \in Conns
    /\ \A c \in Conns : peer[c] \in {"away", "gone"} => fdOf[c] = NoFd

\* A client is listed once for each registration, in their order, until it is deleted.
Registered ==
    /\ \A i \in 1 .. Len(clientFdList) :
          LET r == clientFdList[i] IN fdOf[r[1]] \in Fds /\ r[2] <= regs[r[1]]
    /\ \A i, j \in 1 .. Len(clientFdList) :
          i < j /\ clientFdList[i][1] = clientFdList[j][1] =>
              clientFdList[i][2] < clientFdList[j][2]

\* What the epoll thread is about to close is open and listed no more.
Closing ==
    pc["epoll"] = "close" =>
        /\ hungup \in Fds /\ file[hungup] \in Conns
        /\ \A i \in 1 .. Len(clientFdList) : fdOf[clientFdList[i][1]] # hungup

IInv == TypeOK /\ Appending /\ Sending /\ Paired /\ Registered /\ Closing

Names == /\ NoConn \notin Conns /\ HEARTBEAT \notin Types
         /\ Fds \subseteq Nat /\ NoFd \notin Fds
         /\ MaxMsgs \in Nat

\* The constants are as the model assumes.
LEMMA NamesHold == Names
BY NamesAssumption, FdsAssumption, BoundsAssumption DEF Names

-----------------------------------------------------------------------------
\* The initial state satisfies the inductive invariant.
LEMMA InitIInv == Init => IInv
<1>. SUFFICES ASSUME Init PROVE IInv  OBVIOUS
<1>. USE NamesHold DEF Names, Init, NULL
<1>1. TypeOK
  <2>1. next \in [1 .. MaxMsgs -> Nodes] /\ kind \in [1 .. MaxMsgs -> Types \cup {HEARTBEAT}]
    BY DEF Nodes
  <2>2. pc \in [Threads -> Pcs] /\ offered \in [Conns -> Nodes]  BY DEF Pcs, Nodes
  <2>3. clientFdList \in Seq(Registrations) /\ wfd \in Fds \cup {NoFd} /\ pc["sender"] # "write"
    BY DEF Threads
  <2>4. peer \in [Conns -> {"away", "open", "closed", "reset", "broken", "gone"}]
        /\ regs \in [Conns -> Nat] /\ turn \in [Conns -> Nat]
        /\ fdOf \in [Conns -> Fds \cup {NoFd}] /\ file \in [Fds -> Conns \cup {NoConn}]
    OBVIOUS
  <2>5. head \in Nodes /\ tail \in Nodes /\ ptail \in Nodes /\ msg \in Nodes
        /\ after \in Nodes /\ count \in Nodes /\ inits \in Nat
    BY DEF Nodes
  <2>. QED  BY <2>1, <2>2, <2>3, <2>4, <2>5 DEF TypeOK
<1>2. Appending  BY DEF Appending, PushPcs, Pushers, Threads
<1>3. Sending  BY DEF Sending, Threads
<1>4. Paired  BY DEF Paired
<1>5. Registered  BY DEF Registered
<1>6. Closing  BY DEF Closing, Threads
<1>. QED  BY <1>1, <1>2, <1>3, <1>4, <1>5, <1>6 DEF IInv

\* What is listed is a connection.
LEMMA ListedConns ==
    ASSUME TypeOK PROVE OnList \subseteq Registrations /\ Listed \subseteq Conns
<1>1. OnList \subseteq Registrations  BY DEF TypeOK, OnList
<1>. QED  BY <1>1 DEF Listed, Registrations

\* No node is in the list twice.
LEMMA NodesDiffer ==
    ASSUME TypeOK, Registered,
           NEW i \in 1 .. Len(clientFdList), NEW j \in 1 .. Len(clientFdList),
           clientFdList[i] = clientFdList[j]
    PROVE  i = j
<1>1. clientFdList[i] \in Registrations /\ clientFdList[j] \in Registrations
  BY DEF TypeOK
<1>2. clientFdList[i][2] \in Nat  BY <1>1 DEF Registrations
<1>3. ~(i < j) /\ ~(j < i)  BY <1>2 DEF Registered
<1>4. i \in Int /\ j \in Int  BY DEF TypeOK
<1>. QED  BY <1>3, <1>4

\* The places of a set of numbers: its j-th member is the one that j members do not
\* exceed.
LEMMA Ranked ==
    ASSUME NEW n \in Nat, NEW K, K \subseteq 1 .. n
    PROVE  \E At \in [1 .. Cardinality(K) -> K] :
             /\ \A j \in 1 .. Cardinality(K) :
                   At[j] = CHOOSE i \in K : Cardinality({k \in K : k <= i}) = j
             /\ \A i, j \in 1 .. Cardinality(K) : i < j <=> At[i] < At[j]
             /\ \A k \in K : \E j \in 1 .. Cardinality(K) : At[j] = k
<1>. DEFINE m == Cardinality(K)
            Below(i) == {k \in K : k <= i}
            R == [i \in K |-> Cardinality(Below(i))]
            At == [j \in 1 .. m |-> CHOOSE i \in K : R[i] = j]
<1>0. \A i \in K : i \in Int  OBVIOUS
<1>1. IsFiniteSet(K) /\ m \in Nat
  <2>1. IsFiniteSet(1 .. n)  BY FS_Interval
  <2>. QED  BY <2>1, FS_Subset, FS_CardinalityType
<1>2. ASSUME NEW i \in K
      PROVE  IsFiniteSet(Below(i)) /\ Cardinality(Below(i)) \in 1 .. m
  <2>1. Below(i) \subseteq K /\ i \in Below(i)  OBVIOUS
  <2>2. IsFiniteSet(Below(i)) /\ Cardinality(Below(i)) \in Nat /\ Cardinality(Below(i)) <= m
    BY <1>1, <2>1, FS_Subset, FS_CardinalityType
  <2>3. Cardinality(Below(i)) # 0  BY <2>1, <2>2, FS_EmptySet
  <2>. HIDE DEF m, Below
  <2>. QED  BY <1>1, <2>2, <2>3
<1>3. ASSUME NEW i \in K, NEW j \in K, i < j
      PROVE  Cardinality(Below(i)) < Cardinality(Below(j))
  <2>1. Below(i) \subseteq Below(j) /\ Below(i) # Below(j)
    <3>1. j \in Below(j) /\ j \notin Below(i)  BY <1>0, <1>3
    <3>2. ASSUME NEW k \in Below(i) PROVE k \in Below(j)
      <4>1. k \in K /\ k <= i /\ k \in Int /\ i \in Int /\ j \in Int  BY <1>0
      <4>. QED  BY <1>3, <4>1
    <3>. HIDE DEF Below
    <3>. QED  BY <3>1, <3>2
  <2>2. IsFiniteSet(Below(i)) /\ IsFiniteSet(Below(j))  BY <1>2
  <2>. HIDE DEF Below
  <2>3. Cardinality(Below(i)) \in Nat /\ Cardinality(Below(j)) \in Nat
        /\ Cardinality(Below(i)) <= Cardinality(Below(j))
        /\ Cardinality(Below(i)) # Cardinality(Below(j))
    BY <2>1, <2>2, FS_Subset, FS_CardinalityType
  <2>. QED  BY <2>3
<1>4. R \in [K -> 1 .. m] /\ \A i, j \in K : i < j => R[i] < R[j]
  <2>. HIDE DEF Below, m
  <2>. QED  BY <1>2, <1>3
<1>. HIDE DEF R
<1>5. ASSUME NEW j \in 1 .. m PROVE \E i \in K : R[i] = j
  <2>. SUFFICES ASSUME \A i \in K : R[i] # j PROVE FALSE  OBVIOUS
  <2>. DEFINE T == (1 .. m) \ {j}
  <2>1. IsFiniteSet(T) /\ Cardinality(T) < Cardinality(K)
    <3>. HIDE DEF m
    <3>1. IsFiniteSet(1 .. m) /\ Cardinality(1 .. m) = m  BY <1>1, FS_Interval
    <3>2. IsFiniteSet(T) /\ Cardinality(T) = m - 1  BY <3>1, FS_RemoveElement
    <3>3. m = Cardinality(K)  BY DEF m
    <3>. QED  BY <1>1, <3>2, <3>3
  <2>2. R \in [K -> T]  BY <1>4
  <2>. HIDE DEF T, m
  <2>3. PICK x \in K, y \in K : x # y /\ R[x] = R[y]
    BY <1>1, <2>1, <2>2, FS_PigeonHole
  <2>4. x \in Int /\ y \in Int /\ R[x] \in Int  BY <1>4
  <2>5. ~(x < y) /\ ~(y < x)  BY <1>4, <2>3, <2>4
  <2>. QED  BY <2>3, <2>4, <2>5
<1>. HIDE DEF m
<1>6. /\ At \in [1 .. m -> K]
      /\ \A j \in 1 .. m : At[j] = (CHOOSE i \in K : R[i] = j) /\ R[At[j]] = j
  BY <1>5
<1>. HIDE DEF At
<1>7. ASSUME NEW i \in 1 .. m, NEW j \in 1 .. m PROVE i < j <=> At[i] < At[j]
  <2>1. /\ At[i] \in K /\ At[j] \in K /\ At[i] \in Int /\ At[j] \in Int
        /\ R[At[i]] = i /\ R[At[j]] = j
    BY <1>0, <1>6
  <2>2. (At[i] < At[j] => i < j) /\ (At[j] < At[i] => j < i)  BY <1>4, <2>1
  <2>3. At[i] = At[j] => i = j  BY <2>1
  <2>. QED  BY <1>1, <2>1, <2>2, <2>3
<1>8. ASSUME NEW k \in K PROVE \E j \in 1 .. m : At[j] = k
  <2>1. R[k] \in 1 .. m /\ At[R[k]] \in K /\ R[At[R[k]]] = R[k]  BY <1>4, <1>6
  <2>2. PICK x \in K : x = At[R[k]] /\ R[x] = R[k]  BY <2>1
  <2>3. k \in Int /\ x \in Int  BY <1>0
  <2>4. R[k] \in Int /\ R[x] \in Int  BY <1>1, <2>1, <2>2
  <2>5. ~(x < k)  BY <1>4, <2>2, <2>4
  <2>6. ~(k < x)  BY <1>4, <2>2, <2>4
  <2>. QED  BY <2>1, <2>2, <2>3, <2>5, <2>6
<1>9. \A j \in 1 .. m : At[j] = CHOOSE i \in K : Cardinality({k \in K : k <= i}) = j
  <2>1. \A i \in K : R[i] = Cardinality({k \in K : k <= i})  BY DEF R
  <2>2. \A j : (CHOOSE i \in K : R[i] = j)
               = CHOOSE i \in K : Cardinality({k \in K : k <= i}) = j
    BY <2>1
  <2>. QED  BY <1>6, <2>2
<1>. QED  BY <1>6, <1>7, <1>8, <1>9 DEF m

\* What deleteIntNodeWithValue(f) keeps are the nodes of other descriptors, all of them
\* and in their order.
KeptInOrder(f, At) ==
    LET r == deleteIntNodeWithValue(f) IN
    /\ r \in Seq(Registrations) /\ At \in [1 .. Len(r) -> Kept(f)]
    /\ \A i \in 1 .. Len(r) : r[i] = clientFdList[At[i]]
    /\ \A i, j \in 1 .. Len(r) : i < j <=> At[i] < At[j]
    /\ \A k \in Kept(f) : \E i \in 1 .. Len(r) : At[i] = k

LEMMA Deleted ==
    ASSUME TypeOK, NEW f \in Fds PROVE \E At : KeptInOrder(f, At)
<1>. DEFINE s == clientFdList  m == Cardinality(Kept(f))
<1>1. s \in Seq(Registrations) /\ Len(s) \in Nat /\ Kept(f) \subseteq 1 .. Len(s)
  BY DEF TypeOK, Kept
<1>2. IsFiniteSet(Kept(f)) /\ m \in Nat
  <2>1. IsFiniteSet(1 .. Len(s))  BY <1>1, FS_Interval
  <2>. QED  BY <1>1, <2>1, FS_Subset, FS_CardinalityType
<1>3. PICK At \in [1 .. m -> Kept(f)] :
           /\ \A j \in 1 .. m :
                 At[j] = CHOOSE i \in Kept(f) : Cardinality({k \in Kept(f) : k <= i}) = j
           /\ \A i, j \in 1 .. m : i < j <=> At[i] < At[j]
           /\ \A k \in Kept(f) : \E j \in 1 .. m : At[j] = k
  BY <1>1, Ranked, Zenon
<1>. DEFINE r == [j \in 1 .. m |-> s[At[j]]]
<1>4. deleteIntNodeWithValue(f) = r
  <2>. DEFINE P(j) == CHOOSE i \in Kept(f) : Rank(f, i) = j
  <2>1. \A j \in 1 .. m : At[j] = P(j)  BY <1>3 DEF Rank
  <2>2. deleteIntNodeWithValue(f) = [j \in 1 .. m |-> s[P(j)]]
    BY DEF deleteIntNodeWithValue
  <2>. HIDE DEF P, m, s
  <2>. QED  BY <2>1, <2>2
<1>. HIDE DEF m
<1>5. r \in Seq(Registrations) /\ Len(r) = m /\ \A i \in 1 .. m : r[i] = s[At[i]]
  <2>1. \A i \in 1 .. m : s[At[i]] \in Registrations  BY <1>1, <1>3
  <2>. QED  BY <1>2, <2>1
<1>. HIDE DEF r
<1>6. KeptInOrder(f, At)  BY <1>3, <1>4, <1>5 DEF KeptInOrder
<1>. QED  BY <1>6

\* The walk stays on the list.
LEMMA FollowingType ==
    ASSUME TypeOK, NEW r \in OnList PROVE Following(r) \in Registrations \cup {End}
<1>. DEFINE k == CHOOSE j \in 1 .. Len(clientFdList) : clientFdList[j] = r
<1>1. k \in 1 .. Len(clientFdList)  BY DEF OnList
<1>2. Following(r) = IF 1 + k > Len(clientFdList) THEN End ELSE clientFdList[1 + k]
  BY DEF Following, Node
<1>. HIDE DEF k
<1>. QED  BY <1>1, <1>2 DEF TypeOK

-----------------------------------------------------------------------------
(* One lemma per action.                                                   *)

\* ServerInit preserves the inductive invariant.
LEMMA Step_ServerInit ==
    ASSUME IInv, ServerInit PROVE IInv'
<1>. USE NamesHold DEF Names, IInv, ServerInit, Go, queueVars, senderVars, netVars,
  history, NULL
<1>1. TypeOK'
  BY SMTT(60) DEF TypeOK, Pcs, PushPcs, PopPcs, SenderPcs, Nodes, Threads, Pushers,
  Sending, Registered, Closing
<1>2. Appending'  BY DEF TypeOK, Appending, Sending, PushPcs, Pushers, Threads, Nodes
<1>3. Sending'  BY DEF TypeOK, Sending, Appending, PushPcs, Pushers, Threads, Nodes
<1>4. Paired'  BY DEF TypeOK, Paired, Closing, Threads
<1>5. Registered'  BY DEF TypeOK, Registered, Paired, Closing, Threads
<1>6. Closing'  BY DEF TypeOK, Closing, Registered, Paired, Threads, Pushers
<1>. QED  BY <1>1, <1>2, <1>3, <1>4, <1>5, <1>6

\* ServerExit preserves the inductive invariant.
LEMMA Step_ServerExit ==
    ASSUME IInv, ServerExit PROVE IInv'
<1>. USE NamesHold DEF Names, IInv, ServerExit, CancelPoint, Messages, Go, queueVars,
  senderVars, netVars, history, NULL
<1>1. TypeOK'  BY DEF TypeOK, Pcs, PushPcs, PopPcs, SenderPcs, Nodes, Threads, Pushers,
  Sending, Registered, Closing
<1>2. Appending'  BY DEF TypeOK, Appending, Sending, PushPcs, Pushers, Threads, Nodes
<1>3. Sending'  BY DEF TypeOK, Sending, Appending, PushPcs, Pushers, Threads, Nodes
<1>4. Paired'  BY DEF TypeOK, Paired, Closing, Threads
<1>5. Registered'  BY DEF TypeOK, Registered, Paired, Closing, Threads
<1>6. Closing'  BY DEF TypeOK, Closing, Registered, Paired, Threads, Pushers
<1>. QED  BY <1>1, <1>2, <1>3, <1>4, <1>5, <1>6

\* EnqueueServerMsg preserves the inductive invariant.
LEMMA Step_EnqueueServerMsg ==
    ASSUME NEW t \in Pushers, IInv, EnqueueServerMsg(t) PROVE IInv'
<1>. USE NamesHold DEF Names, IInv, EnqueueServerMsg, Go, queueVars, senderVars, netVars,
  history, NULL
<1>1. TypeOK'
  BY ZenonT(60) DEF TypeOK, Pcs, PushPcs, PopPcs, SenderPcs, Nodes, Threads, Pushers,
  Sending, Registered, Closing
<1>2. Appending'  BY DEF TypeOK, Appending, Sending, PushPcs, Pushers, Threads, Nodes
<1>3. Sending'  BY DEF TypeOK, Sending, Appending, PushPcs, Pushers, Threads, Nodes
<1>4. Paired'  BY DEF TypeOK, Paired, Closing, Threads
<1>5. Registered'  BY DEF TypeOK, Registered, Paired, Closing, Threads
<1>6. Closing'  BY DEF TypeOK, Closing, Registered, Paired, Threads, Pushers
<1>. QED  BY <1>1, <1>2, <1>3, <1>4, <1>5, <1>6

\* PushLock preserves the inductive invariant.
LEMMA Step_PushLock ==
    ASSUME NEW t \in Pushers, IInv, PushLock(t) PROVE IInv'
<1>. USE NamesHold DEF Names, IInv, PushLock, KindsOf, AtLastNode, Go, queueVars,
  senderVars, netVars, history, NULL
<1>1. TypeOK'
  BY SMTT(60) DEF TypeOK, Pcs, PushPcs, PopPcs, SenderPcs, Nodes, Threads, Pushers,
  Sending, Registered, Closing
<1>2. Appending'  BY DEF TypeOK, Appending, Sending, PushPcs, Pushers, Threads, Nodes
<1>3. Sending'  BY DEF TypeOK, Sending, Appending, PushPcs, Pushers, Threads, Nodes
<1>4. Paired'  BY DEF TypeOK, Paired, Closing, Threads
<1>5. Registered'  BY DEF TypeOK, Registered, Paired, Closing, Threads
<1>6. Closing'  BY DEF TypeOK, Closing, Registered, Paired, Threads, Pushers
<1>. QED  BY <1>1, <1>2, <1>3, <1>4, <1>5, <1>6

\* PushHead preserves the inductive invariant.
LEMMA Step_PushHead ==
    ASSUME NEW t \in Pushers, IInv, PushHead(t) PROVE IInv'
<1>. USE NamesHold DEF Names, IInv, PushHead, Go, queueVars, senderVars, netVars, history,
  NULL
<1>1. TypeOK'  BY DEF TypeOK, Pcs, PushPcs, PopPcs, SenderPcs, Nodes, Threads, Pushers,
  Sending, Registered, Closing
<1>2. Appending'  BY DEF TypeOK, Appending, Sending, PushPcs, Pushers, Threads, Nodes
<1>3. Sending'  BY DEF TypeOK, Sending, Appending, PushPcs, Pushers, Threads, Nodes
<1>4. Paired'  BY DEF TypeOK, Paired, Closing, Threads
<1>5. Registered'  BY DEF TypeOK, Registered, Paired, Closing, Threads
<1>6. Closing'  BY DEF TypeOK, Closing, Registered, Paired, Threads, Pushers
<1>. QED  BY <1>1, <1>2, <1>3, <1>4, <1>5, <1>6

\* PushFirst preserves the inductive invariant.
LEMMA Step_PushFirst ==
    ASSUME NEW t \in Pushers, IInv, PushFirst(t) PROVE IInv'
<1>. USE NamesHold DEF Names, IInv, PushFirst, Go, queueVars, senderVars, netVars, history,
  NULL
<1>1. TypeOK'
  BY SMTT(60) DEF TypeOK, Pcs, PushPcs, PopPcs, SenderPcs, Nodes, Threads, Pushers,
  Sending, Registered, Closing
<1>2. Appending'  BY DEF TypeOK, Appending, Sending, PushPcs, Pushers, Threads, Nodes
<1>3. Sending'  BY DEF TypeOK, Sending, Appending, PushPcs, Pushers, Threads, Nodes
<1>4. Paired'  BY DEF TypeOK, Paired, Closing, Threads
<1>5. Registered'  BY DEF TypeOK, Registered, Paired, Closing, Threads
<1>6. Closing'  BY DEF TypeOK, Closing, Registered, Paired, Threads, Pushers
<1>. QED  BY <1>1, <1>2, <1>3, <1>4, <1>5, <1>6

\* PushTail preserves the inductive invariant.
LEMMA Step_PushTail ==
    ASSUME NEW t \in Pushers, IInv, PushTail(t) PROVE IInv'
<1>. USE NamesHold DEF Names, IInv, PushTail, Die, Go, queueVars, senderVars, netVars,
  history, NULL
<1>1. TypeOK'  BY DEF TypeOK, Pcs, PushPcs, PopPcs, SenderPcs, Nodes, Threads, Pushers,
  Sending, Registered, Closing
<1>2. Appending'  BY DEF TypeOK, Appending, Sending, PushPcs, Pushers, Threads, Nodes
<1>3. Sending'  BY DEF TypeOK, Sending, Appending, PushPcs, Pushers, Threads, Nodes
<1>4. Paired'  BY DEF TypeOK, Paired, Closing, Threads
<1>5. Registered'  BY DEF TypeOK, Registered, Paired, Closing, Threads
<1>6. Closing'  BY DEF TypeOK, Closing, Registered, Paired, Threads, Pushers
<1>. QED  BY <1>1, <1>2, <1>3, <1>4, <1>5, <1>6

\* PushLink preserves the inductive invariant.
LEMMA Step_PushLink ==
    ASSUME NEW t \in Pushers, IInv, PushLink(t) PROVE IInv'
<1>. USE NamesHold DEF Names, IInv, PushLink, Die, Go, queueVars, senderVars, netVars,
  history, NULL
<1>1. TypeOK'
  <2>1. pc' \in [Threads -> Pcs] /\ (pc'["sender"] = "write" => pc["sender"] = "write")
    BY DEF TypeOK, Pcs, PushPcs, PopPcs, SenderPcs, Threads, Pushers
  <2>2. next' \in [1 .. MaxMsgs -> Nodes]
    <3>1. next \in [1 .. MaxMsgs -> Nodes] /\ count \in Nodes  BY DEF TypeOK
    <3>2. next' = [next EXCEPT ![ptail] = count]  OBVIOUS
    <3>. HIDE DEF IInv, PushLink, Go, queueVars, senderVars, netVars, history, NULL
    <3>. QED  BY <3>1, <3>2
  <2>3. ub' \in BOOLEAN
    <3>1. ub' = (ub \/ ptail \in freed)  OBVIOUS
    <3>. QED  BY <3>1, Zenon
  <2>4. ptail' \in Nodes  BY DEF Nodes
  <2>. QED  BY <2>1, <2>2, <2>3, <2>4 DEF TypeOK
<1>2. Appending'  BY DEF TypeOK, Appending, Sending, PushPcs, Pushers, Threads, Nodes
<1>3. Sending'  BY DEF TypeOK, Sending, Appending, PushPcs, Pushers, Threads, Nodes
<1>4. Paired'  BY DEF TypeOK, Paired, Closing, Threads
<1>5. Registered'  BY DEF TypeOK, Registered, Paired, Closing, Threads
<1>6. Closing'  BY DEF TypeOK, Closing, Registered, Paired, Threads, Pushers
<1>. QED  BY <1>1, <1>2, <1>3, <1>4, <1>5, <1>6

\* PushSet preserves the inductive invariant.
LEMMA Step_PushSet ==
    ASSUME NEW t \in Pushers, IInv, PushSet(t) PROVE IInv'
<1>. USE NamesHold DEF Names, IInv, PushSet, Signal, Go, queueVars, senderVars, netVars,
  history, NULL
<1>1. TypeOK'  BY DEF TypeOK, Pcs, PushPcs, PopPcs, SenderPcs, Nodes, Threads, Pushers,
  Sending, Registered, Closing
<1>2. Appending'  BY DEF TypeOK, Appending, Sending, PushPcs, Pushers, Threads, Nodes
<1>3. Sending'  BY DEF TypeOK, Sending, Appending, PushPcs, Pushers, Threads, Nodes
<1>4. Paired'  BY DEF TypeOK, Paired, Closing, Threads
<1>5. Registered'  BY DEF TypeOK, Registered, Paired, Closing, Threads
<1>6. Closing'  BY DEF TypeOK, Closing, Registered, Paired, Threads, Pushers
<1>. QED  BY <1>1, <1>2, <1>3, <1>4, <1>5, <1>6

\* SenderWait preserves the inductive invariant.
LEMMA Step_SenderWait ==
    ASSUME IInv, SenderWait PROVE IInv'
<1>. USE NamesHold DEF Names, IInv, SenderWait, Go, queueVars, senderVars, netVars,
  history, NULL
<1>1. TypeOK'  BY DEF TypeOK, Pcs, PushPcs, PopPcs, SenderPcs, Nodes, Threads, Pushers,
  Sending, Registered, Closing
<1>2. Appending'  BY DEF TypeOK, Appending, Sending, PushPcs, Pushers, Threads, Nodes
<1>3. Sending'  BY DEF TypeOK, Sending, Appending, PushPcs, Pushers, Threads, Nodes
<1>4. Paired'  BY DEF TypeOK, Paired, Closing, Threads
<1>5. Registered'  BY DEF TypeOK, Registered, Paired, Closing, Threads
<1>6. Closing'  BY DEF TypeOK, Closing, Registered, Paired, Threads, Pushers
<1>. QED  BY <1>1, <1>2, <1>3, <1>4, <1>5, <1>6

\* SenderFront preserves the inductive invariant.
LEMMA Step_SenderFront ==
    ASSUME IInv, SenderFront PROVE IInv'
<1>. USE NamesHold DEF Names, IInv, SenderFront, Arrive, Go, queueVars, senderVars,
  netVars, history, NULL
<1>1. TypeOK'
  <2>1. pc' \in [Threads -> Pcs] /\ pc'["sender"] # "write"  BY DEF TypeOK, Pcs, PushPcs,
    PopPcs, SenderPcs, Threads
  <2>2. it' \in Registrations \cup {End}
    <3>1. clientFdList # <<>> => clientFdList[1] \in Registrations  BY DEF TypeOK
    <3>. QED  BY <3>1
  <2>3. audience' \subseteq Conns /\ msg' \in Nodes  BY ListedConns DEF TypeOK
  <2>. QED  BY <2>1, <2>2, <2>3 DEF TypeOK
<1>2. Appending'  BY DEF TypeOK, Appending, Sending, PushPcs, Pushers, Threads, Nodes
<1>3. Sending'  BY DEF TypeOK, Sending, Appending, PushPcs, Pushers, Threads, Nodes
<1>4. Paired'  BY DEF TypeOK, Paired, Closing, Threads
<1>5. Registered'  BY DEF TypeOK, Registered, Paired, Closing, Threads
<1>6. Closing'  BY DEF TypeOK, Closing, Registered, Paired, Threads, Pushers
<1>. QED  BY <1>1, <1>2, <1>3, <1>4, <1>5, <1>6

\* WalkVisit preserves the inductive invariant.
LEMMA Step_WalkVisit ==
    ASSUME IInv, WalkVisit PROVE IInv'
<1>. USE NamesHold DEF Names, IInv, WalkVisit, Corrupt, Sound, Die, Go, queueVars,
  senderVars, netVars, history, NULL
<1>1. TypeOK'
  <2>1. pc' \in [Threads -> Pcs]  BY DEF TypeOK, Pcs, PushPcs, PopPcs, SenderPcs, Threads
  <2>2. it \in OnList => fdOf[it[1]] \in Fds  BY DEF OnList, Registered
  <2>3. wfd' \in Fds \cup {NoFd} /\ (pc'["sender"] = "write" => wfd' \in Fds)
    BY <2>2 DEF TypeOK, Threads
  <2>4. audience' \subseteq Conns /\ offered' \in [Conns -> Nodes]
        /\ turn' \in [Conns -> Nat]
    <3>1. Sound \/ Corrupt  OBVIOUS
    <3>2. CASE Sound  BY <3>2 DEF TypeOK
    <3>3. CASE Corrupt  BY <3>3 DEF Nodes
    <3>. QED  BY <3>1, <3>2, <3>3
  <2>5. ub' \in BOOLEAN
    <3>1. ub' = ub \/ ub' = TRUE  OBVIOUS
    <3>2. ub \in BOOLEAN  BY DEF TypeOK
    <3>. QED  BY <3>1, <3>2, Zenon
  <2>. QED  BY <2>1, <2>3, <2>4, <2>5 DEF TypeOK
<1>2. Appending'  BY DEF TypeOK, Appending, Sending, PushPcs, Pushers, Threads, Nodes
<1>3. Sending'  BY DEF TypeOK, Sending, Appending, PushPcs, Pushers, Threads, Nodes
<1>4. Paired'  BY DEF TypeOK, Paired, Closing, Threads
<1>5. Registered'  BY DEF TypeOK, Registered, Paired, Closing, Threads
<1>6. Closing'  BY DEF TypeOK, Closing, Registered, Paired, Threads, Pushers
<1>. QED  BY <1>1, <1>2, <1>3, <1>4, <1>5, <1>6

\* WalkStep preserves the inductive invariant.
LEMMA Step_WalkStep ==
    ASSUME IInv, WalkStep PROVE IInv'
<1>. USE NamesHold DEF Names, IInv, WalkStep, Arrive, Corrupt, Sound, Die, Go, queueVars,
  senderVars, netVars, history, NULL
<1>1. TypeOK'
  <2>1. pc' \in [Threads -> Pcs] /\ pc'["sender"] # "write"  BY DEF TypeOK, Pcs, PushPcs,
    PopPcs, SenderPcs, Threads
  <2>2. \A r \in OnList : Following(r) \in Registrations \cup {End}  BY FollowingType
  <2>3. it' \in Registrations \cup {End}  BY <2>2, ListedConns DEF TypeOK
  <2>4. audience' \subseteq Conns /\ offered' \in [Conns -> Nodes]
        /\ turn' \in [Conns -> Nat]
    BY DEF TypeOK, Nodes
  <2>5. ub' \in BOOLEAN
    <3>1. ub' = ub \/ ub' = TRUE  OBVIOUS
    <3>2. ub \in BOOLEAN  BY DEF TypeOK
    <3>. QED  BY <3>1, <3>2, Zenon
  <2>. QED  BY <2>1, <2>3, <2>4, <2>5 DEF TypeOK
<1>2. Appending'  BY DEF TypeOK, Appending, Sending, PushPcs, Pushers, Threads, Nodes
<1>3. Sending'  BY DEF TypeOK, Sending, Appending, PushPcs, Pushers, Threads, Nodes
<1>4. Paired'  BY DEF TypeOK, Paired, Closing, Threads
<1>5. Registered'  BY DEF TypeOK, Registered, Paired, Closing, Threads
<1>6. Closing'  BY DEF TypeOK, Closing, Registered, Paired, Threads, Pushers
<1>. QED  BY <1>1, <1>2, <1>3, <1>4, <1>5, <1>6

\* WriteSent preserves the inductive invariant.
LEMMA Step_WriteSent ==
    ASSUME IInv, WriteSent PROVE IInv'
<1>. USE NamesHold DEF Names, IInv, WriteSent, Open, Written, Go, queueVars, senderVars,
  netVars, history, NULL
<1>1. TypeOK'
  <2>1. pc' \in [Threads -> Pcs] /\ pc'["sender"] # "write"  BY DEF TypeOK, Pcs, PushPcs,
    PopPcs, SenderPcs, Threads
  <2>2. offered' \in [Conns -> Nodes]  BY DEF TypeOK
  <2>3. turn' \in [Conns -> Nat]
    <3>1. it[2] \in Nat  BY DEF TypeOK, Registrations, End
    <3>. QED  BY <3>1 DEF TypeOK
  <2>. QED  BY <2>1, <2>2, <2>3 DEF TypeOK
<1>2. Appending'  BY DEF TypeOK, Appending, Sending, PushPcs, Pushers, Threads, Nodes
<1>3. Sending'  BY DEF TypeOK, Sending, Appending, PushPcs, Pushers, Threads, Nodes
<1>4. Paired'  BY DEF TypeOK, Paired, Closing, Threads
<1>5. Registered'  BY DEF TypeOK, Registered, Paired, Closing, Threads
<1>6. Closing'  BY DEF TypeOK, Closing, Registered, Paired, Threads, Pushers
<1>. QED  BY <1>1, <1>2, <1>3, <1>4, <1>5, <1>6

\* WriteLost preserves the inductive invariant.
LEMMA Step_WriteLost ==
    ASSUME IInv, WriteLost PROVE IInv'
<1>. USE NamesHold DEF Names, IInv, WriteLost, Open, Written, Die, Go, queueVars,
  senderVars, netVars, history, NULL
<1>1. TypeOK'
  <2>1. pc' \in [Threads -> Pcs] /\ pc'["sender"] # "write"  BY DEF TypeOK, Pcs, PushPcs,
    PopPcs, SenderPcs, Threads
  <2>2. peer' \in [Conns -> {"away", "open", "closed", "reset", "broken", "gone"}]
    BY DEF TypeOK
  <2>3. wfd' \in Fds \cup {NoFd} /\ recycled' \in BOOLEAN  BY DEF TypeOK
  <2>. QED  BY <2>1, <2>2, <2>3 DEF TypeOK
<1>2. Appending'  BY DEF TypeOK, Appending, Sending, PushPcs, Pushers, Threads, Nodes
<1>3. Sending'  BY DEF TypeOK, Sending, Appending, PushPcs, Pushers, Threads, Nodes
<1>4. Paired'  BY DEF TypeOK, Paired, Closing, Threads
<1>5. Registered'  BY DEF TypeOK, Registered, Paired, Closing, Threads
<1>6. Closing'  BY DEF TypeOK, Closing, Registered, Paired, Threads, Pushers
<1>. QED  BY <1>1, <1>2, <1>3, <1>4, <1>5, <1>6

\* PopRead preserves the inductive invariant.
LEMMA Step_PopRead ==
    ASSUME IInv, PopRead PROVE IInv'
<1>. USE NamesHold DEF Names, IInv, PopRead, Go, queueVars, senderVars, netVars, history,
  NULL
<1>1. TypeOK'  BY DEF TypeOK, Pcs, PushPcs, PopPcs, SenderPcs, Nodes, Threads, Pushers,
  Sending, Registered, Closing
<1>2. Appending'  BY DEF TypeOK, Appending, Sending, PushPcs, Pushers, Threads, Nodes
<1>3. Sending'  BY DEF TypeOK, Sending, Appending, PushPcs, Pushers, Threads, Nodes
<1>4. Paired'  BY DEF TypeOK, Paired, Closing, Threads
<1>5. Registered'  BY DEF TypeOK, Registered, Paired, Closing, Threads
<1>6. Closing'  BY DEF TypeOK, Closing, Registered, Paired, Threads, Pushers
<1>. QED  BY <1>1, <1>2, <1>3, <1>4, <1>5, <1>6

\* PopHead preserves the inductive invariant.
LEMMA Step_PopHead ==
    ASSUME IInv, PopHead PROVE IInv'
<1>. USE NamesHold DEF Names, IInv, PopHead, HeadAfterPop, Go, queueVars, senderVars,
  netVars, history, NULL
<1>1. TypeOK'
  <2>1. msg \in 1 .. MaxMsgs  BY DEF Sending
  <2>2. pc' \in [Threads -> Pcs] /\ pc'["sender"] # "write"  BY DEF TypeOK, Pcs, PushPcs,
    PopPcs, SenderPcs, Threads
  <2>3. head' \in Nodes /\ after' \in Nodes /\ msg' \in Nodes  BY DEF TypeOK, Nodes
  <2>4. freed' \subseteq 1 .. MaxMsgs  BY ZenonT(60), <2>1 DEF TypeOK
  <2>. QED  BY <2>2, <2>3, <2>4 DEF TypeOK
<1>2. Appending'  BY DEF TypeOK, Appending, Sending, PushPcs, Pushers, Threads, Nodes
<1>3. Sending'  BY DEF TypeOK, Sending, Appending, PushPcs, Pushers, Threads, Nodes
<1>4. Paired'  BY DEF TypeOK, Paired, Closing, Threads
<1>5. Registered'  BY DEF TypeOK, Registered, Paired, Closing, Threads
<1>6. Closing'  BY DEF TypeOK, Closing, Registered, Paired, Threads, Pushers
<1>. QED  BY <1>1, <1>2, <1>3, <1>4, <1>5, <1>6

\* PopTail preserves the inductive invariant.
LEMMA Step_PopTail ==
    ASSUME IInv, PopTail PROVE IInv'
<1>. USE NamesHold DEF Names, IInv, PopTail, TailAfterPop, Go, queueVars, senderVars,
  netVars, history, NULL
<1>1. TypeOK'  BY DEF TypeOK, Pcs, PushPcs, PopPcs, SenderPcs, Nodes, Threads, Pushers,
  Sending, Registered, Closing
<1>2. Appending'  BY DEF TypeOK, Appending, Sending, PushPcs, Pushers, Threads, Nodes
<1>3. Sending'  BY DEF TypeOK, Sending, Appending, PushPcs, Pushers, Threads, Nodes
<1>4. Paired'  BY DEF TypeOK, Paired, Closing, Threads
<1>5. Registered'  BY DEF TypeOK, Registered, Paired, Closing, Threads
<1>6. Closing'  BY DEF TypeOK, Closing, Registered, Paired, Threads, Pushers
<1>. QED  BY <1>1, <1>2, <1>3, <1>4, <1>5, <1>6

\* EpollAccept preserves the inductive invariant.
LEMMA Step_EpollAccept ==
    ASSUME NEW c \in Conns, NEW f \in Fds, IInv, EpollAccept(c, f) PROVE IInv'
<1>. USE NamesHold DEF Names, IInv, EpollAccept, Go, queueVars, senderVars, netVars,
  history, NULL
<1>1. TypeOK'  BY DEF TypeOK, Pcs, PushPcs, PopPcs, SenderPcs, Nodes, Threads, Pushers,
  Sending, Registered, Closing
<1>2. Appending'  BY DEF TypeOK, Appending, Sending, PushPcs, Pushers, Threads, Nodes
<1>3. Sending'  BY DEF TypeOK, Sending, Appending, PushPcs, Pushers, Threads, Nodes
<1>4. Paired'  BY DEF TypeOK, Paired, Closing, Threads
<1>5. Registered'  BY DEF TypeOK, Registered, Paired, Closing, Threads
<1>6. Closing'  BY DEF TypeOK, Closing, Registered, Paired, Threads, Pushers
<1>. QED  BY <1>1, <1>2, <1>3, <1>4, <1>5, <1>6

\* EpollRegister preserves the inductive invariant.
LEMMA Step_EpollRegister ==
    ASSUME NEW f \in Fds, IInv, EpollRegister(f) PROVE IInv'
<1>. USE NamesHold DEF Names, IInv, EpollRegister, Go, queueVars, senderVars, netVars,
  history, NULL
<1>1. TypeOK'
  <2>1. file[f] \in Conns  BY DEF Paired
  <2>2. clientFdList' \in Seq(Registrations)
    <3>1. <<file[f], regs[file[f]] + 1>> \in Registrations
      BY <2>1 DEF TypeOK, Registrations
    <3>. QED  BY <3>1 DEF TypeOK
  <2>3. regs' \in [Conns -> Nat]  BY <2>1 DEF TypeOK
  <2>. QED  BY <2>2, <2>3 DEF TypeOK
<1>2. Appending'  BY DEF TypeOK, Appending, Sending, PushPcs, Pushers, Threads, Nodes
<1>3. Sending'  BY DEF TypeOK, Sending, Appending, PushPcs, Pushers, Threads, Nodes
<1>4. Paired'  BY DEF TypeOK, Paired, Closing, Threads
<1>5. Registered'
  <2>. DEFINE c == file[f]  n == Len(clientFdList)  new == <<c, regs[c] + 1>>
  <2>1. c \in Conns /\ fdOf[c] = f /\ regs[c] \in Nat  BY DEF Paired, TypeOK
  <2>2. \A d \in Conns : regs'[d] = IF d = c THEN regs[c] + 1 ELSE regs[d]
    BY <2>1 DEF TypeOK
  <2>3. /\ n \in Nat /\ Len(clientFdList') = n + 1 /\ clientFdList'[n + 1] = new
        /\ \A i \in 1 .. n : clientFdList'[i] = clientFdList[i]
                             /\ clientFdList[i][1] \in Conns /\ clientFdList[i][2] \in Nat
    <3>1. clientFdList \in Seq(Registrations)  BY DEF TypeOK
    <3>2. new \in Registrations  BY <2>1 DEF Registrations
    <3>3. clientFdList' = Append(clientFdList, new)  OBVIOUS
    <3>4. \A i \in 1 .. n : clientFdList[i] \in Registrations  BY <3>1
    <3>5. \A i \in 1 .. n : clientFdList[i][1] \in Conns /\ clientFdList[i][2] \in Nat
      BY <3>4 DEF Registrations
    <3>. HIDE DEF new, IInv, EpollRegister
    <3>. QED  BY <3>1, <3>2, <3>3, <3>5, AppendProperties
  <2>4. \A i \in 1 .. n : /\ fdOf[clientFdList[i][1]] \in Fds
                          /\ clientFdList[i][2] <= regs[clientFdList[i][1]]
    BY DEF Registered
  <2>5. \A i, j \in 1 .. n : i < j /\ clientFdList[i][1] = clientFdList[j][1] =>
                                clientFdList[i][2] < clientFdList[j][2]
    BY DEF Registered
  <2>6. fdOf' = fdOf  OBVIOUS
  <2>7. new[1] = c /\ new[2] = regs[c] + 1  OBVIOUS
  <2>. HIDE DEF c, n, new, IInv, EpollRegister
  <2>8. ASSUME NEW i \in 1 .. n + 1
        PROVE  LET r == clientFdList'[i] IN fdOf'[r[1]] \in Fds /\ r[2] <= regs'[r[1]]
    <3>1. CASE i = n + 1  BY <2>1, <2>2, <2>3, <2>6, <2>7, <3>1
    <3>2. CASE i \in 1 .. n  BY <2>1, <2>2, <2>3, <2>4, <2>6, <3>2
    <3>. QED  BY <2>3, <3>1, <3>2
  <2>9. ASSUME NEW i \in 1 .. n + 1, NEW j \in 1 .. n + 1,
               i < j, clientFdList'[i][1] = clientFdList'[j][1]
        PROVE  clientFdList'[i][2] < clientFdList'[j][2]
    <3>1. i \in 1 .. n  BY <2>3, <2>9
    <3>2. CASE j = n + 1
      <4>1. clientFdList[i][1] = c /\ clientFdList[i][2] <= regs[c]
        BY <2>3, <2>4, <2>7, <2>9, <3>1, <3>2
      <4>. QED  BY <2>1, <2>3, <2>7, <3>1, <3>2, <4>1
    <3>3. CASE j \in 1 .. n  BY <2>3, <2>5, <2>9, <3>1, <3>3
    <3>. QED  BY <2>3, <3>2, <3>3
  <2>. QED  BY <2>3, <2>8, <2>9 DEF Registered
<1>6. Closing'  BY DEF TypeOK, Closing, Registered, Paired, Threads, Pushers
<1>. QED  BY <1>1, <1>2, <1>3, <1>4, <1>5, <1>6

\* Drop preserves the inductive invariant.
LEMMA Step_Drop ==
    ASSUME NEW f \in Fds, IInv, Drop(f) PROVE IInv'
<1>. USE NamesHold DEF Names, IInv, Drop, Go, queueVars, senderVars, netVars, history, NULL
<1>0. PICK At : KeptInOrder(f, At)  BY Deleted
<1>. DEFINE m == Len(clientFdList')
<1>a. /\ clientFdList' \in Seq(Registrations)
      /\ \A i \in 1 .. m : /\ At[i] \in 1 .. Len(clientFdList)
                           /\ clientFdList'[i] = clientFdList[At[i]]
                           /\ fdOf[clientFdList'[i][1]] # f
      /\ \A i, j \in 1 .. m : i < j <=> At[i] < At[j]
  BY <1>0 DEF KeptInOrder, Kept
<1>1. TypeOK'
  <2>2. pc' \in [Threads -> Pcs] /\ pc'["sender"] = pc["sender"]
    BY DEF TypeOK, Pcs, PushPcs, PopPcs, SenderPcs, Threads
  <2>. QED  BY <1>a, <2>2 DEF TypeOK
<1>2. Appending'  BY DEF TypeOK, Appending, Sending, PushPcs, Pushers, Threads, Nodes
<1>3. Sending'  BY DEF TypeOK, Sending, Appending, PushPcs, Pushers, Threads, Nodes
<1>4. Paired'  BY DEF TypeOK, Paired, Closing, Threads
<1>5. Registered'
  <2>. HIDE DEF m
  <2>1. \A i \in 1 .. m : LET r == clientFdList'[i] IN fdOf[r[1]] \in Fds /\ r[2] <= regs[r[1]]
    BY <1>a DEF Registered
  <2>2. \A i, j \in 1 .. m :
           i < j /\ clientFdList'[i][1] = clientFdList'[j][1] =>
               clientFdList'[i][2] < clientFdList'[j][2]
    <3>. SUFFICES ASSUME NEW i \in 1 .. m, NEW j \in 1 .. m, i < j,
                         clientFdList'[i][1] = clientFdList'[j][1]
                  PROVE  clientFdList'[i][2] < clientFdList'[j][2]
      OBVIOUS
    <3>1. /\ At[i] \in 1 .. Len(clientFdList) /\ At[j] \in 1 .. Len(clientFdList)
          /\ At[i] < At[j]
          /\ clientFdList'[i] = clientFdList[At[i]] /\ clientFdList'[j] = clientFdList[At[j]]
      BY <1>a
    <3>. QED  BY <3>1 DEF Registered
  <2>. QED  BY <2>1, <2>2 DEF Registered, m
<1>6. Closing'
  <2>1. \A i \in 1 .. m : fdOf[clientFdList'[i][1]] # f  BY <1>a
  <2>2. file[f] \in Conns /\ hungup' = f /\ file' = file /\ fdOf' = fdOf  BY DEF Paired
  <2>. QED  BY <2>1, <2>2 DEF Closing
<1>. QED  BY <1>1, <1>2, <1>3, <1>4, <1>5, <1>6

\* EpollOverflow preserves the inductive invariant.
LEMMA Step_EpollOverflow ==
    ASSUME NEW f \in Fds, IInv, EpollOverflow(f) PROVE IInv'
<1>. USE NamesHold DEF Names, IInv, EpollOverflow, Die, Go, queueVars, senderVars, netVars,
  history, NULL
<1>1. TypeOK'  BY DEF TypeOK, Pcs, PushPcs, PopPcs, SenderPcs, Nodes, Threads, Pushers,
  Sending, Registered, Closing
<1>2. Appending'  BY DEF TypeOK, Appending, Sending, PushPcs, Pushers, Threads, Nodes
<1>3. Sending'  BY DEF TypeOK, Sending, Appending, PushPcs, Pushers, Threads, Nodes
<1>4. Paired'  BY DEF TypeOK, Paired, Closing, Threads
<1>5. Registered'  BY DEF TypeOK, Registered, Paired, Closing, Threads
<1>6. Closing'  BY DEF TypeOK, Closing, Registered, Paired, Threads, Pushers
<1>. QED  BY <1>1, <1>2, <1>3, <1>4, <1>5, <1>6

\* EpollClose preserves the inductive invariant.
LEMMA Step_EpollClose ==
    ASSUME IInv, EpollClose PROVE IInv'
<1>. USE NamesHold DEF Names, IInv, EpollClose, Go, queueVars, senderVars, netVars,
  history, NULL
<1>1. TypeOK'
  <2>1. hungup \in Fds /\ file[hungup] \in Conns  BY DEF Closing
  <2>2. pc' \in [Threads -> Pcs] /\ pc'["sender"] = pc["sender"]
    BY DEF TypeOK, Pcs, PushPcs, PopPcs, SenderPcs, Threads
  <2>3. /\ peer' \in [Conns -> {"away", "open", "closed", "reset", "broken", "gone"}]
        /\ regs' \in [Conns -> Nat] /\ fdOf' \in [Conns -> Fds \cup {NoFd}]
        /\ file' \in [Fds -> Conns \cup {NoConn}]
    BY <2>1 DEF TypeOK
  <2>4. offered' \in [Conns -> Nodes] /\ turn' \in [Conns -> Nat]
    BY <2>1 DEF TypeOK, Nodes
  <2>5. watched' \subseteq Fds /\ hungup' \in Fds \cup {NoFd}  BY DEF TypeOK
  <2>6. recycled' \in BOOLEAN
    <3>1. recycled' = (recycled \/ (pc["sender"] = "write" /\ wfd = hungup))  OBVIOUS
    <3>. QED  BY <3>1, Zenon
  <2>. QED  BY <2>2, <2>3, <2>4, <2>5, <2>6 DEF TypeOK
<1>2. Appending'  BY DEF TypeOK, Appending, Sending, PushPcs, Pushers, Threads, Nodes
<1>3. Sending'  BY DEF TypeOK, Sending, Appending, PushPcs, Pushers, Threads, Nodes
<1>4. Paired'  BY DEF TypeOK, Paired, Closing, Threads
<1>5. Registered'  BY DEF TypeOK, Registered, Paired, Closing, Threads
<1>6. Closing'  BY DEF TypeOK, Closing, Registered, Paired, Threads, Pushers
<1>. QED  BY <1>1, <1>2, <1>3, <1>4, <1>5, <1>6

\* PeerClose preserves the inductive invariant.
LEMMA Step_PeerClose ==
    ASSUME NEW c \in Conns, IInv, PeerClose(c) PROVE IInv'
<1>. USE NamesHold DEF Names, IInv, PeerClose, Listening, Go, queueVars, senderVars,
  netVars, history, NULL
<1>1. TypeOK'
  BY ZenonT(60) DEF TypeOK, Pcs, PushPcs, PopPcs, SenderPcs, Nodes, Threads, Pushers,
  Sending, Registered, Closing
<1>2. Appending'  BY DEF TypeOK, Appending, Sending, PushPcs, Pushers, Threads, Nodes
<1>3. Sending'  BY DEF TypeOK, Sending, Appending, PushPcs, Pushers, Threads, Nodes
<1>4. Paired'  BY DEF TypeOK, Paired, Closing, Threads
<1>5. Registered'  BY DEF TypeOK, Registered, Paired, Closing, Threads
<1>6. Closing'  BY DEF TypeOK, Closing, Registered, Paired, Threads, Pushers
<1>. QED  BY <1>1, <1>2, <1>3, <1>4, <1>5, <1>6

-----------------------------------------------------------------------------
\* Every step preserves the inductive invariant.
LEMMA NextIInv == IInv /\ [Next]_vars => IInv'
<1>. SUFFICES ASSUME IInv, [Next]_vars PROVE IInv'  OBVIOUS
<1>1. CASE ServerInit  BY <1>1, Step_ServerInit
<1>2. CASE ServerExit  BY <1>2, Step_ServerExit
<1>3. ASSUME NEW t \in Pushers, EnqueueServerMsg(t) PROVE IInv'
  BY <1>3, Step_EnqueueServerMsg
<1>4. ASSUME NEW t \in Pushers, Push(t) PROVE IInv'
  BY <1>4, Step_PushLock, Step_PushHead, Step_PushFirst, Step_PushTail, Step_PushLink,
     Step_PushSet DEF Push
<1>5. CASE Sender
  BY <1>5, Step_SenderWait, Step_SenderFront, Step_WalkVisit, Step_WalkStep, Step_WriteSent,
     Step_WriteLost, Step_PopRead, Step_PopHead, Step_PopTail DEF Sender
<1>6. CASE Epoll
  BY <1>6, Step_EpollAccept, Step_EpollRegister, Step_Drop, Step_EpollOverflow,
     Step_EpollClose DEF Epoll, EpollClient, EpollEnd, EpollHangup, EpollEmpty
<1>7. CASE Peers  BY <1>7, Step_PeerClose DEF Peers
<1>8. CASE UNCHANGED vars
  <2>. USE <1>8 DEF vars, queueVars, senderVars, netVars, history, IInv
  <2>1. TypeOK'  BY DEF TypeOK, Nodes
  <2>2. Appending' /\ Sending'  BY DEF Appending, Sending
  <2>3. Paired' /\ Registered' /\ Closing'  BY DEF Paired, Registered, Closing
  <2>. QED  BY <2>1, <2>2, <2>3
<1>. QED  BY <1>1, <1>2, <1>3, <1>4, <1>5, <1>6, <1>7, <1>8 DEF Next

\* Every reachable state satisfies the inductive invariant.
THEOREM Invariance == Spec => []IInv
<1>. QED  BY InitIInv, NextIInv, PTL DEF Spec

\* Every variable of socket_server.c keeps its type, and the sender writes to
\* descriptors only.
THEOREM TypeCorrect == Spec => []TypeOK
<1>1. IInv => TypeOK  BY DEF IInv
<1>. QED  BY <1>1, Invariance, PTL

\* Whatever clients and the other threads do, the epoll thread lists a client only
\* while its descriptor is open on its own connection.
THEOREM ClientsListedOpen == Spec => []ListedOpen
<1>1. IInv => ListedOpen
  <2>. SUFFICES ASSUME IInv, NEW c \in Listed
                PROVE  fdOf[c] \in Fds /\ file[fdOf[c]] = c
    BY DEF ListedOpen
  <2>1. c \in Conns  BY ListedConns DEF IInv
  <2>2. fdOf[c] \in Fds  BY DEF IInv, Registered, Listed, OnList
  <2>. QED  BY <2>1, <2>2 DEF IInv, Paired
<1>. QED  BY <1>1, Invariance, PTL

-----------------------------------------------------------------------------
(* The order of messages: what serverMsgsList holds, what clients have been *)
(* offered and where the walk is.                                           *)

\* The threads start and die together, and start with an empty list.
Together ==
    /\ \A t, u \in Threads :
          (pc[t] = "dead" => pc[u] = "dead") /\ (pc[t] = "off" => pc[u] = "off")
    /\ pc["app"] = "off" => head = NULL

\* Who holds the mutex is inside push_back().
Held == \A t \in Pushers : mutex = t => pc[t] \in PushPcs \cup {"dead"}

LastLinked == count - Unlinked

\* Whatever races there are, links lead to later messages only, and to no message
\* that is still to be linked.
Rising ==
    /\ head <= LastLinked /\ tail <= LastLinked /\ ptail <= LastLinked
    /\ msg <= LastLinked /\ after <= LastLinked
    /\ \A n \in 1 .. MaxMsgs : next[n] # NULL => n < next[n] /\ next[n] <= LastLinked
    /\ pc["sender"] = "pop_head" /\ after # NULL => msg < after
    /\ \A t \in Pushers : pc[t] \in PushPcs => count \in 1 .. MaxMsgs

AtSet == \E t \in Pushers : pc[t] = "set"

\* While an append met no removal at the last node, the list links what waits, in order.
FirstWaits ==
    head # NULL =>
        /\ freed = 1 .. head - 1
        /\ \A n \in head .. LastLinked : next[n] = IF n = LastLinked THEN NULL ELSE n + 1
        /\ ~AtSet => tail = LastLinked
NothingWaits ==
    head = NULL /\ pc["sender"] # "pop_tail" =>
        freed = 1 .. LastLinked /\ tail = NULL /\ ~AtSet
LastTaken ==
    /\ pc["sender"] = "pop_head" =>
          IF after = NULL THEN mutex = "free" /\ msg = count ELSE after = msg + 1
    /\ pc["sender"] = "pop_tail" =>
          /\ head = NULL /\ mutex = "free"
          /\ msg = count /\ tail = count /\ freed = 1 .. count - 1
ToBeLinked ==
    \A t \in Pushers :
        /\ pc[t] \in {"tail", "link"} => head # NULL
        /\ pc[t] = "link" => ptail = count - 1
        /\ pc[t] \in NotInList => next[count] = NULL
Linked ==
    (~overlap /\ pc["app"] # "dead") =>
        FirstWaits /\ NothingWaits /\ LastTaken /\ ToBeLinked

Walking == {"visit", "write", "step"}

\* Every client has been offered what came before the message in hand, and perhaps
\* that; who has not registered, nothing.
Offered(c) ==
    /\ offered[c] <= LastLinked
    /\ fdOf[c] = NoFd => offered[c] = NULL
    /\ pc["sender"] \in Walking \cup {"pop_read", "pop_head"} => offered[c] <= msg
    /\ pc["sender"] \notin Walking \cup {"pop_read", "pop_head"} =>
          head = NULL \/ offered[c] < head
    /\ \/ offered[c] = NULL
       \/ regs[c] > 0 /\ turn[c] <= regs[c]
       \/ pc["sender"] = "step" /\ it \notin OnList
Offering == ~ub /\ pc["sender"] # "dead" => \A c \in Conns : Offered(c)

\* The walk owes nothing more to a client.
Done(c) ==
    kind[msg] \notin Wants[c] \cup {HEARTBEAT} \/ peer[c] # "open" \/ offered[c] = msg

\* A client of whom nothing is read any more.
Leaving(c) == (pc["epoll"] = "close" /\ fdOf[c] = hungup) \/ peer[c] = "gone"

\* The message in hand was not offered for a registration, nor for a later one.
Fresh(r) == offered[r[1]] < msg \/ turn[r[1]] < r[2]

\* The walk has offered the message for the nodes before it in clientFdList and for none
\* behind it.
Passed(c) == c \in audience => Done(c)
Before ==
    \A i, j \in 1 .. Len(clientFdList) :
        clientFdList[j] = it =>
            /\ pc["sender"] \in Walking /\ i < j => Passed(clientFdList[i][1])
            /\ pc["sender"] \in Walking /\ j < i => Fresh(clientFdList[i])
            /\ pc["sender"] \in {"visit", "write"} => Fresh(it)
            /\ pc["sender"] = "step" => Passed(it[1])
\* The descriptor the sender writes to is that of the node it has reached, unless the
\* connection was closed; then it is nobody's or that of a client new to the server.
Aimed ==
    pc["sender"] = "write" =>
        /\ it \in OnList => wfd = fdOf[it[1]]
        /\ it \notin OnList /\ file[wfd] \in Conns =>
              \/ peer[file[wfd]] # "open" \/ offered[file[wfd]] = NULL
              \/ file[wfd] = it[1] /\ Fresh(it)
        /\ ~recycled => /\ file[wfd] = it[1] /\ regs[it[1]] > 0
                        /\ kind[msg] \in Wants[it[1]] \cup {HEARTBEAT}
InWalk ==
    ~ub =>
        /\ pc["sender"] \in Walking =>
              it \in Registrations /\ (it \in OnList \/ Leaving(it[1]))
        /\ pc["sender"] \in Walking \cup {"pop_read"} =>
              \A c \in audience : c \in Listed \/ Leaving(c)
        /\ pc["sender"] = "pop_read" => \A c \in audience \cap Listed : Done(c)
        /\ Before
        /\ Aimed

QueueOrder == Together /\ Held /\ Rising /\ Linked

OrderInv == QueueOrder /\ Offering /\ InWalk

-----------------------------------------------------------------------------

(* The list.                                                               *)

\* At most one message is allocated and not linked yet.
LEMMA OneUnlinked ==
    /\ Unlinked \in {0, 1}
    /\ Unlinked = 1 <=> \E t \in Pushers : pc[t] \in NotInList
BY DEF Unlinked

\* What the list says stays true while nobody changes the list, nor where push_back()
\* and pop_front() are.
LEMMA QueueKept ==
    ASSUME IInv, IInv', QueueOrder, Together',
           UNCHANGED <<queueVars, msg, after>>, overlap => overlap',
           pc["app"] = "dead" => pc'["app"] = "dead",
           \A t \in Pushers : pc[t] \in PushPcs \/ pc'[t] \in PushPcs => pc'[t] = pc[t],
           \A p \in {"pop_head", "pop_tail"} : pc'["sender"] = p <=> pc["sender"] = p
    PROVE  QueueOrder'
<1>. USE NamesHold DEF Names, queueVars
<1>1. Held'
  BY DEF QueueOrder, Held, Together, Appending, IInv, Pushers, Threads, TypeOK, Pcs
<1>2. Unlinked' = Unlinked /\ AtSet' = AtSet
  BY DEF Unlinked, AtSet, NotInList, PushPcs, Pushers
<1>3. Rising'
  BY <1>2 DEF QueueOrder, Rising, LastLinked
<1>4. Linked'
  BY <1>2 DEF QueueOrder, Linked, FirstWaits, NothingWaits, LastTaken, ToBeLinked,
     LastLinked, NotInList, PushPcs
<1>. QED  BY <1>1, <1>3, <1>4 DEF QueueOrder

\* Nothing is said of the list of a dead process.
LEMMA QueueDied ==
    ASSUME IInv, IInv', QueueOrder, Die, UNCHANGED <<queueVars, msg, after>>
    PROVE  QueueOrder'
<1>. USE NamesHold DEF Names, queueVars, Die
<1>1. \A t \in Threads : pc'[t] = "dead"  OBVIOUS
<1>2. Together' /\ Held' /\ Linked'
  BY <1>1 DEF Together, Held, Linked, Threads, Pushers
<1>3. Unlinked' = 0 /\ LastLinked' = count
  BY <1>1 DEF Unlinked, NotInList, Pushers, Threads, LastLinked, IInv, TypeOK, Nodes
<1>4. LastLinked <= LastLinked' /\ LastLinked \in Int /\ LastLinked' \in Int
  BY <1>3, OneUnlinked DEF LastLinked, IInv, TypeOK, Nodes
<1>5. /\ head' <= LastLinked' /\ tail' <= LastLinked' /\ ptail' <= LastLinked'
      /\ msg' <= LastLinked' /\ after' <= LastLinked'
  BY SMTT(60), <1>3, <1>4 DEF QueueOrder, Rising, IInv, TypeOK, Nodes
<1>6. \A n \in 1 .. MaxMsgs : next'[n] # NULL => n < next'[n] /\ next'[n] <= LastLinked'
  <2>1. TAKE n \in 1 .. MaxMsgs
  <2>2. next' = next /\ next[n] \in Int /\ n \in Int  BY DEF IInv, TypeOK, Nodes
  <2>3. next[n] # NULL => n < next[n] /\ next[n] <= LastLinked  BY DEF QueueOrder, Rising
  <2>. QED  BY <1>4, <2>2, <2>3
<1>7. pc'["sender"] # "pop_head" /\ \A t \in Pushers : pc'[t] \notin PushPcs
  BY <1>1 DEF PushPcs, Pushers, Threads
<1>8. Rising'
  BY <1>5, <1>6, <1>7 DEF Rising
<1>. QED  BY <1>2, <1>8 DEF QueueOrder

\* ServerInit keeps the order of the list.
LEMMA Queue_ServerInit ==
    ASSUME IInv, IInv', QueueOrder, ServerInit PROVE QueueOrder'
<1>. USE NamesHold DEF Names, IInv, QueueOrder, ServerInit, queueVars, senderVars, netVars,
  history, Go, NULL
<1>1. Together'  BY DEF TypeOK, Together, Pushers, Threads
<1>2. Held'  BY DEF TypeOK, Held, Appending, PushPcs, Pushers, Threads
<1>3. Rising'
  BY DEF TypeOK, Together, Held, Rising, Linked, FirstWaits, NothingWaits, LastTaken,
     ToBeLinked, AtSet, LastLinked, Unlinked, NotInList, Appending, Sending, PushPcs,
     Pushers, Threads, Nodes, PopPcs
<1>4. Linked'
  <2>. SUFFICES ASSUME ~overlap PROVE FirstWaits' /\ NothingWaits' /\ LastTaken' /\ ToBeLinked'
    BY DEF Linked
  <2>1. \A u \in Threads : pc[u] = "off" /\ pc'[u] \in {"lock", "idle"}
    BY DEF Together, Threads, TypeOK
  <2>2. Unlinked = 0 /\ Unlinked' = 0 /\ ~AtSet /\ ~AtSet'
    BY <2>1 DEF Unlinked, NotInList, AtSet, Pushers, Threads
  <2>3. freed = 1 .. LastLinked
    <3>1. CASE head = NULL  BY <2>1, <3>1 DEF Linked, NothingWaits, Threads
    <3>2. CASE head # NULL  BY <2>1, <3>2 DEF Together, Threads
    <3>. QED  BY <3>1, <3>2
  <2>4. LastLinked' = LastLinked  BY <2>2 DEF LastLinked
  <2>. QED
    BY <2>1, <2>2, <2>3, <2>4 DEF FirstWaits, NothingWaits, LastTaken, ToBeLinked,
      NotInList,
       Pushers, Threads
<1>. QED  BY <1>1, <1>2, <1>3, <1>4

\* ServerExit keeps the order of the list.
LEMMA Queue_ServerExit ==
    ASSUME IInv, IInv', QueueOrder, ServerExit PROVE QueueOrder'
<1>. USE NamesHold DEF Names, IInv, QueueOrder, ServerExit, CancelPoint, Messages,
  queueVars, senderVars, netVars, history, Go, NULL
<1>1. Together'  BY DEF TypeOK, Together, Pushers, Threads
<1>2. Held'  BY DEF TypeOK, Held, Appending, PushPcs, Pushers, Threads
<1>3. Rising'
  BY SMTT(60) DEF TypeOK, Together, Held, Rising, Linked, FirstWaits, NothingWaits, LastTaken,
     ToBeLinked, AtSet, LastLinked, Unlinked, NotInList, Appending, Sending, PushPcs,
     Pushers, Threads, Nodes, PopPcs
<1>4. Linked'
  BY DEF TypeOK, Together, Held, Rising, Linked, FirstWaits, NothingWaits, LastTaken,
     ToBeLinked, AtSet, LastLinked, Unlinked, NotInList, Appending, Sending, PushPcs,
     Pushers, Threads, Nodes, PopPcs
<1>. QED  BY <1>1, <1>2, <1>3, <1>4

\* PushLock keeps the order of the list.
LEMMA Queue_PushLock ==
    ASSUME NEW t \in Pushers, IInv, IInv', QueueOrder, PushLock(t) PROVE QueueOrder'
<1>. USE NamesHold DEF Names, IInv, QueueOrder, PushLock, KindsOf, AtLastNode, queueVars,
  senderVars, netVars, history, Go, NULL
<1>1. Together'  BY DEF TypeOK, Together, Pushers, Threads
<1>2. Held'  BY DEF TypeOK, Held, Appending, PushPcs, Pushers, Threads
<1>3. Rising'
  <2>1. Unlinked = 0 /\ Unlinked' = 1
    <3>1. \A u \in Pushers : pc[u] \notin PushPcs  BY DEF Appending, Pushers
    <3>2. pc'[t] \in NotInList  BY DEF NotInList, TypeOK, Pushers, Threads
    <3>. QED  BY <3>1, <3>2 DEF Unlinked, NotInList, PushPcs
  <2>2. LastLinked = count /\ LastLinked' = count /\ count \in Nat /\ count + 1 \in 1 .. MaxMsgs
    BY <2>1 DEF LastLinked, TypeOK, Nodes
  <2>3. \A n \in 1 .. MaxMsgs : next'[n] # NULL => n < next'[n] /\ next'[n] <= LastLinked'
    BY <2>2 DEF Rising, TypeOK
  <2>4. pc'["sender"] = pc["sender"]  BY DEF TypeOK, Pushers, Threads
  <2>. QED  BY <2>2, <2>3, <2>4 DEF Rising
<1>4. Linked'
  <2>. SUFFICES ASSUME ~overlap' PROVE FirstWaits' /\ NothingWaits' /\ LastTaken' /\ ToBeLinked'
    BY DEF Linked
  <2>1. \A u \in Pushers : pc[u] \notin PushPcs  BY DEF Appending, Pushers
  <2>2. pc'[t] = "head" /\ pc'["sender"] = pc["sender"]
        /\ \A u \in Pushers : u # t => pc'[u] = pc[u]
    BY DEF TypeOK, Pushers, Threads
  <2>3. Unlinked = 0 /\ Unlinked' = 1 /\ ~AtSet /\ ~AtSet'
    BY <2>1, <2>2 DEF Unlinked, AtSet, NotInList, PushPcs
  <2>4. LastLinked = count /\ LastLinked' = count /\ count \in Nat /\ count + 1 \in 1 .. MaxMsgs
        /\ \A n \in 1 .. MaxMsgs : next'[n] = IF n = count + 1 THEN NULL ELSE next[n]
    BY <2>3 DEF LastLinked, TypeOK, Nodes
  <2>5. ~overlap /\ pc["app"] # "dead"
    <3>1. ~overlap  BY DEF TypeOK
    <3>. QED  BY <3>1 DEF Together, Pushers, Threads
  <2>6. FirstWaits /\ NothingWaits /\ LastTaken /\ ToBeLinked  BY <2>5 DEF Linked
  <2>7. ~(pc["sender"] \in PopPcs /\ next[msg] = NULL)  OBVIOUS
  <2>8. pc["sender"] = "pop_head" => after # NULL
    <3>1. ASSUME pc["sender"] = "pop_head", after = NULL PROVE FALSE
      <4>1. msg = count /\ msg = head /\ head \in 1 .. MaxMsgs
        BY <3>1, <2>6 DEF LastTaken, Sending
      <4>2. head # NULL /\ head = LastLinked /\ head \in head .. LastLinked
        <5>1. LastLinked = count  BY <2>4
        <5>2. head = LastLinked  BY <4>1, <5>1
        <5>3. head \in Nat /\ head # 0  BY <4>1
        <5>4. head \in head .. head  BY <5>3
        <5>. QED  BY <5>2, <5>3, <5>4
      <4>3. next[head] = NULL  BY <4>2, <2>6 DEF FirstWaits
      <4>. QED  BY <4>1, <4>3, <2>7, <3>1 DEF PopPcs
    <3>. QED  BY <3>1
  <2>9. pc["sender"] # "pop_tail"
    <3>1. ASSUME pc["sender"] = "pop_tail" PROVE FALSE
      <4>1. msg \in 1 .. MaxMsgs /\ msg = count  BY <3>1, <2>6 DEF LastTaken, Sending
      <4>2. next[count] = NULL
        <5>1. next[count] # NULL => count < next[count] /\ next[count] <= count
          BY <4>1, <2>4 DEF Rising
        <5>. QED  BY <5>1, <4>1, <2>4 DEF TypeOK, Nodes
      <4>. QED  BY <4>1, <4>2, <2>7, <3>1 DEF PopPcs
    <3>. QED  BY <3>1
  <2>10. FirstWaits'
    BY <2>3, <2>4, <2>6 DEF FirstWaits, TypeOK, Nodes
  <2>11. NothingWaits'  BY <2>2, <2>3, <2>4, <2>6 DEF NothingWaits
  <2>12. LastTaken'  BY <2>2, <2>6, <2>8, <2>9 DEF LastTaken
  <2>13. ToBeLinked'  BY <2>1, <2>2, <2>4 DEF ToBeLinked, NotInList, PushPcs
  <2>. QED  BY <2>10, <2>11, <2>12, <2>13
<1>. QED  BY <1>1, <1>2, <1>3, <1>4

\* PushHead keeps the order of the list.
LEMMA Queue_PushHead ==
    ASSUME NEW t \in Pushers, IInv, IInv', QueueOrder, PushHead(t) PROVE QueueOrder'
<1>. USE NamesHold DEF Names, IInv, QueueOrder, PushHead, queueVars, senderVars, netVars,
  history, Go, NULL
<1>1. Together'  BY DEF TypeOK, Together, Pushers, Threads
<1>2. Held'  BY DEF TypeOK, Held, Appending, PushPcs, Pushers, Threads
<1>3. Rising'
  BY DEF TypeOK, Together, Held, Rising, Linked, FirstWaits, NothingWaits, LastTaken,
     ToBeLinked, AtSet, LastLinked, Unlinked, NotInList, Appending, Sending, PushPcs,
     Pushers, Threads, Nodes, PopPcs
<1>4. Linked'
  BY DEF TypeOK, Together, Held, Rising, Linked, FirstWaits, NothingWaits, LastTaken,
     ToBeLinked, AtSet, LastLinked, Unlinked, NotInList, Appending, Sending, PushPcs,
     Pushers, Threads, Nodes, PopPcs
<1>. QED  BY <1>1, <1>2, <1>3, <1>4

\* PushFirst keeps the order of the list.
LEMMA Queue_PushFirst ==
    ASSUME NEW t \in Pushers, IInv, IInv', QueueOrder, PushFirst(t) PROVE QueueOrder'
<1>. USE NamesHold DEF Names, IInv, QueueOrder, PushFirst, queueVars, senderVars, netVars,
  history, Go, NULL
<1>1. Together'  BY DEF TypeOK, Together, Pushers, Threads
<1>2. Held'  BY DEF TypeOK, Held, Appending, PushPcs, Pushers, Threads
<1>3. Rising'
  BY DEF TypeOK, Together, Held, Rising, Linked, FirstWaits, NothingWaits, LastTaken,
     ToBeLinked, AtSet, LastLinked, Unlinked, NotInList, Appending, Sending, PushPcs,
     Pushers, Threads, Nodes, PopPcs
<1>4. Linked'
  BY DEF TypeOK, Together, Held, Rising, Linked, FirstWaits, NothingWaits, LastTaken,
     ToBeLinked, AtSet, LastLinked, Unlinked, NotInList, Appending, Sending, PushPcs,
     Pushers, Threads, Nodes, PopPcs
<1>. QED  BY <1>1, <1>2, <1>3, <1>4

\* PushTail keeps the order of the list.
LEMMA Queue_PushTail ==
    ASSUME NEW t \in Pushers, IInv, IInv', QueueOrder, PushTail(t) PROVE QueueOrder'
<1>. USE NamesHold DEF Names, IInv, QueueOrder, PushTail, Die, queueVars, senderVars,
  netVars, history, Go, NULL
<1>1. Together'  BY DEF TypeOK, Together, Pushers, Threads
<1>2. Held'  BY DEF TypeOK, Held, Appending, PushPcs, Pushers, Threads
<1>3. Rising'
  BY DEF TypeOK, Together, Held, Rising, Linked, FirstWaits, NothingWaits, LastTaken,
     ToBeLinked, AtSet, LastLinked, Unlinked, NotInList, Appending, Sending, PushPcs,
     Pushers, Threads, Nodes, PopPcs
<1>4. Linked'
  BY DEF TypeOK, Together, Held, Rising, Linked, FirstWaits, NothingWaits, LastTaken,
     ToBeLinked, AtSet, LastLinked, Unlinked, NotInList, Appending, Sending, PushPcs,
     Pushers, Threads, Nodes, PopPcs
<1>. QED  BY <1>1, <1>2, <1>3, <1>4

\* PushLink keeps the order of the list.
LEMMA Queue_PushLink ==
    ASSUME NEW t \in Pushers, IInv, IInv', QueueOrder, PushLink(t) PROVE QueueOrder'
<1>. USE NamesHold DEF Names, IInv, QueueOrder, PushLink, Die, queueVars, senderVars,
  netVars, history, Go, NULL
<1>1. Together'  BY DEF TypeOK, Together, Pushers, Threads
<1>2. Held'  BY DEF TypeOK, Held, Appending, PushPcs, Pushers, Threads
<1>3. Rising'
  BY SMTT(60) DEF TypeOK, Together, Held, Rising, Linked, FirstWaits, NothingWaits, LastTaken,
     ToBeLinked, AtSet, LastLinked, Unlinked, NotInList, Appending, Sending, PushPcs,
     Pushers, Threads, Nodes, PopPcs
<1>4. Linked'
  <2>. SUFFICES ASSUME ~overlap, pc'["app"] # "dead"
                PROVE  FirstWaits' /\ NothingWaits' /\ LastTaken' /\ ToBeLinked'
    BY DEF Linked
  <2>1. pc'[t] = "set" /\ \A u \in Threads : u # t => pc'[u] = pc[u]
    BY DEF TypeOK, Pushers, Threads
  <2>2. mutex = t /\ (\A u \in Pushers : u # t => pc[u] \notin PushPcs)
    BY DEF Appending, PushPcs
  <2>3. AtSet' /\ ~AtSet /\ Unlinked = 1 /\ Unlinked' = 0
    <3>1. pc[t] \in NotInList /\ \A u \in Pushers : pc'[u] \notin NotInList
      BY <2>1, <2>2 DEF NotInList, PushPcs, Pushers, Threads
    <3>. QED  BY <2>1, <2>2, <3>1 DEF AtSet, Unlinked, PushPcs
  <2>4. LastLinked = count - 1 /\ LastLinked' = count /\ count \in 1 .. MaxMsgs
    BY <2>3 DEF LastLinked, Rising, TypeOK, Nodes, PushPcs
  <2>5. pc["app"] # "dead"  BY DEF Together, Pushers, Threads
  <2>6. FirstWaits /\ NothingWaits /\ LastTaken /\ ToBeLinked  BY <2>5 DEF Linked
  <2>7. head # NULL /\ ptail = count - 1 /\ next[count] = NULL /\ head \in Nat /\ head <= ptail
    BY <2>4, <2>6 DEF ToBeLinked, NotInList, Rising, TypeOK, Nodes
  <2>8. ptail \in 1 .. MaxMsgs
        /\ \A n \in 1 .. MaxMsgs : next'[n] = IF n = ptail THEN count ELSE next[n]
    BY <2>4, <2>7 DEF TypeOK
  <2>9. \A n \in head .. count : next'[n] = IF n = count THEN NULL ELSE n + 1
    <3>. SUFFICES ASSUME NEW n \in head .. count
                  PROVE  next'[n] = IF n = count THEN NULL ELSE n + 1
      OBVIOUS
    <3>1. n \in 1 .. MaxMsgs  BY <2>4, <2>7
    <3>2. CASE n = count  BY <3>2, <2>4, <2>7, <2>8
    <3>3. CASE n = ptail  BY <3>3, <2>4, <2>7, <2>8
    <3>4. CASE n # count /\ n # ptail
      <4>1. n \in head .. LastLinked /\ n # LastLinked  BY <3>4, <2>4, <2>7
      <4>2. next[n] = n + 1  BY <4>1, <2>6, <2>7 DEF FirstWaits
      <4>. QED  BY <4>2, <3>1, <3>4, <2>8
    <3>. QED  BY <3>2, <3>3, <3>4
  <2>10. FirstWaits'  BY <2>3, <2>4, <2>6, <2>7, <2>9 DEF FirstWaits
  <2>11. NothingWaits'  BY <2>7 DEF NothingWaits
  <2>12. LastTaken'
    <3>1. pc'["sender"] = pc["sender"]  BY <2>1 DEF Pushers, Threads
    <3>. QED  BY <3>1, <2>2, <2>6 DEF LastTaken, Pushers
  <2>13. ToBeLinked'  BY <2>1, <2>2 DEF ToBeLinked, NotInList, PushPcs, Pushers, Threads
  <2>. QED  BY <2>10, <2>11, <2>12, <2>13
<1>. QED  BY <1>1, <1>2, <1>3, <1>4

\* PushSet keeps the order of the list.
LEMMA Queue_PushSet ==
    ASSUME NEW t \in Pushers, IInv, IInv', QueueOrder, PushSet(t) PROVE QueueOrder'
<1>. USE NamesHold DEF Names, IInv, QueueOrder, PushSet, Signal, queueVars, senderVars,
  netVars, history, Go, NULL
<1>1. Together'  BY DEF TypeOK, Together, Pushers, Threads
<1>2. Held'  BY DEF TypeOK, Held, Appending, PushPcs, Pushers, Threads
<1>3. Rising'
  BY SMTT(60) DEF TypeOK, Together, Held, Rising, Linked, FirstWaits, NothingWaits, LastTaken,
     ToBeLinked, AtSet, LastLinked, Unlinked, NotInList, Appending, Sending, PushPcs,
     Pushers, Threads, Nodes, PopPcs
<1>4. Linked'
  BY SMTT(60) DEF TypeOK, Together, Held, Rising, Linked, FirstWaits, NothingWaits, LastTaken,
     ToBeLinked, AtSet, LastLinked, Unlinked, NotInList, Appending, Sending, PushPcs,
     Pushers, Threads, Nodes, PopPcs
<1>. QED  BY <1>1, <1>2, <1>3, <1>4

\* SenderFront keeps the order of the list.
LEMMA Queue_SenderFront ==
    ASSUME IInv, IInv', QueueOrder, SenderFront PROVE QueueOrder'
<1>. USE NamesHold DEF Names, IInv, QueueOrder, SenderFront, Arrive, queueVars, senderVars,
  netVars, history, Go, NULL
<1>1. Together'  BY DEF TypeOK, Together, Pushers, Threads
<1>2. Held'  BY DEF TypeOK, Held, Appending, PushPcs, Pushers, Threads
<1>3. Rising'
  BY DEF TypeOK, Together, Held, Rising, Linked, FirstWaits, NothingWaits, LastTaken,
     ToBeLinked, AtSet, LastLinked, Unlinked, NotInList, Appending, Sending, PushPcs,
     Pushers, Threads, Nodes, PopPcs
<1>4. Linked'
  BY DEF TypeOK, Together, Held, Rising, Linked, FirstWaits, NothingWaits, LastTaken,
     ToBeLinked, AtSet, LastLinked, Unlinked, NotInList, Appending, Sending, PushPcs,
     Pushers, Threads, Nodes, PopPcs
<1>. QED  BY <1>1, <1>2, <1>3, <1>4

\* PopRead keeps the order of the list.
LEMMA Queue_PopRead ==
    ASSUME IInv, IInv', QueueOrder, PopRead PROVE QueueOrder'
<1>. USE NamesHold DEF Names, IInv, QueueOrder, PopRead, queueVars, senderVars, netVars,
  history, Go, NULL
<1>1. Together'  BY DEF TypeOK, Together, Pushers, Threads
<1>2. Held'  BY DEF TypeOK, Held, Appending, PushPcs, Pushers, Threads
<1>3. Rising'
  BY DEF TypeOK, Together, Held, Rising, Linked, FirstWaits, NothingWaits, LastTaken,
     ToBeLinked, AtSet, LastLinked, Unlinked, NotInList, Appending, Sending, PushPcs,
     Pushers, Threads, Nodes, PopPcs
<1>4. Linked'
  <2>. SUFFICES ASSUME ~overlap' PROVE FirstWaits' /\ NothingWaits' /\ LastTaken' /\ ToBeLinked'
    BY DEF Linked
  <2>1. pc'["sender"] = "pop_head" /\ \A u \in Pushers : pc'[u] = pc[u]
    BY DEF TypeOK, Pushers, Threads
  <2>2. Unlinked' = Unlinked /\ AtSet' = AtSet /\ LastLinked' = LastLinked
    BY <2>1 DEF Unlinked, AtSet, LastLinked
  <2>3. ~overlap /\ pc["app"] # "dead"
    <3>1. ~overlap  BY DEF TypeOK
    <3>. QED  BY <3>1 DEF Together, Threads
  <2>4. FirstWaits /\ NothingWaits /\ LastTaken /\ ToBeLinked  BY <2>3 DEF Linked
  <2>5. head \in 1 .. MaxMsgs /\ msg = head /\ head <= LastLinked  BY DEF Sending, Rising
  <2>6. next[head] = IF head = LastLinked THEN NULL ELSE head + 1
    BY <2>4, <2>5, OneUnlinked DEF FirstWaits, LastLinked, TypeOK, Nodes
  <2>7. mutex = "free" => LastLinked = count
    BY DEF LastLinked, Unlinked, Appending, NotInList, PushPcs, Pushers, TypeOK, Nodes
  <2>8. LastTaken'
    <3>1. CASE next[head] = NULL
      <4>1. mutex = "free"  BY <3>1
      <4>2. head = LastLinked  BY <3>1, <2>5, <2>6
      <4>3. mutex' = "free" /\ msg' = count' /\ after' = NULL
        BY <4>1, <4>2, <2>5, <2>7, <3>1
      <4>. QED  BY <4>3, <2>1 DEF LastTaken
    <3>2. CASE next[head] # NULL  BY <3>2, <2>1, <2>5, <2>6 DEF LastTaken
    <3>. QED  BY <3>1, <3>2
  <2>. QED
    BY <2>1, <2>2, <2>4, <2>5, <2>8 DEF FirstWaits, NothingWaits, ToBeLinked
<1>. QED  BY <1>1, <1>2, <1>3, <1>4

\* PopHead keeps the order of the list.
LEMMA Queue_PopHead ==
    ASSUME IInv, IInv', QueueOrder, PopHead PROVE QueueOrder'
<1>. USE NamesHold DEF Names, IInv, QueueOrder, PopHead, HeadAfterPop, queueVars,
  senderVars, netVars, history, Go, NULL
<1>1. Together'  BY DEF TypeOK, Together, Pushers, Threads
<1>2. Held'  BY DEF TypeOK, Held, Appending, PushPcs, Pushers, Threads
<1>3. Rising'
  BY DEF TypeOK, Together, Held, Rising, Linked, FirstWaits, NothingWaits, LastTaken,
     ToBeLinked, AtSet, LastLinked, Unlinked, NotInList, Appending, Sending, PushPcs,
     Pushers, Threads, Nodes, PopPcs
<1>4. Linked'
  <2>. SUFFICES ASSUME ~overlap PROVE FirstWaits' /\ NothingWaits' /\ LastTaken' /\ ToBeLinked'
    BY DEF Linked
  <2>1. \A u \in Pushers : pc'[u] = pc[u]  BY DEF TypeOK, Pushers, Threads
  <2>2. Unlinked' = Unlinked /\ AtSet' = AtSet /\ LastLinked' = LastLinked
    BY <2>1 DEF Unlinked, AtSet, LastLinked
  <2>3. pc["app"] # "dead"  BY DEF Together, Threads
  <2>4. FirstWaits /\ NothingWaits /\ LastTaken /\ ToBeLinked  BY <2>3 DEF Linked
  <2>5. head \in 1 .. MaxMsgs /\ msg = head /\ head <= LastLinked  BY DEF Sending, Rising
  <2>6. LastLinked \in Int /\ count \in Nat
    BY OneUnlinked DEF LastLinked, TypeOK, Nodes
  <2>7. CASE after = NULL
    <3>1. mutex = "free" /\ msg = count  BY <2>4, <2>7 DEF LastTaken
    <3>2. ~AtSet /\ LastLinked = count /\ \A u \in Pushers : pc[u] \notin PushPcs
      BY <3>1 DEF LastLinked, Unlinked, AtSet, Appending, NotInList, PushPcs, Pushers,
        TypeOK,
         Nodes
    <3>3. head' = NULL /\ msg' = msg /\ pc'["sender"] = "pop_tail" /\ freed' = freed
      BY <2>7 DEF TypeOK, Threads
    <3>4. tail = count /\ freed = 1 .. count - 1
      BY <3>1, <3>2, <2>4, <2>5 DEF FirstWaits
    <3>. QED
      BY <3>1, <3>2, <3>3, <3>4, <2>1 DEF FirstWaits, NothingWaits, LastTaken, ToBeLinked,
         NotInList, PushPcs
  <2>8. CASE after # NULL
    <3>1. after = msg + 1 /\ after <= LastLinked  BY <2>4, <2>8 DEF LastTaken, Rising
    <3>2. head' = msg + 1 /\ pc'["sender"] = "lock" /\ freed' = freed \cup {msg} /\ head' # NULL
      BY <2>5, <2>8, <3>1 DEF TypeOK, Threads
    <3>3. freed' = 1 .. head' - 1
      BY <3>2, <2>4, <2>5 DEF FirstWaits
    <3>4. FirstWaits'
      BY <3>1, <3>2, <3>3, <2>2, <2>4, <2>5, <2>6 DEF FirstWaits
    <3>. QED  BY <3>2, <3>4, <2>1, <2>4 DEF NothingWaits, LastTaken, ToBeLinked
  <2>. QED  BY <2>7, <2>8
<1>. QED  BY <1>1, <1>2, <1>3, <1>4

\* PopTail keeps the order of the list.
LEMMA Queue_PopTail ==
    ASSUME IInv, IInv', QueueOrder, PopTail PROVE QueueOrder'
<1>. USE NamesHold DEF Names, IInv, QueueOrder, PopTail, TailAfterPop, queueVars,
  senderVars, netVars, history, Go, NULL
<1>1. Together'  BY DEF TypeOK, Together, Pushers, Threads
<1>2. Held'  BY DEF TypeOK, Held, Appending, PushPcs, Pushers, Threads
<1>3. Rising'
  BY DEF TypeOK, Together, Held, Rising, Linked, FirstWaits, NothingWaits, LastTaken,
     ToBeLinked, AtSet, LastLinked, Unlinked, NotInList, Appending, Sending, PushPcs,
     Pushers, Threads, Nodes, PopPcs
<1>4. Linked'
  BY DEF TypeOK, Together, Held, Rising, Linked, FirstWaits, NothingWaits, LastTaken,
     ToBeLinked, AtSet, LastLinked, Unlinked, NotInList, Appending, Sending, PushPcs,
     Pushers, Threads, Nodes, PopPcs
<1>. QED  BY <1>1, <1>2, <1>3, <1>4

\* EnqueueServerMsg leaves the list alone.
LEMMA Queue_EnqueueServerMsg ==
    ASSUME NEW t \in Pushers, IInv, IInv', QueueOrder, EnqueueServerMsg(t) PROVE QueueOrder'
<1>. USE DEF EnqueueServerMsg, queueVars, senderVars, netVars, history, Go, NULL
<1>1. Together'  BY DEF IInv, QueueOrder, TypeOK, Together, Pushers, Threads
<1>. QED  BY <1>1, QueueKept DEF IInv, TypeOK, PushPcs, Pushers, Threads

\* SenderWait leaves the list alone.
LEMMA Queue_SenderWait ==
    ASSUME IInv, IInv', QueueOrder, SenderWait PROVE QueueOrder'
<1>. USE DEF SenderWait, queueVars, senderVars, netVars, history, Go, NULL
<1>1. Together'  BY DEF IInv, QueueOrder, TypeOK, Together, Pushers, Threads
<1>. QED  BY <1>1, QueueKept DEF IInv, TypeOK, PushPcs, Pushers, Threads

\* WriteSent leaves the list alone.
LEMMA Queue_WriteSent ==
    ASSUME IInv, IInv', QueueOrder, WriteSent PROVE QueueOrder'
<1>. USE DEF WriteSent, Open, Written, queueVars, senderVars, netVars, history, Go, NULL
<1>1. Together'  BY DEF IInv, QueueOrder, TypeOK, Together, Pushers, Threads
<1>. QED  BY <1>1, QueueKept DEF IInv, TypeOK, PushPcs, Pushers, Threads

\* EpollAccept leaves the list alone.
LEMMA Queue_EpollAccept ==
    ASSUME NEW c \in Conns, NEW f \in Fds, IInv, IInv', QueueOrder, EpollAccept(c, f)
    PROVE  QueueOrder'
<1>. USE DEF EpollAccept, queueVars, senderVars, netVars, history, Go, NULL
<1>1. Together'  BY DEF IInv, QueueOrder, TypeOK, Together, Pushers, Threads
<1>. QED  BY <1>1, QueueKept DEF IInv, TypeOK, PushPcs, Pushers, Threads

\* EpollRegister leaves the list alone.
LEMMA Queue_EpollRegister ==
    ASSUME NEW f \in Fds, IInv, IInv', QueueOrder, EpollRegister(f) PROVE QueueOrder'
<1>. USE DEF EpollRegister, queueVars, senderVars, netVars, history, Go, NULL
<1>1. Together'  BY DEF IInv, QueueOrder, TypeOK, Together, Pushers, Threads
<1>. QED  BY <1>1, QueueKept DEF IInv, TypeOK, PushPcs, Pushers, Threads

\* Drop leaves the list alone.
LEMMA Queue_Drop ==
    ASSUME NEW f \in Fds, IInv, IInv', QueueOrder, Drop(f) PROVE QueueOrder'
<1>. USE DEF Drop, queueVars, senderVars, netVars, history, Go, NULL
<1>1. Together'  BY DEF IInv, QueueOrder, TypeOK, Together, Pushers, Threads
<1>. QED  BY <1>1, QueueKept DEF IInv, TypeOK, PushPcs, Pushers, Threads

\* EpollClose leaves the list alone.
LEMMA Queue_EpollClose ==
    ASSUME IInv, IInv', QueueOrder, EpollClose PROVE QueueOrder'
<1>. USE DEF EpollClose, queueVars, senderVars, netVars, history, Go, NULL
<1>1. Together'  BY DEF IInv, QueueOrder, TypeOK, Together, Pushers, Threads
<1>. QED  BY <1>1, QueueKept DEF IInv, TypeOK, PushPcs, Pushers, Threads

\* PeerClose leaves the list alone.
LEMMA Queue_PeerClose ==
    ASSUME NEW c \in Conns, IInv, IInv', QueueOrder, PeerClose(c) PROVE QueueOrder'
<1>. USE DEF PeerClose, queueVars, senderVars, netVars, history, Go, NULL
<1>1. Together'  BY DEF IInv, QueueOrder, TypeOK, Together, Pushers, Threads
<1>. QED  BY <1>1, QueueKept DEF IInv, TypeOK, PushPcs, Pushers, Threads

\* WalkVisit leaves the list alone.
LEMMA Queue_WalkVisit ==
    ASSUME IInv, IInv', QueueOrder, WalkVisit PROVE QueueOrder'
<1>. USE DEF WalkVisit, Corrupt, Sound, queueVars, senderVars, netVars, history, Go, NULL
<1>1. CASE Die  BY <1>1, QueueDied
<1>2. CASE ~Die
  <2>1. Together'  BY <1>2 DEF IInv, QueueOrder, TypeOK, Together, Pushers, Threads
  <2>. QED  BY <1>2, <2>1, QueueKept DEF IInv, TypeOK, PushPcs, Pushers, Threads
<1>. QED  BY <1>1, <1>2

\* WalkStep leaves the list alone.
LEMMA Queue_WalkStep ==
    ASSUME IInv, IInv', QueueOrder, WalkStep PROVE QueueOrder'
<1>. USE DEF WalkStep, Arrive, Corrupt, Sound, queueVars, senderVars, netVars, history, Go,
  NULL
<1>1. CASE Die  BY <1>1, QueueDied
<1>2. CASE ~Die
  <2>1. Together'  BY <1>2 DEF IInv, QueueOrder, TypeOK, Together, Pushers, Threads
  <2>. QED  BY <1>2, <2>1, QueueKept DEF IInv, TypeOK, PushPcs, Pushers, Threads
<1>. QED  BY <1>1, <1>2

\* WriteLost leaves the list alone.
LEMMA Queue_WriteLost ==
    ASSUME IInv, IInv', QueueOrder, WriteLost PROVE QueueOrder'
<1>. USE DEF WriteLost, Written, Open, queueVars, senderVars, netVars, history, Go, NULL
<1>1. CASE Die  BY <1>1, QueueDied
<1>2. CASE ~Die
  <2>1. Together'  BY <1>2 DEF IInv, QueueOrder, TypeOK, Together, Pushers, Threads
  <2>. QED  BY <1>2, <2>1, QueueKept DEF IInv, TypeOK, PushPcs, Pushers, Threads
<1>. QED  BY <1>1, <1>2

\* EpollOverflow leaves the list alone.
LEMMA Queue_EpollOverflow ==
    ASSUME NEW f \in Fds, IInv, IInv', QueueOrder, EpollOverflow(f) PROVE QueueOrder'
<1>. USE DEF EpollOverflow, queueVars, senderVars, netVars, history, Go, NULL
<1>1. CASE Die  BY <1>1, QueueDied
<1>2. CASE ~Die
  <2>1. Together'  BY <1>2 DEF IInv, QueueOrder, TypeOK, Together, Pushers, Threads
  <2>. QED  BY <1>2, <2>1, QueueKept DEF IInv, TypeOK, PushPcs, Pushers, Threads
<1>. QED  BY <1>1, <1>2

-----------------------------------------------------------------------------
(* What clients have been offered and where the walk is.                   *)

\* Nothing is said once a freed node was used or the process is dead.
LEMMA WalkOver ==
    ASSUME IInv', ub' \/ pc'["sender"] = "dead" PROVE Offering' /\ InWalk'
<1>1. CASE ub'  BY <1>1 DEF Offering, InWalk
<1>2. CASE pc'["sender"] = "dead"
  BY <1>2 DEF Offering, InWalk, Before, Aimed, Walking
<1>. QED  BY <1>1, <1>2

\* Numbers are numbers; what is in the list is a registration of a client that has a
\* descriptor and is not about to lose it.
LEMMA WalkFacts ==
    ASSUME IInv
    PROVE  /\ LastLinked \in Int /\ head \in Nat /\ msg \in Nat /\ after \in Nat
           /\ \A c \in Conns : offered[c] \in Nat /\ turn[c] \in Nat /\ regs[c] \in Nat
           /\ \A i \in 1 .. Len(clientFdList) : clientFdList[i] \in OnList
           /\ \A r \in OnList : \E i \in 1 .. Len(clientFdList) : clientFdList[i] = r
           /\ \A r \in OnList : /\ r \in Registrations /\ r[1] \in Conns /\ r[2] \in Nat
                                /\ r[1] \in Listed /\ r[2] > 0 /\ r[2] <= regs[r[1]]
           /\ \A c \in Listed : \E r \in OnList : r[1] = c
           /\ \A c \in Listed : /\ c \in Conns /\ fdOf[c] \in Fds /\ file[fdOf[c]] = c
                                /\ regs[c] > 0 /\ ~Leaving(c) /\ peer[c] # "away"
<1>. USE NamesHold DEF Names
<1>1. LastLinked \in Int /\ head \in Nat /\ msg \in Nat /\ after \in Nat
      /\ \A c \in Conns : offered[c] \in Nat /\ turn[c] \in Nat /\ regs[c] \in Nat
  BY OneUnlinked DEF IInv, TypeOK, Nodes, LastLinked
<1>2. /\ \A i \in 1 .. Len(clientFdList) : clientFdList[i] \in OnList
      /\ \A r \in OnList : \E i \in 1 .. Len(clientFdList) : clientFdList[i] = r
      /\ \A c \in Listed : \E r \in OnList : r[1] = c
  BY DEF OnList, Listed
<1>3. ASSUME NEW r \in OnList
      PROVE  /\ r \in Registrations /\ r[1] \in Conns /\ r[2] \in Nat
             /\ r[1] \in Listed /\ r[2] > 0 /\ r[2] <= regs[r[1]] /\ fdOf[r[1]] \in Fds
             /\ (pc["epoll"] = "close" => fdOf[r[1]] # hungup)
  <2>1. r \in Registrations /\ r[1] \in Listed  BY ListedConns DEF IInv, Listed
  <2>2. r[1] \in Conns /\ r[2] \in Nat /\ r[2] > 0  BY <2>1 DEF Registrations
  <2>3. PICK i \in 1 .. Len(clientFdList) : clientFdList[i] = r  BY <1>2
  <2>4. r[2] <= regs[r[1]] /\ fdOf[r[1]] \in Fds  BY <2>3 DEF IInv, Registered
  <2>5. pc["epoll"] = "close" => fdOf[r[1]] # hungup  BY <2>3 DEF IInv, Closing
  <2>. QED  BY <2>1, <2>2, <2>4, <2>5
<1>4. ASSUME NEW c \in Listed
      PROVE  /\ c \in Conns /\ fdOf[c] \in Fds /\ file[fdOf[c]] = c
             /\ regs[c] > 0 /\ ~Leaving(c) /\ peer[c] # "away"
  <2>1. PICK r \in OnList : r[1] = c  BY <1>2
  <2>2. /\ c \in Conns /\ fdOf[c] \in Fds /\ r[2] \in Nat /\ r[2] > 0 /\ r[2] <= regs[c]
        /\ (pc["epoll"] = "close" => fdOf[c] # hungup)
    BY <1>3, <2>1
  <2>3. regs[c] > 0  BY <1>1, <2>2
  <2>4. file[fdOf[c]] = c /\ peer[c] \notin {"away", "gone"}  BY <2>2 DEF IInv, Paired
  <2>. QED  BY <2>2, <2>3, <2>4 DEF Leaving
<1>. QED  BY <1>1, <1>2, <1>3, <1>4

\* What is said of the walk and the clients stays true while neither moves.
LEMMA WalkKept ==
    ASSUME IInv, IInv', QueueOrder, Offering, InWalk,
           UNCHANGED <<head, msg, it, wfd, audience, netVars, offered, turn, ub, recycled>>,
           \A n \in 1 .. count : kind'[n] = kind[n],
           LastLinked <= LastLinked',
           \/ pc'["sender"] = pc["sender"]
           \/ {pc["sender"], pc'["sender"]} \subseteq {"lock", "asleep"},
           pc'["epoll"] = pc["epoll"]
    PROVE  Offering' /\ InWalk'
<1>. USE NamesHold DEF Names, netVars
<1>1. LastLinked' \in Int  BY DEF IInv, TypeOK, Nodes, LastLinked, Unlinked
<1>2. Listed' = Listed /\ OnList' = OnList /\ \A c : Leaving(c)' = Leaving(c)
      /\ (pc'["sender"] \in Walking \cup {"pop_read"} => pc'["sender"] = pc["sender"])
  BY DEF Listed, OnList, Walking, Leaving
<1>3. Offering'
  BY SMTT(60), <1>1, <1>2, WalkFacts DEF Offering, Offered, Walking
<1>4. pc["sender"] \in Walking \cup {"pop_read"} => kind'[msg] = kind[msg]
  <2>1. msg \in Nat /\ count \in Nat /\ Unlinked \in {0, 1}
    BY OneUnlinked DEF IInv, TypeOK, Nodes
  <2>2. pc["sender"] \in Walking \cup {"pop_read"} => msg \in 1 .. MaxMsgs
    BY DEF IInv, Sending, Walking
  <2>3. msg <= count  BY <2>1 DEF QueueOrder, Rising, LastLinked
  <2>. QED  BY <2>1, <2>2, <2>3
<1>5. pc["sender"] \in Walking \cup {"pop_read"} =>
        \A c : Done(c)' = Done(c) /\ Passed(c)' = Passed(c)
  BY <1>4 DEF Done, Passed
<1>6. CASE ub  BY <1>6, WalkOver, <1>3
<1>7. CASE ~ub
  <2>1. Before /\ Aimed  BY <1>7 DEF InWalk
  <2>2. \A r : Fresh(r)' = Fresh(r)  BY DEF Fresh
  <2>3. Before'
    BY SMTT(60), <1>2, <1>5, <2>1, <2>2 DEF Before, Walking
  <2>4. Aimed'  BY <1>2, <1>4, <2>1, <2>2 DEF Aimed, Walking
  <2>5. InWalk'
    BY <1>2, <1>5, <1>7, <2>3, <2>4 DEF InWalk, Walking
  <2>. QED  BY <1>3, <2>5
<1>. QED  BY <1>6, <1>7

\* Where the walk goes from a node of the list.
LEMMA FollowingPlace ==
    ASSUME TypeOK, NEW r \in OnList
    PROVE  \E k \in 1 .. Len(clientFdList) :
             /\ clientFdList[k] = r
             /\ Following(r) = IF 1 + k > Len(clientFdList) THEN End ELSE clientFdList[1 + k]
<1>. DEFINE k == CHOOSE j \in 1 .. Len(clientFdList) : clientFdList[j] = r
<1>1. k \in 1 .. Len(clientFdList) /\ clientFdList[k] = r  BY DEF OnList
<1>2. Following(r) = IF 1 + k > Len(clientFdList) THEN End ELSE clientFdList[1 + k]
  BY DEF Following, Node
<1>. HIDE DEF k
<1>. QED  BY <1>1, <1>2

\* EnqueueServerMsg does not touch the walk.
LEMMA Walk_EnqueueServerMsg ==
    ASSUME NEW t \in Pushers, IInv, IInv', OrderInv, QueueOrder', EnqueueServerMsg(t)
    PROVE  Offering' /\ InWalk'
<1>. USE NamesHold DEF Names, OrderInv, EnqueueServerMsg, queueVars, senderVars, netVars,
  history, Go, NULL
<1>1. LastLinked <= LastLinked'
  BY OneUnlinked DEF LastLinked, Unlinked, NotInList, Pushers, Threads, IInv, TypeOK, Nodes,
     Appending, PushPcs
<1>. QED  BY <1>1, WalkKept DEF IInv, TypeOK, Pushers, Threads, Nodes

\* PushLock does not touch the walk.
LEMMA Walk_PushLock ==
    ASSUME NEW t \in Pushers, IInv, IInv', OrderInv, QueueOrder', PushLock(t)
    PROVE  Offering' /\ InWalk'
<1>. USE NamesHold DEF Names, OrderInv, PushLock, queueVars, senderVars, netVars, history,
  Go, NULL
<1>1. LastLinked <= LastLinked'
  BY OneUnlinked DEF LastLinked, Unlinked, NotInList, Pushers, Threads, IInv, TypeOK, Nodes,
     Appending, PushPcs
<1>. QED  BY SMTT(60), <1>1, WalkKept DEF IInv, TypeOK, Pushers, Threads, Nodes

\* PushHead does not touch the walk.
LEMMA Walk_PushHead ==
    ASSUME NEW t \in Pushers, IInv, IInv', OrderInv, QueueOrder', PushHead(t)
    PROVE  Offering' /\ InWalk'
<1>. USE NamesHold DEF Names, OrderInv, PushHead, queueVars, senderVars, netVars, history,
  Go, NULL
<1>1. LastLinked <= LastLinked'
  BY OneUnlinked DEF LastLinked, Unlinked, NotInList, Pushers, Threads, IInv, TypeOK, Nodes,
     Appending, PushPcs
<1>. QED  BY <1>1, WalkKept DEF IInv, TypeOK, Pushers, Threads, Nodes

\* PushSet does not touch the walk.
LEMMA Walk_PushSet ==
    ASSUME NEW t \in Pushers, IInv, IInv', OrderInv, QueueOrder', PushSet(t)
    PROVE  Offering' /\ InWalk'
<1>. USE NamesHold DEF Names, OrderInv, PushSet, Signal, queueVars, senderVars, netVars,
  history, Go, NULL
<1>1. LastLinked <= LastLinked'
  BY OneUnlinked DEF LastLinked, Unlinked, NotInList, Pushers, Threads, IInv, TypeOK, Nodes,
     Appending, PushPcs
<1>. QED  BY <1>1, WalkKept DEF IInv, TypeOK, Pushers, Threads, Nodes

\* SenderWait does not touch the walk.
LEMMA Walk_SenderWait ==
    ASSUME IInv, IInv', OrderInv, QueueOrder', SenderWait
    PROVE  Offering' /\ InWalk'
<1>. USE NamesHold DEF Names, OrderInv, SenderWait, queueVars, senderVars, netVars, history,
  Go, NULL
<1>1. LastLinked <= LastLinked'
  BY OneUnlinked DEF LastLinked, Unlinked, NotInList, Pushers, Threads, IInv, TypeOK, Nodes,
     Appending, PushPcs
<1>. QED  BY <1>1, WalkKept DEF IInv, TypeOK, Pushers, Threads, Nodes

\* PushTail does not touch the walk.
LEMMA Walk_PushTail ==
    ASSUME NEW t \in Pushers, IInv, IInv', OrderInv, QueueOrder', PushTail(t)
    PROVE  Offering' /\ InWalk'
<1>. USE NamesHold DEF Names, OrderInv, PushTail, Die, queueVars, senderVars, netVars,
  history, Go, NULL
<1>1. CASE pc'["sender"] = "dead"  BY <1>1, WalkOver
<1>2. CASE pc'["sender"] # "dead"
  <2>1. LastLinked <= LastLinked'
    BY <1>2, OneUnlinked DEF LastLinked, Unlinked, NotInList, Pushers, Threads, IInv,
      TypeOK,
       Nodes, Appending, PushPcs
  <2>2. pc'["sender"] = pc["sender"] /\ pc'["epoll"] = pc["epoll"]
    BY <1>2 DEF IInv, TypeOK, Pushers, Threads
  <2>. QED  BY <1>2, <2>1, <2>2, WalkKept DEF IInv, TypeOK, Nodes
<1>. QED  BY <1>1, <1>2

\* PushLink uses a freed node or does not touch the walk.
LEMMA Walk_PushLink ==
    ASSUME NEW t \in Pushers, IInv, IInv', OrderInv, QueueOrder', PushLink(t)
    PROVE  Offering' /\ InWalk'
<1>. USE NamesHold DEF Names, OrderInv, PushLink, Die, queueVars, senderVars, netVars,
  history, Go, NULL
<1>1. CASE pc'["sender"] = "dead" \/ ub'   BY <1>1, WalkOver
<1>2. CASE pc'["sender"] # "dead" /\ ~ub'
  <2>1. LastLinked <= LastLinked'
    BY <1>2, OneUnlinked DEF LastLinked, Unlinked, NotInList, Pushers, Threads, IInv,
      TypeOK,
       Nodes, Appending, PushPcs
  <2>2. pc'["sender"] = pc["sender"] /\ pc'["epoll"] = pc["epoll"]
    BY <1>2 DEF IInv, TypeOK, Pushers, Threads
  <2>. QED  BY <1>2, <2>1, <2>2, WalkKept DEF IInv, TypeOK, Nodes
<1>. QED  BY <1>1, <1>2

\* EpollOverflow ends the walk.
LEMMA Walk_EpollOverflow ==
    ASSUME NEW f \in Fds, IInv, IInv', OrderInv, QueueOrder', EpollOverflow(f)
    PROVE  Offering' /\ InWalk'
<1>. USE NamesHold DEF Names, OrderInv, EpollOverflow, Die, queueVars, senderVars, netVars,
  history, Go, NULL
<1>1. pc'["sender"] = "dead"  BY DEF Threads
<1>. QED  BY <1>1, WalkOver

\* The first message of an empty list comes after everything that was offered.
LEMMA Walk_PushFirst ==
    ASSUME NEW t \in Pushers, IInv, IInv', OrderInv, QueueOrder', PushFirst(t)
    PROVE  Offering' /\ InWalk'
<1>. USE NamesHold DEF Names, OrderInv, PushFirst, queueVars, senderVars, netVars, history,
  Go, NULL
<1>1. LastLinked < count /\ LastLinked <= LastLinked' /\ pc'["sender"] = pc["sender"]
  BY DEF LastLinked, Unlinked, NotInList, Pushers, Threads, IInv, TypeOK, Nodes, Appending,
     PushPcs
<1>2. pc["sender"] \notin Walking \cup {"pop_read", "pop_head"}
  BY DEF IInv, Appending, Sending, Walking
<1>3. Offering'
  <2>1. LastLinked' \in Int /\ count \in Nat
    BY DEF IInv, TypeOK, Nodes, LastLinked, Unlinked
  <2>. QED  BY <1>1, <1>2, <2>1, WalkFacts DEF Offering, Offered, Walking
<1>4. InWalk'  BY <1>1, <1>2 DEF InWalk, Before, Aimed, Walking
<1>. QED  BY <1>3, <1>4

\* The sender starts with an empty list.
LEMMA Walk_ServerInit ==
    ASSUME IInv, IInv', OrderInv, QueueOrder', ServerInit
    PROVE  Offering' /\ InWalk'
<1>. USE NamesHold DEF Names, OrderInv, ServerInit, queueVars, senderVars, netVars, history,
  Go, NULL
<1>1. pc["sender"] = "off" /\ pc'["sender"] = "lock"
  BY DEF QueueOrder, Together, Threads
<1>2. LastLinked' = LastLinked
  BY DEF LastLinked, Unlinked, NotInList, Pushers, Threads, QueueOrder, Together
<1>3. Offering'  BY <1>1, <1>2 DEF Offering, Offered, Walking
<1>4. InWalk'  BY <1>1 DEF InWalk, Before, Aimed, Walking
<1>. QED  BY <1>3, <1>4

\* The sender ends with an empty list.
LEMMA Walk_ServerExit ==
    ASSUME IInv, IInv', OrderInv, QueueOrder', ServerExit
    PROVE  Offering' /\ InWalk'
<1>. USE NamesHold DEF Names, OrderInv, ServerExit, CancelPoint, Messages, queueVars,
  senderVars, netVars, history, Go, NULL
<1>1. pc["sender"] \in {"asleep", "write"} /\ pc'["sender"] = "off"
  BY DEF Threads
<1>2. LastLinked' = LastLinked
  BY DEF LastLinked, Unlinked, NotInList, Pushers, Threads, CancelPoint
<1>3. Offering'
  BY <1>1, <1>2, WalkFacts DEF Offering, Offered, Walking
<1>4. InWalk'  BY <1>1 DEF InWalk, Before, Aimed, Walking
<1>. QED  BY <1>3, <1>4

\* At the beginning of a walk nobody was offered its message.
LEMMA Walk_SenderFront ==
    ASSUME IInv, IInv', OrderInv, QueueOrder', SenderFront
    PROVE  Offering' /\ InWalk'
<1>. USE NamesHold DEF Names, OrderInv, SenderFront, Arrive, queueVars, senderVars, netVars,
  history, Go, NULL
<1>1. CASE ub  BY <1>1, WalkOver
<1>2. CASE ~ub
  <2>1. pc'["sender"] = (IF clientFdList = <<>> THEN "pop_read" ELSE "visit")
        /\ LastLinked' = LastLinked /\ msg' = head /\ msg' > 0
    <3>0. clientFdList # <<>> => clientFdList[1] # End
      <4>1. clientFdList # <<>> => clientFdList[1] \in Registrations  BY DEF IInv, TypeOK
      <4>. QED  BY <4>1 DEF Registrations, End
    <3>1. pc'["sender"] = (IF clientFdList = <<>> THEN "pop_read" ELSE "visit")
      BY <3>0 DEF IInv, TypeOK, Threads
    <3>2. Unlinked' = Unlinked
      BY DEF Unlinked, Pushers, Threads, IInv, TypeOK
    <3>. QED  BY <3>1, <3>2, WalkFacts DEF LastLinked
  <2>2. \A c \in Conns : offered[c] < msg' /\ offered[c] <= LastLinked
                         /\ (fdOf[c] = NoFd => offered[c] = NULL)
                         /\ (offered[c] = NULL \/ (regs[c] > 0 /\ turn[c] <= regs[c]))
    BY <1>2, <2>1 DEF Offering, Offered, Walking
  <2>3. Offering'
    BY <2>1, <2>2, WalkFacts DEF Offering, Offered, Walking
  <2>4. audience' = Listed /\ Listed' = Listed /\ OnList' = OnList
    BY <1>2 DEF Listed, OnList
  <2>5. clientFdList # <<>> => 1 \in 1 .. Len(clientFdList) /\ it' = clientFdList[1]
    BY DEF IInv, TypeOK
  <2>6. \A r \in OnList : Fresh(r)'  BY <2>2, WalkFacts DEF Fresh
  <2>7. Before'
    <3>. SUFFICES ASSUME NEW i \in 1 .. Len(clientFdList), NEW j \in 1 .. Len(clientFdList),
                         clientFdList[j] = it'
                  PROVE  /\ ~(i < j)
                         /\ pc'["sender"] = "visit"
                         /\ Fresh(clientFdList[i])' /\ Fresh(it)'
      BY DEF Before
    <3>1. clientFdList # <<>>  BY DEF IInv, TypeOK
    <3>2. j = 1  BY <3>1, <2>5, NodesDiffer DEF IInv
    <3>3. clientFdList[i] \in OnList /\ it' \in OnList  BY WalkFacts
    <3>4. Fresh(clientFdList[i])' /\ Fresh(it)'
      <4>1. offered'[clientFdList[i][1]] < msg'  BY <2>2, <3>3, WalkFacts
      <4>2. offered'[it'[1]] < msg'  BY <2>2, <3>3, WalkFacts
      <4>. QED  BY <4>1, <4>2 DEF Fresh
    <3>. QED  BY <3>1, <3>2, <3>4, <2>1
  <2>8. Aimed'  BY <2>1 DEF Aimed
  <2>9. pc'["sender"] \in Walking => it' \in Registrations /\ it' \in OnList
    BY <2>1, <2>5, WalkFacts DEF Walking
  <2>10. pc'["sender"] = "pop_read" => Listed = {}
    BY <2>1 DEF Listed, OnList
  <2>. QED
    BY <2>3, <2>4, <2>7, <2>8, <2>9, <2>10 DEF InWalk
<1>. QED  BY <1>1, <1>2

\* The sender reads the descriptor of a client, or passes one that wants no such message.
LEMMA Walk_WalkVisit ==
    ASSUME IInv, IInv', OrderInv, QueueOrder', WalkVisit
    PROVE  Offering' /\ InWalk'
<1>. USE NamesHold DEF Names, OrderInv, WalkVisit, Corrupt, Sound, Die, queueVars,
  senderVars, netVars, history, Go, NULL
<1>1. CASE ub' \/ pc'["sender"] = "dead"  BY <1>1, WalkOver
<1>2. CASE ~ub' /\ pc'["sender"] # "dead"
  <2>1. it \in OnList /\ ~ub
        /\ UNCHANGED <<audience, offered, turn, it, msg, kind, head, netVars, recycled>>
    BY <1>2
  <2>2. /\ Offering /\ InWalk /\ Before
        /\ \A c \in audience : c \in Listed \/ Leaving(c)
        /\ msg \in 1 .. MaxMsgs
    BY <2>1 DEF InWalk, Walking, IInv, Sending
  <2>3. LastLinked' = LastLinked /\ Listed' = Listed /\ OnList' = OnList
        /\ \A c : Leaving(c)' = Leaving(c)
    <3>1. /\ pc'["app"] = pc["app"] /\ pc'["beat"] = pc["beat"]
          /\ pc'["epoll"] = pc["epoll"]
      BY <1>2 DEF Threads, IInv, TypeOK
    <3>. QED  BY <3>1 DEF LastLinked, Unlinked, Listed, OnList, Pushers, Leaving
  <2>4. \A c \in Conns : Offered(c)  BY <2>1, <2>2 DEF Offering
  <2>5. \A c : Done(c)' = Done(c) /\ Passed(c)' = Passed(c) /\ \A r : Fresh(r)' = Fresh(r)
    BY <2>1 DEF Done, Passed, Fresh
  <2>6. \A i, j \in 1 .. Len(clientFdList) :
           clientFdList[j] = it =>
               /\ i < j => Passed(clientFdList[i][1])
               /\ j < i => Fresh(clientFdList[i])
               /\ Fresh(it)
    BY <2>2 DEF Before, Walking
  <2>7. CASE pc'["sender"] = "write"
    <3>1. wfd' = fdOf[it[1]] /\ Addressee(it[1], kind[msg])
      BY <2>1, <2>7 DEF IInv, TypeOK, Threads
    <3>2. Offering'  BY <2>1, <2>3, <2>4, <2>7 DEF Offering, Offered, Walking
    <3>3. it[1] \in Listed  BY <2>1, WalkFacts
    <3>4. Aimed'
      BY <2>1, <2>3, <2>7, <3>1, <3>3, WalkFacts DEF Aimed, Addressee
    <3>5. Before'  BY SMTT(60), <2>1, <2>5, <2>6, <2>7 DEF Before, Walking
    <3>. QED  BY <2>1, <2>2, <2>3, <2>7, <3>2, <3>4, <3>5, WalkFacts DEF InWalk, Walking
  <2>8. CASE pc'["sender"] = "step"
    <3>1. ~Addressee(it[1], kind[msg])  BY <2>1, <2>8 DEF IInv, TypeOK, Threads
    <3>2. Offering'  BY <2>1, <2>3, <2>4, <2>8 DEF Offering, Offered, Walking
    <3>3. Passed(it[1])'
      BY <2>1, <3>1 DEF Passed, Done, Addressee
    <3>4. Before'  BY SMTT(60), <2>1, <2>5, <2>6, <2>8, <3>3 DEF Before, Walking
    <3>5. Aimed'  BY <2>8 DEF Aimed
    <3>. QED  BY <2>1, <2>2, <2>3, <2>8, <3>2, <3>4, <3>5, WalkFacts DEF InWalk, Walking
  <2>9. pc'["sender"] \in {"write", "step"}  BY <2>1 DEF IInv, TypeOK, Threads
  <2>. QED  BY <2>7, <2>8, <2>9
<1>. QED  BY <1>1, <1>2

\* The sender goes on to the next node of the list.
LEMMA Walk_WalkStep ==
    ASSUME IInv, IInv', OrderInv, QueueOrder', WalkStep
    PROVE  Offering' /\ InWalk'
<1>. USE NamesHold DEF Names, OrderInv, WalkStep, Arrive, Corrupt, Sound, Die, queueVars,
  senderVars, netVars, history, Go, NULL
<1>1. CASE ub' \/ pc'["sender"] = "dead"  BY <1>1, WalkOver
<1>2. CASE ~ub' /\ pc'["sender"] # "dead"
  <2>1. /\ it \in OnList /\ ~ub /\ it' = Following(it)
        /\ pc' = [pc EXCEPT !["sender"] = IF it' = End THEN "pop_read" ELSE "visit"]
        /\ UNCHANGED <<audience, offered, turn, msg, kind, head, netVars, recycled>>
    BY <1>2
  <2>2. /\ Offering /\ InWalk /\ Before
        /\ \A c \in audience : c \in Listed \/ Leaving(c)
        /\ msg \in 1 .. MaxMsgs
    BY <2>1 DEF InWalk, Walking, IInv, Sending
  <2>3. LastLinked' = LastLinked /\ Listed' = Listed /\ OnList' = OnList
        /\ pc'["sender"] = (IF it' = End THEN "pop_read" ELSE "visit")
        /\ \A c : Leaving(c)' = Leaving(c)
    <3>1. pc'["app"] = pc["app"] /\ pc'["beat"] = pc["beat"] /\ pc'["epoll"] = pc["epoll"]
          /\ pc'["sender"] = (IF it' = End THEN "pop_read" ELSE "visit")
      BY <2>1 DEF Threads, IInv, TypeOK
    <3>. QED  BY <2>1, <3>1 DEF LastLinked, Unlinked, Listed, OnList, Pushers, Leaving
  <2>4. \A c \in Conns : Offered(c)  BY <2>1, <2>2 DEF Offering
  <2>5. Offering'  BY <2>1, <2>3, <2>4 DEF Offering, Offered, Walking
  <2>6. PICK k \in 1 .. Len(clientFdList) :
             /\ clientFdList[k] = it
             /\ it' = IF 1 + k > Len(clientFdList) THEN End ELSE clientFdList[1 + k]
    BY <2>1, FollowingPlace DEF IInv
  <2>7. \A i \in 1 .. Len(clientFdList) :
           /\ i <= k => Passed(clientFdList[i][1])'
           /\ k < i => Fresh(clientFdList[i])'
    <3>. SUFFICES ASSUME NEW i \in 1 .. Len(clientFdList)
                  PROVE  /\ i <= k => Passed(clientFdList[i][1])'
                         /\ k < i => Fresh(clientFdList[i])'
      OBVIOUS
    <3>1. i < k => Passed(clientFdList[i][1])  BY <2>2, <2>6 DEF Before, Walking
    <3>2. i = k => Passed(clientFdList[i][1])  BY <2>2, <2>6 DEF Before, Walking
    <3>3. k < i => Fresh(clientFdList[i])  BY <2>2, <2>6 DEF Before, Walking
    <3>. QED  BY <2>1, <3>1, <3>2, <3>3 DEF Passed, Done, Fresh
  <2>8. CASE 1 + k > Len(clientFdList)
    <3>1. pc'["sender"] = "pop_read"  BY <2>3, <2>6, <2>8
    <3>2. \A c \in audience' \cap Listed' : Done(c)'
      <4>. SUFFICES ASSUME NEW c \in audience \cap Listed PROVE Done(c)'
        BY <2>1, <2>3
      <4>1. PICK r \in OnList : r[1] = c  BY WalkFacts
      <4>2. PICK i \in 1 .. Len(clientFdList) : clientFdList[i] = r  BY WalkFacts
      <4>3. i <= k  BY <2>8
      <4>4. Passed(c)'  BY <4>1, <4>2, <4>3, <2>7
      <4>. QED  BY <4>4, <2>1 DEF Passed
    <3>3. Before' /\ Aimed'  BY <3>1 DEF Before, Aimed, Walking
    <3>. QED  BY <2>1, <2>2, <2>3, <2>5, <3>1, <3>2, <3>3 DEF InWalk, Walking
  <2>9. CASE ~(1 + k > Len(clientFdList))
    <3>1. 1 + k \in 1 .. Len(clientFdList) /\ it' = clientFdList[1 + k]
      BY <2>6, <2>9 DEF IInv, TypeOK
    <3>2. it' \in OnList /\ it' \in Registrations /\ it'[1] \in Conns  BY <3>1, WalkFacts
    <3>3. it' # End  BY <3>2 DEF End
    <3>4. pc'["sender"] = "visit"  BY <2>3, <3>3
    <3>5. Before'
      <4>. SUFFICES ASSUME NEW i \in 1 .. Len(clientFdList), NEW j \in 1 .. Len(clientFdList),
                           clientFdList[j] = it'
                    PROVE  /\ i < j => Passed(clientFdList[i][1])'
                           /\ j < i => Fresh(clientFdList[i])'
                           /\ Fresh(it)'
        BY <2>1, <3>4 DEF Before
      <4>1. j = 1 + k  BY <3>1, NodesDiffer DEF IInv
      <4>2. Fresh(clientFdList[j])'  BY <4>1, <2>7
      <4>3. Fresh(it)'  BY <4>2 DEF Fresh
      <4>. QED  BY <4>1, <4>3, <2>7
    <3>6. Aimed'  BY <3>4 DEF Aimed
    <3>. QED  BY <2>1, <2>2, <2>3, <2>5, <3>2, <3>4, <3>5, <3>6 DEF InWalk, Walking
  <2>. QED  BY <2>8, <2>9
<1>. QED  BY <1>1, <1>2

\* The client the sender has reached is offered the message, or a new one that has its
\* descriptor.
LEMMA Walk_WriteSent ==
    ASSUME IInv, IInv', OrderInv, QueueOrder', WriteSent
    PROVE  Offering' /\ InWalk'
<1>. USE NamesHold DEF Names, OrderInv, WriteSent, Open, Written, queueVars, senderVars,
  netVars, history, Go, NULL
<1>1. CASE ub  BY <1>1, WalkOver
<1>2. CASE ~ub
  <2>. DEFINE c == file[wfd]
  <2>1. /\ c \in Conns /\ peer[c] = "open" /\ fdOf[c] = wfd /\ wfd \in Fds
        /\ offered' = [offered EXCEPT ![c] = msg]
        /\ pc' = [pc EXCEPT !["sender"] = "step"]
    BY <1>2 DEF IInv, TypeOK, Paired
  <2>. HIDE DEF c
  <2>2. /\ Offering /\ InWalk /\ Before /\ Aimed /\ it \in Registrations
        /\ it \in OnList \/ Leaving(it[1])
        /\ \A d \in audience : d \in Listed \/ Leaving(d)
        /\ msg \in 1 .. MaxMsgs
    BY <1>2 DEF InWalk, Walking, IInv, Sending
  <2>3. LastLinked' = LastLinked /\ Listed' = Listed /\ OnList' = OnList
        /\ pc'["sender"] = "step" /\ \A d : Leaving(d)' = Leaving(d)
    <3>1. pc'["app"] = pc["app"] /\ pc'["beat"] = pc["beat"] /\ pc'["sender"] = "step"
          /\ pc'["epoll"] = pc["epoll"]
      BY <2>1 DEF Threads, IInv, TypeOK
    <3>. QED  BY <2>1, <3>1 DEF LastLinked, Unlinked, Listed, OnList, Pushers, Leaving
  <2>4. \A d \in Conns : Offered(d)  BY <1>2, <2>2 DEF Offering
  <2>5. \A d \in Conns : /\ offered'[d] = IF d = c THEN msg ELSE offered[d]
                         /\ turn'[d] = IF d = c THEN it[2] ELSE turn[d]
    <3>1. turn' = [turn EXCEPT ![c] = it[2]]  BY <1>2 DEF c
    <3>. QED  BY <2>1, <3>1 DEF IInv, TypeOK
  <2>6. it \in OnList => c = it[1] /\ it[1] \in Listed /\ it[2] <= regs[c]
    BY <2>2, WalkFacts DEF Aimed, c
  <2>7. \A d \in Conns : Offered(d)'
    <3>. SUFFICES ASSUME NEW d \in Conns PROVE Offered(d)'  OBVIOUS
    <3>1. Offered(d)  BY <2>4
    <3>2. CASE d # c
      BY <3>1, <3>2, <2>3, <2>5 DEF Offered, Walking
    <3>3. CASE d = c
      <4>1. msg <= LastLinked  BY DEF QueueOrder, Rising
      <4>2. fdOf[c] # NoFd  BY <2>1, NamesHold DEF Names
      <4>3. it \in OnList => regs[c] > 0 /\ it[2] <= regs[c]  BY <2>6, WalkFacts
      <4>4. offered'[c] = msg /\ turn'[c] = it[2]  BY <2>1, <2>5
      <4>. QED
        BY <3>3, <4>1, <4>2, <4>3, <4>4, <2>2, <2>3, WalkFacts DEF Offered, Walking
    <3>. QED  BY <3>2, <3>3
  <2>8. Before'
    <3>. SUFFICES ASSUME NEW i \in 1 .. Len(clientFdList), NEW j \in 1 .. Len(clientFdList),
                         clientFdList[j] = it
                  PROVE  /\ i < j => Passed(clientFdList[i][1])'
                         /\ j < i => Fresh(clientFdList[i])'
                         /\ Passed(it[1])'
      BY <2>3 DEF Before
    <3>1. it \in OnList /\ c = it[1]  BY <2>6, WalkFacts
    <3>2. clientFdList[i] \in OnList /\ clientFdList[i][1] \in Conns  BY WalkFacts
    <3>3. /\ i < j => Passed(clientFdList[i][1])
          /\ j < i => Fresh(clientFdList[i])
      BY <2>2 DEF Before, Walking
    <3>4. \A d \in Conns : Passed(d) => Passed(d)'  BY <2>5 DEF Passed, Done
    <3>5. j < i => Fresh(clientFdList[i])'
      <4>1. j < i /\ clientFdList[i][1] = c => it[2] < clientFdList[i][2]
        BY <3>1 DEF IInv, Registered
      <4>. QED  BY <2>5, <3>2, <3>3, <4>1 DEF Fresh
    <3>6. Passed(it[1])'  BY <2>1, <2>5, <3>1 DEF Passed, Done
    <3>. QED  BY <3>2, <3>3, <3>4, <3>5, <3>6
  <2>9. Aimed'  BY <2>3 DEF Aimed
  <2>10. Offering'  BY <2>7 DEF Offering
  <2>. QED  BY <2>2, <2>3, <2>8, <2>9, <2>10 DEF InWalk, Walking
<1>. QED  BY <1>1, <1>2

\* A write that fails offers nothing, to a client that is gone.
LEMMA Walk_WriteLost ==
    ASSUME IInv, IInv', OrderInv, QueueOrder', WriteLost
    PROVE  Offering' /\ InWalk'
<1>. USE NamesHold DEF Names, OrderInv, WriteLost, Open, Written, Die, queueVars,
  senderVars, netVars, history, Go, NULL
<1>1. CASE ub' \/ pc'["sender"] = "dead"  BY <1>1, WalkOver
<1>2. CASE ~ub' /\ pc'["sender"] # "dead"
  <2>1. ~ub /\ pc' = [pc EXCEPT !["sender"] = "step"]
    <3>1. ~Die  BY <1>2 DEF Threads
    <3>. QED  BY <1>2, <3>1
  <2>2. /\ Offering /\ InWalk /\ Before /\ Aimed /\ it \in Registrations
        /\ it \in OnList \/ Leaving(it[1])
        /\ \A d \in audience : d \in Listed \/ Leaving(d)
        /\ msg \in 1 .. MaxMsgs
    BY <2>1 DEF InWalk, Walking, IInv, Sending
  <2>3. LastLinked' = LastLinked /\ Listed' = Listed /\ OnList' = OnList
        /\ pc'["sender"] = "step" /\ pc'["epoll"] = pc["epoll"]
    <3>1. pc'["app"] = pc["app"] /\ pc'["beat"] = pc["beat"] /\ pc'["sender"] = "step"
          /\ pc'["epoll"] = pc["epoll"]
      BY <2>1 DEF Threads, IInv, TypeOK
    <3>. QED  BY <2>1, <3>1 DEF LastLinked, Unlinked, Listed, OnList, Pushers
  <2>4. \A d \in Conns : Offered(d)  BY <2>1, <2>2 DEF Offering
  <2>5. \A d \in Conns : /\ peer'[d] \in {peer[d], "broken"}
                         /\ peer[d] = "gone" => peer'[d] = "gone"
    <3>1. file[wfd] \in Conns => peer[file[wfd]] # "gone"
      BY DEF IInv, TypeOK, Paired
    <3>. QED  BY <3>1 DEF IInv, TypeOK
  <2>6. it \in OnList => peer'[it[1]] # "open"
    <3>. SUFFICES ASSUME it \in OnList PROVE peer'[it[1]] # "open"  OBVIOUS
    <3>1. it[1] \in Listed /\ it[1] \in Conns  BY WalkFacts
    <3>2. file[wfd] = it[1] /\ it[1] # NoConn  BY <2>2, <3>1, WalkFacts DEF Aimed
    <3>. QED  BY <3>1, <3>2 DEF IInv, TypeOK
  <2>7. Offering'  BY <2>1, <2>3, <2>4 DEF Offering, Offered, Walking
  <2>8. \A d \in Conns : (Leaving(d) => Leaving(d)') /\ (Passed(d) => Passed(d)')
    BY <2>3, <2>5 DEF Leaving, Passed, Done
  <2>9. Before'
    <3>. SUFFICES ASSUME NEW i \in 1 .. Len(clientFdList), NEW j \in 1 .. Len(clientFdList),
                         clientFdList[j] = it
                  PROVE  /\ i < j => Passed(clientFdList[i][1])'
                         /\ j < i => Fresh(clientFdList[i])
                         /\ Passed(it[1])'
      BY <2>3 DEF Before, Fresh
    <3>1. it \in OnList /\ clientFdList[i] \in OnList /\ clientFdList[i][1] \in Conns
      BY WalkFacts
    <3>2. /\ i < j => Passed(clientFdList[i][1])
          /\ j < i => Fresh(clientFdList[i])
      BY <2>2 DEF Before, Walking
    <3>. QED  BY <3>1, <3>2, <2>6, <2>8 DEF Passed, Done
  <2>10. Aimed'  BY <2>3 DEF Aimed
  <2>11. audience \subseteq Conns /\ it[1] \in Conns
    BY <2>2 DEF IInv, TypeOK, Registrations
  <2>. QED  BY <2>2, <2>3, <2>7, <2>8, <2>9, <2>10, <2>11 DEF InWalk, Walking
<1>. QED  BY <1>1, <1>2

\* The walk is over: everyone was offered its message at most.
LEMMA Walk_PopRead ==
    ASSUME IInv, IInv', OrderInv, QueueOrder', PopRead
    PROVE  Offering' /\ InWalk'
<1>. USE NamesHold DEF Names, OrderInv, PopRead, queueVars, senderVars, netVars, history,
  Go, NULL
<1>1. pc'["sender"] = "pop_head" /\ LastLinked' = LastLinked /\ Listed' = Listed
  BY DEF LastLinked, Unlinked, Listed, OnList, Pushers, Threads, IInv, TypeOK
<1>2. Offering'  BY <1>1 DEF Offering, Offered, Walking
<1>3. InWalk'  BY <1>1 DEF InWalk, Before, Aimed, Walking
<1>. QED  BY <1>2, <1>3

\* The next message comes after everything that was offered.
LEMMA Walk_PopHead ==
    ASSUME IInv, IInv', OrderInv, QueueOrder', PopHead
    PROVE  Offering' /\ InWalk'
<1>. USE NamesHold DEF Names, OrderInv, PopHead, HeadAfterPop, queueVars, senderVars,
  netVars, history, Go, NULL
<1>1. pc'["sender"] \in {"pop_tail", "lock"} /\ LastLinked' = LastLinked
  BY DEF LastLinked, Unlinked, Listed, Pushers, Threads, IInv, TypeOK
<1>2. head' = NULL \/ msg < head'
  BY DEF QueueOrder, Rising
<1>3. Offering'
  <2>1. head' \in Nat  BY WalkFacts
  <2>. QED  BY <1>1, <1>2, <2>1, WalkFacts DEF Offering, Offered, Walking
<1>4. InWalk'  BY <1>1 DEF InWalk, Before, Aimed, Walking
<1>. QED  BY <1>3, <1>4

\* The next message still comes after everything that was offered.
LEMMA Walk_PopTail ==
    ASSUME IInv, IInv', OrderInv, QueueOrder', PopTail
    PROVE  Offering' /\ InWalk'
<1>. USE NamesHold DEF Names, OrderInv, PopTail, TailAfterPop, queueVars, senderVars,
  netVars, history, Go, NULL
<1>1. pc'["sender"] = "lock" /\ LastLinked' = LastLinked
  BY DEF LastLinked, Unlinked, Listed, Pushers, Threads, IInv, TypeOK
<1>2. Offering'  BY <1>1 DEF Offering, Offered, Walking
<1>3. InWalk'  BY <1>1 DEF InWalk, Before, Aimed, Walking
<1>. QED  BY <1>2, <1>3

\* A client that is accepted has been offered nothing.
LEMMA Walk_EpollAccept ==
    ASSUME NEW c \in Conns, NEW f \in Fds, IInv, IInv', OrderInv, QueueOrder', EpollAccept(c, f)
    PROVE  Offering' /\ InWalk'
<1>. USE NamesHold DEF Names, OrderInv, EpollAccept, queueVars, senderVars, netVars,
  history, Go, NULL
<1>1. LastLinked' = LastLinked /\ Listed' = Listed /\ OnList' = OnList
      /\ fdOf[c] = NoFd /\ file[f] = NoConn /\ ~Leaving(c) /\ c \notin Listed
  BY WalkFacts DEF LastLinked, Unlinked, Listed, OnList, IInv, Paired, Leaving
<1>2. \A d \in Conns : d # c => /\ fdOf'[d] = fdOf[d] /\ peer'[d] = peer[d]
                                /\ Leaving(d)' = Leaving(d)
                                /\ Done(d)' = Done(d) /\ Passed(d)' = Passed(d)
  BY DEF IInv, TypeOK, Leaving, Done, Passed
<1>3. \A g \in Fds : file'[g] = IF g = f THEN c ELSE file[g]  BY DEF IInv, TypeOK
<1>4. Offering'  BY <1>1, <1>2 DEF Offering, Offered, Walking
<1>5. CASE ub  BY <1>5, WalkOver
<1>6. CASE ~ub
  <2>1. InWalk /\ Before /\ Aimed /\ audience \subseteq Conns
    BY <1>6 DEF InWalk, IInv, TypeOK
  <2>2. Before'
    <3>. SUFFICES ASSUME NEW i \in 1 .. Len(clientFdList), NEW j \in 1 .. Len(clientFdList),
                         clientFdList[j] = it
                  PROVE  /\ pc["sender"] \in Walking /\ i < j => Passed(clientFdList[i][1])'
                         /\ pc["sender"] \in Walking /\ j < i => Fresh(clientFdList[i])
                         /\ pc["sender"] \in {"visit", "write"} => Fresh(it)
                         /\ pc["sender"] = "step" => Passed(it[1])'
      BY DEF Before, Fresh
    <3>1. /\ it[1] \in Conns /\ it[1] # c
          /\ clientFdList[i][1] \in Conns /\ clientFdList[i][1] # c
      BY <1>1, WalkFacts
    <3>. QED  BY <1>2, <2>1, <3>1 DEF Before
  <2>3. Aimed'
    <3>. SUFFICES ASSUME pc["sender"] = "write"
                  PROVE  /\ it \in OnList => wfd = fdOf'[it[1]]
                         /\ it \notin OnList /\ file'[wfd] \in Conns =>
                              \/ peer'[file'[wfd]] # "open" \/ offered[file'[wfd]] = NULL
                              \/ file'[wfd] = it[1] /\ Fresh(it)
                         /\ ~recycled => /\ file'[wfd] = it[1] /\ regs[it[1]] > 0
                                         /\ kind[msg] \in Wants[it[1]] \cup {HEARTBEAT}
      BY <1>1 DEF Aimed, Fresh
    <3>1. wfd \in Fds /\ it[1] \in Conns
      BY <1>6, <2>1 DEF IInv, TypeOK, InWalk, Walking, Registrations
    <3>2. it \in OnList => it[1] # c  BY <1>1, WalkFacts
    <3>3. offered[c] = NULL  BY <1>1, <1>6 DEF Offering, Offered
    <3>4. it \in OnList => wfd = fdOf'[it[1]]  BY <1>2, <2>1, <3>1, <3>2 DEF Aimed
    <3>5. file[wfd] # c  BY <1>1, <3>1 DEF IInv, Paired
    <3>6. it \notin OnList /\ file'[wfd] \in Conns =>
             \/ peer'[file'[wfd]] # "open" \/ offered[file'[wfd]] = NULL
             \/ file'[wfd] = it[1] /\ Fresh(it)
      BY <1>2, <1>3, <2>1, <3>1, <3>3, <3>5 DEF Aimed
    <3>7. ~recycled => /\ file'[wfd] = it[1] /\ regs[it[1]] > 0
                       /\ kind[msg] \in Wants[it[1]] \cup {HEARTBEAT}
      BY <1>1, <1>3, <2>1, <3>1 DEF Aimed
    <3>. QED  BY <3>4, <3>6, <3>7
  <2>4. pc["sender"] \in Walking =>
          it \in Registrations /\ (it \in OnList \/ Leaving(it[1])')
    <3>1. pc["sender"] \in Walking =>
            it \in Registrations /\ (it \in OnList \/ Leaving(it[1]))
      BY <1>6, <2>1 DEF InWalk
    <3>2. it \in Registrations => it[1] \in Conns  BY DEF Registrations
    <3>. QED  BY <1>1, <1>2, <3>1, <3>2
  <2>5. pc["sender"] \in Walking \cup {"pop_read"} =>
          \A d \in audience : d # c /\ (d \in Listed \/ Leaving(d)')
    BY <1>1, <1>2, <1>6, <2>1 DEF InWalk
  <2>6. pc["sender"] = "pop_read" => \A d \in audience \cap Listed : Done(d)'
    BY <1>1, <1>2, <1>6, <2>1 DEF InWalk
  <2>. QED
    BY <1>1, <1>4, <2>2, <2>3, <2>4, <2>5, <2>6 DEF InWalk, Walking
<1>. QED  BY <1>5, <1>6

\* What registers during a walk is appended behind it, and was not offered its message.
LEMMA Walk_EpollRegister ==
    ASSUME NEW f \in Fds, IInv, IInv', OrderInv, QueueOrder', EpollRegister(f)
    PROVE  Offering' /\ InWalk'
<1>. USE NamesHold DEF Names, OrderInv, EpollRegister, queueVars, senderVars, netVars,
  history, Go, NULL
<1>. DEFINE c == file[f]  n == Len(clientFdList)  new == <<c, regs[c] + 1>>
<1>1. c \in Conns /\ ~Leaving(c) /\ regs[c] \in Nat
  <2>1. c \in Conns /\ fdOf[c] = f /\ f # NoFd  BY DEF IInv, Paired
  <2>2. peer[c] # "gone" /\ regs[c] \in Nat  BY <2>1 DEF IInv, TypeOK, Paired
  <2>. QED  BY <2>1, <2>2 DEF Leaving
<1>2. clientFdList' = Append(clientFdList, new) /\ LastLinked' = LastLinked
      /\ \A d : Leaving(d)' = Leaving(d)
  BY DEF LastLinked, Unlinked, Leaving
<1>3. \A d \in Conns : regs'[d] = IF d = c THEN regs[c] + 1 ELSE regs[d]
  BY <1>1 DEF IInv, TypeOK
<1>4. new \in Registrations /\ new[1] = c /\ new[2] = regs[c] + 1
  BY <1>1 DEF Registrations
<1>. HIDE DEF c, new
<1>5. n \in Nat /\ Len(clientFdList') = n + 1 /\ clientFdList'[n + 1] = new
      /\ \A i \in 1 .. n : clientFdList'[i] = clientFdList[i]
  <2>1. clientFdList \in Seq(Registrations)  BY DEF IInv, TypeOK
  <2>. HIDE DEF EpollRegister
  <2>. QED  BY <1>2, <1>4, <2>1, AppendProperties
<1>. HIDE DEF n
<1>6. OnList' = OnList \cup {new}
  <2>1. 1 .. Len(clientFdList') = (1 .. n) \cup {n + 1}  BY <1>5
  <2>2. OnList' = {clientFdList'[i] : i \in 1 .. Len(clientFdList')}  BY DEF OnList
  <2>3. OnList = {clientFdList[i] : i \in 1 .. n}  BY DEF OnList, n
  <2>. QED  BY <1>5, <2>1, <2>2, <2>3
<1>7. Listed' = Listed \cup {c}  BY <1>4, <1>6 DEF Listed
<1>8. CASE ub  BY <1>8, WalkOver
<1>9. CASE ~ub
  <2>1. InWalk /\ Before /\ Aimed /\ audience \subseteq Conns
    BY <1>9 DEF InWalk, IInv, TypeOK
  <2>2. pc["sender"] \in Walking =>
          it \in Registrations /\ it # new /\ (it \in OnList \/ Leaving(it[1]))
    <3>1. it \in OnList => it # new  BY <1>1, <1>4, WalkFacts
    <3>2. Leaving(it[1]) => it # new  BY <1>1, <1>4
    <3>. QED  BY <1>9, <2>1, <3>1, <3>2 DEF InWalk
  <2>3. Offering'
    <3>. SUFFICES ASSUME pc["sender"] # "dead", NEW d \in Conns PROVE Offered(d)'
      BY DEF Offering
    <3>1. Offered(d)  BY <1>9 DEF Offering
    <3>2. offered[d] # NULL /\ regs[d] > 0 /\ turn[d] <= regs[d] =>
            regs'[d] > 0 /\ turn'[d] <= regs'[d]
      BY <1>1, <1>3, WalkFacts
    <3>3. pc["sender"] = "step" /\ it \notin OnList => it \notin OnList'
      BY <1>6, <2>2 DEF Walking
    <3>. QED  BY <1>2, <3>1, <3>2, <3>3 DEF Offered, Walking
  <2>4. Before'
    <3>. SUFFICES ASSUME NEW i \in 1 .. n + 1, NEW j \in 1 .. n + 1, clientFdList'[j] = it,
                         pc["sender"] \in Walking
                  PROVE  /\ i < j => Passed(clientFdList'[i][1])
                         /\ j < i => Fresh(clientFdList'[i])
                         /\ pc["sender"] \in {"visit", "write"} => Fresh(it)
                         /\ pc["sender"] = "step" => Passed(it[1])
      BY <1>5 DEF Before, Passed, Done, Fresh, Walking
    <3>1. j \in 1 .. n /\ clientFdList[j] = it  BY <1>5, <2>2
    <3>2. CASE i \in 1 .. n  BY <1>5, <2>1, <3>1, <3>2 DEF Before, n
    <3>3. CASE i = n + 1
      <4>1. it \in OnList  BY <3>1, WalkFacts DEF n
      <4>2. offered[c] = NULL \/ turn[c] <= regs[c]
        BY <1>1, <1>9, <4>1 DEF Offering, Offered, Walking
      <4>3. msg \in 1 .. MaxMsgs  BY DEF IInv, Sending, Walking
      <4>4. Fresh(new)  BY <1>1, <1>4, <4>2, <4>3, WalkFacts DEF Fresh
      <4>5. j < i /\ ~(i < j) /\ Fresh(clientFdList'[i])
        BY <1>5, <3>1, <3>3, <4>4
      <4>. QED  BY <2>1, <3>1, <4>5 DEF Before, n
    <3>. QED  BY <3>2, <3>3, <1>5
  <2>5. Aimed'
    <3>1. pc["sender"] = "write" =>
            it[1] \in Conns /\ (it \in OnList' <=> it \in OnList)
      BY <1>6, <2>2 DEF Walking, Registrations
    <3>2. it[1] \in Conns /\ regs[it[1]] > 0 => regs'[it[1]] > 0  BY <1>1, <1>3
    <3>. QED  BY <2>1, <3>1, <3>2 DEF Aimed, Fresh
  <2>6. pc["sender"] \in Walking \cup {"pop_read"} =>
          \A d \in audience : d \in Listed \/ Leaving(d)
    BY <1>9, <2>1 DEF InWalk
  <2>7. pc["sender"] = "pop_read" => \A d \in audience \cap Listed' : Done(d)'
    <3>. SUFFICES ASSUME pc["sender"] = "pop_read", NEW d \in audience \cap Listed'
                  PROVE  Done(d)'
      OBVIOUS
    <3>1. d \in Listed  BY <1>1, <1>7, <2>6
    <3>2. Done(d)  BY <1>9, <2>1, <3>1 DEF InWalk
    <3>. QED  BY <3>2 DEF Done
  <2>. QED
    BY <1>2, <1>6, <1>7, <2>2, <2>3, <2>4, <2>5, <2>6, <2>7 DEF InWalk, Walking
<1>. QED  BY <1>8, <1>9

\* The client that is deleted leaves; the nodes that are kept keep their order.
LEMMA Walk_Drop ==
    ASSUME NEW f \in Fds, IInv, IInv', OrderInv, QueueOrder', Drop(f)
    PROVE  Offering' /\ InWalk'
<1>. USE NamesHold DEF Names, OrderInv, Drop, queueVars, senderVars, netVars, history, Go,
  NULL
<1>. DEFINE n == Len(clientFdList)  m == Len(clientFdList')
<1>1. LastLinked' = LastLinked /\ pc'["sender"] = pc["sender"]
      /\ pc' = [pc EXCEPT !["epoll"] = "close"]
  BY DEF LastLinked, Unlinked, Pushers, Threads, IInv, TypeOK
<1>2. \A d : Leaving(d)' <=> fdOf[d] = f \/ peer[d] = "gone"
  BY DEF IInv, TypeOK, Threads, Leaving
<1>3. \A d : Leaving(d) => Leaving(d)'  BY <1>2 DEF Leaving
<1>4. PICK At : KeptInOrder(f, At)  BY Deleted DEF IInv
<1>5. /\ \A i \in 1 .. m : /\ At[i] \in 1 .. n /\ clientFdList'[i] = clientFdList[At[i]]
      /\ \A i, j \in 1 .. m : i < j <=> At[i] < At[j]
      /\ \A k \in 1 .. n : fdOf[clientFdList[k][1]] # f => \E i \in 1 .. m : At[i] = k
  BY <1>4 DEF KeptInOrder, Kept
<1>. HIDE DEF Drop
<1>6. OnList' \subseteq OnList
  <2>1. \A r \in OnList' : \E i \in 1 .. m : clientFdList'[i] = r  BY DEF OnList
  <2>2. \A i \in 1 .. m : clientFdList'[i] \in OnList  BY <1>5, WalkFacts
  <2>. QED  BY <2>1, <2>2
<1>7. \A r \in OnList : r \notin OnList' => fdOf[r[1]] = f
  <2>. SUFFICES ASSUME NEW r \in OnList, fdOf[r[1]] # f PROVE r \in OnList'  OBVIOUS
  <2>1. PICK k \in 1 .. n : clientFdList[k] = r  BY WalkFacts
  <2>2. PICK i \in 1 .. m : At[i] = k  BY <1>5, <2>1
  <2>3. clientFdList'[i] = r  BY <1>5, <2>1, <2>2
  <2>. QED  BY <2>3 DEF OnList
<1>8. Listed' \subseteq Listed /\ \A d \in Listed : d \in Listed' \/ Leaving(d)'
  <2>1. Listed' \subseteq Listed  BY <1>6 DEF Listed
  <2>2. ASSUME NEW d \in Listed PROVE d \in Listed' \/ Leaving(d)'
    <3>1. PICK r \in OnList : r[1] = d  BY WalkFacts
    <3>2. CASE r \in OnList'  BY <3>1, <3>2 DEF Listed
    <3>3. CASE r \notin OnList'  BY <3>1, <3>3, <1>2, <1>7
    <3>. QED  BY <3>2, <3>3
  <2>. QED  BY <2>1, <2>2
<1>. USE DEF Drop
<1>. HIDE DEF n, m
<1>9. Offering'
  BY <1>1, <1>6 DEF Offering, Offered, Walking
<1>10. CASE ub  BY <1>10, WalkOver
<1>11. CASE ~ub
  <2>1. InWalk /\ Before /\ Aimed  BY <1>11 DEF InWalk
  <2>2. Before'
    <3>. SUFFICES ASSUME NEW i \in 1 .. m, NEW j \in 1 .. m, clientFdList'[j] = it
                  PROVE  /\ pc["sender"] \in Walking /\ i < j => Passed(clientFdList'[i][1])
                         /\ pc["sender"] \in Walking /\ j < i => Fresh(clientFdList'[i])
                         /\ pc["sender"] \in {"visit", "write"} => Fresh(it)
                         /\ pc["sender"] = "step" => Passed(it[1])
      BY <1>1 DEF Before, Passed, Done, Fresh, m
    <3>1. /\ At[i] \in 1 .. n /\ At[j] \in 1 .. n /\ clientFdList[At[j]] = it
          /\ clientFdList'[i] = clientFdList[At[i]]
          /\ (i < j => At[i] < At[j]) /\ (j < i => At[j] < At[i])
      BY <1>5
    <3>. QED  BY <2>1, <3>1 DEF Before, n
  <2>3. Aimed'
    <3>. SUFFICES ASSUME pc["sender"] = "write"
                  PROVE  /\ it \in OnList' => wfd = fdOf[it[1]]
                         /\ it \notin OnList' /\ file[wfd] \in Conns =>
                              \/ peer[file[wfd]] # "open" \/ offered[file[wfd]] = NULL
                              \/ file[wfd] = it[1] /\ Fresh(it)
                         /\ ~recycled => /\ file[wfd] = it[1] /\ regs[it[1]] > 0
                                         /\ kind[msg] \in Wants[it[1]] \cup {HEARTBEAT}
      BY <1>1 DEF Aimed, Fresh
    <3>1. it \in OnList => file[wfd] = it[1] /\ Fresh(it)
      <4>. SUFFICES ASSUME it \in OnList PROVE file[wfd] = it[1] /\ Fresh(it)  OBVIOUS
      <4>1. it[1] \in Listed /\ wfd = fdOf[it[1]]  BY <2>1, WalkFacts DEF Aimed
      <4>2. PICK j \in 1 .. Len(clientFdList) : clientFdList[j] = it  BY WalkFacts
      <4>3. Fresh(it)  BY <2>1, <4>2 DEF Before
      <4>. QED  BY <4>1, <4>3, WalkFacts
    <3>. QED  BY <1>6, <2>1, <3>1 DEF Aimed
  <2>4. pc["sender"] \in Walking =>
          it \in Registrations /\ (it \in OnList' \/ Leaving(it[1])')
    BY <1>2, <1>3, <1>7, <1>11, <2>1 DEF InWalk
  <2>5. pc["sender"] \in Walking \cup {"pop_read"} =>
          \A d \in audience : d \in Listed' \/ Leaving(d)'
    BY <1>3, <1>8, <1>11, <2>1 DEF InWalk
  <2>6. pc["sender"] = "pop_read" => \A d \in audience \cap Listed' : Done(d)'
    BY <1>8, <1>11, <2>1 DEF InWalk, Done
  <2>. QED
    BY <1>1, <1>9, <2>2, <2>3, <2>4, <2>5, <2>6 DEF InWalk, Walking
<1>. QED  BY <1>10, <1>11

\* Who is forgotten is not listed, and has been offered nothing from then on.
LEMMA Walk_EpollClose ==
    ASSUME IInv, IInv', OrderInv, QueueOrder', EpollClose
    PROVE  Offering' /\ InWalk'
<1>. USE NamesHold DEF Names, OrderInv, EpollClose, queueVars, senderVars, netVars, history,
  Go, NULL
<1>. DEFINE c == file[hungup]
<1>1. c \in Conns /\ hungup \in Fds /\ fdOf[c] = hungup /\ Leaving(c) /\ c \notin Listed
  <2>1. c \in Conns /\ hungup \in Fds /\ fdOf[c] = hungup  BY DEF IInv, Closing, Paired
  <2>2. Leaving(c)  BY <2>1 DEF Leaving
  <2>. QED  BY <2>1, <2>2, WalkFacts
<1>2. /\ \A d \in Conns : /\ peer'[d] = IF d = c THEN "gone" ELSE peer[d]
                          /\ regs'[d] = IF d = c THEN 0 ELSE regs[d]
                          /\ fdOf'[d] = IF d = c THEN NoFd ELSE fdOf[d]
                          /\ offered'[d] = IF d = c THEN NULL ELSE offered[d]
                          /\ turn'[d] = IF d = c THEN 0 ELSE turn[d]
      /\ \A g \in Fds : file'[g] = IF g = hungup THEN NoConn ELSE file[g]
  BY <1>1 DEF IInv, TypeOK
<1>3. LastLinked' = LastLinked /\ pc'["sender"] = pc["sender"]
      /\ Listed' = Listed /\ OnList' = OnList
      /\ recycled' = (recycled \/ (pc["sender"] = "write" /\ wfd = hungup))
  BY DEF LastLinked, Unlinked, Pushers, Threads, IInv, TypeOK, Listed, OnList
<1>. HIDE DEF c
<1>4. LastLinked \in Nat
  BY OneUnlinked DEF LastLinked, QueueOrder, Rising, IInv, TypeOK, Nodes
<1>5. Offering'
  <2>. SUFFICES ASSUME ~ub, pc["sender"] # "dead", NEW d \in Conns PROVE Offered(d)'
    BY <1>3 DEF Offering
  <2>1. Offered(d)  BY DEF Offering
  <2>2. CASE d # c  BY <1>2, <1>3, <2>1, <2>2 DEF Offered, Walking
  <2>3. CASE d = c
    <3>1. offered'[d] = NULL  BY <1>2, <2>3
    <3>. QED  BY <1>3, <1>4, <3>1, WalkFacts DEF Offered, Walking
  <2>. QED  BY <2>2, <2>3
<1>6. CASE ub  BY <1>6, WalkOver
<1>7. CASE ~ub
  <2>1. InWalk /\ Before /\ Aimed /\ audience \subseteq Conns
    BY <1>7 DEF InWalk, IInv, TypeOK
  <2>2. \A d \in Conns : (Leaving(d) => Leaving(d)') /\ (Done(d) => Done(d)')
    <3>. SUFFICES ASSUME NEW d \in Conns
                  PROVE  (Leaving(d) => Leaving(d)') /\ (Done(d) => Done(d)')
      OBVIOUS
    <3>1. CASE d = c  BY <1>2, <3>1 DEF Leaving, Done
    <3>2. CASE d # c
      <4>1. fdOf[d] # hungup  BY <1>1, <3>2 DEF IInv, Paired, c
      <4>. QED  BY <1>2, <3>2, <4>1 DEF Leaving, Done
    <3>. QED  BY <3>1, <3>2
  <2>3. \A r \in OnList : r[1] \in Conns /\ r[1] # c /\ (Fresh(r) => Fresh(r)')
    <3>. SUFFICES ASSUME NEW r \in OnList
                  PROVE  r[1] \in Conns /\ r[1] # c /\ (Fresh(r) => Fresh(r)')
      OBVIOUS
    <3>1. r[1] \in Conns /\ r[1] # c  BY <1>1, WalkFacts
    <3>. QED  BY <1>2, <3>1 DEF Fresh
  <2>4. Before'
    <3>. SUFFICES ASSUME NEW i \in 1 .. Len(clientFdList), NEW j \in 1 .. Len(clientFdList),
                         clientFdList[j] = it
                  PROVE  /\ pc["sender"] \in Walking /\ i < j => Passed(clientFdList[i][1])'
                         /\ pc["sender"] \in Walking /\ j < i => Fresh(clientFdList[i])'
                         /\ pc["sender"] \in {"visit", "write"} => Fresh(it)'
                         /\ pc["sender"] = "step" => Passed(it[1])'
      BY <1>3 DEF Before
    <3>1. it \in OnList /\ clientFdList[i] \in OnList  BY WalkFacts
    <3>2. \A d \in Conns : Passed(d) => Passed(d)'  BY <2>2 DEF Passed
    <3>. QED  BY <2>1, <2>3, <3>1, <3>2 DEF Before
  <2>5. Aimed'
    <3>. SUFFICES ASSUME pc["sender"] = "write"
                  PROVE  /\ it \in OnList => wfd = fdOf'[it[1]]
                         /\ it \notin OnList /\ file'[wfd] \in Conns =>
                              \/ peer'[file'[wfd]] # "open" \/ offered'[file'[wfd]] = NULL
                              \/ file'[wfd] = it[1] /\ Fresh(it)'
                         /\ ~recycled' => /\ file'[wfd] = it[1] /\ regs'[it[1]] > 0
                                          /\ kind[msg] \in Wants[it[1]] \cup {HEARTBEAT}
      BY <1>3 DEF Aimed
    <3>1. wfd \in Fds /\ it[1] \in Conns
      BY <1>7, <2>1 DEF IInv, TypeOK, InWalk, Walking, Registrations
    <3>2. it \in OnList => wfd = fdOf'[it[1]]  BY <1>2, <2>1, <2>3 DEF Aimed
    <3>3. it \notin OnList /\ file'[wfd] \in Conns =>
             \/ peer'[file'[wfd]] # "open" \/ offered'[file'[wfd]] = NULL
             \/ file'[wfd] = it[1] /\ Fresh(it)'
      <4>. SUFFICES ASSUME it \notin OnList, file'[wfd] \in Conns
                    PROVE  \/ peer'[file'[wfd]] # "open" \/ offered'[file'[wfd]] = NULL
                           \/ file'[wfd] = it[1] /\ Fresh(it)'
        OBVIOUS
      <4>1. wfd # hungup /\ file'[wfd] = file[wfd]  BY <1>2, <3>1, NamesHold DEF Names
      <4>2. file[wfd] # c  BY <1>1, <3>1, <4>1 DEF IInv, Paired
      <4>3. \/ peer[file[wfd]] # "open" \/ offered[file[wfd]] = NULL
            \/ file[wfd] = it[1] /\ Fresh(it)
        BY <2>1, <4>1 DEF Aimed
      <4>. QED  BY <1>2, <4>1, <4>2, <4>3 DEF Fresh
    <3>4. ~recycled' => /\ file'[wfd] = it[1] /\ regs'[it[1]] > 0
                        /\ kind[msg] \in Wants[it[1]] \cup {HEARTBEAT}
      <4>1. SUFFICES ASSUME ~recycled, wfd # hungup
                     PROVE  /\ file'[wfd] = it[1] /\ regs'[it[1]] > 0
                            /\ kind[msg] \in Wants[it[1]] \cup {HEARTBEAT}
        BY <1>3
      <4>2. file[wfd] = it[1] /\ regs[it[1]] > 0 /\ kind[msg] \in Wants[it[1]] \cup {HEARTBEAT}
        BY <2>1, <4>1 DEF Aimed
      <4>3. it[1] # c  BY <1>1, <3>1, <4>1, <4>2 DEF IInv, Paired
      <4>. QED  BY <1>2, <3>1, <4>1, <4>2, <4>3
    <3>. QED  BY <3>2, <3>3, <3>4
  <2>6. pc["sender"] \in Walking =>
          it \in Registrations /\ (it \in OnList \/ Leaving(it[1])')
    BY <1>7, <2>1, <2>2 DEF InWalk, Registrations
  <2>7. pc["sender"] \in Walking \cup {"pop_read"} =>
          \A d \in audience : d \in Listed \/ Leaving(d)'
    BY <1>7, <2>1, <2>2 DEF InWalk
  <2>8. pc["sender"] = "pop_read" => \A d \in audience \cap Listed : Done(d)'
    BY <1>7, <2>1, <2>2 DEF InWalk
  <2>. QED
    BY <1>3, <1>5, <2>4, <2>5, <2>6, <2>7, <2>8 DEF InWalk, Walking
<1>. QED  BY <1>6, <1>7

\* The walk owes nothing to a client that leaves.
LEMMA Walk_PeerClose ==
    ASSUME NEW c \in Conns, IInv, IInv', OrderInv, QueueOrder', PeerClose(c)
    PROVE  Offering' /\ InWalk'
<1>. USE NamesHold DEF Names, OrderInv, PeerClose, Listening, queueVars, senderVars,
  netVars, history, Go, NULL
<1>1. LastLinked' = LastLinked /\ Listed' = Listed /\ OnList' = OnList
  BY DEF LastLinked, Unlinked, Listed, OnList
<1>2. \A d \in Conns : /\ peer'[d] = "open" => peer[d] = "open"
                       /\ peer'[d] = "gone" <=> peer[d] = "gone"
  BY DEF IInv, TypeOK
<1>3. Offering'  BY <1>1 DEF Offering, Offered, Walking
<1>4. CASE ub  BY <1>4, WalkOver
<1>5. CASE ~ub
  <2>1. InWalk /\ Before /\ Aimed /\ audience \subseteq Conns
    BY <1>5 DEF InWalk, IInv, TypeOK
  <2>2. \A d \in Conns : /\ Leaving(d) => Leaving(d)'
                         /\ (Done(d) => Done(d)') /\ (Passed(d) => Passed(d)')
    BY <1>2 DEF Leaving, Done, Passed
  <2>3. Before'
    <3>. SUFFICES ASSUME NEW i \in 1 .. Len(clientFdList), NEW j \in 1 .. Len(clientFdList),
                         clientFdList[j] = it
                  PROVE  /\ pc["sender"] \in Walking /\ i < j => Passed(clientFdList[i][1])'
                         /\ pc["sender"] \in Walking /\ j < i => Fresh(clientFdList[i])
                         /\ pc["sender"] \in {"visit", "write"} => Fresh(it)
                         /\ pc["sender"] = "step" => Passed(it[1])'
      BY DEF Before, Fresh
    <3>1. it[1] \in Conns /\ clientFdList[i][1] \in Conns  BY WalkFacts
    <3>. QED  BY <2>1, <2>2, <3>1 DEF Before
  <2>4. Aimed'  BY <1>1, <1>2, <2>1 DEF Aimed, Fresh
  <2>5. pc["sender"] \in Walking =>
          it \in Registrations /\ (it \in OnList \/ Leaving(it[1])')
    BY <1>5, <2>1, <2>2 DEF InWalk, Registrations
  <2>6. pc["sender"] \in Walking \cup {"pop_read"} =>
          \A d \in audience : d \in Listed \/ Leaving(d)'
    BY <1>5, <2>1, <2>2 DEF InWalk
  <2>7. pc["sender"] = "pop_read" => \A d \in audience \cap Listed : Done(d)'
    BY <1>5, <2>1, <2>2 DEF InWalk
  <2>. QED
    BY <1>1, <1>3, <2>3, <2>4, <2>5, <2>6, <2>7 DEF InWalk, Walking
<1>. QED  BY <1>4, <1>5

-----------------------------------------------------------------------------
(* The list implements the queue of MessageQueue.                          *)

\* A nonempty set of places has a first one.
LEMMA FirstPlace ==
    ASSUME NEW m \in Nat, NEW K, K \subseteq 1 .. m, K # {}
    PROVE  \E x \in K : \A y \in K : x <= y
<1>. DEFINE T == {1 .. k : k \in K}
<1>1. IsFiniteSet(1 .. m)  BY FS_Interval
<1>2. IsWellFoundedOn(StrictSubsetOrdering(1 .. m), FiniteSubsetsOf(1 .. m))
  BY <1>1, FS_StrictSubsetOrderingWellFounded
<1>3. T \subseteq FiniteSubsetsOf(1 .. m)  BY FS_Interval DEF FiniteSubsetsOf
<1>4. PICK x \in T : \A y \in T : <<y, x>> \notin StrictSubsetOrdering(1 .. m)
  <2>1. T # {}  OBVIOUS
  <2>. HIDE DEF T
  <2>. QED  BY <1>2, <1>3, <2>1, WFMin, Zenon
<1>5. PICK k \in K : x = 1 .. k  OBVIOUS
<1>6. \A j \in K : k <= j
  <2>. SUFFICES ASSUME NEW j \in K, j < k PROVE FALSE  OBVIOUS
  <2>1. 1 .. j \subseteq 1 .. k /\ 1 .. j # 1 .. k  OBVIOUS
  <2>2. <<1 .. j, 1 .. k>> \in StrictSubsetOrdering(1 .. m)
    BY <2>1 DEF StrictSubsetOrdering
  <2>. QED  BY <2>2, <1>4, <1>5
<1>. QED  BY <1>6

\* The messages from h to n, in order.
Run(h, n) == [i \in 1 .. n - h + 1 |-> h + i - 1]

\* The sequence of nodes reached from head is determined: without a race it is the run
\* from head to the last message that is linked.
LEMMA ListIsRun ==
    ASSUME IInv, QueueOrder, ~overlap, pc["app"] # "dead"
    PROVE  /\ InList = IF head = NULL THEN <<>> ELSE Run(head, LastLinked)
           /\ head # NULL => head \in 1 .. LastLinked
<1>. USE NamesHold DEF Names, NULL
<1>. DEFINE S == UNION {[1 .. k -> 1 .. MaxMsgs] : k \in Nodes}
            L == LastLinked
<1>1. head \in Nat /\ L \in Int /\ L <= MaxMsgs /\ head <= L
  BY OneUnlinked DEF IInv, TypeOK, Nodes, LastLinked, QueueOrder, Rising
<1>2. \A s \in S : s \in Seq(1 .. MaxMsgs)
  <2>1. \A k \in Nodes : \A s \in [1 .. k -> 1 .. MaxMsgs] : s \in Seq(1 .. MaxMsgs)
    BY DEF Nodes
  <2>. QED  BY <2>1
<1>3. CASE head = NULL
  <2>1. <<>> \in S
    <3>1. <<>> \in [1 .. 0 -> 1 .. MaxMsgs] /\ 0 \in Nodes  BY DEF Nodes
    <3>. QED  BY <3>1
  <2>2. Chain(<<>>)  BY <1>3 DEF Chain
  <2>3. ASSUME NEW s \in S, Chain(s) PROVE s = <<>>
    <3>1. s \in Seq(1 .. MaxMsgs)  BY <1>2
    <3>2. s # <<>> => s[1] \in 1 .. MaxMsgs  BY <3>1
    <3>. QED  BY <1>3, <2>3, <3>2 DEF Chain
  <2>4. InList = <<>>  BY <2>1, <2>2, <2>3 DEF InList
  <2>. QED  BY <1>3, <2>4
<1>4. CASE head # NULL
  <2>. DEFINE r == Run(head, L)  m == L - head + 1
  <2>1. \A n \in head .. L : next[n] = IF n = L THEN NULL ELSE n + 1
    BY <1>4 DEF QueueOrder, Linked, FirstWaits
  <2>2. m \in Nodes /\ m >= 1 /\ head \in 1 .. L  BY <1>1, <1>4 DEF Nodes
  <2>3. r \in [1 .. m -> 1 .. MaxMsgs] /\ \A i \in 1 .. m : r[i] = head + i - 1
    BY <1>1, <1>4 DEF Run
  <2>4. r \in S  BY <2>2, <2>3
  <2>5. r \in Seq(1 .. MaxMsgs) /\ Len(r) = m  BY <1>1, <1>4, <2>2 DEF Run
  <2>6. Chain(r)
    <3>1. r # <<>> /\ r[1] = head  BY <1>1, <2>2, <2>3, <2>5
    <3>2. \A i \in 1 .. m : next[r[i]] = IF i = m THEN NULL ELSE r[i + 1]
      <4>. SUFFICES ASSUME NEW i \in 1 .. m
                    PROVE  next[r[i]] = IF i = m THEN NULL ELSE r[i + 1]
        OBVIOUS
      <4>1. r[i] = head + i - 1 /\ head + i - 1 \in head .. L
            /\ (i = m <=> head + i - 1 = L) /\ (i # m => r[i + 1] = head + i)
        BY <1>1, <2>2, <2>3
      <4>. HIDE DEF r, m
      <4>. QED  BY <1>1, <2>1, <4>1
    <3>. HIDE DEF r, m
    <3>. QED  BY <2>5, <3>1, <3>2 DEF Chain
  <2>7. ASSUME NEW s \in S, Chain(s) PROVE s = r
    <3>. DEFINE n == Len(s)  Good(i) == s[i] = head + i - 1 /\ s[i] <= L
                K == {i \in 1 .. n : ~Good(i)}
    <3>1. s \in Seq(1 .. MaxMsgs) /\ n \in Nat /\ \A i \in 1 .. n : s[i] \in 1 .. MaxMsgs
      BY <1>2
    <3>2. s # <<>> /\ s[1] = head /\ n >= 1
          /\ \A i \in 1 .. n : next[s[i]] = IF i = n THEN NULL ELSE s[i + 1]
      BY <1>4, <2>7, <3>1 DEF Chain
    <3>3. \A i \in 1 .. n - 1 : Good(i) => Good(i + 1)
      <4>. SUFFICES ASSUME NEW i \in 1 .. n - 1, Good(i) PROVE Good(i + 1)  OBVIOUS
      <4>1. i \in 1 .. n /\ i + 1 \in 1 .. n /\ i # n  BY <3>1
      <4>2. next[s[i]] = s[i + 1] /\ s[i + 1] # NULL  BY SMTT(60), <3>1, <3>2, <4>1
      <4>3. s[i] \in head .. L  BY SMTT(60), <1>1, <4>1
      <4>4. s[i] # L /\ s[i + 1] = s[i] + 1  BY <2>1, <4>2, <4>3
      <4>. QED  BY <1>1, <4>1, <4>3, <4>4
    <3>4. Good(1)  BY <1>1, <3>2
    <3>5. \A i \in 1 .. n : Good(i)
      <4>1. SUFFICES ASSUME K # {} PROVE FALSE  OBVIOUS
      <4>2. K \subseteq 1 .. n  OBVIOUS
      <4>3. PICK x \in K : \A y \in K : x <= y
        <5>. HIDE DEF K
        <5>. QED  BY <3>1, <4>1, <4>2, FirstPlace
      <4>4. x \in 1 .. n /\ ~Good(x)  OBVIOUS
      <4>5. x # 1  BY <3>4, <4>4
      <4>6. x - 1 \in 1 .. n /\ x - 1 \notin K  BY <3>1, <4>3, <4>4, <4>5
      <4>7. Good(x - 1)  BY <4>6
      <4>8. x - 1 \in 1 .. n - 1 /\ (x - 1) + 1 = x  BY <3>1, <4>4, <4>5
      <4>. HIDE DEF Good
      <4>. QED  BY <3>3, <4>4, <4>7, <4>8
    <3>6. n = m
      <4>1. s[n] = head + n - 1 /\ s[n] <= L /\ next[s[n]] = NULL  BY <3>1, <3>2, <3>5
      <4>2. s[n] \in head .. L  BY <1>1, <3>1, <3>2, <4>1
      <4>3. s[n] = L  BY <1>1, <2>1, <4>1, <4>2
      <4>. QED  BY <1>1, <3>1, <4>1, <4>3
    <3>7. \A i \in 1 .. Len(s) : s[i] = r[i]  BY <2>3, <3>5, <3>6
    <3>8. Len(s) = Len(r)  BY <2>5, <3>6
    <3>. HIDE DEF r, S
    <3>. QED  BY <2>5, <3>1, <3>7, <3>8, SeqEqual
  <2>. HIDE DEF r, S
  <2>8. InList = r  BY <2>4, <2>6, <2>7 DEF InList, S
  <2>. QED  BY <1>4, <2>2, <2>8 DEF r
<1>. QED  BY <1>3, <1>4

RunFrom(h) == IF h = NULL THEN <<>> ELSE Run(h, LastLinked)

\* The same as a formula, which holds of the next state too.
LEMMA ListIsRunNow ==
    IInv /\ QueueOrder /\ ~overlap /\ pc["app"] # "dead"
        => /\ InList = RunFrom(head)
           /\ head # NULL => head \in 1 .. LastLinked
BY ListIsRun DEF RunFrom

\* The list of the next state is determined as well.
LEMMA NextListIsRun ==
    (IInv /\ QueueOrder /\ ~overlap /\ pc["app"] # "dead"
        => /\ InList = RunFrom(head)
           /\ head # NULL => head \in 1 .. LastLinked)'
BY ListIsRunNow, PTL

QueueStep == [Queue!Next]_(Queue!vars)

\* A race, a freed node that is used or the end of the process breaks the queue.
LEMMA StepOfRace ==
    ASSUME IInv', Raced', LastLinked' \in {LastLinked, LastLinked + 1}
    PROVE  QueueStep
<1>1. Raced' = TRUE
  BY DEF Raced, IInv, TypeOK
<1>. QED  BY <1>1 DEF QueueStep, Queue!Next, Queue!Break, LastLinked

\* The queue is as it was when the list and what was offered are.
LEMMA StepOfNothing ==
    ASSUME IInv, IInv', OrderInv, OrderInv', ~Raced, ~Raced',
           head' = head, LastLinked' = LastLinked, offered' = offered,
           pc'["app"] = "off" <=> pc["app"] = "off"
    PROVE  QueueStep
<1>1. InList' = InList
  <2>1. InList = RunFrom(head)  BY ListIsRunNow DEF OrderInv, Raced
  <2>2. InList' = RunFrom(head)'  BY NextListIsRun DEF OrderInv, Raced
  <2>. QED  BY <2>1, <2>2 DEF RunFrom
<1>2. Raced' = Raced  BY DEF Raced, IInv, TypeOK
<1>. QED  BY <1>1, <1>2 DEF QueueStep, Queue!vars, LastLinked

\* What a run is.
LEMMA RunType ==
    ASSUME NEW h \in Nat, NEW n \in Nat, n - h + 1 \in Nat
    PROVE  /\ Run(h, n) \in Seq(Nat) /\ Len(Run(h, n)) = n - h + 1
           /\ \A i \in 1 .. n - h + 1 : Run(h, n)[i] = h + i - 1
BY DEF Run

\* A run grows at its end.
LEMMA RunAppend ==
    ASSUME NEW h \in Nat, NEW n \in Nat, h \in 1 .. n - 1
    PROVE  Run(h, n) = Append(Run(h, n - 1), n)
<1>. DEFINE r == Run(h, n - 1)  s == Run(h, n)  k == n - h
<1>1. k \in Nat /\ n - 1 \in Nat  OBVIOUS
<1>2. r \in Seq(Nat) /\ Len(r) = k /\ \A i \in 1 .. k : r[i] = h + i - 1
  BY <1>1, RunType
<1>3. s \in Seq(Nat) /\ Len(s) = k + 1 /\ \A i \in 1 .. k + 1 : s[i] = h + i - 1
  BY <1>1, RunType
<1>. HIDE DEF r, s
<1>4. Append(r, n) \in Seq(Nat) /\ Len(Append(r, n)) = k + 1
      /\ Append(r, n)[k + 1] = n /\ \A i \in 1 .. k : Append(r, n)[i] = r[i]
  BY <1>2, AppendProperties
<1>5. \A i \in 1 .. Len(s) : s[i] = Append(r, n)[i]
  <2>1. ASSUME NEW i \in 1 .. k + 1 PROVE s[i] = Append(r, n)[i]
    <3>1. CASE i \in 1 .. k  BY <1>2, <1>3, <1>4, <3>1
    <3>2. CASE i = k + 1
      <4>1. s[i] = n  BY <1>1, <1>3, <3>2
      <4>. QED  BY <1>4, <3>2, <4>1
    <3>3. i \in 1 .. k \/ i = k + 1  BY <1>1
    <3>. QED  BY <3>1, <3>2, <3>3
  <2>. QED  BY <1>3, <2>1
<1>6. s = Append(r, n)
  <2>. HIDE DEF k
  <2>. QED  BY <1>3, <1>4, <1>5, SeqEqual
<1>. QED  BY <1>6 DEF r, s

\* And shrinks at its beginning.
LEMMA RunTail ==
    ASSUME NEW h \in Nat, NEW n \in Nat, h \in 1 .. n
    PROVE  Tail(Run(h, n)) = Run(h + 1, n) /\ Run(h, n) # <<>>
<1>. DEFINE r == Run(h, n)  s == Run(h + 1, n)  k == n - h
<1>1. k \in Nat /\ h + 1 \in Nat /\ n - (h + 1) + 1 = k  OBVIOUS
<1>2. r \in Seq(Nat) /\ Len(r) = k + 1 /\ \A i \in 1 .. k + 1 : r[i] = h + i - 1
  BY <1>1, RunType
<1>3. s \in Seq(Nat) /\ Len(s) = k /\ \A i \in 1 .. k : s[i] = h + i
  <2>1. s \in Seq(Nat) /\ Len(s) = k /\ \A i \in 1 .. k : s[i] = (h + 1) + i - 1
    BY <1>1, RunType
  <2>. QED  BY <1>1, <2>1
<1>. HIDE DEF r, s
<1>4. r # <<>>  BY <1>1, <1>2
<1>5. Tail(r) \in Seq(Nat) /\ Len(Tail(r)) = k /\ \A i \in 1 .. k : Tail(r)[i] = r[i + 1]
  BY <1>1, <1>2, <1>4, HeadTailProperties
<1>6. \A i \in 1 .. Len(s) : s[i] = Tail(r)[i]
  <2>1. ASSUME NEW i \in 1 .. k PROVE s[i] = Tail(r)[i]
    <3>1. i + 1 \in 1 .. k + 1  BY <1>1
    <3>. QED  BY <1>1, <1>2, <1>3, <1>5, <3>1
  <2>. QED  BY <1>3, <2>1
<1>7. s = Tail(r)
  <2>. HIDE DEF k
  <2>. QED  BY <1>3, <1>5, <1>6, SeqEqual
<1>. QED  BY <1>4, <1>7 DEF r, s

\* Whom the sender writes to has not been offered a later message, nor this one for the
\* node the sender has reached; and it is registered for it if the descriptor is still that
\* of the client of that node.
LEMMA OfferedOnce ==
    ASSUME IInv, OrderInv, WriteSent
    PROVE  LET c == file[wfd] IN
           /\ c \in Conns
           /\ ub \/ (offered[c] <= msg /\ Later(c))
           /\ ub \/ recycled \/ (regs[c] > 0 /\ kind[msg] \in Wants[c] \cup {HEARTBEAT})
<1>. DEFINE c == file[wfd]
<1>1. c \in Conns /\ peer[c] = "open" /\ msg \in 1 .. MaxMsgs /\ pc["sender"] = "write"
      /\ wfd \in Fds
  BY DEF WriteSent, Open, IInv, TypeOK, Sending
<1>2. CASE ub  BY <1>1, <1>2
<1>3. CASE ~ub
  <2>1. Before /\ Aimed /\ it \in Registrations /\ offered[c] <= msg
    BY <1>1, <1>3 DEF OrderInv, InWalk, Offering, Offered, Walking
  <2>2. Later(c)
    <3>1. offered[c] = NULL \/ (c = it[1] /\ Fresh(it))
      <4>1. CASE it \in OnList
        <5>1. c = it[1]  BY <1>1, <2>1, <4>1, WalkFacts DEF Aimed
        <5>2. \E i \in 1 .. Len(clientFdList) : clientFdList[i] = it  BY <4>1, WalkFacts
        <5>3. Fresh(it)  BY <1>1, <2>1, <5>2 DEF Before
        <5>. QED  BY <5>1, <5>3
      <4>2. CASE it \notin OnList  BY <1>1, <2>1, <4>2 DEF Aimed
      <4>. QED  BY <4>1, <4>2
    <3>2. offered[c] \in Nat /\ turn[c] \in Nat /\ it[2] \in Nat /\ msg \in Nat /\ msg > 0
      BY <1>1, <2>1, WalkFacts DEF Registrations
    <3>. HIDE DEF c
    <3>. QED  BY <2>1, <3>1, <3>2 DEF Fresh, Later, NULL
  <2>3. recycled \/ (regs[c] > 0 /\ kind[msg] \in Wants[c] \cup {HEARTBEAT})
    BY <1>1, <2>1 DEF Aimed
  <2>. QED  BY <1>1, <2>1, <2>2, <2>3
<1>. QED  BY <1>2, <1>3

\* The queue starts, and is empty.
LEMMA Maps_ServerInit ==
    ASSUME IInv, IInv', OrderInv, OrderInv', ServerInit
    PROVE  QueueStep
<1>. USE DEF OrderInv, ServerInit, queueVars, senderVars, netVars, history, Go, NULL
<1>1. LastLinked' \in {LastLinked, LastLinked + 1}
  BY OneUnlinked DEF LastLinked, Unlinked, NotInList, Appending, PushPcs, Pushers, Threads,
     IInv, TypeOK, Nodes
<1>2. CASE Raced'  BY <1>1, <1>2, StepOfRace
<1>3. CASE ~Raced'
  <2>1. ~Raced
    <3>1. ~overlap /\ ~ub  BY <1>3 DEF Raced, IInv, TypeOK
    <3>2. pc["app"] # "dead"
      BY <1>3 DEF Raced, QueueOrder, Together, Pushers, Threads
    <3>. QED  BY <3>1, <3>2 DEF Raced
  <2>2. /\ pc["app"] = "off" /\ pc'["app"] = "idle" /\ head = NULL /\ head' = NULL
        /\ LastLinked' = LastLinked
    BY DEF LastLinked, Unlinked, NotInList, Pushers, Threads, QueueOrder, Together
  <2>3. InList = <<>> /\ InList' = <<>>
    BY <1>3, <2>1, <2>2, ListIsRunNow, NextListIsRun DEF RunFrom, Raced
  <2>4. Queue!Start
    BY <1>3, <2>1, <2>2, <2>3 DEF Queue!Start, LastLinked, Raced
  <2>. QED  BY <1>3, <2>1, <2>4 DEF QueueStep, Queue!Next
<1>. QED  BY <1>2, <1>3

\* The queue stops, and drops what waits.
LEMMA Maps_ServerExit ==
    ASSUME IInv, IInv', OrderInv, OrderInv', ServerExit
    PROVE  QueueStep
<1>. USE DEF OrderInv, ServerExit, CancelPoint, Messages, queueVars, senderVars, netVars,
  history, Go, NULL
<1>1. LastLinked' \in {LastLinked, LastLinked + 1}
  BY OneUnlinked DEF LastLinked, Unlinked, NotInList, Appending, PushPcs, Pushers, Threads,
     IInv, TypeOK, Nodes
<1>2. CASE Raced'  BY <1>1, <1>2, StepOfRace
<1>3. CASE ~Raced'
  <2>1. ~Raced
    <3>1. ~overlap /\ ~ub  BY <1>3 DEF Raced, IInv, TypeOK
    <3>2. pc["app"] # "dead"
      BY <1>3 DEF Raced, QueueOrder, Together, Pushers, Threads
    <3>. QED  BY <3>1, <3>2 DEF Raced
  <2>2. /\ pc["app"] # "off" /\ pc'["app"] = "off" /\ head' = NULL /\ LastLinked' = LastLinked
    BY DEF LastLinked, Unlinked, NotInList, Pushers, Threads
  <2>3. InList' = <<>>
    BY <1>3, <2>2, NextListIsRun DEF RunFrom, Raced
  <2>4. Queue!Stop
    BY <1>3, <2>1, <2>2, <2>3 DEF Queue!Stop, LastLinked, Raced
  <2>. QED  BY <1>3, <2>1, <2>4 DEF QueueStep, Queue!Next
<1>. QED  BY <1>2, <1>3

\* EnqueueServerMsg leaves the queue as it is.
LEMMA Maps_EnqueueServerMsg ==
    ASSUME NEW t \in Pushers, IInv, IInv', OrderInv, OrderInv', EnqueueServerMsg(t)
    PROVE  QueueStep
<1>. USE DEF OrderInv, EnqueueServerMsg, queueVars, senderVars, netVars, history, Go, NULL
<1>1. LastLinked' \in {LastLinked, LastLinked + 1}
  BY OneUnlinked DEF LastLinked, Unlinked, NotInList, Appending, PushPcs, Pushers, Threads,
     IInv, TypeOK, Nodes
<1>2. CASE Raced'  BY <1>1, <1>2, StepOfRace
<1>3. CASE ~Raced'
  <2>1. ~Raced
    <3>1. ~overlap /\ ~ub  BY <1>3 DEF Raced, IInv, TypeOK
    <3>2. pc["app"] # "dead"
      BY <1>3 DEF Raced, QueueOrder, Together, Pushers, Threads
    <3>. QED  BY <3>1, <3>2 DEF Raced
  <2>2. head' = head /\ LastLinked' = LastLinked /\ offered' = offered
        /\ (pc'["app"] = "off" <=> pc["app"] = "off")
    BY <1>3, <2>1, OneUnlinked DEF LastLinked, Unlinked, NotInList, Appending, PushPcs,
      Pushers,
       Threads, IInv, TypeOK, Nodes, Raced
  <2>. QED  BY <2>1, <2>2, <1>3, StepOfNothing
<1>. QED  BY <1>2, <1>3

\* PushLock leaves the queue as it is.
LEMMA Maps_PushLock ==
    ASSUME NEW t \in Pushers, IInv, IInv', OrderInv, OrderInv', PushLock(t)
    PROVE  QueueStep
<1>. USE DEF OrderInv, PushLock, queueVars, senderVars, netVars, history, Go, NULL
<1>1. LastLinked' \in {LastLinked, LastLinked + 1}
  BY OneUnlinked DEF LastLinked, Unlinked, NotInList, Appending, PushPcs, Pushers, Threads,
     IInv, TypeOK, Nodes
<1>2. CASE Raced'  BY <1>1, <1>2, StepOfRace
<1>3. CASE ~Raced'
  <2>1. ~Raced
    <3>1. ~overlap /\ ~ub  BY <1>3 DEF Raced, IInv, TypeOK
    <3>2. pc["app"] # "dead"
      BY <1>3 DEF Raced, QueueOrder, Together, Pushers, Threads
    <3>. QED  BY <3>1, <3>2 DEF Raced
  <2>2. head' = head /\ LastLinked' = LastLinked /\ offered' = offered
        /\ (pc'["app"] = "off" <=> pc["app"] = "off")
    BY <1>3, <2>1, OneUnlinked DEF LastLinked, Unlinked, NotInList, Appending, PushPcs,
      Pushers,
       Threads, IInv, TypeOK, Nodes, Raced
  <2>. QED  BY <2>1, <2>2, <1>3, StepOfNothing
<1>. QED  BY <1>2, <1>3

\* PushHead leaves the queue as it is.
LEMMA Maps_PushHead ==
    ASSUME NEW t \in Pushers, IInv, IInv', OrderInv, OrderInv', PushHead(t)
    PROVE  QueueStep
<1>. USE DEF OrderInv, PushHead, queueVars, senderVars, netVars, history, Go, NULL
<1>1. LastLinked' \in {LastLinked, LastLinked + 1}
  BY OneUnlinked DEF LastLinked, Unlinked, NotInList, Appending, PushPcs, Pushers, Threads,
     IInv, TypeOK, Nodes
<1>2. CASE Raced'  BY <1>1, <1>2, StepOfRace
<1>3. CASE ~Raced'
  <2>1. ~Raced
    <3>1. ~overlap /\ ~ub  BY <1>3 DEF Raced, IInv, TypeOK
    <3>2. pc["app"] # "dead"
      BY <1>3 DEF Raced, QueueOrder, Together, Pushers, Threads
    <3>. QED  BY <3>1, <3>2 DEF Raced
  <2>2. head' = head /\ LastLinked' = LastLinked /\ offered' = offered
        /\ (pc'["app"] = "off" <=> pc["app"] = "off")
    BY <1>3, <2>1, OneUnlinked DEF LastLinked, Unlinked, NotInList, Appending, PushPcs,
      Pushers,
       Threads, IInv, TypeOK, Nodes, Raced
  <2>. QED  BY <2>1, <2>2, <1>3, StepOfNothing
<1>. QED  BY <1>2, <1>3

\* A message is put into an empty queue.
LEMMA Maps_PushFirst ==
    ASSUME NEW t \in Pushers, IInv, IInv', OrderInv, OrderInv', PushFirst(t)
    PROVE  QueueStep
<1>. USE DEF OrderInv, PushFirst, queueVars, senderVars, netVars, history, Go, NULL
<1>1. LastLinked' \in {LastLinked, LastLinked + 1}
  BY OneUnlinked DEF LastLinked, Unlinked, NotInList, Appending, PushPcs, Pushers, Threads,
     IInv, TypeOK, Nodes
<1>2. CASE Raced'  BY <1>1, <1>2, StepOfRace
<1>3. CASE ~Raced'
  <2>1. ~Raced
    <3>1. ~overlap /\ ~ub  BY <1>3 DEF Raced, IInv, TypeOK
    <3>2. pc["app"] # "dead"
      BY <1>3 DEF Raced, QueueOrder, Together, Pushers, Threads
    <3>. QED  BY <3>1, <3>2 DEF Raced
  <2>2. /\ head = NULL /\ head' = count /\ LastLinked = count - 1 /\ LastLinked' = count
        /\ count \in 1 .. MaxMsgs
        /\ pc["app"] # "off" /\ pc'["app"] # "off"
    BY DEF LastLinked, Unlinked, NotInList, Appending, Pushers, PushPcs, Threads, IInv,
      TypeOK,
       QueueOrder, Together, Rising
  <2>3. InList = <<>> /\ InList' = Run(count, count)
    BY <1>3, <2>1, <2>2, ListIsRunNow, NextListIsRun DEF RunFrom, Raced, NULL
  <2>4. Run(count, count) = Append(<<>>, count)
    <3>1. Run(count, count) = [i \in 1 .. 1 |-> count]  BY <2>2 DEF Run
    <3>. QED  BY <3>1
  <2>5. {c \in Conns : offered'[c] = head'} = {}
    <3>1. \A c \in Conns : offered[c] <= LastLinked
      <4>1. ~ub /\ pc["sender"] # "dead"
        BY <2>1 DEF Raced, QueueOrder, Together, Threads
      <4>. QED  BY <4>1 DEF Offering, Offered
    <3>. QED  BY <2>2, <3>1, WalkFacts
  <2>6. Queue!Put
    BY <1>3, <2>1, <2>2, <2>3, <2>4, <2>5 DEF Queue!Put, LastLinked, Raced
  <2>. QED  BY <1>3, <2>1, <2>6 DEF QueueStep, Queue!Next
<1>. QED  BY <1>2, <1>3

\* PushTail leaves the queue as it is.
LEMMA Maps_PushTail ==
    ASSUME NEW t \in Pushers, IInv, IInv', OrderInv, OrderInv', PushTail(t)
    PROVE  QueueStep
<1>. USE DEF OrderInv, PushTail, Die, queueVars, senderVars, netVars, history, Go, NULL
<1>1. LastLinked' \in {LastLinked, LastLinked + 1}
  BY OneUnlinked DEF LastLinked, Unlinked, NotInList, Appending, PushPcs, Pushers, Threads,
     IInv, TypeOK, Nodes
<1>2. CASE Raced'  BY <1>1, <1>2, StepOfRace
<1>3. CASE ~Raced'
  <2>1. ~Raced
    <3>1. ~overlap /\ ~ub  BY <1>3 DEF Raced, IInv, TypeOK
    <3>2. pc["app"] # "dead"
      BY <1>3 DEF Raced, QueueOrder, Together, Pushers, Threads
    <3>. QED  BY <3>1, <3>2 DEF Raced
  <2>2. head' = head /\ LastLinked' = LastLinked /\ offered' = offered
        /\ (pc'["app"] = "off" <=> pc["app"] = "off")
    BY <1>3, <2>1, OneUnlinked DEF LastLinked, Unlinked, NotInList, Appending, PushPcs,
      Pushers,
       Threads, IInv, TypeOK, Nodes, Raced
  <2>. QED  BY <2>1, <2>2, <1>3, StepOfNothing
<1>. QED  BY <1>2, <1>3

\* A message is put behind the others.
LEMMA Maps_PushLink ==
    ASSUME NEW t \in Pushers, IInv, IInv', OrderInv, OrderInv', PushLink(t)
    PROVE  QueueStep
<1>. USE DEF OrderInv, PushLink, Die, queueVars, senderVars, netVars, history, Go, NULL
<1>1. LastLinked' \in {LastLinked, LastLinked + 1}
  BY OneUnlinked DEF LastLinked, Unlinked, NotInList, Appending, PushPcs, Pushers, Threads,
     IInv, TypeOK, Nodes
<1>2. CASE Raced'  BY <1>1, <1>2, StepOfRace
<1>3. CASE ~Raced'
  <2>1. ~Raced
    <3>1. ~overlap /\ ~ub  BY <1>3 DEF Raced, IInv, TypeOK
    <3>2. pc["app"] # "dead"
      BY <1>3 DEF Raced, QueueOrder, Together, Pushers, Threads
    <3>. QED  BY <3>1, <3>2 DEF Raced
  <2>2. /\ head' = head /\ LastLinked = count - 1 /\ LastLinked' = count
        /\ count \in 1 .. MaxMsgs
        /\ pc["app"] # "off" /\ pc'["app"] # "off"
    <3>1. pc'[t] = "set" /\ pc'["app"] # "dead" /\ pc["app"] # "off"
      BY <1>3 DEF IInv, TypeOK, Pushers, Threads, Raced, QueueOrder, Together
    <3>. QED
      BY <3>1 DEF LastLinked, Unlinked, NotInList, Appending, Pushers, PushPcs, Threads,
        IInv,
         TypeOK, QueueOrder, Together, Rising
  <2>3. head # NULL
    BY <2>1 DEF Raced, QueueOrder, Linked, ToBeLinked
  <2>4. InList = Run(head, count - 1) /\ InList' = Run(head, count) /\ head \in 1 .. count - 1
    BY <1>3, <2>1, <2>2, <2>3, ListIsRunNow, NextListIsRun DEF RunFrom, Raced
  <2>5. Run(head, count) = Append(Run(head, count - 1), count)
    <3>1. count \in Nat /\ head \in Nat
      BY NamesHold DEF Names, IInv, TypeOK, Nodes
    <3>. HIDE DEF PushLink
    <3>. QED  BY <2>4, <3>1, RunAppend
  <2>6. Queue!Put
    BY <1>3, <2>1, <2>2, <2>3, <2>4, <2>5 DEF Queue!Put, LastLinked, Raced
  <2>. QED  BY <1>3, <2>1, <2>6 DEF QueueStep, Queue!Next
<1>. QED  BY <1>2, <1>3

\* PushSet leaves the queue as it is.
LEMMA Maps_PushSet ==
    ASSUME NEW t \in Pushers, IInv, IInv', OrderInv, OrderInv', PushSet(t)
    PROVE  QueueStep
<1>. USE DEF OrderInv, PushSet, Signal, queueVars, senderVars, netVars, history, Go, NULL
<1>1. LastLinked' \in {LastLinked, LastLinked + 1}
  BY OneUnlinked DEF LastLinked, Unlinked, NotInList, Appending, PushPcs, Pushers, Threads,
     IInv, TypeOK, Nodes
<1>2. CASE Raced'  BY <1>1, <1>2, StepOfRace
<1>3. CASE ~Raced'
  <2>1. ~Raced
    <3>1. ~overlap /\ ~ub  BY <1>3 DEF Raced, IInv, TypeOK
    <3>2. pc["app"] # "dead"
      BY <1>3 DEF Raced, QueueOrder, Together, Pushers, Threads
    <3>. QED  BY <3>1, <3>2 DEF Raced
  <2>2. head' = head /\ LastLinked' = LastLinked /\ offered' = offered
        /\ (pc'["app"] = "off" <=> pc["app"] = "off")
    BY <1>3, <2>1, OneUnlinked DEF LastLinked, Unlinked, NotInList, Appending, PushPcs,
      Pushers,
       Threads, IInv, TypeOK, Nodes, Raced
  <2>. QED  BY <2>1, <2>2, <1>3, StepOfNothing
<1>. QED  BY <1>2, <1>3

\* SenderWait leaves the queue as it is.
LEMMA Maps_SenderWait ==
    ASSUME IInv, IInv', OrderInv, OrderInv', SenderWait
    PROVE  QueueStep
<1>. USE DEF OrderInv, SenderWait, queueVars, senderVars, netVars, history, Go, NULL
<1>1. LastLinked' \in {LastLinked, LastLinked + 1}
  BY OneUnlinked DEF LastLinked, Unlinked, NotInList, Appending, PushPcs, Pushers, Threads,
     IInv, TypeOK, Nodes
<1>2. CASE Raced'  BY <1>1, <1>2, StepOfRace
<1>3. CASE ~Raced'
  <2>1. ~Raced
    <3>1. ~overlap /\ ~ub  BY <1>3 DEF Raced, IInv, TypeOK
    <3>2. pc["app"] # "dead"
      BY <1>3 DEF Raced, QueueOrder, Together, Pushers, Threads
    <3>. QED  BY <3>1, <3>2 DEF Raced
  <2>2. head' = head /\ LastLinked' = LastLinked /\ offered' = offered
        /\ (pc'["app"] = "off" <=> pc["app"] = "off")
    BY <1>3, <2>1, OneUnlinked DEF LastLinked, Unlinked, NotInList, Appending, PushPcs,
      Pushers,
       Threads, IInv, TypeOK, Nodes, Raced
  <2>. QED  BY <2>1, <2>2, <1>3, StepOfNothing
<1>. QED  BY <1>2, <1>3

\* SenderFront leaves the queue as it is.
LEMMA Maps_SenderFront ==
    ASSUME IInv, IInv', OrderInv, OrderInv', SenderFront
    PROVE  QueueStep
<1>. USE DEF OrderInv, SenderFront, Arrive, queueVars, senderVars, netVars, history, Go,
  NULL
<1>1. LastLinked' \in {LastLinked, LastLinked + 1}
  BY OneUnlinked DEF LastLinked, Unlinked, NotInList, Appending, PushPcs, Pushers, Threads,
     IInv, TypeOK, Nodes
<1>2. CASE Raced'  BY <1>1, <1>2, StepOfRace
<1>3. CASE ~Raced'
  <2>1. ~Raced
    <3>1. ~overlap /\ ~ub  BY <1>3 DEF Raced, IInv, TypeOK
    <3>2. pc["app"] # "dead"
      BY <1>3 DEF Raced, QueueOrder, Together, Pushers, Threads
    <3>. QED  BY <3>1, <3>2 DEF Raced
  <2>2. head' = head /\ LastLinked' = LastLinked /\ offered' = offered
        /\ (pc'["app"] = "off" <=> pc["app"] = "off")
    BY <1>3, <2>1, OneUnlinked DEF LastLinked, Unlinked, NotInList, Appending, PushPcs,
      Pushers,
       Threads, IInv, TypeOK, Nodes, Raced
  <2>. QED  BY <2>1, <2>2, <1>3, StepOfNothing
<1>. QED  BY <1>2, <1>3

\* WalkVisit leaves the queue as it is.
LEMMA Maps_WalkVisit ==
    ASSUME IInv, IInv', OrderInv, OrderInv', WalkVisit
    PROVE  QueueStep
<1>. USE DEF OrderInv, WalkVisit, Corrupt, Sound, Die, queueVars, senderVars, netVars,
  history, Go, NULL
<1>1. LastLinked' \in {LastLinked, LastLinked + 1}
  BY OneUnlinked DEF LastLinked, Unlinked, NotInList, Appending, PushPcs, Pushers, Threads,
     IInv, TypeOK, Nodes
<1>2. CASE Raced'  BY <1>1, <1>2, StepOfRace
<1>3. CASE ~Raced'
  <2>1. ~Raced
    <3>1. ~overlap /\ ~ub  BY <1>3 DEF Raced, IInv, TypeOK
    <3>2. pc["app"] # "dead"
      BY <1>3 DEF Raced, QueueOrder, Together, Pushers, Threads
    <3>. QED  BY <3>1, <3>2 DEF Raced
  <2>2. head' = head /\ LastLinked' = LastLinked /\ offered' = offered
        /\ (pc'["app"] = "off" <=> pc["app"] = "off")
    BY <1>3, <2>1, OneUnlinked DEF LastLinked, Unlinked, NotInList, Appending, PushPcs,
      Pushers,
       Threads, IInv, TypeOK, Nodes, Raced
  <2>. QED  BY <2>1, <2>2, <1>3, StepOfNothing
<1>. QED  BY <1>2, <1>3

\* WalkStep leaves the queue as it is.
LEMMA Maps_WalkStep ==
    ASSUME IInv, IInv', OrderInv, OrderInv', WalkStep
    PROVE  QueueStep
<1>. USE DEF OrderInv, WalkStep, Arrive, Corrupt, Sound, Die, queueVars, senderVars,
  netVars, history, Go, NULL
<1>1. LastLinked' \in {LastLinked, LastLinked + 1}
  BY OneUnlinked DEF LastLinked, Unlinked, NotInList, Appending, PushPcs, Pushers, Threads,
     IInv, TypeOK, Nodes
<1>2. CASE Raced'  BY <1>1, <1>2, StepOfRace
<1>3. CASE ~Raced'
  <2>1. ~Raced
    <3>1. ~overlap /\ ~ub  BY <1>3 DEF Raced, IInv, TypeOK
    <3>2. pc["app"] # "dead"
      BY <1>3 DEF Raced, QueueOrder, Together, Pushers, Threads
    <3>. QED  BY <3>1, <3>2 DEF Raced
  <2>2. head' = head /\ LastLinked' = LastLinked /\ offered' = offered
        /\ (pc'["app"] = "off" <=> pc["app"] = "off")
    BY <1>3, <2>1, OneUnlinked DEF LastLinked, Unlinked, NotInList, Appending, PushPcs,
      Pushers,
       Threads, IInv, TypeOK, Nodes, Raced
  <2>. QED  BY <2>1, <2>2, <1>3, StepOfNothing
<1>. QED  BY <1>2, <1>3

\* A client is offered the first message, or once more if it is listed twice.
LEMMA Maps_WriteSent ==
    ASSUME IInv, IInv', OrderInv, OrderInv', WriteSent
    PROVE  QueueStep
<1>. USE DEF OrderInv, WriteSent, Open, Written, queueVars, senderVars, netVars, history,
  Go, NULL
<1>1. LastLinked' \in {LastLinked, LastLinked + 1}
  BY OneUnlinked DEF LastLinked, Unlinked, NotInList, Appending, PushPcs, Pushers, Threads,
     IInv, TypeOK, Nodes
<1>2. CASE Raced'  BY <1>1, <1>2, StepOfRace
<1>3. CASE ~Raced'
  <2>1. ~Raced
    <3>1. ~overlap /\ ~ub  BY <1>3 DEF Raced, IInv, TypeOK
    <3>2. pc["app"] # "dead"
      BY <1>3 DEF Raced, QueueOrder, Together, Pushers, Threads
    <3>. QED  BY <3>1, <3>2 DEF Raced
  <2>0. PICK c \in Conns : c = file[wfd]  BY OfferedOnce
  <2>2. /\ head' = head /\ LastLinked' = LastLinked /\ head # NULL /\ msg = head
        /\ pc["app"] # "off" /\ pc'["app"] # "off"
    BY DEF LastLinked, Unlinked, NotInList, Pushers, Threads, IInv, TypeOK, QueueOrder,
      Together,
       Sending, NULL
  <2>3. offered' = [offered EXCEPT ![c] = head]
    BY <2>0, <2>1, <2>2, OfferedOnce DEF Raced, IInv, TypeOK
  <2>4. InList' = InList /\ InList # <<>>
    <3>1. InList = RunFrom(head) /\ InList' = RunFrom(head)' /\ head \in 1 .. LastLinked
      BY <1>3, <2>1, <2>2, ListIsRunNow, NextListIsRun DEF Raced
    <3>2. InList = Run(head, LastLinked) /\ InList' = Run(head, LastLinked)
      BY <2>2, <3>1 DEF RunFrom
    <3>3. Run(head, LastLinked)[1] \in Nat /\ 1 \in DOMAIN Run(head, LastLinked)
      BY <3>1, WalkFacts DEF Run
    <3>. QED  BY <3>2, <3>3
  <2>5. \A d \in Conns : offered'[d] = IF d = c THEN head ELSE offered[d]
    BY <2>3 DEF IInv, TypeOK
  <2>6. CASE offered[c] # head
    <3>1. c \notin {d \in Conns : offered[d] = head}
          /\ {d \in Conns : offered'[d] = head} = {d \in Conns : offered[d] = head} \cup {c}
      BY <2>2, <2>5, <2>6
    <3>2. Queue!Offer(c)
      BY <1>3, <2>1, <2>2, <2>4, <3>1 DEF Queue!Offer, LastLinked, Raced
    <3>3. \E d \in Conns : Queue!Offer(d) \/ Queue!Leave(d)  BY <3>2
    <3>. QED  BY <2>1, <3>3 DEF QueueStep, Queue!Next
  <2>7. CASE offered[c] = head
    <3>1. {d \in Conns : offered'[d] = head} = {d \in Conns : offered[d] = head}
      BY <2>2, <2>5, <2>7
    <3>. QED
      BY <1>3, <2>1, <2>2, <2>4, <3>1 DEF QueueStep, Queue!vars, LastLinked, Raced
  <2>. QED  BY <2>6, <2>7
<1>. QED  BY <1>2, <1>3

\* WriteLost leaves the queue as it is.
LEMMA Maps_WriteLost ==
    ASSUME IInv, IInv', OrderInv, OrderInv', WriteLost
    PROVE  QueueStep
<1>. USE DEF OrderInv, WriteLost, Open, Written, Die, queueVars, senderVars, netVars,
  history, Go, NULL
<1>1. LastLinked' \in {LastLinked, LastLinked + 1}
  BY OneUnlinked DEF LastLinked, Unlinked, NotInList, Appending, PushPcs, Pushers, Threads,
     IInv, TypeOK, Nodes
<1>2. CASE Raced'  BY <1>1, <1>2, StepOfRace
<1>3. CASE ~Raced'
  <2>1. ~Raced
    <3>1. ~overlap /\ ~ub  BY <1>3 DEF Raced, IInv, TypeOK
    <3>2. pc["app"] # "dead"
      BY <1>3 DEF Raced, QueueOrder, Together, Pushers, Threads
    <3>. QED  BY <3>1, <3>2 DEF Raced
  <2>2. head' = head /\ LastLinked' = LastLinked /\ offered' = offered
        /\ (pc'["app"] = "off" <=> pc["app"] = "off")
    BY <1>3, <2>1, OneUnlinked DEF LastLinked, Unlinked, NotInList, Appending, PushPcs,
      Pushers,
       Threads, IInv, TypeOK, Nodes, Raced
  <2>. QED  BY <2>1, <2>2, <1>3, StepOfNothing
<1>. QED  BY <1>2, <1>3

\* PopRead leaves the queue as it is.
LEMMA Maps_PopRead ==
    ASSUME IInv, IInv', OrderInv, OrderInv', PopRead
    PROVE  QueueStep
<1>. USE DEF OrderInv, PopRead, queueVars, senderVars, netVars, history, Go, NULL
<1>1. LastLinked' \in {LastLinked, LastLinked + 1}
  BY OneUnlinked DEF LastLinked, Unlinked, NotInList, Appending, PushPcs, Pushers, Threads,
     IInv, TypeOK, Nodes
<1>2. CASE Raced'  BY <1>1, <1>2, StepOfRace
<1>3. CASE ~Raced'
  <2>1. ~Raced
    <3>1. ~overlap /\ ~ub  BY <1>3 DEF Raced, IInv, TypeOK
    <3>2. pc["app"] # "dead"
      BY <1>3 DEF Raced, QueueOrder, Together, Pushers, Threads
    <3>. QED  BY <3>1, <3>2 DEF Raced
  <2>2. head' = head /\ LastLinked' = LastLinked /\ offered' = offered
        /\ (pc'["app"] = "off" <=> pc["app"] = "off")
    BY <1>3, <2>1, OneUnlinked DEF LastLinked, Unlinked, NotInList, Appending, PushPcs,
      Pushers,
       Threads, IInv, TypeOK, Nodes, Raced
  <2>. QED  BY <2>1, <2>2, <1>3, StepOfNothing
<1>. QED  BY <1>2, <1>3

\* The first message is taken off.
LEMMA Maps_PopHead ==
    ASSUME IInv, IInv', OrderInv, OrderInv', PopHead
    PROVE  QueueStep
<1>. USE DEF OrderInv, PopHead, HeadAfterPop, queueVars, senderVars, netVars, history, Go,
  NULL
<1>1. LastLinked' \in {LastLinked, LastLinked + 1}
  BY OneUnlinked DEF LastLinked, Unlinked, NotInList, Appending, PushPcs, Pushers, Threads,
     IInv, TypeOK, Nodes
<1>2. CASE Raced'  BY <1>1, <1>2, StepOfRace
<1>3. CASE ~Raced'
  <2>1. ~Raced
    <3>1. ~overlap /\ ~ub  BY <1>3 DEF Raced, IInv, TypeOK
    <3>2. pc["app"] # "dead"
      BY <1>3 DEF Raced, QueueOrder, Together, Pushers, Threads
    <3>. QED  BY <3>1, <3>2 DEF Raced
  <2>2. /\ LastLinked' = LastLinked /\ head # NULL /\ msg = head /\ head' = after
        /\ pc["app"] # "off" /\ pc'["app"] # "off"
    BY DEF LastLinked, Unlinked, NotInList, Pushers, Threads, IInv, TypeOK, QueueOrder,
      Together,
       Sending, NULL
  <2>3. /\ InList = Run(head, LastLinked) /\ head \in 1 .. LastLinked
        /\ InList' = RunFrom(head)' /\ (head' # NULL => head' \in 1 .. LastLinked)
    BY <1>3, <2>1, <2>2, ListIsRunNow, NextListIsRun DEF RunFrom, Raced
  <2>4. LastTaken  BY <2>1 DEF QueueOrder, Linked, Raced
  <2>5. InList' = Tail(InList) /\ InList # <<>>
    <3>1. IF after = NULL THEN LastLinked = head ELSE after = head + 1
      <4>1. mutex = "free" => LastLinked = count
        BY DEF LastLinked, Unlinked, Appending, NotInList, PushPcs, Pushers, IInv, TypeOK,
          Nodes
      <4>. QED  BY <2>2, <2>4, <4>1 DEF LastTaken
    <3>2. InList' = IF after = NULL THEN <<>> ELSE Run(head + 1, LastLinked)
      BY <2>2, <2>3, <3>1 DEF RunFrom
    <3>3. LastLinked \in Nat /\ head \in 1 .. LastLinked  BY <2>3, WalkFacts
    <3>4. /\ Tail(Run(head, LastLinked)) = Run(head + 1, LastLinked)
          /\ Run(head, LastLinked) # <<>>
      <4>1. head \in Nat  BY WalkFacts
      <4>. HIDE DEF PopHead
      <4>. QED  BY <3>3, <4>1, RunTail
    <3>5. after = NULL => Run(head + 1, LastLinked) = <<>>
      BY <3>1, <3>3 DEF Run
    <3>. QED  BY <2>3, <3>2, <3>4, <3>5
  <2>6. head' # NULL => {c \in Conns : offered'[c] = head'} = {}
    <3>1. \A c \in Conns : offered[c] <= msg
      BY <2>1 DEF Offering, Offered, Raced
    <3>2. head' # NULL => msg < head'  BY <2>2 DEF QueueOrder, Rising
    <3>3. head' \in Nat  BY <2>2, WalkFacts
    <3>. QED  BY <3>1, <3>2, <3>3, WalkFacts
  <2>7. Queue!Take
    BY <1>3, <2>1, <2>2, <2>5, <2>6 DEF Queue!Take, LastLinked, Raced
  <2>. QED  BY <1>3, <2>1, <2>7 DEF QueueStep, Queue!Next
<1>. QED  BY <1>2, <1>3

\* PopTail leaves the queue as it is.
LEMMA Maps_PopTail ==
    ASSUME IInv, IInv', OrderInv, OrderInv', PopTail
    PROVE  QueueStep
<1>. USE DEF OrderInv, PopTail, queueVars, senderVars, netVars, history, Go, NULL
<1>1. LastLinked' \in {LastLinked, LastLinked + 1}
  BY OneUnlinked DEF LastLinked, Unlinked, NotInList, Appending, PushPcs, Pushers, Threads,
     IInv, TypeOK, Nodes
<1>2. CASE Raced'  BY <1>1, <1>2, StepOfRace
<1>3. CASE ~Raced'
  <2>1. ~Raced
    <3>1. ~overlap /\ ~ub  BY <1>3 DEF Raced, IInv, TypeOK
    <3>2. pc["app"] # "dead"
      BY <1>3 DEF Raced, QueueOrder, Together, Pushers, Threads
    <3>. QED  BY <3>1, <3>2 DEF Raced
  <2>2. head' = head /\ LastLinked' = LastLinked /\ offered' = offered
        /\ (pc'["app"] = "off" <=> pc["app"] = "off")
    BY <1>3, <2>1, OneUnlinked DEF LastLinked, Unlinked, NotInList, Appending, PushPcs,
      Pushers,
       Threads, IInv, TypeOK, Nodes, Raced
  <2>. QED  BY <2>1, <2>2, <1>3, StepOfNothing
<1>. QED  BY <1>2, <1>3

\* EpollAccept leaves the queue as it is.
LEMMA Maps_EpollAccept ==
    ASSUME NEW c \in Conns, NEW f \in Fds, IInv, IInv', OrderInv, OrderInv', EpollAccept(c, f)
    PROVE  QueueStep
<1>. USE DEF OrderInv, EpollAccept, queueVars, senderVars, netVars, history, Go, NULL
<1>1. LastLinked' \in {LastLinked, LastLinked + 1}
  BY OneUnlinked DEF LastLinked, Unlinked, NotInList, Appending, PushPcs, Pushers, Threads,
     IInv, TypeOK, Nodes
<1>2. CASE Raced'  BY <1>1, <1>2, StepOfRace
<1>3. CASE ~Raced'
  <2>1. ~Raced
    <3>1. ~overlap /\ ~ub  BY <1>3 DEF Raced, IInv, TypeOK
    <3>2. pc["app"] # "dead"
      BY <1>3 DEF Raced, QueueOrder, Together, Pushers, Threads
    <3>. QED  BY <3>1, <3>2 DEF Raced
  <2>2. head' = head /\ LastLinked' = LastLinked /\ offered' = offered
        /\ (pc'["app"] = "off" <=> pc["app"] = "off")
    BY <1>3, <2>1, OneUnlinked DEF LastLinked, Unlinked, NotInList, Appending, PushPcs,
      Pushers,
       Threads, IInv, TypeOK, Nodes, Raced
  <2>. QED  BY <2>1, <2>2, <1>3, StepOfNothing
<1>. QED  BY <1>2, <1>3

\* EpollRegister leaves the queue as it is.
LEMMA Maps_EpollRegister ==
    ASSUME NEW f \in Fds, IInv, IInv', OrderInv, OrderInv', EpollRegister(f)
    PROVE  QueueStep
<1>. USE DEF OrderInv, EpollRegister, queueVars, senderVars, netVars, history, Go, NULL
<1>1. LastLinked' \in {LastLinked, LastLinked + 1}
  BY OneUnlinked DEF LastLinked, Unlinked, NotInList, Appending, PushPcs, Pushers, Threads,
     IInv, TypeOK, Nodes
<1>2. CASE Raced'  BY <1>1, <1>2, StepOfRace
<1>3. CASE ~Raced'
  <2>1. ~Raced
    <3>1. ~overlap /\ ~ub  BY <1>3 DEF Raced, IInv, TypeOK
    <3>2. pc["app"] # "dead"
      BY <1>3 DEF Raced, QueueOrder, Together, Pushers, Threads
    <3>. QED  BY <3>1, <3>2 DEF Raced
  <2>2. head' = head /\ LastLinked' = LastLinked /\ offered' = offered
        /\ (pc'["app"] = "off" <=> pc["app"] = "off")
    BY <1>3, <2>1, OneUnlinked DEF LastLinked, Unlinked, NotInList, Appending, PushPcs,
      Pushers,
       Threads, IInv, TypeOK, Nodes, Raced
  <2>. QED  BY <2>1, <2>2, <1>3, StepOfNothing
<1>. QED  BY <1>2, <1>3

\* Drop leaves the queue as it is.
LEMMA Maps_Drop ==
    ASSUME NEW f \in Fds, IInv, IInv', OrderInv, OrderInv', Drop(f)
    PROVE  QueueStep
<1>. USE DEF OrderInv, Drop, queueVars, senderVars, netVars, history, Go, NULL
<1>1. LastLinked' \in {LastLinked, LastLinked + 1}
  BY OneUnlinked DEF LastLinked, Unlinked, NotInList, Appending, PushPcs, Pushers, Threads,
     IInv, TypeOK, Nodes
<1>2. CASE Raced'  BY <1>1, <1>2, StepOfRace
<1>3. CASE ~Raced'
  <2>1. ~Raced
    <3>1. ~overlap /\ ~ub  BY <1>3 DEF Raced, IInv, TypeOK
    <3>2. pc["app"] # "dead"
      BY <1>3 DEF Raced, QueueOrder, Together, Pushers, Threads
    <3>. QED  BY <3>1, <3>2 DEF Raced
  <2>2. head' = head /\ LastLinked' = LastLinked /\ offered' = offered
        /\ (pc'["app"] = "off" <=> pc["app"] = "off")
    BY <1>3, <2>1, OneUnlinked DEF LastLinked, Unlinked, NotInList, Appending, PushPcs,
      Pushers,
       Threads, IInv, TypeOK, Nodes, Raced
  <2>. QED  BY <2>1, <2>2, <1>3, StepOfNothing
<1>. QED  BY <1>2, <1>3

\* EpollOverflow leaves the queue as it is.
LEMMA Maps_EpollOverflow ==
    ASSUME NEW f \in Fds, IInv, IInv', OrderInv, OrderInv', EpollOverflow(f)
    PROVE  QueueStep
<1>. USE DEF OrderInv, EpollOverflow, Die, queueVars, senderVars, netVars, history, Go, NULL
<1>1. LastLinked' \in {LastLinked, LastLinked + 1}
  BY OneUnlinked DEF LastLinked, Unlinked, NotInList, Appending, PushPcs, Pushers, Threads,
     IInv, TypeOK, Nodes
<1>2. CASE Raced'  BY <1>1, <1>2, StepOfRace
<1>3. CASE ~Raced'
  <2>1. ~Raced
    <3>1. ~overlap /\ ~ub  BY <1>3 DEF Raced, IInv, TypeOK
    <3>2. pc["app"] # "dead"
      BY <1>3 DEF Raced, QueueOrder, Together, Pushers, Threads
    <3>. QED  BY <3>1, <3>2 DEF Raced
  <2>2. head' = head /\ LastLinked' = LastLinked /\ offered' = offered
        /\ (pc'["app"] = "off" <=> pc["app"] = "off")
    BY <1>3, <2>1, OneUnlinked DEF LastLinked, Unlinked, NotInList, Appending, PushPcs,
      Pushers,
       Threads, IInv, TypeOK, Nodes, Raced
  <2>. QED  BY <2>1, <2>2, <1>3, StepOfNothing
<1>. QED  BY <1>2, <1>3

\* A client leaves, whatever it was offered.
LEMMA Maps_EpollClose ==
    ASSUME IInv, IInv', OrderInv, OrderInv', EpollClose
    PROVE  QueueStep
<1>. USE DEF OrderInv, EpollClose, queueVars, senderVars, netVars, history, Go, NULL
<1>1. LastLinked' \in {LastLinked, LastLinked + 1}
  BY OneUnlinked DEF LastLinked, Unlinked, NotInList, Appending, PushPcs, Pushers, Threads,
     IInv, TypeOK, Nodes
<1>2. CASE Raced'  BY <1>1, <1>2, StepOfRace
<1>3. CASE ~Raced'
  <2>1. ~Raced
    <3>1. ~overlap /\ ~ub  BY <1>3 DEF Raced, IInv, TypeOK
    <3>2. pc["app"] # "dead"
      BY <1>3 DEF Raced, QueueOrder, Together, Pushers, Threads
    <3>. QED  BY <3>1, <3>2 DEF Raced
  <2>0. PICK c \in Conns : c = file[hungup]  BY DEF IInv, Closing
  <2>2. /\ head' = head /\ LastLinked' = LastLinked
        /\ (pc'["app"] = "off" <=> pc["app"] = "off")
    BY DEF LastLinked, Unlinked, NotInList, Pushers, Threads, IInv, TypeOK
  <2>3. \A d \in Conns : offered'[d] = IF d = c THEN NULL ELSE offered[d]
    BY <2>0 DEF IInv, TypeOK
  <2>4. CASE head # NULL /\ offered[c] = head
    <3>1. InList' = InList
      BY <1>3, <2>1, <2>2, ListIsRunNow, NextListIsRun DEF Raced, RunFrom
    <3>2. c \in {d \in Conns : offered[d] = head}
          /\ {d \in Conns : offered'[d] = head} = {d \in Conns : offered[d] = head} \ {c}
      BY <2>2, <2>3, <2>4
    <3>3. Queue!Leave(c)
      BY <1>3, <2>1, <2>2, <2>4, <3>1, <3>2 DEF Queue!Leave, LastLinked, Raced
    <3>4. \E d \in Conns : Queue!Offer(d) \/ Queue!Leave(d)  BY <3>3
    <3>. QED  BY <2>1, <3>4 DEF QueueStep, Queue!Next
  <2>5. CASE ~(head # NULL /\ offered[c] = head)
    <3>1. InList' = InList
      BY <1>3, <2>1, <2>2, ListIsRunNow, NextListIsRun DEF Raced, RunFrom
    <3>2. head # NULL => {d \in Conns : offered'[d] = head} = {d \in Conns : offered[d] = head}
      BY <2>2, <2>3, <2>5
    <3>. QED
      BY <1>3, <2>1, <2>2, <3>1, <3>2 DEF QueueStep, Queue!vars, LastLinked, Raced
  <2>. QED  BY <2>4, <2>5
<1>. QED  BY <1>2, <1>3

\* PeerClose leaves the queue as it is.
LEMMA Maps_PeerClose ==
    ASSUME NEW c \in Conns, IInv, IInv', OrderInv, OrderInv', PeerClose(c)
    PROVE  QueueStep
<1>. USE DEF OrderInv, PeerClose, Listening, queueVars, senderVars, netVars, history, Go,
  NULL
<1>1. LastLinked' \in {LastLinked, LastLinked + 1}
  BY OneUnlinked DEF LastLinked, Unlinked, NotInList, Appending, PushPcs, Pushers, Threads,
     IInv, TypeOK, Nodes
<1>2. CASE Raced'  BY <1>1, <1>2, StepOfRace
<1>3. CASE ~Raced'
  <2>1. ~Raced
    <3>1. ~overlap /\ ~ub  BY <1>3 DEF Raced, IInv, TypeOK
    <3>2. pc["app"] # "dead"
      BY <1>3 DEF Raced, QueueOrder, Together, Pushers, Threads
    <3>. QED  BY <3>1, <3>2 DEF Raced
  <2>2. head' = head /\ LastLinked' = LastLinked /\ offered' = offered
        /\ (pc'["app"] = "off" <=> pc["app"] = "off")
    BY <1>3, <2>1, OneUnlinked DEF LastLinked, Unlinked, NotInList, Appending, PushPcs,
      Pushers,
       Threads, IInv, TypeOK, Nodes, Raced
  <2>. QED  BY <2>1, <2>2, <1>3, StepOfNothing
<1>. QED  BY <1>2, <1>3

\* Every step keeps the order of the list.
LEMMA NextQueueOrder ==
    ASSUME IInv, IInv', QueueOrder, [Next]_vars PROVE QueueOrder'
<1>1. CASE ServerInit  BY <1>1, Queue_ServerInit
<1>2. CASE ServerExit  BY <1>2, Queue_ServerExit
<1>3. ASSUME NEW t \in Pushers, EnqueueServerMsg(t) PROVE QueueOrder'
  BY <1>3, Queue_EnqueueServerMsg
<1>4. ASSUME NEW t \in Pushers, Push(t) PROVE QueueOrder'
  BY <1>4, Queue_PushLock, Queue_PushHead, Queue_PushFirst,
     Queue_PushTail, Queue_PushLink, Queue_PushSet DEF Push
<1>5. CASE Sender
  BY <1>5, Queue_SenderWait, Queue_SenderFront, Queue_WalkVisit,
     Queue_WalkStep, Queue_WriteSent, Queue_WriteLost,
     Queue_PopRead, Queue_PopHead, Queue_PopTail DEF Sender
<1>6. CASE Epoll
  BY <1>6, Queue_EpollAccept, Queue_EpollRegister, Queue_Drop,
     Queue_EpollOverflow, Queue_EpollClose
     DEF Epoll, EpollClient, EpollEnd, EpollHangup, EpollEmpty
<1>7. CASE Peers  BY <1>7, Queue_PeerClose DEF Peers
<1>8. CASE UNCHANGED vars
  <2>. USE <1>8 DEF vars, queueVars, senderVars, netVars, history, QueueOrder
  <2>1. Together'  BY DEF Together
  <2>. QED  BY <2>1, QueueKept DEF Pushers
<1>. QED  BY <1>1, <1>2, <1>3, <1>4, <1>5, <1>6, <1>7, <1>8 DEF Next

\* Every step keeps what is said of the walk and the clients.
LEMMA NextWalk ==
    ASSUME IInv, IInv', OrderInv, QueueOrder', [Next]_vars PROVE Offering' /\ InWalk'
<1>1. CASE ServerInit  BY <1>1, Walk_ServerInit
<1>2. CASE ServerExit  BY <1>2, Walk_ServerExit
<1>3. ASSUME NEW t \in Pushers, EnqueueServerMsg(t) PROVE Offering' /\ InWalk'
  BY <1>3, Walk_EnqueueServerMsg
<1>4. ASSUME NEW t \in Pushers, Push(t) PROVE Offering' /\ InWalk'
  BY <1>4, Walk_PushLock, Walk_PushHead, Walk_PushFirst,
     Walk_PushTail, Walk_PushLink, Walk_PushSet DEF Push
<1>5. CASE Sender
  BY <1>5, Walk_SenderWait, Walk_SenderFront, Walk_WalkVisit,
     Walk_WalkStep, Walk_WriteSent, Walk_WriteLost,
     Walk_PopRead, Walk_PopHead, Walk_PopTail DEF Sender
<1>6. CASE Epoll
  BY <1>6, Walk_EpollAccept, Walk_EpollRegister, Walk_Drop,
     Walk_EpollOverflow, Walk_EpollClose
     DEF Epoll, EpollClient, EpollEnd, EpollHangup, EpollEmpty
<1>7. CASE Peers  BY <1>7, Walk_PeerClose DEF Peers
<1>8. CASE UNCHANGED vars
  <2>. USE <1>8 DEF vars, queueVars, senderVars, netVars, history, OrderInv
  <2>1. LastLinked' = LastLinked /\ LastLinked \in Int
    BY WalkFacts DEF LastLinked, Unlinked
  <2>. QED  BY <2>1, WalkKept
<1>. QED  BY <1>1, <1>2, <1>3, <1>4, <1>5, <1>6, <1>7, <1>8 DEF Next

\* The initial state satisfies the order of messages.
LEMMA InitOrder == Init => OrderInv
<1>. SUFFICES ASSUME Init PROVE OrderInv  OBVIOUS
<1>. USE NamesHold DEF Names, Init, NULL
<1>1. Together /\ Held  BY DEF Together, Held, Threads, Pushers
<1>2. Unlinked = 0 /\ LastLinked = 0 /\ ~AtSet
  <2>1. \A t \in Pushers : pc[t] = "off"  BY DEF Pushers, Threads
  <2>2. Unlinked = 0 /\ ~AtSet  BY <2>1 DEF Unlinked, AtSet, NotInList
  <2>. QED  BY <2>2 DEF LastLinked
<1>3. Rising  BY <1>2 DEF Rising, PushPcs, Pushers, Threads
<1>4. Linked
  BY <1>2 DEF Linked, FirstWaits, NothingWaits, LastTaken, ToBeLinked, NotInList, Pushers,
     Threads
<1>5. Offering  BY <1>2 DEF Offering, Offered, Walking, Threads
<1>6. InWalk  BY DEF InWalk, Before, Aimed, Walking, Threads
<1>. QED  BY <1>1, <1>3, <1>4, <1>5, <1>6 DEF OrderInv, QueueOrder

\* Every reachable state satisfies the order of messages.
THEOREM OrderInvariance == Spec => []OrderInv
<1>1. IInv /\ IInv' /\ OrderInv /\ [Next]_vars => OrderInv'
  <2>. SUFFICES ASSUME IInv, IInv', OrderInv, [Next]_vars PROVE OrderInv'  OBVIOUS
  <2>1. QueueOrder'  BY NextQueueOrder DEF OrderInv
  <2>. QED  BY <2>1, NextWalk DEF OrderInv
<1>. QED  BY <1>1, InitOrder, Invariance, PTL DEF Spec

\* As long as no append met a removal at the last node, serverMsgsList links every message
\* that waits, in order, although push_back() has the mutex and pop_front() has not.
THEOREM QueueAlwaysIntact == Spec => []QueueIntact
<1>1. IInv /\ OrderInv => QueueIntact
  <2>. SUFFICES ASSUME IInv, OrderInv, ~overlap, mutex = "free", pc["sender"] \notin PopPcs,
                       pc["app"] # "dead"
                PROVE  LET waiting == Messages \ freed IN
                       IF waiting = {} THEN head = NULL /\ tail = NULL
                       ELSE /\ head \in waiting /\ \A n \in waiting : head <= n
                            /\ tail = count
                            /\ \A n \in waiting : next[n] = IF n = count THEN NULL ELSE n + 1
    BY DEF QueueIntact
  <2>. USE DEF NULL
  <2>1. FirstWaits /\ NothingWaits  BY DEF OrderInv, QueueOrder, Linked
  <2>2. \A t \in Pushers : pc[t] \notin PushPcs  BY DEF IInv, Appending, Pushers
  <2>3. LastLinked = count /\ ~AtSet /\ count \in Nat /\ head \in Nat
    BY <2>2, NamesHold DEF Names, LastLinked, Unlinked, AtSet, NotInList, PushPcs, IInv,
      TypeOK,
       Nodes
  <2>4. head <= count  BY <2>3 DEF OrderInv, QueueOrder, Rising
  <2>5. CASE head = NULL
    <3>1. freed = 1 .. count /\ tail = NULL  BY <2>1, <2>3, <2>5 DEF NothingWaits, PopPcs
    <3>. QED  BY <2>5, <3>1 DEF Messages
  <2>6. CASE head # NULL
    <3>1. freed = 1 .. head - 1 /\ tail = count
          /\ \A n \in head .. count : next[n] = IF n = count THEN NULL ELSE n + 1
      BY <2>1, <2>3, <2>6 DEF FirstWaits
    <3>2. Messages \ freed = head .. count  BY <2>3, <2>4, <2>6, <3>1 DEF Messages
    <3>3. head \in head .. count  BY <2>3, <2>4
    <3>. QED  BY <2>3, <3>1, <3>2, <3>3
  <2>. QED  BY <2>5, <2>6
<1>. QED  BY <1>1, Invariance, OrderInvariance, PTL

\* The walk passes no client that is listed from its beginning to its end, whoever comes
\* and goes meanwhile, unless it went through a freed node.
THEOREM WalkComplete == Spec => []Complete
<1>1. IInv /\ OrderInv => Complete
  <2>. SUFFICES ASSUME IInv, OrderInv, pc["sender"] = "pop_read", ~ub,
                       NEW c \in audience \cap Listed
                PROVE  Done(c)
    BY DEF Complete, Done
  <2>. QED  BY DEF OrderInv, InWalk
<1>. QED  BY <1>1, Invariance, OrderInvariance, PTL

\* No client is offered messages out of order, even after messages were lost, nor a
\* message more than once for each of its registrations, however often it registers.
THEOREM OfferedInOrder == Spec => InOrder
<1>1. IInv /\ OrderInv /\ [Next]_vars => [WriteSent => ub \/ Later(file[wfd])]_vars
  BY OfferedOnce
<1>. QED  BY <1>1, Invariance, OrderInvariance, PTL DEF Spec, InOrder

\* What is sent goes to a registered client that wants it, unless the descriptor was
\* closed and reused while the sender held its number.
THEOREM SentToAddressees == Spec => Addressed
<1>1. IInv /\ OrderInv /\ [Next]_vars
      => [WriteSent =>
            LET c == file[wfd] IN
            ub \/ recycled \/ (regs[c] > 0 /\ kind[msg] \in Wants[c] \cup {HEARTBEAT})]_vars
  BY OfferedOnce
<1>. QED  BY <1>1, Invariance, OrderInvariance, PTL DEF Spec, Addressed

\* Every step of the server is a step of the queue or leaves it as it is.
LEMMA NextQueueStep ==
    ASSUME IInv, IInv', OrderInv, OrderInv', [Next]_vars PROVE QueueStep
<1>1. CASE ServerInit  BY <1>1, Maps_ServerInit
<1>2. CASE ServerExit  BY <1>2, Maps_ServerExit
<1>3. ASSUME NEW t \in Pushers, EnqueueServerMsg(t) PROVE QueueStep
  BY <1>3, Maps_EnqueueServerMsg
<1>4. ASSUME NEW t \in Pushers, Push(t) PROVE QueueStep
  BY <1>4, Maps_PushLock, Maps_PushHead, Maps_PushFirst,
     Maps_PushTail, Maps_PushLink, Maps_PushSet DEF Push
<1>5. CASE Sender
  BY <1>5, Maps_SenderWait, Maps_SenderFront, Maps_WalkVisit,
     Maps_WalkStep, Maps_WriteSent, Maps_WriteLost,
     Maps_PopRead, Maps_PopHead, Maps_PopTail DEF Sender
<1>6. CASE Epoll
  BY <1>6, Maps_EpollAccept, Maps_EpollRegister, Maps_Drop,
     Maps_EpollOverflow, Maps_EpollClose
     DEF Epoll, EpollClient, EpollEnd, EpollHangup, EpollEmpty
<1>7. CASE Peers  BY <1>7, Maps_PeerClose DEF Peers
<1>8. CASE UNCHANGED vars
  <2>. USE <1>8 DEF vars, queueVars, senderVars, netVars, history
  <2>1. InList' = InList  BY DEF InList, Chain
  <2>2. Raced' = Raced /\ Unlinked' = Unlinked  BY DEF Raced, Unlinked
  <2>. QED  BY <2>1, <2>2 DEF QueueStep, Queue!vars
<1>. QED  BY <1>1, <1>2, <1>3, <1>4, <1>5, <1>6, <1>7, <1>8 DEF Next

\* The list, in its many steps and with all its races, implements the queue: no message
\* is put twice, passed over or taken off before its turn, and the one offered is the first.
THEOREM ListIsQueue == Spec => ImplementsQueue
<1>1. Init => Queue!Init
  <2>. SUFFICES ASSUME Init PROVE Queue!Init  OBVIOUS
  <2>1. IInv /\ OrderInv  BY InitIInv, InitOrder
  <2>2. ~Raced /\ pc["app"] = "off" /\ head = NULL /\ count = 0 /\ Unlinked = 0
    BY DEF Init, Raced, Unlinked, NotInList, Pushers, Threads
  <2>3. InList = <<>>
    BY <2>1, <2>2, ListIsRunNow DEF RunFrom, OrderInv, Raced
  <2>4. Raced = FALSE  BY <2>2 DEF Raced, Init
  <2>. QED  BY <2>2, <2>3, <2>4 DEF Queue!Init
<1>2. IInv /\ IInv' /\ OrderInv /\ OrderInv' /\ [Next]_vars => [Queue!Next]_(Queue!vars)
  BY NextQueueStep DEF QueueStep
<1>. QED
  BY <1>1, <1>2, Invariance, OrderInvariance, PTL DEF Spec, ImplementsQueue, Queue!Spec

-----------------------------------------------------------------------------
(* The signal of push_back(): what Drains rests on besides the schedule.    *)

\* A sender that sleeps has seen an empty list, under the mutex.  The list is filled
\* while it sleeps only by who is about to signal, and nobody links behind a last node.
SignalDue ==
    pc["sender"] = "asleep" =>
        /\ head # NULL => AtSet
        /\ \A t \in Pushers : pc[t] \notin {"tail", "link"}

\* Only one of the two that append is inside push_back().
LEMMA OneAppends ==
    ASSUME IInv, NEW t \in Pushers, NEW u \in Pushers, pc[t] \in PushPcs, pc[u] \in PushPcs
    PROVE  t = u
BY DEF IInv, Appending

\* Every step leaves the signal due or gives it.
LEMMA NextSignalDue == IInv /\ SignalDue /\ [Next]_vars => SignalDue'
<1>. SUFFICES ASSUME IInv, SignalDue, [Next]_vars, pc'["sender"] = "asleep"
              PROVE  /\ head' # NULL => AtSet'
                     /\ \A u \in Pushers : pc'[u] \notin {"tail", "link"}
  BY DEF SignalDue
<1>0. pc \in [Threads -> Pcs]  BY DEF IInv, TypeOK
<1>. USE <1>0 DEF Threads, Pushers, Go, Die, SignalDue, AtSet
<1>1. ASSUME ServerInit \/ ServerExit PROVE FALSE  BY <1>1 DEF ServerInit, ServerExit
<1>2. ASSUME NEW t \in Pushers, EnqueueServerMsg(t) \/ PushLock(t)
      PROVE  /\ head' # NULL => AtSet'
             /\ \A u \in Pushers : pc'[u] \notin {"tail", "link"}
  BY <1>2 DEF EnqueueServerMsg, PushLock, queueVars
<1>3. ASSUME NEW t \in Pushers, PushHead(t)
      PROVE  /\ head' # NULL => AtSet'
             /\ \A u \in Pushers : pc'[u] \notin {"tail", "link"}
  <2>1. ~AtSet  BY <1>3, OneAppends DEF PushHead, PushPcs
  <2>. QED  BY <1>3, <2>1 DEF PushHead, queueVars
<1>4. ASSUME NEW t \in Pushers, PushFirst(t)
      PROVE  /\ head' # NULL => AtSet'
             /\ \A u \in Pushers : pc'[u] \notin {"tail", "link"}
  BY <1>4 DEF PushFirst
<1>5. ASSUME NEW t \in Pushers, PushTail(t) \/ PushLink(t) \/ PushSet(t) PROVE FALSE
  BY <1>5 DEF PushTail, PushLink, PushSet, Signal
<1>6. CASE SenderWait
  <2>1. \A u \in Pushers : pc[u] \notin PushPcs  BY <1>6 DEF SenderWait, IInv, Appending
  <2>. QED  BY <1>6, <2>1 DEF SenderWait, PushPcs, queueVars
<1>7. ASSUME SenderFront \/ WalkVisit \/ WalkStep \/ WriteSent \/ WriteLost \/ PopRead
             \/ PopHead \/ PopTail
      PROVE  FALSE
  BY <1>7 DEF SenderFront, Arrive, WalkVisit, WalkStep, WriteSent, WriteLost, Written,
     PopRead, PopHead, PopTail
<1>8. CASE Epoll
  BY <1>8 DEF Epoll, EpollClient, EpollEnd, EpollAccept, EpollRegister, EpollHangup,
     EpollEmpty, Drop, EpollOverflow, EpollClose, queueVars
<1>9. CASE Peers  BY <1>9 DEF Peers, PeerClose, queueVars
<1>10. CASE UNCHANGED vars  BY <1>10 DEF vars, queueVars
<1>. QED  BY <1>1, <1>2, <1>3, <1>4, <1>5, <1>6, <1>7, <1>8, <1>9, <1>10 DEF Next, Push,
  Sender

\* messageSenderWorker never sleeps through a message: whoever fills the list that it
\* has found empty has still to signal the condition.
THEOREM SignalNeverMissed == Spec => []SignalDue
<1>1. Init => SignalDue  BY DEF Init, SignalDue, Threads, Pushers
<1>. QED  BY <1>1, NextSignalDue, Invariance, PTL DEF Spec

-----------------------------------------------------------------------------
(* The epoll set: what HangupCleaned rests on besides the schedule.         *)

\* Every accepted connection is watched, until the application starts the server again:
\* that leaves the connections of the first time outside the new epoll set.
WatchedUntilRestart ==
    inits <= 1 => \A c \in Conns : fdOf[c] \in Fds => fdOf[c] \in watched

\* Before the first ServerInit there is no thread and no connection.
NotStarted ==
    inits = 0 => (\A t \in Threads : pc[t] = "off") /\ \A c \in Conns : fdOf[c] = NoFd

\* Nothing happens before ServerInit.
LEMMA FirstIsInit ==
    ASSUME NotStarted, inits = 0, [Next]_vars
    PROVE  ServerInit \/ UNCHANGED vars
<1>. USE DEF NotStarted, Threads
<1>1. ~ServerExit  BY DEF ServerExit, CancelPoint
<1>2. ASSUME NEW t \in Pushers, EnqueueServerMsg(t) \/ Push(t) PROVE FALSE
  BY <1>2 DEF Pushers, EnqueueServerMsg, Push, PushLock, PushHead, PushFirst, PushTail,
     PushLink, PushSet
<1>3. ~Sender
  BY DEF Sender, SenderWait, SenderFront, WalkVisit, WalkStep, WriteSent, WriteLost,
     PopRead, PopHead, PopTail
<1>4. ~Epoll
  BY DEF Epoll, EpollClient, EpollEnd, EpollAccept, EpollRegister, EpollHangup, EpollEmpty,
     Drop, EpollOverflow, EpollClose
<1>5. ~Peers  BY DEF Peers, PeerClose, Listening
<1>. QED  BY <1>1, <1>2, <1>3, <1>4, <1>5 DEF Next

\* Every step keeps watch of what it does not close.
LEMMA NextWatched ==
    IInv /\ NotStarted /\ WatchedUntilRestart /\ [Next]_vars
    => NotStarted' /\ WatchedUntilRestart'
<1>. SUFFICES ASSUME IInv, NotStarted, WatchedUntilRestart, [Next]_vars
              PROVE  NotStarted' /\ WatchedUntilRestart'
  OBVIOUS
<1>0. /\ inits \in Nat /\ fdOf \in [Conns -> Fds \cup {NoFd}] /\ NoFd \notin Fds
  BY NamesHold DEF IInv, TypeOK, Names
<1>. DEFINE Steady == UNCHANGED <<fdOf, watched, inits>>
<1>1. CASE inits = 0
  <2>1. CASE ServerInit
    BY <1>0, <1>1, <2>1 DEF ServerInit, NotStarted, WatchedUntilRestart
  <2>2. CASE UNCHANGED vars
    BY <2>2 DEF vars, netVars, NotStarted, WatchedUntilRestart
  <2>. QED  BY <1>1, <2>1, <2>2, FirstIsInit
<1>2. CASE inits # 0
  <2>1. Steady => NotStarted' /\ WatchedUntilRestart'
    BY <1>2 DEF NotStarted, WatchedUntilRestart
  <2>2. ServerInit => NotStarted' /\ WatchedUntilRestart'
    BY <1>0, <1>2 DEF ServerInit, NotStarted, WatchedUntilRestart
  <2>3. ServerExit \/ Peers \/ UNCHANGED vars => Steady
    BY DEF ServerExit, Peers, PeerClose, vars, netVars
  <2>4. ASSUME NEW t \in Pushers, EnqueueServerMsg(t) \/ Push(t) PROVE Steady
    BY <2>4 DEF EnqueueServerMsg, Push, PushLock, PushHead, PushFirst, PushTail, PushLink,
       PushSet, netVars
  <2>5. Sender => Steady
    BY DEF Sender, SenderWait, SenderFront, WalkVisit, WalkStep, WriteSent, WriteLost,
       PopRead, PopHead, PopTail, netVars
  <2>6. ASSUME NEW c \in Conns, NEW f \in Fds, EpollAccept(c, f)
        PROVE  NotStarted' /\ WatchedUntilRestart'
    BY <1>0, <1>2, <2>6 DEF EpollAccept, NotStarted, WatchedUntilRestart
  <2>7. ASSUME NEW f \in Fds, EpollRegister(f) \/ Drop(f) \/ EpollOverflow(f)
        PROVE  Steady
    BY <2>7 DEF EpollRegister, Drop, EpollOverflow, netVars
  <2>8. CASE EpollClose
    <3>1. /\ fdOf' = [fdOf EXCEPT ![file[hungup]] = NoFd]
          /\ watched' = watched \ {hungup} /\ inits' = inits
      BY <2>8 DEF EpollClose
    <3>2. \A c \in Conns : fdOf[c] = hungup => c = file[hungup]
      BY <2>8 DEF EpollClose, IInv, Closing, Paired
    <3>. QED  BY <1>0, <1>2, <3>1, <3>2 DEF NotStarted, WatchedUntilRestart
  <2>. HIDE DEF Steady
  <2>. QED
    BY <2>1, <2>2, <2>3, <2>4, <2>5, <2>6, <2>7, <2>8
    DEF Next, Epoll, EpollClient, EpollEnd, EpollHangup, EpollEmpty
<1>. QED  BY <1>1, <1>2

\* In one run of the server, the epoll thread loses sight of no connection: whoever hangs
\* up, with whatever failure, is in the epoll set to be found.
THEOREM ConnectionsWatched == Spec => []WatchedUntilRestart
<1>1. Init => NotStarted /\ WatchedUntilRestart
  BY NamesHold DEF Init, NotStarted, WatchedUntilRestart, Names
<1>. QED  BY <1>1, NextWatched, Invariance, PTL DEF Spec

=============================================================================
