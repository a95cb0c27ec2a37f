--------------------------- MODULE SocketIpcProofs ---------------------------
(***************************************************************************)
(* While handles are listed a service thread reads them, and what a caller *)
(* takes for its answer is at most one call older for each call of it that *)
(* timed out, for any number of channels, threads, callers and calls.      *)
(***************************************************************************)
EXTENDS SocketIpc, FiniteSetTheorems, SequenceTheorems, TLAPS

\* A thread that opens or closes a channel has it for itself.
Owners ==
    /\ \A a \in Apps :
         /\ app[a] = "idle" => handle[a] = NoHandle
         /\ app[a] \in {"close", "join", "release"} => handle[a] \in Handles
         /\ app[a] = "open" /\ handle[a] = NoHandle => failed
         /\ handle[a] \in Handles => sock[handle[a]] = "bound"
    /\ \A a, b \in Apps : handle[a] \in Handles /\ handle[a] = handle[b] => a = b

\* A channel that is open is in the list, unless it is just being linked or unlinked.
Listed ==
    \A h \in Handles :
        sock[h] = "bound" => \/ InList(h)
                             \/ \E a \in Apps : /\ handle[a] = h
                                                /\ app[a] \in {"open", "join", "release"}

\* The mutex is kept while a thread is waited for, and while one reads.
Mutexed ==
    /\ \A a \in Apps : /\ app[a] = "join" <=> serv_mutex = a
                       /\ app[a] = "join" => serv_list = <<>>
    /\ \A w \in Workers : worker[w] \in {"select", "handle"} => serv_mutex = w

\* Without a failure there is one service thread at most, and with an empty list none
\* that is not waited for.
Served ==
    /\ serv_list # <<>> => serv_status /\ serv_pthread_id \in Workers /\ Live(serv_pthread_id)
    /\ ~failed => \A w \in Workers : Live(w) => w = serv_pthread_id
    /\ ~failed /\ serv_list = <<>> /\ serv_mutex \notin Apps => \A w \in Workers : ~Live(w)

\* What was readable still is.
Readable == \A h \in ready : requests[h] # <<>> \/ Freed(h)

\* The calls of p that took an answer.
Taken(p) == current[p] - late[p] - (IF calling[p] THEN 1 ELSE 0)

\* Answers wait in the order of their calls, and each taken one leaves a younger head.
Answered ==
    \A p \in Peers :
        /\ \A i \in 1 .. Len(answers[p]) : /\ Taken(p) + i <= answers[p][i]
                                           /\ answers[p][i] <= current[p]
        /\ \A i, j \in 1 .. Len(answers[p]) : i < j => answers[p][i] < answers[p][j]

\* So do the requests, which are younger than the answers.
Requested ==
    \A h \in Handles : \A i \in 1 .. Len(requests[h]) :
        LET p == requests[h][i][1]
            n == requests[h][i][2]
        IN  /\ Target[p] = h
            /\ Taken(p) + 1 <= n /\ n <= current[p]
            /\ \A j \in 1 .. Len(answers[p]) : answers[p][j] < n
            /\ \A j \in 1 .. Len(requests[h]) : i < j /\ requests[h][j][1] = p
                                                  => n < requests[h][j][2]

IInv == /\ IpcTypeOK /\ Owners /\ Listed /\ Mutexed /\ Served
        /\ Readable /\ Answered /\ Requested

-----------------------------------------------------------------------------
\* The initial state satisfies the inductive invariant.
LEMMA InitIInv == IpcInit => IInv
<1>. SUFFICES ASSUME IpcInit PROVE IInv  OBVIOUS
<1>. USE IpcNamesAssumption DEF IpcInit
<1>1. IpcTypeOK
  <2>1. serv_list \in Seq(Handles) /\ requests \in [Handles -> Seq(Peers \X Nat)]
        /\ answers \in [Peers -> Seq(Nat)]
    BY EmptySeq
  <2>2. ready \subseteq Handles /\ serv_status \in BOOLEAN /\ failed \in BOOLEAN
        /\ misused \in BOOLEAN
    OBVIOUS
  <2>3. current \in [Peers -> Nat] /\ late \in [Peers -> Nat] /\ calling \in [Peers -> BOOLEAN]
    OBVIOUS
  <2>4. worker \in [Workers -> {"none", "check", "lock", "select", "handle", "gone"}]
        /\ serv_mutex = "free" /\ serv_pthread_id = NoWorker
    OBVIOUS
  <2>5. app \in [Apps -> {"idle", "open", "close", "join", "release"}]
        /\ handle \in [Apps -> Handles \cup {NoHandle}]
        /\ sock \in [Handles -> {"none", "bound", "freed"}]
    OBVIOUS
  <2>. QED  BY <2>1, <2>2, <2>3, <2>4, <2>5 DEF IpcTypeOK
<1>2. Owners  BY DEF Owners
<1>3. Listed  BY DEF Listed
<1>4. Mutexed  BY DEF Mutexed
<1>5. Served  BY DEF Served, Live
<1>6. Readable  BY DEF Readable
<1>7. Answered /\ Requested  BY DEF Answered, Requested
<1>. QED  BY <1>1, <1>2, <1>3, <1>4, <1>5, <1>6, <1>7 DEF IInv

\* The tail of a sequence moves everything to the front by one.
LEMMA TailSeq ==
    ASSUME NEW S, NEW s \in Seq(S), s # <<>>, NEW t, t = Tail(s)
    PROVE  /\ Len(s) \in Nat /\ 1 <= Len(s) /\ Len(t) = Len(s) - 1
           /\ \A i \in 1 .. Len(t) : i + 1 \in 1 .. Len(s) /\ t[i] = s[i + 1]
OBVIOUS

\* What Requested says of one request.
LEMMA RequestOf ==
    ASSUME Requested, NEW g \in Handles, NEW i \in 1 .. Len(requests[g]),
           NEW q, q = requests[g][i][1], NEW m, m = requests[g][i][2]
    PROVE  /\ Target[q] = g /\ Taken(q) + 1 <= m /\ m <= current[q]
           /\ \A j \in 1 .. Len(answers[q]) : answers[q][j] < m
           /\ \A j \in 1 .. Len(requests[g]) : i < j /\ requests[g][j][1] = q
                                                 => m < requests[g][j][2]
BY DEF Requested

\* Opening a channel preserves the inductive invariant.
LEMMA Step_OpenChannel ==
    ASSUME NEW a \in Apps, NEW h \in Handles \cup {NoHandle}, IInv, OpenChannel(a, h) PROVE IInv'
<1>. USE IpcNamesAssumption DEF IInv, OpenChannel, threadVars, appVars, peerVars, Step
<1>1. IpcTypeOK'  BY DEF IpcTypeOK
<1>2. Owners'  BY DEF Owners, IpcTypeOK
<1>3. Listed'
  <2>. SUFFICES ASSUME NEW g \in Handles, sock'[g] = "bound"
                PROVE  \/ InList(g)'
                       \/ \E b \in Apps : handle'[b] = g /\ app'[b] \in {"open", "join", "release"}
    BY DEF Listed
  <2>1. InList(g)' <=> InList(g)  BY DEF InList
  <2>2. handle'[a] = h /\ app'[a] = "open"  BY DEF IpcTypeOK
  <2>3. CASE g = h  BY <2>2, <2>3
  <2>4. CASE g # h
    <3>1. sock[g] = "bound"  BY <2>4 DEF IpcTypeOK
    <3>2. \A b \in Apps : handle[b] = g => b # a  BY DEF Owners
    <3>3. \A b \in Apps : handle[b] = g => handle'[b] = g /\ app'[b] = app[b]
      BY <3>2 DEF IpcTypeOK
    <3>. QED  BY <2>1, <3>1, <3>3 DEF Listed
  <2>. QED  BY <2>3, <2>4
<1>4. Mutexed'  BY DEF Mutexed, IpcTypeOK
<1>5. Served'  BY DEF Served, Live, Mutexed, IpcTypeOK
<1>6. Readable'  BY DEF Readable, Freed, IpcTypeOK
<1>7. Answered' /\ Requested'  BY DEF Answered, Requested, Taken
<1>. QED  BY <1>1, <1>2, <1>3, <1>4, <1>5, <1>6, <1>7

\* Linking a channel preserves the inductive invariant.
LEMMA Step_OpenLink ==
    ASSUME NEW a \in Apps, IInv, OpenLink(a) PROVE IInv'
<1>. USE IpcNamesAssumption DEF IInv, OpenLink, threadVars, appVars, peerVars, Step,
  StartUnless, HasThread
<1>0. /\ worker' \in [Workers -> {"none", "check", "lock", "select", "handle", "gone"}]
      /\ serv_pthread_id' \in Workers \cup {NoWorker} /\ serv_status' \in BOOLEAN
      /\ ready' = ready
  <2>1. CASE serv_list # <<>>  BY <2>1 DEF IpcTypeOK
  <2>2. CASE serv_list = <<>>
    <3>1. PICK w \in Workers : serv_pthread_id' = w /\ worker' = [worker EXCEPT ![w] = "check"]
      BY <2>2
    <3>. QED  BY <2>2, <3>1 DEF IpcTypeOK
  <2>. QED  BY <2>1, <2>2
<1>1. IpcTypeOK'
  <2>1. serv_list' \in Seq(Handles)
    <3>1. handle[a] # NoHandle => handle[a] \in Handles /\ <<handle[a]>> \in Seq(Handles)
      BY DEF IpcTypeOK
    <3>. QED  BY <3>1, ConcatProperties DEF IpcTypeOK
  <2>2. /\ app' \in [Apps -> {"idle", "open", "close", "join", "release"}]
        /\ handle' \in [Apps -> Handles \cup {NoHandle}]
    BY DEF IpcTypeOK
  <2>. QED  BY <1>0, <2>1, <2>2 DEF IpcTypeOK
<1>2. Owners'  BY DEF Owners, IpcTypeOK
<1>3. Listed'
  <2>. SUFFICES ASSUME NEW g \in Handles, sock'[g] = "bound"
                PROVE  \/ InList(g)'
                       \/ \E b \in Apps : handle'[b] = g /\ app'[b] \in {"open", "join", "release"}
    BY DEF Listed
  <2>1. CASE handle[a] = g
    <3>1. serv_list' = <<g>> \o serv_list /\ <<g>> \in Seq(Handles) /\ serv_list \in Seq(Handles)
      BY <2>1, IpcNamesAssumption DEF IpcTypeOK
    <3>2. Len(serv_list') = 1 + Len(serv_list) /\ Len(serv_list) \in Nat /\ serv_list'[1] = g
      BY <3>1
    <3>. QED  BY <3>2 DEF InList
  <2>2. CASE handle[a] # g /\ InList(g)
    <3>1. PICK n \in 1 .. Len(serv_list) : serv_list[n] = g  BY <2>2 DEF InList
    <3>2. CASE handle[a] = NoHandle  BY <2>2, <3>2 DEF InList
    <3>3. CASE handle[a] \in Handles
      <4>1. serv_list' = <<handle[a]>> \o serv_list /\ <<handle[a]>> \in Seq(Handles)
            /\ serv_list \in Seq(Handles)
        BY <3>3, IpcNamesAssumption DEF IpcTypeOK
      <4>2. n + 1 \in 1 .. Len(serv_list') /\ serv_list'[n + 1] = g  BY <3>1, <4>1
      <4>. QED  BY <4>2 DEF InList
    <3>. QED  BY <3>2, <3>3 DEF IpcTypeOK
  <2>3. CASE handle[a] # g /\ ~InList(g)
    <3>1. PICK b \in Apps : handle[b] = g /\ app[b] \in {"open", "join", "release"}
      BY <2>3 DEF Listed
    <3>2. handle'[b] = g /\ app'[b] = app[b]  BY <2>3, <3>1 DEF IpcTypeOK
    <3>. QED  BY <3>1, <3>2
  <2>. QED  BY <2>1, <2>2, <2>3
<1>4. Mutexed'  BY DEF Mutexed, IpcTypeOK
<1>5. Served'
  <2>1. ~failed => handle[a] \in Handles  BY DEF Owners, IpcTypeOK
  <2>2. handle[a] \in Handles => serv_list' # <<>>
    BY IpcNamesAssumption DEF IpcTypeOK
  <2>3. CASE serv_list # <<>>
    <3>1. UNCHANGED <<serv_status, serv_pthread_id, worker>>  BY <2>3
    <3>. QED  BY <2>1, <2>2, <2>3, <3>1 DEF Served, Live
  <2>4. CASE serv_list = <<>>
    <3>1. PICK w \in Workers : serv_pthread_id' = w /\ worker' = [worker EXCEPT ![w] = "check"]
      BY <2>4
    <3>2. worker'[w] = "check" /\ \A v \in Workers : v # w => worker'[v] = worker[v]
      BY <3>1 DEF IpcTypeOK
    <3>3. serv_status' = TRUE  BY <2>4
    <3>4. serv_mutex \notin Apps  BY DEF Mutexed
    <3>5. ~failed => \A v \in Workers : Live(v)' => v = w
      BY <2>4, <3>2, <3>4 DEF Served, Live
    <3>. QED  BY <2>1, <2>2, <3>1, <3>2, <3>3, <3>5 DEF Served, Live
  <2>. QED  BY <2>3, <2>4
<1>6. Readable'  BY DEF Readable, Freed, IpcTypeOK
<1>7. Answered' /\ Requested'  BY DEF Answered, Requested, Taken
<1>. QED  BY <1>1, <1>2, <1>3, <1>4, <1>5, <1>6, <1>7

\* The start of ipc_close preserves the inductive invariant.
LEMMA Step_CloseBegin ==
    ASSUME NEW a \in Apps, NEW h \in Handles, IInv, CloseBegin(a, h) PROVE IInv'
<1>. USE IpcNamesAssumption DEF IInv, CloseBegin, threadVars, appVars, peerVars, Step
<1>1. IpcTypeOK'  BY DEF IpcTypeOK
<1>2. Owners'  BY DEF Owners, IpcTypeOK
<1>3. Listed'  BY ZenonT(60) DEF Listed, Owners, IpcTypeOK, InList
<1>4. Mutexed'  BY DEF Mutexed, IpcTypeOK
<1>5. Served'  BY DEF Served, Live, Mutexed, IpcTypeOK
<1>6. Readable'  BY DEF Readable, Freed, IpcTypeOK
<1>7. Answered' /\ Requested'  BY DEF Answered, Requested, Taken
<1>. QED  BY <1>1, <1>2, <1>3, <1>4, <1>5, <1>6, <1>7

\* Unlinking a channel preserves the inductive invariant.
LEMMA Step_CloseUnlink ==
    ASSUME NEW a \in Apps, IInv, CloseUnlink(a) PROVE IInv'
<1>. USE IpcNamesAssumption DEF IInv, CloseUnlink, threadVars, appVars, peerVars, Step
<1>0. /\ InList(handle[a]) /\ serv_list # <<>> /\ handle[a] \in Handles
      /\ \/ serv_list' = serv_list
         \/ serv_list[1] = handle[a] /\ serv_list' = Tail(serv_list)
      /\ serv_list' \in Seq(Handles)
  <2>1. handle[a] \in Handles /\ sock[handle[a]] = "bound"  BY DEF Owners
  <2>2. InList(handle[a])  BY <2>1 DEF Listed, Owners
  <2>3. serv_list # <<>>  BY <2>2 DEF InList
  <2>4. \/ serv_list' = serv_list
        \/ serv_list[1] = handle[a] /\ serv_list' = Tail(serv_list)
    BY DEF Unlinked
  <2>5. Tail(serv_list) \in Seq(Handles)  BY <2>3, HeadTailProperties DEF IpcTypeOK
  <2>. QED  BY <2>1, <2>2, <2>3, <2>4, <2>5 DEF IpcTypeOK
<1>1. IpcTypeOK'
  <2>1. serv_mutex' \in {"free"} \cup Apps /\ serv_status' \in BOOLEAN
    BY DEF IpcTypeOK
  <2>2. app' \in [Apps -> {"idle", "open", "close", "join", "release"}]
    <3>1. PICK to \in {"join", "release"} : app' = [app EXCEPT ![a] = to]  OBVIOUS
    <3>. QED  BY <3>1 DEF IpcTypeOK
  <2>. QED  BY <1>0, <2>1, <2>2 DEF IpcTypeOK
<1>2. Owners'  BY DEF Owners, IpcTypeOK
<1>3. Listed'
  <2>. SUFFICES ASSUME NEW g \in Handles, sock'[g] = "bound"
                PROVE  \/ InList(g)'
                       \/ \E b \in Apps : handle'[b] = g /\ app'[b] \in {"open", "join", "release"}
    BY DEF Listed
  <2>1. CASE handle[a] = g
    <3>1. handle'[a] = g /\ app'[a] \in {"join", "release"}  BY <2>1 DEF IpcTypeOK
    <3>. QED  BY <3>1
  <2>2. CASE handle[a] # g /\ InList(g)
    <3>1. PICK n \in 1 .. Len(serv_list) : serv_list[n] = g  BY <2>2 DEF InList
    <3>2. CASE serv_list' = serv_list  BY <2>2, <3>2 DEF InList
    <3>3. CASE serv_list[1] = handle[a] /\ serv_list' = Tail(serv_list)
      <4>1. n # 1  BY <2>2, <3>1, <3>3
      <4>2. n - 1 \in 1 .. Len(serv_list') /\ serv_list'[n - 1] = g
        BY <1>0, <3>1, <3>3, <4>1 DEF IpcTypeOK
      <4>. QED  BY <4>2 DEF InList
    <3>. QED  BY <1>0, <3>2, <3>3
  <2>3. CASE handle[a] # g /\ ~InList(g)
    <3>1. PICK b \in Apps : handle[b] = g /\ app[b] \in {"open", "join", "release"}
      BY <2>3 DEF Listed
    <3>2. handle'[b] = g /\ app'[b] = app[b]  BY <2>3, <3>1 DEF IpcTypeOK
    <3>. QED  BY <3>1, <3>2
  <2>. QED  BY <2>1, <2>2, <2>3
<1>4. Mutexed'  BY DEF Mutexed, IpcTypeOK
<1>5. Served'
  <2>1. /\ serv_status /\ serv_pthread_id \in Workers /\ Live(serv_pthread_id)
        /\ ~failed => \A w \in Workers : Live(w) => w = serv_pthread_id
    BY <1>0 DEF Served
  <2>2. CASE serv_list' = <<>>
    <3>1. serv_mutex' \in Apps  BY <2>2
    <3>. QED  BY <2>1, <2>2, <3>1 DEF Served, Live
  <2>3. CASE serv_list' # <<>>
    <3>1. serv_status' = serv_status  BY <2>3
    <3>. QED  BY <2>1, <2>3, <3>1 DEF Served, Live
  <2>. QED  BY <2>2, <2>3
<1>6. Readable'  BY DEF Readable, Freed, IpcTypeOK
<1>7. Answered' /\ Requested'  BY DEF Answered, Requested, Taken
<1>. QED  BY <1>1, <1>2, <1>3, <1>4, <1>5, <1>6, <1>7

\* The end of the service thread preserves the inductive invariant.
LEMMA Step_CloseJoined ==
    ASSUME NEW a \in Apps, IInv, CloseJoined(a) PROVE IInv'
<1>. USE IpcNamesAssumption DEF IInv, CloseJoined, threadVars, appVars, peerVars, Step
<1>1. IpcTypeOK'  BY DEF IpcTypeOK
<1>2. Owners'  BY DEF Owners, IpcTypeOK
<1>3. Listed'  BY ZenonT(60) DEF Listed, Owners, IpcTypeOK, InList
<1>4. Mutexed'  BY DEF Mutexed, IpcTypeOK
<1>5. Served'  BY DEF Served, Live, Mutexed, IpcTypeOK
<1>6. Readable'  BY DEF Readable, Freed, IpcTypeOK
<1>7. Answered' /\ Requested'  BY DEF Answered, Requested, Taken
<1>. QED  BY <1>1, <1>2, <1>3, <1>4, <1>5, <1>6, <1>7

\* Freeing a channel preserves the inductive invariant.
LEMMA Step_CloseRelease ==
    ASSUME NEW a \in Apps, IInv, CloseRelease(a) PROVE IInv'
<1>. USE IpcNamesAssumption DEF IInv, CloseRelease, threadVars, appVars, peerVars, Step
<1>1. IpcTypeOK'
  <2>1. requests' \in [Handles -> Seq(Peers \X Nat)]  BY EmptySeq DEF IpcTypeOK
  <2>2. /\ app' \in [Apps -> {"idle", "open", "close", "join", "release"}]
        /\ handle' \in [Apps -> Handles \cup {NoHandle}]
        /\ sock' \in [Handles -> {"none", "bound", "freed"}]
    BY DEF IpcTypeOK
  <2>. QED  BY <2>1, <2>2 DEF IpcTypeOK
<1>2. Owners'  BY DEF Owners, IpcTypeOK
<1>3. Listed'
  <2>. SUFFICES ASSUME NEW g \in Handles, sock'[g] = "bound"
                PROVE  \/ InList(g)'
                       \/ \E b \in Apps : handle'[b] = g /\ app'[b] \in {"open", "join", "release"}
    BY DEF Listed
  <2>1. handle[a] \in Handles  BY DEF Owners
  <2>2. g # handle[a] /\ sock[g] = "bound"  BY <2>1 DEF IpcTypeOK
  <2>3. InList(g)' <=> InList(g)  BY DEF InList
  <2>4. \A b \in Apps : handle[b] = g => handle'[b] = g /\ app'[b] = app[b]
    BY <2>2 DEF IpcTypeOK
  <2>. QED  BY <2>2, <2>3, <2>4 DEF Listed
<1>4. Mutexed'  BY DEF Mutexed, IpcTypeOK
<1>5. Served'  BY DEF Served, Live, Mutexed, IpcTypeOK
<1>6. Readable'  BY DEF Readable, Freed, IpcTypeOK
<1>7. Answered' /\ Requested'
  <2>1. \A p \in Peers : Taken(p)' = Taken(p)  BY DEF Taken
  <2>2. \A g \in Handles : requests'[g] = requests[g] \/ requests'[g] = <<>>  BY DEF IpcTypeOK
  <2>3. Answered'  BY <2>1 DEF Answered
  <2>4. ASSUME NEW g \in Handles, NEW i \in 1 .. Len(requests'[g])
        PROVE  requests'[g] = requests[g] /\ requests[g][i][1] \in Peers
    <3>1. requests'[g] = requests[g]  BY <2>2
    <3>2. requests[g] \in Seq(Peers \X Nat)  BY DEF IpcTypeOK
    <3>3. requests[g][i] \in Peers \X Nat  BY <3>1, <3>2, ElementOfSeq
    <3>. QED  BY <3>1, <3>3
  <2>5. Requested'
    <3>. SUFFICES ASSUME NEW g \in Handles, NEW i \in 1 .. Len(requests'[g]),
                         NEW q, q = requests'[g][i][1], NEW m, m = requests'[g][i][2]
                  PROVE  /\ Target[q] = g /\ Taken(q)' + 1 <= m /\ m <= current[q]
                         /\ \A j \in 1 .. Len(answers[q]) : answers[q][j] < m
                         /\ \A j \in 1 .. Len(requests'[g]) :
                                i < j /\ requests'[g][j][1] = q => m < requests'[g][j][2]
      BY DEF Requested
    <3>1. requests'[g] = requests[g] /\ q \in Peers  BY <2>4
    <3>. QED  BY <2>1, <3>1, RequestOf
  <2>. QED  BY <2>3, <2>5
<1>. QED  BY <1>1, <1>2, <1>3, <1>4, <1>5, <1>6, <1>7

\* Closing a peer that has no channel preserves the inductive invariant.
LEMMA Step_CloseFailed ==
    ASSUME NEW a \in Apps, IInv, CloseFailed(a) PROVE IInv'
<1>. USE IpcNamesAssumption DEF IInv, CloseFailed, threadVars, appVars, peerVars
<1>1. IpcTypeOK'  BY DEF IpcTypeOK
<1>2. Owners'  BY DEF Owners, IpcTypeOK
<1>3. Listed'  BY DEF Listed, Owners, IpcTypeOK, InList
<1>4. Mutexed'  BY DEF Mutexed, IpcTypeOK
<1>5. Served'  BY DEF Served, Live, Mutexed, IpcTypeOK
<1>6. Readable'  BY DEF Readable, Freed, IpcTypeOK
<1>7. Answered' /\ Requested'  BY DEF Answered, Requested, Taken
<1>. QED  BY <1>1, <1>2, <1>3, <1>4, <1>5, <1>6, <1>7

\* The check whether to go on preserves the inductive invariant.
LEMMA Step_WorkerCheck ==
    ASSUME NEW w \in Workers, IInv, WorkerCheck(w) PROVE IInv'
<1>. USE IpcNamesAssumption DEF IInv, WorkerCheck, threadVars, appVars, peerVars
<1>1. IpcTypeOK'  BY DEF IpcTypeOK
<1>2. Owners'  BY DEF Owners, IpcTypeOK
<1>3. Listed'  BY DEF Listed, Owners, IpcTypeOK, InList
<1>4. Mutexed'  BY DEF Mutexed, IpcTypeOK
<1>5. Served'  BY DEF Served, Live, Mutexed, IpcTypeOK
<1>6. Readable'  BY DEF Readable, Freed, IpcTypeOK
<1>7. Answered' /\ Requested'  BY DEF Answered, Requested, Taken
<1>. QED  BY <1>1, <1>2, <1>3, <1>4, <1>5, <1>6, <1>7

\* Taking the mutex preserves the inductive invariant.
LEMMA Step_WorkerLock ==
    ASSUME NEW w \in Workers, IInv, WorkerLock(w) PROVE IInv'
<1>. USE IpcNamesAssumption DEF IInv, WorkerLock, threadVars, appVars, peerVars
<1>1. IpcTypeOK'  BY DEF IpcTypeOK
<1>2. Owners'  BY DEF Owners, IpcTypeOK
<1>3. Listed'  BY DEF Listed, Owners, IpcTypeOK, InList
<1>4. Mutexed'  BY DEF Mutexed, IpcTypeOK
<1>5. Served'  BY DEF Served, Live, Mutexed, IpcTypeOK
<1>6. Readable'  BY DEF Readable, Freed, IpcTypeOK
<1>7. Answered' /\ Requested'  BY DEF Answered, Requested, Taken
<1>. QED  BY <1>1, <1>2, <1>3, <1>4, <1>5, <1>6, <1>7

\* The return of select preserves the inductive invariant.
LEMMA Step_WorkerSelect ==
    ASSUME NEW w \in Workers, IInv, WorkerSelect(w) PROVE IInv'
<1>. USE IpcNamesAssumption DEF IInv, WorkerSelect, threadVars, appVars, peerVars
<1>1. IpcTypeOK'  BY DEF IpcTypeOK
<1>2. Owners'  BY DEF Owners, IpcTypeOK
<1>3. Listed'  BY DEF Listed, Owners, IpcTypeOK, InList
<1>4. Mutexed'  BY DEF Mutexed, IpcTypeOK
<1>5. Served'  BY DEF Served, Live, Mutexed, IpcTypeOK
<1>6. Readable'  BY DEF Readable, Freed, IpcTypeOK
<1>7. Answered' /\ Requested'  BY DEF Answered, Requested, Taken
<1>. QED  BY <1>1, <1>2, <1>3, <1>4, <1>5, <1>6, <1>7

\* Handling a request preserves the inductive invariant.
LEMMA Step_WorkerHandle ==
    ASSUME NEW w \in Workers, NEW h \in Handles, IInv, WorkerHandle(w, h) PROVE IInv'
<1>. USE IpcNamesAssumption DEF IInv, WorkerHandle, threadVars, appVars, peerVars
<1>0. /\ requests[h] \in Seq(Peers \X Nat) /\ requests[h] # <<>>
      /\ Head(requests[h]) \in Peers \X Nat
      /\ Tail(requests[h]) \in Seq(Peers \X Nat)
  <2>1. requests[h] \in Seq(Peers \X Nat) /\ requests[h] # <<>>  BY DEF IpcTypeOK, Readable
  <2>. QED  BY <2>1, HeadTailProperties
<1>. DEFINE p == Head(requests[h])[1]
            n == Head(requests[h])[2]
<1>10. p \in Peers /\ n \in Nat /\ answers[p] \in Seq(Nat)  BY <1>0 DEF IpcTypeOK
<1>11. answers' = answers \/ answers' = [answers EXCEPT ![p] = Append(answers[p], n)]
  OBVIOUS
<1>12. requests' = [requests EXCEPT ![h] = Tail(requests[h])]  BY DEF Received
<1>. HIDE DEF p, n
<1>1. IpcTypeOK'
  <2>1. Append(answers[p], n) \in Seq(Nat)  BY <1>10, AppendProperties
  <2>2. answers' \in [Peers -> Seq(Nat)]  BY <1>11, <2>1 DEF IpcTypeOK
  <2>3. requests' \in [Handles -> Seq(Peers \X Nat)]
    BY ZenonT(60), <1>0, <1>12 DEF IpcTypeOK
  <2>4. ready' \subseteq Handles  BY DEF IpcTypeOK
  <2>. QED  BY <2>2, <2>3, <2>4 DEF IpcTypeOK
<1>2. Owners'  BY DEF Owners, IpcTypeOK
<1>3. Listed'  BY DEF Listed, Owners, IpcTypeOK, InList
<1>4. Mutexed'  BY DEF Mutexed, IpcTypeOK
<1>5. Served'  BY DEF Served, Live, Mutexed, IpcTypeOK
<1>6. Readable'  BY DEF Readable, Freed, IpcTypeOK
<1>13. ASSUME NEW g \in Handles, NEW i \in 1 .. Len(requests'[g])
       PROVE  LET k == IF g = h THEN i + 1 ELSE i IN
              /\ k \in 1 .. Len(requests[g]) /\ requests'[g][i] = requests[g][k]
              /\ requests[g][k][1] \in Peers /\ requests[g][k][2] \in Nat
  <2>. DEFINE k == IF g = h THEN i + 1 ELSE i
  <2>0. requests[g] \in Seq(Peers \X Nat)  BY DEF IpcTypeOK
  <2>1. k \in 1 .. Len(requests[g]) /\ requests'[g][i] = requests[g][k]
    <3>1. CASE g = h
      <4>1. requests'[g] = Tail(requests[g])  BY <1>12, <3>1 DEF IpcTypeOK
      <4>2. /\ Len(requests[g]) \in Nat /\ Len(requests'[g]) = Len(requests[g]) - 1
            /\ \A j \in 1 .. Len(requests'[g]) : requests'[g][j] = requests[g][j + 1]
        <5>1. requests[g] # <<>>  BY <1>0, <3>1
        <5>. HIDE DEF WorkerHandle
        <5>. QED  BY <2>0, <4>1, <5>1, TailSeq
      <4>3. i + 1 \in 1 .. Len(requests[g])  BY <4>2
      <4>. QED  BY <3>1, <4>2, <4>3
    <3>2. CASE g # h
      <4>1. requests'[g] = requests[g]  BY <1>12, <3>2 DEF IpcTypeOK
      <4>. QED  BY <3>2, <4>1
    <3>. QED  BY <3>1, <3>2
  <2>2. requests[g][k] \in Peers \X Nat  BY <2>0, <2>1, ElementOfSeq
  <2>. QED  BY <2>1, <2>2
<1>7. Answered' /\ Requested'
  <2>1. \A q \in Peers : Taken(q)' = Taken(q)  BY DEF Taken
  <2>2. Len(requests[h]) \in Nat /\ 1 \in 1 .. Len(requests[h]) /\ Head(requests[h]) = requests[h][1]
    BY SMTT(60), <1>0
  <2>3. /\ Target[p] = h /\ Taken(p) + 1 <= n /\ n <= current[p]
        /\ \A j \in 1 .. Len(answers[p]) : answers[p][j] < n
        /\ \A j \in 1 .. Len(requests[h]) : 1 < j /\ requests[h][j][1] = p => n < requests[h][j][2]
    <3>1. p = requests[h][1][1] /\ n = requests[h][1][2]  BY <2>2 DEF p, n
    <3>. QED  BY <2>2, <3>1, RequestOf
  <2>4. ASSUME NEW q \in Peers
        PROVE  /\ Taken(q) \in Int /\ current[q] \in Nat
               /\ Len(answers[q]) \in Nat
               /\ \A j \in 1 .. Len(answers[q]) : answers[q][j] \in Nat
    BY SMTT(60) DEF Taken, IpcTypeOK
  <2>5. \/ Len(answers'[p]) = Len(answers[p])
        \/ Len(answers'[p]) = Len(answers[p]) + 1 /\ answers'[p][Len(answers[p]) + 1] = n
    BY <1>10, <1>11 DEF IpcTypeOK
  <2>6. /\ \A j \in 1 .. Len(answers[p]) : answers'[p][j] = answers[p][j]
        /\ \A j \in 1 .. Len(answers'[p]) : \/ j \in 1 .. Len(answers[p])
                                            \/ j = Len(answers[p]) + 1 /\ answers'[p][j] = n
    <3>1. answers'[p] \in {answers[p], Append(answers[p], n)}  BY <1>10, <1>11 DEF IpcTypeOK
    <3>2. ASSUME NEW j \in 1 .. Len(answers[p]) PROVE answers'[p][j] = answers[p][j]
      <4>1. Append(answers[p], n)[j] = answers[p][j]  BY <1>10, AppendProperties
      <4>. QED  BY <3>1, <4>1
    <3>. QED  BY <1>10, <2>4, <2>5, <3>2
  <2>7. \A q \in Peers : q # p => answers'[q] = answers[q]
    BY <1>11 DEF IpcTypeOK
  <2>8. Answered'
    <3>. SUFFICES ASSUME NEW q \in Peers
                  PROVE  /\ \A i \in 1 .. Len(answers'[q]) : /\ Taken(q) + i <= answers'[q][i]
                                                             /\ answers'[q][i] <= current[q]
                         /\ \A i, j \in 1 .. Len(answers'[q]) :
                                i < j => answers'[q][i] < answers'[q][j]
      BY <2>1 DEF Answered
    <3>1. CASE q # p  BY <2>7, <3>1 DEF Answered
    <3>2. CASE q = p
      <4>1. Len(answers[p]) > 0 => /\ Taken(p) + Len(answers[p]) <= answers[p][Len(answers[p])]
                                   /\ answers[p][Len(answers[p])] < n
        BY <1>10, <2>3, <2>4 DEF Answered
      <4>2. Taken(p) + Len(answers[p]) + 1 <= n  BY SMTT(60), <1>10, <2>3, <2>4, <4>1
      <4>3. \A i \in 1 .. Len(answers'[p]) : /\ Taken(p) + i <= answers'[p][i]
                                             /\ answers'[p][i] <= current[p]
        <5>1. ASSUME NEW i \in 1 .. Len(answers[p])
              PROVE  Taken(p) + i <= answers'[p][i] /\ answers'[p][i] <= current[p]
          BY <1>10, <2>6 DEF Answered
        <5>. QED  BY SMTT(60), <1>10, <2>3, <2>4, <2>6, <4>2, <5>1
      <4>4. \A i, j \in 1 .. Len(answers'[p]) : i < j => answers'[p][i] < answers'[p][j]
        <5>1. ASSUME NEW i \in 1 .. Len(answers[p]), NEW j \in 1 .. Len(answers[p]), i < j
              PROVE  answers'[p][i] < answers'[p][j]
          BY <1>10, <2>6, <5>1 DEF Answered
        <5>2. ASSUME NEW i \in 1 .. Len(answers[p]) PROVE answers'[p][i] < n
          BY <2>3, <2>6
        <5>3. ASSUME NEW i \in 1 .. Len(answers'[p]), NEW j \in 1 .. Len(answers'[p]), i < j
              PROVE  answers'[p][i] < answers'[p][j]
          <6>1. Len(answers[p]) \in Nat  BY <1>10, <2>4
          <6>. HIDE DEF WorkerHandle, IInv
          <6>2. CASE j \in 1 .. Len(answers[p])
            <7>1. i \in 1 .. Len(answers[p])  BY <2>6, <5>3, <6>1, <6>2
            <7>. QED  BY <5>1, <5>3, <6>2, <7>1
          <6>3. CASE j = Len(answers[p]) + 1 /\ answers'[p][j] = n
            <7>1. i \in 1 .. Len(answers[p])  BY SMTT(60), <2>6, <5>3, <6>1, <6>3
            <7>. QED  BY <5>2, <6>3, <7>1
          <6>. QED  BY <2>6, <6>2, <6>3
        <5>. QED  BY <5>3
      <4>. QED  BY <3>2, <4>3, <4>4
    <3>. QED  BY <3>1, <3>2
  <2>9. Requested'
    <3>. SUFFICES ASSUME NEW g \in Handles, NEW i \in 1 .. Len(requests'[g]),
                         NEW q, q = requests'[g][i][1], NEW m, m = requests'[g][i][2]
                  PROVE  /\ Target[q] = g /\ Taken(q)' + 1 <= m /\ m <= current[q]
                         /\ \A j \in 1 .. Len(answers'[q]) : answers'[q][j] < m
                         /\ \A j \in 1 .. Len(requests'[g]) :
                                i < j /\ requests'[g][j][1] = q => m < requests'[g][j][2]
      BY SMTT(60) DEF Requested
    <3>. DEFINE k == IF g = h THEN i + 1 ELSE i
    <3>1. /\ k \in 1 .. Len(requests[g]) /\ q \in Peers /\ m \in Nat
          /\ q = requests[g][k][1] /\ m = requests[g][k][2]
      BY SMTT(60), <1>13
    <3>2. /\ Target[q] = g /\ Taken(q) + 1 <= m /\ m <= current[q]
          /\ \A j \in 1 .. Len(answers[q]) : answers[q][j] < m
          /\ \A j \in 1 .. Len(requests[g]) : k < j /\ requests[g][j][1] = q => m < requests[g][j][2]
      BY SMTT(60), <3>1 DEF Requested
    <3>3. \A j \in 1 .. Len(answers'[q]) : answers'[q][j] < m
      <4>1. CASE q # p  BY <2>7, <3>1, <3>2, <4>1
      <4>2. CASE q = p
        <5>. HIDE DEF WorkerHandle, IInv
        <5>1. g = h /\ k > 1
          <6>1. g = h  BY <2>3, <3>2, <4>2
          <6>2. i \in Nat /\ i > 0  OBVIOUS
          <6>. QED  BY <6>1, <6>2
        <5>2. n < m  BY ZenonT(60), <2>3, <3>1, <4>2, <5>1
        <5>. QED  BY ZenonT(60), <2>6, <3>2, <4>2, <5>2
      <4>. QED  BY <4>1, <4>2
    <3>4. ASSUME NEW j \in 1 .. Len(requests'[g]), i < j, requests'[g][j][1] = q
          PROVE  m < requests'[g][j][2]
      <4>. DEFINE l == IF g = h THEN j + 1 ELSE j
      <4>1. l \in 1 .. Len(requests[g]) /\ requests'[g][j] = requests[g][l] /\ k < l
        BY <1>13, <3>4
      <4>. QED  BY SMTT(60), <3>2, <3>4, <4>1
    <3>. QED  BY ZenonT(60), <2>1, <3>1, <3>2, <3>3, <3>4
  <2>. QED  BY <2>8, <2>9
<1>. QED  BY <1>1, <1>2, <1>3, <1>4, <1>5, <1>6, <1>7

\* The use of a freed handle preserves the inductive invariant.
LEMMA Step_WorkerMisuse ==
    ASSUME NEW w \in Workers, NEW h \in Handles, IInv, WorkerMisuse(w, h) PROVE IInv'
<1>. USE IpcNamesAssumption DEF IInv, WorkerMisuse, threadVars, appVars, peerVars
<1>1. IpcTypeOK'  BY DEF IpcTypeOK
<1>2. Owners'  BY DEF Owners, IpcTypeOK
<1>3. Listed'  BY DEF Listed, Owners, IpcTypeOK, InList
<1>4. Mutexed'  BY DEF Mutexed, IpcTypeOK
<1>5. Served'  BY DEF Served, Live, Mutexed, IpcTypeOK
<1>6. Readable'  BY DEF Readable, Freed, IpcTypeOK
<1>7. Answered' /\ Requested'  BY DEF Answered, Requested, Taken
<1>. QED  BY <1>1, <1>2, <1>3, <1>4, <1>5, <1>6, <1>7

\* Giving the mutex back preserves the inductive invariant.
LEMMA Step_WorkerUnlock ==
    ASSUME NEW w \in Workers, IInv, WorkerUnlock(w) PROVE IInv'
<1>. USE IpcNamesAssumption DEF IInv, WorkerUnlock, threadVars, appVars, peerVars
<1>1. IpcTypeOK'  BY DEF IpcTypeOK
<1>2. Owners'  BY DEF Owners, IpcTypeOK
<1>3. Listed'  BY DEF Listed, Owners, IpcTypeOK, InList
<1>4. Mutexed'  BY DEF Mutexed, IpcTypeOK
<1>5. Served'  BY DEF Served, Live, Mutexed, IpcTypeOK
<1>6. Readable'  BY DEF Readable, Freed, IpcTypeOK
<1>7. Answered' /\ Requested'  BY DEF Answered, Requested, Taken
<1>. QED  BY <1>1, <1>2, <1>3, <1>4, <1>5, <1>6, <1>7

\* A call preserves the inductive invariant.
LEMMA Step_PeerCall ==
    ASSUME NEW p \in Peers, IInv, PeerCall(p) PROVE IInv'
<1>. USE IpcNamesAssumption DEF IInv, PeerCall, threadVars, appVars, peerVars
<1>. DEFINE h == Target[p]
            c == current[p]
<1>0. h \in Handles /\ c \in Nat /\ requests[h] \in Seq(Peers \X Nat)  BY DEF IpcTypeOK
<1>10. /\ requests'[h] = Append(requests[h], <<p, c + 1>>)
       /\ \A g \in Handles : g # h => requests'[g] = requests[g]
  BY SMTT(60), <1>0 DEF IpcTypeOK
<1>11. requests'[h] \in Seq(Peers \X Nat) /\ requests'[h] # <<>>
  BY <1>0, <1>10, AppendProperties
<1>1. IpcTypeOK'
  <2>1. requests' \in [Handles -> Seq(Peers \X Nat)]
    BY <1>0, <1>10, <1>11 DEF IpcTypeOK
  <2>2. current' \in [Peers -> Nat] /\ calling' \in [Peers -> BOOLEAN]  BY DEF IpcTypeOK
  <2>. QED  BY <2>1, <2>2 DEF IpcTypeOK
<1>. HIDE DEF h, c
<1>2. Owners'  BY DEF Owners, IpcTypeOK
<1>3. Listed'  BY DEF Listed, Owners, IpcTypeOK, InList
<1>4. Mutexed'  BY DEF Mutexed, IpcTypeOK
<1>5. Served'  BY DEF Served, Live, Mutexed, IpcTypeOK
<1>6. Readable'
  <2>1. \A g \in Handles : requests[g] # <<>> => requests'[g] # <<>>  BY <1>10, <1>11
  <2>. QED  BY <2>1 DEF Readable, Freed, IpcTypeOK
<1>7. Answered' /\ Requested'
  <2>1. \A q \in Peers : /\ Taken(q)' = Taken(q) /\ Taken(q) \in Int
                         /\ current[q] \in Nat /\ current'[q] \in Nat /\ current[q] <= current'[q]
    <3>1. ASSUME NEW q \in Peers, q # p
          PROVE  UNCHANGED <<current[q], calling[q], late[q]>>
      BY <3>1 DEF IpcTypeOK
    <3>2. /\ current'[p] = current[p] + 1 /\ calling'[p] /\ ~calling[p] /\ late' = late
          /\ \A q \in Peers : current[q] \in Nat /\ late[q] \in Nat
      BY DEF IpcTypeOK
    <3>. QED  BY <3>1, <3>2 DEF Taken
  <2>2. Taken(p) <= c /\ current'[p] = c + 1 /\ current[p] = c  BY DEF Taken, IpcTypeOK, c
  <2>3. ASSUME NEW q \in Peers, NEW j \in 1 .. Len(answers[q]) PROVE answers[q][j] \in Nat
    BY SMTT(60) DEF IpcTypeOK
  <2>4. Answered'  BY SMTT(60), <2>1, <2>3 DEF Answered
  <2>5. Requested'
    <3>. SUFFICES ASSUME NEW g \in Handles, NEW i \in 1 .. Len(requests'[g]),
                         NEW q, q = requests'[g][i][1], NEW m, m = requests'[g][i][2]
                  PROVE  /\ Target[q] = g /\ Taken(q)' + 1 <= m /\ m <= current'[q]
                         /\ \A j \in 1 .. Len(answers[q]) : answers[q][j] < m
                         /\ \A j \in 1 .. Len(requests'[g]) :
                                i < j /\ requests'[g][j][1] = q => m < requests'[g][j][2]
      BY SMTT(60) DEF Requested
    <3>1. requests[g] \in Seq(Peers \X Nat) /\ Len(requests[g]) \in Nat  BY DEF IpcTypeOK
    <3>2. CASE i \in 1 .. Len(requests[g])
      <4>1. requests[g][i] \in Peers \X Nat  BY <3>1, <3>2, ElementOfSeq
      <4>2. requests'[g][i] = requests[g][i]  BY <1>0, <1>10, <3>2
      <4>3. q \in Peers /\ m \in Nat /\ q = requests[g][i][1] /\ m = requests[g][i][2]
        BY SMTT(60), <4>1, <4>2
      <4>4. /\ Target[q] = g /\ Taken(q) + 1 <= m /\ m <= current[q]
            /\ \A j \in 1 .. Len(answers[q]) : answers[q][j] < m
            /\ \A j \in 1 .. Len(requests[g]) : i < j /\ requests[g][j][1] = q
                                                  => m < requests[g][j][2]
        BY SMTT(60), <3>2, <4>3, RequestOf
      <4>5. ASSUME NEW j \in 1 .. Len(requests'[g]), i < j, requests'[g][j][1] = q
            PROVE  m < requests'[g][j][2]
        <5>1. CASE j \in 1 .. Len(requests[g])
          <6>1. requests'[g][j] = requests[g][j]  BY <1>0, <1>10, <5>1
          <6>2. requests[g][j][1] = q  BY <4>5, <6>1
          <6>3. m < requests[g][j][2]  BY <4>4, <4>5, <5>1, <6>2
          <6>. QED  BY <6>1, <6>3
        <5>2. CASE j \notin 1 .. Len(requests[g])
          <6>1. g = h  BY <1>10, <5>2
          <6>2. requests'[g][j] = <<p, c + 1>>  BY <1>0, <1>10, <3>1, <5>2, <6>1
          <6>3. q = p /\ requests'[g][j][2] = c + 1  BY <4>5, <6>2
          <6>4. m <= c  BY <2>2, <4>4, <6>3
          <6>. HIDE DEF PeerCall
          <6>. QED  BY <1>0, <4>3, <6>3, <6>4
        <5>. QED  BY <5>1, <5>2
      <4>6. m <= current'[q] /\ Taken(q)' + 1 <= m
        <5>1. /\ Taken(q)' = Taken(q) /\ current[q] \in Nat /\ current'[q] \in Nat
              /\ current[q] <= current'[q]
          BY <2>1, <4>3
        <5>. HIDE DEF PeerCall, IInv
        <5>. QED  BY <4>3, <4>4, <5>1
      <4>. QED  BY <4>4, <4>5, <4>6
    <3>3. CASE i \notin 1 .. Len(requests[g])
      <4>1. g = h  BY <1>10, <3>3
      <4>2. requests'[g][i] = <<p, c + 1>> /\ i = Len(requests'[g])
        BY <1>0, <1>10, <3>1, <3>3, <4>1
      <4>3. q = p /\ m = c + 1  BY <4>2
      <4>4. Target[q] = g /\ Taken(q)' + 1 <= m /\ m <= current'[q]
        BY SMTT(60), <1>0, <2>1, <2>2, <4>1, <4>3 DEF h
      <4>5. ASSUME NEW j \in 1 .. Len(answers[p]) PROVE answers[p][j] < c + 1
        <5>1. answers[p][j] <= c /\ answers[p][j] \in Nat  BY <2>2, <2>3 DEF Answered
        <5>. QED  BY <1>0, <5>1
      <4>6. Len(requests'[g]) \in Nat  BY <1>11, <4>1
      <4>7. \A j \in 1 .. Len(requests'[g]) : ~(i < j)  BY <4>2, <4>6
      <4>. QED  BY <4>3, <4>4, <4>5, <4>7
    <3>. QED  BY <3>2, <3>3
  <2>. QED  BY <2>4, <2>5
<1>. QED  BY <1>1, <1>2, <1>3, <1>4, <1>5, <1>6, <1>7

\* The end of a call preserves the inductive invariant.
LEMMA Step_PeerTake ==
    ASSUME NEW p \in Peers, IInv, PeerTake(p) PROVE IInv'
<1>. USE IpcNamesAssumption DEF IInv, PeerTake, threadVars, appVars, peerVars
<1>0. /\ answers[p] \in Seq(Nat) /\ answers'[p] = Tail(answers[p])
      /\ \A q \in Peers : q # p => answers'[q] = answers[q]
  BY DEF IpcTypeOK
<1>1. IpcTypeOK'
  <2>1. Tail(answers[p]) \in Seq(Nat)  BY <1>0, HeadTailProperties
  <2>2. answers' \in [Peers -> Seq(Nat)] /\ calling' \in [Peers -> BOOLEAN]
    BY <2>1 DEF IpcTypeOK
  <2>. QED  BY <2>2 DEF IpcTypeOK
<1>2. Owners'  BY DEF Owners, IpcTypeOK
<1>3. Listed'  BY DEF Listed, Owners, IpcTypeOK, InList
<1>4. Mutexed'  BY DEF Mutexed, IpcTypeOK
<1>5. Served'  BY DEF Served, Live, Mutexed, IpcTypeOK
<1>6. Readable'  BY DEF Readable, Freed, IpcTypeOK
<1>7. Answered' /\ Requested'
  <2>0. current' = current  OBVIOUS
  <2>1. /\ Taken(p)' = Taken(p) + 1 /\ Taken(p) \in Int
        /\ \A q \in Peers : q # p => Taken(q)' = Taken(q)
    BY DEF Taken, IpcTypeOK
  <2>2. /\ Len(answers[p]) \in Nat /\ Len(answers'[p]) = Len(answers[p]) - 1
        /\ 1 \in 1 .. Len(answers[p])
        /\ \A i \in 1 .. Len(answers'[p]) : /\ i + 1 \in 1 .. Len(answers[p])
                                            /\ answers'[p][i] = answers[p][i + 1]
        /\ \A i \in 1 .. Len(answers[p]) : answers[p][i] \in Nat
    <3>1. answers[p] # <<>>  OBVIOUS
    <3>2. Len(answers[p]) \in Nat /\ Len(answers[p]) # 0  BY <1>0, <3>1, EmptySeq,
      LenProperties
    <3>3. /\ Len(answers'[p]) = Len(answers[p]) - 1
          /\ \A i \in 1 .. Len(answers'[p]) : answers'[p][i] = answers[p][i + 1]
      <4>. HIDE DEF PeerTake
      <4>. QED  BY <1>0, <3>1, TailSeq
    <3>4. \A i \in 1 .. Len(answers[p]) : answers[p][i] \in Nat  BY <1>0, ElementOfSeq
    <3>5. \A i \in 1 .. Len(answers'[p]) : i + 1 \in 1 .. Len(answers[p])  BY <3>2, <3>3
    <3>. QED  BY <3>2, <3>3, <3>4, <3>5
  <2>3. Taken(p) + 1 <= answers[p][1]  BY <2>2 DEF Answered
  <2>4. Answered'
    <3>. SUFFICES ASSUME NEW q \in Peers
                  PROVE  /\ \A i \in 1 .. Len(answers'[q]) : /\ Taken(q)' + i <= answers'[q][i]
                                                             /\ answers'[q][i] <= current[q]
                         /\ \A i, j \in 1 .. Len(answers'[q]) :
                                i < j => answers'[q][i] < answers'[q][j]
      BY DEF Answered
    <3>1. CASE q # p  BY <1>0, <2>1, <3>1 DEF Answered
    <3>2. CASE q = p
      <4>1. \A i \in 1 .. Len(answers'[p]) : /\ Taken(p) + 1 + i <= answers'[p][i]
                                             /\ answers'[p][i] <= current[p]
        BY <2>1, <2>2 DEF Answered
      <4>2. \A i, j \in 1 .. Len(answers'[p]) : i < j => answers'[p][i] < answers'[p][j]
        BY <2>2 DEF Answered
      <4>. QED  BY <2>1, <3>2, <4>1, <4>2
    <3>. QED  BY <3>1, <3>2
  <2>. HIDE DEF PeerTake
  <2>5. Requested'
    <3>. SUFFICES ASSUME NEW g \in Handles, NEW i \in 1 .. Len(requests'[g]),
                         NEW q, q = requests'[g][i][1], NEW m, m = requests'[g][i][2]
                  PROVE  /\ Target[q] = g /\ Taken(q)' + 1 <= m /\ m <= current'[q]
                         /\ \A j \in 1 .. Len(answers'[q]) : answers'[q][j] < m
                         /\ \A j \in 1 .. Len(requests'[g]) :
                                i < j /\ requests'[g][j][1] = q => m < requests'[g][j][2]
      BY SMTT(60) DEF Requested
    <3>0. requests' = requests  BY DEF PeerTake
    <3>1. requests[g][i] \in Peers \X Nat  BY <3>0, ElementOfSeq DEF IpcTypeOK
    <3>2. q \in Peers /\ m \in Nat  BY <3>0, <3>1
    <3>3. /\ Target[q] = g /\ Taken(q) + 1 <= m /\ m <= current[q]
          /\ \A j \in 1 .. Len(answers[q]) : answers[q][j] < m
          /\ \A j \in 1 .. Len(requests[g]) : i < j /\ requests[g][j][1] = q
                                                => m < requests[g][j][2]
      BY <3>0, RequestOf
    <3>4. CASE q # p  BY <1>0, <2>1, <2>0, <3>0, <3>2, <3>3, <3>4
    <3>5. CASE q = p
      <4>1. answers[p][1] < m  BY <2>2, <3>3, <3>5
      <4>2. Taken(p) + 2 <= m  BY SMTT(60), <2>1, <2>2, <2>3, <3>2, <4>1
      <4>3. \A j \in 1 .. Len(answers'[p]) : answers'[p][j] < m  BY <2>2, <3>3, <3>5
      <4>. QED  BY SMTT(60), <2>0, <2>1, <3>0, <3>2, <3>3, <3>5, <4>2, <4>3
    <3>. QED  BY <3>4, <3>5
  <2>. QED  BY <2>4, <2>5
<1>. QED  BY <1>1, <1>2, <1>3, <1>4, <1>5, <1>6, <1>7

\* A timeout preserves the inductive invariant.
LEMMA Step_PeerTimeout ==
    ASSUME NEW p \in Peers, IInv, PeerTimeout(p) PROVE IInv'
<1>. USE IpcNamesAssumption DEF IInv, PeerTimeout, threadVars, appVars, peerVars
<1>1. IpcTypeOK'
  <2>1. calling' \in [Peers -> BOOLEAN] /\ late' \in [Peers -> Nat]  BY DEF IpcTypeOK
  <2>. QED  BY <2>1 DEF IpcTypeOK
<1>2. Owners'  BY DEF Owners, IpcTypeOK
<1>3. Listed'  BY DEF Listed, Owners, IpcTypeOK, InList
<1>4. Mutexed'  BY DEF Mutexed, IpcTypeOK
<1>5. Served'  BY DEF Served, Live, Mutexed, IpcTypeOK
<1>6. Readable'  BY DEF Readable, Freed, IpcTypeOK
<1>7. Answered' /\ Requested'
  <2>1. \A q \in Peers : Taken(q)' = Taken(q)  BY DEF Taken, IpcTypeOK
  <2>2. ASSUME NEW g \in Handles, NEW i \in 1 .. Len(requests[g])
        PROVE  requests[g][i][1] \in Peers
    <3>1. requests[g][i] \in Peers \X Nat  BY ElementOfSeq DEF IpcTypeOK
    <3>. QED  BY <3>1
  <2>3. Answered'  BY <2>1 DEF Answered
  <2>4. Requested'
    <3>. SUFFICES ASSUME NEW g \in Handles, NEW i \in 1 .. Len(requests'[g]),
                         NEW q, q = requests'[g][i][1], NEW m, m = requests'[g][i][2]
                  PROVE  /\ Target[q] = g /\ Taken(q)' + 1 <= m /\ m <= current[q]
                         /\ \A j \in 1 .. Len(answers[q]) : answers[q][j] < m
                         /\ \A j \in 1 .. Len(requests'[g]) :
                                i < j /\ requests'[g][j][1] = q => m < requests'[g][j][2]
      BY DEF Requested
    <3>1. requests' = requests  OBVIOUS
    <3>2. q \in Peers  BY <2>2, <3>1
    <3>. QED  BY <2>1, <3>1, <3>2, RequestOf
  <2>. QED  BY <2>3, <2>4
<1>. QED  BY <1>1, <1>2, <1>3, <1>4, <1>5, <1>6, <1>7

-----------------------------------------------------------------------------
\* No step breaks the inductive invariant.
LEMMA StepIInv == IInv /\ [IpcNext]_ipcVars => IInv'
<1>. SUFFICES ASSUME IInv, [IpcNext]_ipcVars PROVE IInv'  OBVIOUS
<1>1. CASE UNCHANGED ipcVars
  BY <1>1 DEF ipcVars, threadVars, appVars, peerVars, IInv, IpcTypeOK, Owners, Listed,
     InList,
              Mutexed, Served, Live, Readable, Freed, Answered, Requested, Taken
<1>2. ASSUME NEW a \in Apps,
             \/ \E h \in Handles \cup {NoHandle} : OpenChannel(a, h)
             \/ OpenLink(a)
             \/ \E h \in Handles : CloseBegin(a, h)
             \/ CloseUnlink(a) \/ CloseJoined(a) \/ CloseRelease(a) \/ CloseFailed(a)
      PROVE  IInv'
  BY <1>2, Step_OpenChannel, Step_OpenLink, Step_CloseBegin, Step_CloseUnlink,
     Step_CloseJoined, Step_CloseRelease, Step_CloseFailed
<1>3. ASSUME NEW w \in Workers,
             \/ WorkerCheck(w) \/ WorkerLock(w) \/ WorkerSelect(w) \/ WorkerUnlock(w)
             \/ \E h \in Handles : WorkerHandle(w, h) \/ WorkerMisuse(w, h)
      PROVE  IInv'
  BY <1>3, Step_WorkerCheck, Step_WorkerLock, Step_WorkerSelect, Step_WorkerUnlock,
     Step_WorkerHandle, Step_WorkerMisuse
<1>4. ASSUME NEW p \in Peers, PeerCall(p) \/ PeerTake(p) \/ PeerTimeout(p)
      PROVE  IInv'
  BY <1>4, Step_PeerCall, Step_PeerTake, Step_PeerTimeout
<1>. QED  BY <1>1, <1>2, <1>3, <1>4 DEF IpcNext

\* The inductive invariant holds always.
LEMMA IInvHolds == IpcSpec => []IInv
BY InitIInv, StepIInv, PTL DEF IpcSpec

\* Every variable keeps its type: what is received, answered and taken was sent.
THEOREM IpcTypeCorrect == IpcSpec => []IpcTypeOK
BY IInvHolds, PTL DEF IInv

\* ipc_open starts serv_pthread_func before anything is listed, ipc_close ends it after the
\* last handle is off the list, and there are never two unless a channel failed to open.
THEOREM AlwaysServed == IpcSpec => []ServedWhileListed
<1>1. ASSUME IInv PROVE ServedWhileListed
  <2>1. serv_list # <<>> => serv_status /\ serv_pthread_id \in Workers /\ Live(serv_pthread_id)
    BY <1>1 DEF IInv, Served
  <2>2. ASSUME ~failed PROVE Cardinality({w \in Workers : Live(w)}) <= 1
    <3>1. {w \in Workers : Live(w)} \subseteq {serv_pthread_id}
      BY <1>1, <2>2 DEF IInv, Served
    <3>2. IsFiniteSet({serv_pthread_id}) /\ Cardinality({serv_pthread_id}) = 1
      BY FS_Singleton
    <3>. QED  BY <3>1, <3>2, FS_Subset
  <2>. QED  BY <2>1, <2>2 DEF ServedWhileListed
<1>. QED  BY <1>1, IInvHolds, PTL

\* ipc_call_va returns the answer to its own call, or to one as many calls ago as have
\* timed out on the socket at most.
THEOREM AnswersAreOwn == IpcSpec => OwnAnswer
<1>1. ASSUME IInv, NEW p \in Peers, PeerTake(p)
      PROVE  current[p] - late[p] <= Head(answers[p]) /\ Head(answers[p]) <= current[p]
  <2>1. answers[p] \in Seq(Nat) /\ answers[p] # <<>> /\ calling[p]
    BY <1>1 DEF PeerTake, IInv, IpcTypeOK
  <2>2. 1 \in 1 .. Len(answers[p]) /\ Head(answers[p]) = answers[p][1]  BY <2>1
  <2>3. Taken(p) + 1 <= answers[p][1] /\ answers[p][1] <= current[p]
    BY <1>1, <2>2 DEF IInv, Answered
  <2>4. Taken(p) + 1 = current[p] - late[p]  BY <1>1, <2>1 DEF Taken, IInv, IpcTypeOK
  <2>. QED  BY <2>2, <2>3, <2>4
<1>2. IInv /\ [IpcNext]_ipcVars =>
      [\A p \in Peers : PeerTake(p) => current[p] - late[p] <= Head(answers[p])
                                       /\ Head(answers[p]) <= current[p]]_ipcVars
  BY <1>1
<1>. QED  BY <1>2, IInvHolds, PTL DEF IpcSpec, OwnAnswer
=============================================================================
