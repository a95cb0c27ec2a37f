----------------------------- MODULE PropertyBus -----------------------------
(***************************************************************************)
(* The property service: the database (property-db.cpp) in its server      *)
(* process (property-server.cpp), the client library (property-client.cpp) *)
(* in a process with several threads, and the D-Bus helper that both use   *)
(* (aml-dbus.c).                                                           *)
(*                                                                         *)
(* The server has one thread: it serves a call, sends the signal of the    *)
(* change, if any, and then the reply.  The client has two connections,    *)
(* each with a dispatch thread of its own.  Over ambus_method its threads  *)
(* call set(); that dispatch thread only passes calls and replies on, so   *)
(* it is part of the steps of the callers.  Over ambus_signal come the     *)
(* changes: its dispatch thread, "dispatcher" below, runs the callbacks,   *)
(* with m_lock held, and adds and removes the matches for subscribe() and  *)
(* unsubscribe(), which wait for it, with m_lock held too.                 *)
(*                                                                         *)
(* get() and list() change nothing and are left out.  Keys and values are  *)
(* as trim() leaves them; an empty key is refused like one that is "ro".   *)
(***************************************************************************)
EXTENDS Integers, Sequences, FiniteSets

CONSTANTS Threads,    \* threads of the client
          Callbacks,  \* the functions they subscribe
          Ids,        \* CallbackInfo objects
          NoInfo,     \* not allocated
          Keys,       \* keys of properties
          All,        \* every key: what subscribe() is for
          Filters,    \* what they are subscribed for: keys, or All
          Attribute,  \* "temp", "persist" or "ro", for each key
          Vals,       \* values of properties
          None,       \* no such property; as the value to set: the empty string
          Device,     \* what the device's property file stores for each key
          Unknown,    \* what a subscriber knows after the server went down
          Free,       \* m_lock is not held
          MaxCalls,   \* bound: calls of the library
          MaxCrashes  \* bound: crashes of the server

ASSUME NamesAssumption ==
    /\ NoInfo \notin [cb : Callbacks, key : Filters]
    /\ Filters \subseteq Keys \cup {All} /\ All \notin Keys
    /\ None \notin Vals /\ Unknown \notin Vals \cup {None}
    /\ "dispatcher" \notin Threads /\ Free \notin Threads \cup {"dispatcher"}
ASSUME DataAssumption ==
    /\ Attribute \in [Keys -> {"temp", "persist", "ro"}]
    /\ Device \in [Keys -> Vals \cup {None}]
ASSUME BoundsAssumption == MaxCalls \in Nat /\ MaxCrashes \in Nat

VARIABLES
    bus,         \* ambus_signal and ambus_method
    pc,          \* where each thread of the client is; "dead" after a crash
    call,        \* the call each of them has made
    m_lock,      \* its holder, or Free
    info,        \* the CallbackInfo objects, each with a match on the bus
    m_callbacks, \* those in the list
    event,       \* the change the dispatcher handles
    inbox,       \* signals on the way to the dispatcher
    requests,    \* calls on the way to the server; it serves the first
    srv,         \* the server: "idle", "emit", "reply" or "down"
    change,      \* the change it has made and not sent
    store,       \* the properties
    persistDb,   \* gs_persist_db is open
    view,        \* history: what each subscription was last told of each key
    calls, crashes  \* counters for the bounds

callerVars == <<bus, call, calls>>
listVars   == <<m_lock, info, m_callbacks>>
serverVars == <<srv, change, store, persistDb, crashes>>
vars == <<pc, callerVars, listVars, event, inbox, requests, serverVars, view>>

-----------------------------------------------------------------------------
Callers == Threads \cup {"dispatcher"}
Buses == {"signal", "method"}
Values == Vals \cup {None}
Subscriptions == [cb : Callbacks, key : Filters]
\* A change of a property and the matches it is for.  It is stale once the server
\* that made it is gone.
Changes == [key : Keys, old : Values, new : Values, to : SUBSET Ids, stale : BOOLEAN]
NoChange == [key |-> All, old |-> None, new |-> None, to |-> {}, stale |-> FALSE]
Calls == [op : {"none"}] \cup [op : {"set"}, key : Keys, value : Values]
         \cup [op : {"subscribe"}, sub : Subscriptions]
         \cup [op : {"unsubscribe"}, cb : Callbacks]
NoCall == [op |-> "none"]
Pcs == {"none", "idle", "lock", "ensure", "posted", "push", "wait", "call", "stuck", "dead"}

Matched == {i \in Ids : info[i] # NoInfo}
Wants(i, k) == info[i].key \in {k, All}

TypeOK ==
    /\ bus \in [Buses -> {"NULL", "invalid", "up"}]
    /\ pc \in [Callers -> Pcs] /\ call \in [Callers -> Calls]
    /\ m_lock \in Callers \cup {Free}
    /\ info \in [Ids -> Subscriptions \cup {NoInfo}]
    /\ m_callbacks \subseteq Matched
    /\ event \in Changes \cup {NoChange} /\ change \in Changes \cup {NoChange}
    /\ inbox \in Seq(Changes) /\ requests \in Seq(Callers)
    /\ srv \in {"idle", "emit", "reply", "down"}
    /\ store \in [Keys -> Values] /\ persistDb \in BOOLEAN
    /\ view \in [Ids -> [Keys -> Values \cup {Unknown}]]
    /\ calls \in Nat /\ crashes \in Nat

\* load_device_properties: "ro" properties are those of the file, persistent ones
\* are added if the database has none, others in the file are ignored.  (The values are
\* those stored: a persistent property whose name has spaces around it in the file is
\* looked up without, but stored with them, which is another key.)
Loaded(db) ==
    [k \in Keys |-> CASE Attribute[k] = "ro" -> Device[k]
                      [] Attribute[k] = "persist" /\ db[k] = None -> Device[k]
                      [] Attribute[k] = "persist" -> db[k]
                      [] OTHER -> None]

\* Nothing is added if the batch cannot be written: init goes on without.
Unwritten(db) ==
    [k \in Keys |-> CASE Attribute[k] = "ro" -> Device[k]
                      [] Attribute[k] = "persist" -> db[k]
                      [] OTHER -> None]
Opened(db) == {Loaded(db), Unwritten(db)}

NoDb == [k \in Keys |-> None]

\* The server has been started on an empty database and has written to it what the file
\* adds: if it could not, the file is as good as empty, Device another.
Init ==
    /\ bus = [b \in Buses |-> "NULL"]
    /\ pc = [t \in Callers |-> IF t = "dispatcher" THEN "none" ELSE "idle"]
    /\ call = [t \in Callers |-> NoCall] /\ calls = 0
    /\ m_lock = Free /\ info = [i \in Ids |-> NoInfo] /\ m_callbacks = {}
    /\ event = NoChange
    /\ inbox = <<>> /\ requests = <<>>
    /\ srv = "idle" /\ change = NoChange /\ crashes = 0
    /\ store = Loaded(NoDb) /\ persistDb = TRUE
    /\ view = [i \in Ids |-> [k \in Keys |-> Unknown]]

Go(t, to) == pc' = [pc EXCEPT ![t] = to]

-----------------------------------------------------------------------------
(* The threads of the client.                                              *)

SetCall(k, v) == [op |-> "set", key |-> k, value |-> v]

Begin(t, c, to) ==
    /\ calls < MaxCalls /\ calls' = calls + 1
    /\ call' = [call EXCEPT ![t] = c]
    /\ Go(t, to)
    /\ UNCHANGED <<bus, listVars, event, inbox, requests, serverVars, view>>

set(t, k, v) == pc[t] = "idle" /\ t \in Threads /\ Begin(t, SetCall(k, v), "ensure")

\* subscribe and subscribe_one.  (The bound: there is an object for it.)
subscribe(t, s) ==
    /\ pc[t] = "idle" /\ t \in Threads
    /\ Cardinality(Matched) + Cardinality({u \in Threads : call[u].op = "subscribe"})
         < Cardinality(Ids)
    /\ Begin(t, [op |-> "subscribe", sub |-> s], "lock")

unsubscribe(t, cb) ==
    pc[t] = "idle" /\ t \in Threads
    /\ Begin(t, [op |-> "unsubscribe", cb |-> cb], "lock")

\* The objects a call of unsubscribe is about.
Unsubscribed(c) == {i \in m_callbacks : info[i].cb = c.cb}

\* Both take m_lock and keep it; unsubscribe has nothing to do without an object.
Lock(t) ==
    /\ t \in Threads /\ pc[t] = "lock" /\ m_lock = Free
    /\ IF call[t].op = "unsubscribe" /\ Unsubscribed(call[t]) = {}
       THEN /\ Go(t, "idle") /\ m_lock' = m_lock
            /\ call' = [call EXCEPT ![t] = NoCall]
       ELSE Go(t, "ensure") /\ m_lock' = t /\ call' = call
    /\ UNCHANGED <<bus, info, m_callbacks, calls, event, inbox, requests,
                   serverVars, view>>

BusFor(c) == IF c.op = "set" THEN "method" ELSE "signal"

\* ambus_ensure_run: who finds NULL creates the dispatch thread, and all wait for it.
\* Then the task is posted: for a call of set, the request is sent.
EnsureRun(t) ==
    LET b == BusFor(call[t]) IN
    /\ pc[t] = "ensure"
    /\ \/ bus[b] = "NULL" /\ bus' = [bus EXCEPT ![b] = "invalid"]
          /\ UNCHANGED <<pc, requests>>
       \/ bus[b] = "up" /\ bus' = bus
          /\ IF b = "signal" THEN Go(t, "posted") /\ requests' = requests
             ELSE Go(t, "wait") /\ requests' = Append(requests, t)
    /\ UNCHANGED <<call, calls, listVars, event, inbox, serverVars, view>>

\* The new dispatch thread has run ambus_new.  If that failed, *ppambus is NULL, and
\* so is what ambus_run and who waited use as a pointer.
BusStarts(b) ==
    /\ bus[b] = "invalid" /\ pc["dispatcher"] # "dead"
    /\ \/ /\ bus' = [bus EXCEPT ![b] = "up"]
          /\ IF b = "signal" THEN Go("dispatcher", "idle") ELSE pc' = pc
       \/ /\ bus' = [bus EXCEPT ![b] = "NULL"]
          /\ pc' = [t \in Callers |-> "dead"]
    /\ UNCHANGED <<call, calls, listVars, event, inbox, requests, serverVars, view>>

\* The end of subscribe: the object goes to the list.
Push(t) ==
    /\ pc[t] = "push"
    /\ m_callbacks' = Matched
    /\ m_lock' = Free
    /\ call' = [call EXCEPT ![t] = NoCall] /\ Go(t, "idle")
    /\ UNCHANGED <<bus, info, calls, event, inbox, requests, serverVars, view>>

-----------------------------------------------------------------------------
(* The dispatch thread of ambus_signal.                                    *)

\* What is known of k as a match is added: the value before the next signal.
Known(k) == CASE srv = "down" -> Unknown
              [] srv = "emit" /\ change.key = k -> change.old
              [] OTHER -> store[k]

\* The task of subscribe: the match is added; AddMatch is taken to succeed.
RunAddMatch(t) ==
    /\ pc["dispatcher"] = "idle" /\ pc[t] = "posted" /\ call[t].op = "subscribe"
    /\ \E i \in Ids \ Matched :
          /\ info' = [info EXCEPT ![i] = call[t].sub]
          /\ view' = [view EXCEPT ![i] = [k \in Keys |-> Known(k)]]
    /\ Go(t, "push")
    /\ UNCHANGED <<callerVars, m_lock, m_callbacks, event, inbox, requests, serverVars>>

KeptListed(i) == m_callbacks                             \* mutant
Erased(i) == m_callbacks \ {i}

\* The task of CallbackInfoDeleter, the deletion that follows it, and for the last
\* object the end of unsubscribe.
RunUnref(t) ==
    /\ pc["dispatcher"] = "idle" /\ pc[t] = "posted" /\ call[t].op = "unsubscribe"
    /\ \E i \in Unsubscribed(call[t]) :
          /\ info' = [info EXCEPT ![i] = NoInfo]
          /\ inbox' = [n \in 1 .. Len(inbox) |-> [inbox[n] EXCEPT !.to = @ \ {i}]]
          /\ m_callbacks' = Erased(i)
          /\ view' = [view EXCEPT ![i] = [k \in Keys |-> Unknown]]
          /\ IF Unsubscribed(call[t]) = {i}
             THEN /\ Go(t, "idle") /\ m_lock' = Free
                  /\ call' = [call EXCEPT ![t] = NoCall]
             ELSE UNCHANGED <<pc, m_lock, call>>
    /\ UNCHANGED <<bus, calls, event, requests, serverVars>>

\* The dispatcher goes on with what is left of a signal.
Continue(e) ==
    /\ event' = IF e.to = {} THEN NoChange ELSE e
    /\ Go("dispatcher", IF e.to = {} THEN "idle" ELSE "lock")

\* A signal is handed to dbus_signal_handle once for each match it fits, but for those
\* added after it was sent.
TakeSignal ==
    /\ pc["dispatcher"] = "idle" /\ inbox # <<>>
    /\ inbox' = Tail(inbox)
    /\ Continue(Head(inbox))
    /\ UNCHANGED <<callerVars, listVars, requests, serverVars, view>>

\* dbus_signal_handle looks for the callback, not for the object.
Handle(i) ==
    LET rest == [event EXCEPT !.to = @ \ {i}] IN
    /\ pc["dispatcher"] = "lock" /\ m_lock = Free /\ i \in event.to
    /\ IF \E j \in m_callbacks : info[j].cb = info[i].cb
       THEN /\ m_lock' = "dispatcher"
            /\ view' = [view EXCEPT ![i][event.key] = IF event.stale THEN @ ELSE event.new]
            /\ Go("dispatcher", "call") /\ event' = rest
       ELSE Continue(rest) /\ UNCHANGED <<m_lock, view>>
    /\ UNCHANGED <<callerVars, info, m_callbacks, inbox, requests, serverVars>>

CallbackReturns ==
    /\ pc["dispatcher"] = "call"
    /\ m_lock' = Free
    /\ Continue(event)
    /\ UNCHANGED <<callerVars, info, m_callbacks, inbox, requests, serverVars, view>>

\* A callback may set properties: the call goes over the other connection.
CallbackSets(k, v) ==
    /\ pc["dispatcher"] = "call"
    /\ Begin("dispatcher", SetCall(k, v), "ensure")

\* One that calls subscribe or unsubscribe locks m_lock twice.
CallbackSubscribes ==
    /\ pc["dispatcher"] = "call"
    /\ Go("dispatcher", "stuck")
    /\ UNCHANGED <<callerVars, listVars, event, inbox, requests, serverVars, view>>

-----------------------------------------------------------------------------
(* The server.                                                             *)

\* Whether a write of k can succeed: one of the database can also fail.
Writes(k) == CASE Attribute[k] = "ro" -> {FALSE}
               [] Attribute[k] = "persist" /\ ~persistDb -> {FALSE}
               [] Attribute[k] = "persist" -> BOOLEAN
               [] OTHER -> {TRUE}

OnlyModified(k, v) == store[k] \notin {v, None}          \* mutant
Changed(k, v) == store[k] # v

\* internal_set.
ServeSet ==
    LET c == call[Head(requests)] IN
    /\ srv = "idle" /\ requests # <<>>
    /\ \E written \in Writes(c.key) :
          /\ store' = IF written THEN [store EXCEPT ![c.key] = c.value] ELSE store
          /\ IF written /\ Changed(c.key, c.value)
             THEN /\ srv' = "emit"
                  /\ change' = [key |-> c.key, old |-> store[c.key], new |-> c.value,
                                to |-> {}, stale |-> FALSE]
             ELSE srv' = "reply" /\ change' = change
    /\ UNCHANGED <<pc, callerVars, listVars, event, inbox, requests, persistDb,
                   crashes, view>>

ListedAudience(k) == {i \in m_callbacks : Wants(i, k)}    \* mutant
Audience(k) == {i \in Matched : Wants(i, k)}

\* notify, onChanged: the bus passes the signal on if a match fits.
EmitSignal ==
    /\ srv = "emit" /\ srv' = "reply"
    /\ inbox' = IF Audience(change.key) = {} THEN inbox
                ELSE Append(inbox, [change EXCEPT !.to = Audience(change.key)])
    /\ change' = NoChange
    /\ UNCHANGED <<pc, callerVars, listVars, event, requests, store, persistDb,
                   crashes, view>>

KeepsWaiting(t) == "wait"                                \* mutant
WakeUp(t) == IF t = "dispatcher" THEN "call" ELSE "idle"

\* The caller of the first request is let go on.
LetGo ==
    LET t == Head(requests) IN
    /\ requests' = Tail(requests)
    /\ call' = [call EXCEPT ![t] = NoCall]
    /\ pc' = IF pc[t] # "wait" THEN pc ELSE [pc EXCEPT ![t] = WakeUp(t)]

Reply ==
    /\ srv = "reply" /\ srv' = "idle" /\ LetGo
    /\ UNCHANGED <<bus, calls, listVars, event, inbox, change, store, persistDb,
                   crashes, view>>

\* What is known of the properties is void; temporary ones are lost, at the latest
\* when it starts again.
ServerCrash ==
    /\ srv # "down" /\ crashes < MaxCrashes
    /\ srv' = "down" /\ crashes' = crashes + 1 /\ change' = NoChange
    /\ view' = [i \in Ids |-> [k \in Keys |-> Unknown]]
    /\ inbox' = [j \in 1 .. Len(inbox) |-> [inbox[j] EXCEPT !.stale = TRUE]]
    /\ event' = [event EXCEPT !.stale = event # NoChange]
    /\ UNCHANGED <<pc, callerVars, listVars, requests, store, persistDb>>

\* The bus answers an error: the result of set() is then an uninitialised variable.
CallFails ==
    /\ srv = "down" /\ requests # <<>> /\ LetGo
    /\ UNCHANGED <<bus, calls, listVars, event, inbox, serverVars, view>>

\* init_persist_db, in the new process: the database is opened, perhaps repaired; or it
\* is deleted and made anew; or it can neither be read nor deleted.
ServerRestart ==
    /\ srv = "down" /\ requests = <<>>
    /\ \/ store' \in Opened(store) \cup Opened(NoDb) /\ persistDb' = TRUE
       \/ store' = Unwritten(NoDb) /\ persistDb' = FALSE
    /\ srv' = "idle"
    /\ UNCHANGED <<pc, callerVars, listVars, event, inbox, requests, change,
                   crashes, view>>

-----------------------------------------------------------------------------
Thread(t) == Lock(t) \/ EnsureRun(t) \/ Push(t)

Dispatcher ==
    \/ \E t \in Threads : RunAddMatch(t) \/ RunUnref(t)
    \/ TakeSignal \/ CallbackReturns
    \/ \E i \in Ids : Handle(i)

Server == ServeSet \/ EmitSignal \/ Reply \/ CallFails \/ ServerRestart

Next ==
    \/ \E t \in Threads :
          \/ \E k \in Keys, v \in Values : set(t, k, v)
          \/ \E s \in Subscriptions : subscribe(t, s)
          \/ \E cb \in Callbacks : unsubscribe(t, cb)
    \/ \E t \in Callers : Thread(t)
    \/ \E b \in Buses : BusStarts(b)
    \/ Dispatcher
    \/ CallbackSubscribes \/ \E k \in Keys, v \in Values : CallbackSets(k, v)
    \/ Server \/ ServerCrash

Spec == Init /\ [][Next]_vars

\* Every thread is scheduled, callbacks return, and the server is started again
\* (propertyserver.service: Restart=always).
FairSpec ==
    /\ Spec
    /\ \A t \in Callers : WF_vars(Thread(t))
    /\ \A b \in Buses : WF_vars(BusStarts(b))
    /\ WF_vars(Dispatcher) /\ WF_vars(Server)

-----------------------------------------------------------------------------
(* What must hold.                                                         *)

\* The signal at hand and those on the way, and the places in it of what i is still
\* to be told of k.
Feed == <<event>> \o inbox
Places(s, i, k) == {n \in 1 .. Len(s) : i \in s[n].to /\ s[n].key = k /\ ~s[n].stale}

\* What i knows of k once the signals before place n are handled.
Told(i, k, n) ==
    LET before == {m \in Places(Feed, i, k) : m < n}
    IN  IF before = {} THEN view[i][k]
        ELSE Feed[CHOOSE m \in before : \A l \in before : l <= m].new

\* What the server has told of k, and the change it has not sent yet.
Sent(k) == IF srv = "emit" /\ change.key = k THEN change.old ELSE store[k]
Unsent(k) == srv = "emit" /\ change.key = k => change.new = store[k]

\* What a subscriber was told and will be told leads to what the server has, change by
\* change: none is lost, told twice or out of order, whoever subscribes or
\* unsubscribes meanwhile, as long as the server stays up.
FeedCoherent ==
    \A i \in Matched, k \in Keys :
        (srv # "down" /\ Wants(i, k) /\ view[i][k] # Unknown) =>
            /\ \A n \in Places(Feed, i, k) : Feed[n].old = Told(i, k, n)
            /\ Told(i, k, Len(Feed) + 1) = Sent(k) /\ Unsent(k)

\* subscribe or unsubscribe holds m_lock and waits for the dispatcher, which waits
\* for m_lock.
Embrace == pc["dispatcher"] = "lock" /\ m_lock \in Threads /\ pc[m_lock] = "posted"

Ended == pc["dispatcher"] \in {"dead", "stuck"} \/ Embrace

\* Every call returns, whatever happens to the server, unless a callback subscribed or
\* unsubscribed, ambus_new failed, or the dispatcher and the holder of m_lock wait
\* for each other.
CallsReturn == []<>(Ended \/ \A t \in Threads : pc[t] = "idle")

\* When the calls have ended, every subscriber gets to know what the server has.
CatchesUp ==
    []<>(Ended \/ \A i \in m_callbacks, k \in Keys :
                     Wants(i, k) => view[i][k] \in {store[k], Unknown})
=============================================================================
