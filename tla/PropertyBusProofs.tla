-------------------------- MODULE PropertyBusProofs --------------------------
(***************************************************************************)
(* Whoever subscribes, unsubscribes, sets or crashes, and for any number   *)
(* of threads, callbacks, keys and values: the variables of PropertyBus    *)
(* keep their types, what a subscriber was told and will be told leads to  *)
(* what the server has, and calls wait in a circle in one way only.        *)
(***************************************************************************)
EXTENDS PropertyBus, FiniteSetTheorems, SequenceTheorems, TLAPS

\* The process of the client ends as a whole.
Together == (\E t \in Callers : pc[t] = "dead") => \A t \in Callers : pc[t] = "dead"

\* What a thread is about to do belongs to its call.
CallsFit ==
    /\ \A t \in Threads :
          /\ pc[t] \in {"idle", "lock", "ensure", "posted", "push", "wait", "dead"}
          /\ pc[t] = "idle" => call[t] = NoCall
          /\ pc[t] \in {"lock", "posted"} => call[t].op \in {"subscribe", "unsubscribe"}
          /\ pc[t] = "ensure" => call[t].op # "none"
          /\ pc[t] = "push" => call[t].op = "subscribe"
          /\ pc[t] = "wait" => call[t].op = "set"
    /\ pc["dispatcher"] \notin {"posted", "push"}
    /\ pc["dispatcher"] \in {"none", "idle", "lock", "call", "stuck"} =>
          call["dispatcher"] = NoCall
    /\ pc["dispatcher"] \in {"ensure", "wait"} => call["dispatcher"].op = "set"
    /\ bus["signal"] # "up" => pc["dispatcher"] \in {"none", "dead"}

\* The thread that is between lock and unlock.
Inside(t) ==
    IF t = "dispatcher" THEN pc[t] \in {"call", "ensure", "wait", "stuck"}
    ELSE pc[t] \in {"posted", "push"} \/ (pc[t] = "ensure" /\ call[t].op # "set")

LockHeld == pc["dispatcher"] # "dead" => \A t \in Callers : Inside(t) <=> m_lock = t

\* An object is missing in the list only while the thread that made it holds m_lock.
Listing == (\A t \in Threads : pc[t] \notin {"push", "dead"}) => m_callbacks = Matched

\* The requests are of threads that wait, one of each; the server is at work on one.
Waiting ==
    /\ \A n \in 1 .. Len(requests) :
          /\ pc[requests[n]] \in {"wait", "dead"}
          /\ call[requests[n]].op = "set"
          /\ \A m \in 1 .. Len(requests) : requests[m] = requests[n] => m = n
    /\ srv \in {"emit", "reply"} => requests # <<>>

\* A signal is on its way to matches that are there.
Signals ==
    /\ pc["dispatcher"] \in {"none", "idle"} => event = NoChange
    /\ event.to \subseteq Matched
    /\ \A n \in 1 .. Len(inbox) : inbox[n].to \subseteq Matched
    /\ srv # "emit" => change = NoChange
    /\ srv = "emit" => /\ change \in Changes /\ change.to = {} /\ ~change.stale
                       /\ change.new = store[change.key]
    /\ srv = "down" => /\ \A n \in 1 .. Len(inbox) : inbox[n].stale
                       /\ event # NoChange => event.stale
                       /\ \A i \in Ids, k \in Keys : view[i][k] = Unknown

-----------------------------------------------------------------------------
\* The changes of s at the places of R lead from v, if that is known, to w.
Linked(s, R, v, w) ==
    /\ \A n \in R : (\A m \in R : n <= m) /\ v # Unknown => s[n].old = v
    /\ \A m, n \in R : m < n /\ (\A l \in R : l <= m \/ n <= l) => s[n].old = s[m].new
    /\ \A n \in R : (\A m \in R : m <= n) => s[n].new = w
    /\ R = {} /\ v # Unknown => v = w

\* Every subscription's part of the feed leads from what it knows to what was sent.
FeedLinked ==
    srv # "down" => \A i \in Matched, k \in Keys :
        Wants(i, k) => Linked(Feed, Places(Feed, i, k), view[i][k], Sent(k))

IInv == /\ TypeOK /\ Together /\ CallsFit /\ LockHeld /\ Listing /\ Waiting /\ Signals
        /\ FeedLinked
-----------------------------------------------------------------------------
(* Facts about the operators.                                              *)

\* The fields that a call of each kind has.
LEMMA CallFields ==
    ASSUME NEW c \in Calls
    PROVE  /\ c.op \in {"none", "set", "subscribe", "unsubscribe"}
           /\ c.op = "set" => c.key \in Keys /\ c.value \in Values
           /\ c.op = "subscribe" => c.sub \in Subscriptions
           /\ c.op = "unsubscribe" => c.cb \in Callbacks
<1>1. CASE c \in [op : {"none"}]  BY <1>1
<1>2. CASE c \in [op : {"set"}, key : Keys, value : Values]  BY <1>2
<1>3. CASE c \in [op : {"subscribe"}, sub : Subscriptions]  BY <1>3
<1>4. CASE c \in [op : {"unsubscribe"}, cb : Callbacks]  BY <1>4
<1>. QED  BY <1>1, <1>2, <1>3, <1>4 DEF Calls

\* What load_device_properties makes of any database are properties.
LEMMA LoadedType ==
    ASSUME NEW db \in [Keys -> Values]
    PROVE  /\ Loaded(db) \in [Keys -> Values] /\ Unwritten(db) \in [Keys -> Values]
           /\ NoDb \in [Keys -> Values]
BY DataAssumption DEF Loaded, Unwritten, NoDb, Values

\* The places of a sequence that begins with the signal at hand.
LEMMA FeedPlaces ==
    ASSUME NEW e \in Changes \cup {NoChange}, NEW q \in Seq(Changes)
    PROVE  /\ <<e>> \o q \in Seq(Changes \cup {NoChange})
           /\ Len(q) \in Nat /\ Len(<<e>> \o q) = Len(q) + 1
           /\ (<<e>> \o q)[1] = e
           /\ \A n \in 1 .. Len(q) : (<<e>> \o q)[n + 1] = q[n]
           /\ \A n \in 2 .. Len(q) + 1 : (<<e>> \o q)[n] = q[n - 1]
<1>. DEFINE S == Changes \cup {NoChange}
<1>1. <<e>> \in Seq(S) /\ Len(<<e>>) = 1 /\ <<e>>[1] = e  OBVIOUS
<1>2. q \in Seq(S)  BY SeqMonotonic
<1>3. Len(q) \in Nat  BY LenProperties
<1>. HIDE DEF S
<1>4. /\ <<e>> \o q \in Seq(S) /\ Len(<<e>> \o q) = 1 + Len(q)
      /\ \A n \in 1 .. 1 + Len(q) : (<<e>> \o q)[n] = IF n <= 1 THEN <<e>>[n] ELSE q[n - 1]
  BY <1>1, <1>2, ConcatProperties
<1>5. (<<e>> \o q)[1] = e  BY <1>1, <1>3, <1>4
<1>6. \A n \in 2 .. Len(q) + 1 : (<<e>> \o q)[n] = q[n - 1]  BY <1>3, <1>4
<1>7. \A n \in 1 .. Len(q) : (<<e>> \o q)[n + 1] = q[n]
  <2>. SUFFICES ASSUME NEW n \in 1 .. Len(q) PROVE (<<e>> \o q)[n + 1] = q[n]  OBVIOUS
  <2>1. n + 1 \in 2 .. Len(q) + 1 /\ (n + 1) - 1 = n  BY <1>3
  <2>. QED  BY <2>1, <1>6
<1>. QED  BY <1>3, <1>4, <1>5, <1>6, <1>7 DEF S

\* Only the changes at the places count.
LEMMA LinkedSame ==
    ASSUME NEW s, NEW z, NEW R, NEW v, NEW w, Linked(s, R, v, w),
           \A n \in R : z[n].old = s[n].old /\ z[n].new = s[n].new
    PROVE  Linked(z, R, v, w)
BY DEF Linked

\* Changes that all move up by one place stay linked.
LEMMA LinkedShift ==
    ASSUME NEW s, NEW z, NEW R, NEW Q, NEW v, NEW w, Linked(s, R, v, w),
           R \subseteq Nat, Q \subseteq Nat, \A n \in Nat : n \in Q <=> n + 1 \in R,
           0 \notin R,
           \A n \in Q : z[n].old = s[n + 1].old /\ z[n].new = s[n + 1].new
    PROVE  Linked(z, Q, v, w)
<1>0. \A n \in R : n - 1 \in Q /\ (n - 1) + 1 = n  OBVIOUS
<1>1. ASSUME NEW n \in Q, \A m \in Q : n <= m, v # Unknown PROVE z[n].old = v
  <2>1. n + 1 \in R /\ \A m \in R : n + 1 <= m  BY <1>0, <1>1
  <2>. QED  BY <2>1, <1>1 DEF Linked
<1>2. ASSUME NEW m \in Q, NEW n \in Q, m < n, \A l \in Q : l <= m \/ n <= l
      PROVE  z[n].old = z[m].new
  <2>1. /\ m + 1 \in R /\ n + 1 \in R /\ m + 1 < n + 1
        /\ \A l \in R : l <= m + 1 \/ n + 1 <= l  BY <1>0, <1>2
  <2>. QED  BY <2>1 DEF Linked
<1>3. ASSUME NEW n \in Q, \A m \in Q : m <= n PROVE z[n].new = w
  <2>1. n + 1 \in R /\ \A m \in R : m <= n + 1  BY <1>0, <1>3
  <2>. QED  BY <2>1 DEF Linked
<1>4. Q = {} => R = {}  BY <1>0
<1>. QED  BY <1>1, <1>2, <1>3, <1>4 DEF Linked

\* Who is told the first change knows what the next one changes.
LEMMA LinkedFirst ==
    ASSUME NEW s, NEW z, NEW R, NEW v, NEW w, Linked(s, R, v, w),
           R \subseteq Nat \ {0}, 1 \in R,
           \A n \in R : n # 1 => z[n].old = s[n].old /\ z[n].new = s[n].new
    PROVE  Linked(z, R \ {1}, s[1].new, w)
<1>1. ASSUME NEW n \in R \ {1}, \A m \in R \ {1} : n <= m PROVE z[n].old = s[1].new
  <2>0. n \in R /\ n # 1 /\ \A l \in R : l = 1 \/ n <= l  BY <1>1
  <2>1. 1 < n
    <3>1. n \in Nat /\ n # 0 /\ n # 1  BY <2>0
    <3>. QED  BY <3>1
  <2>2. \A l \in R : l <= 1 \/ n <= l
    <3>1. \A l \in R : l = 1 => l <= 1  OBVIOUS
    <3>. QED  BY <2>0, <3>1
  <2>3. s[n].old = s[1].new  BY <2>0, <2>1, <2>2 DEF Linked
  <2>. QED  BY <2>0, <2>3
<1>2. ASSUME NEW m \in R \ {1}, NEW n \in R \ {1}, m < n,
             \A l \in R \ {1} : l <= m \/ n <= l
      PROVE  z[n].old = z[m].new
  <2>1. \A l \in R : l <= m \/ n <= l  BY <1>2
  <2>. QED  BY <2>1, <1>2 DEF Linked
<1>3. ASSUME NEW n \in R \ {1}, \A m \in R \ {1} : m <= n PROVE z[n].new = w
  <2>1. n \in R /\ \A m \in R : m <= n  BY <1>3
  <2>. QED  BY <2>1, <1>3 DEF Linked
<1>4. R \ {1} = {} => s[1].new = w
  <2>1. R \ {1} = {} => \A m \in R : m <= 1  OBVIOUS
  <2>. QED  BY <2>1 DEF Linked
<1>. QED  BY <1>1, <1>2, <1>3, <1>4 DEF Linked

\* A change of what the others led to can be put at the end.
LEMMA LinkedLast ==
    ASSUME NEW s, NEW z, NEW R, NEW v, NEW w, NEW x, NEW L \in Nat, Linked(s, R, v, w),
           R \subseteq 1 .. L, z[L + 1].old = w, z[L + 1].new = x,
           \A n \in R : z[n].old = s[n].old /\ z[n].new = s[n].new
    PROVE  Linked(z, R \cup {L + 1}, v, x)
<1>. DEFINE Q == R \cup {L + 1}
<1>0. /\ \A n \in R : n \in Nat /\ n < L + 1 /\ ~(L + 1 <= n)
      /\ z[L + 1].old = w /\ z[L + 1].new = x  OBVIOUS
<1>1. ASSUME NEW n \in Q, \A m \in Q : n <= m, v # Unknown PROVE z[n].old = v
  <2>1. CASE n \in R
    <3>1. s[n].old = v  BY <2>1, <1>1 DEF Linked
    <3>. QED  BY <2>1, <3>1
  <2>2. CASE n = L + 1
    <3>1. R = {}  BY <2>2, <1>0, <1>1
    <3>. QED  BY <2>2, <3>1, <1>0, <1>1 DEF Linked
  <2>. QED  BY <2>1, <2>2
<1>2. ASSUME NEW m \in Q, NEW n \in Q, m < n, \A l \in Q : l <= m \/ n <= l
      PROVE  z[n].old = z[m].new
  <2>1. m \in R  BY <1>0, <1>2
  <2>2. CASE n \in R
    <3>1. s[n].old = s[m].new  BY <2>1, <2>2, <1>2 DEF Linked
    <3>. QED  BY <2>1, <2>2, <3>1
  <2>3. CASE n = L + 1
    <3>1. \A l \in R : l <= m  BY <2>3, <1>0, <1>2
    <3>2. s[m].new = w  BY <2>1, <3>1 DEF Linked
    <3>. QED  BY <2>1, <2>3, <3>2, <1>0
  <2>. QED  BY <2>2, <2>3
<1>3. ASSUME NEW n \in Q, \A m \in Q : m <= n PROVE z[n].new = x
  <2>1. n = L + 1  BY <1>0, <1>3
  <2>. QED  BY <2>1, <1>0
<1>. QED  BY <1>1, <1>2, <1>3 DEF Linked

\* Nothing to be told of leaves nothing to link.
LEMMA LinkedNone ==
    ASSUME NEW s, NEW v, NEW w, v = Unknown \/ v = w PROVE Linked(s, {}, v, w)
BY DEF Linked

\* A step of a thread that sends nothing and does not touch the dispatcher at rest.
LEMMA SignalsKept ==
    ASSUME Signals, UNCHANGED <<event, inbox, srv, change, store, view, info>>,
           pc'["dispatcher"] \in {"none", "idle"} => pc["dispatcher"] \in {"none", "idle"}
    PROVE  Signals'
BY DEF Signals, Matched

\* A step that changes no property, no match and no signal.
LEMMA FeedKept ==
    ASSUME FeedLinked, UNCHANGED <<event, inbox, srv, change, store, view, info>>
    PROVE  FeedLinked'
BY DEF FeedLinked, Feed, Sent, Wants, Matched

\* No call is a call, and no change is none.
LEMMA NoCallType == NoCall \in Calls /\ NoCall.op = "none"
BY DEF Calls, NoCall
LEMMA NoChangeType ==
    /\ NoChange \notin Changes /\ NoChange.to = {} /\ ~NoChange.stale /\ NoChange.key = All
BY NamesAssumption DEF Changes, NoChange

\* The places of the feed: the signal at hand and those on the way.
LEMMA FeedNow ==
    ASSUME TypeOK
    PROVE  /\ Len(inbox) \in Nat /\ Len(Feed) = Len(inbox) + 1 /\ Feed[1] = event
           /\ \A n \in 2 .. Len(inbox) + 1 : Feed[n] = inbox[n - 1]
<1>1. event \in Changes \cup {NoChange} /\ inbox \in Seq(Changes)  BY DEF TypeOK
<1>. QED  BY <1>1, FeedPlaces DEF Feed

\* And after a step.
LEMMA FeedNext ==
    ASSUME TypeOK'
    PROVE  /\ Len(inbox') \in Nat /\ Len(Feed') = Len(inbox') + 1 /\ Feed'[1] = event'
           /\ \A n \in 2 .. Len(inbox') + 1 : Feed'[n] = inbox'[n - 1]
<1>1. event' \in Changes \cup {NoChange} /\ inbox' \in Seq(Changes)  BY DEF TypeOK
<1>. QED  BY <1>1, FeedPlaces DEF Feed

\* Nobody without a match has anything to be told of.
LEMMA NoPlaces ==
    ASSUME TypeOK, Signals, NEW i \in Ids \ Matched, NEW k
    PROVE  Places(Feed, i, k) = {}
<1>1. ASSUME NEW n \in 1 .. Len(Feed) PROVE i \notin Feed[n].to
  <2>1. CASE n = 1  BY <2>1, FeedNow DEF Signals
  <2>2. CASE n # 1
    <3>1. n \in 2 .. Len(inbox) + 1 /\ n - 1 \in 1 .. Len(inbox)  BY <2>2, FeedNow
    <3>. QED  BY <3>1, FeedNow DEF Signals
  <2>. QED  BY <2>1, <2>2
<1>. QED  BY <1>1 DEF Places

\* What is linked stays linked if the feed differs only in what other subscriptions are
\* told, and nothing else has changed for this one.
LEMMA LinkedStays ==
    ASSUME NEW s, NEW z, NEW i, NEW k, NEW v, NEW w, Linked(s, Places(s, i, k), v, w),
           Len(z) = Len(s),
           \A n \in 1 .. Len(s) :
              /\ (i \in z[n].to /\ z[n].key = k /\ ~z[n].stale)
                    <=> (i \in s[n].to /\ s[n].key = k /\ ~s[n].stale)
              /\ (i \in s[n].to /\ s[n].key = k /\ ~s[n].stale) =>
                    z[n].old = s[n].old /\ z[n].new = s[n].new
    PROVE  Linked(z, Places(z, i, k), v, w)
<1>1. Places(z, i, k) = Places(s, i, k)  BY DEF Places
<1>2. \A n \in Places(s, i, k) : z[n].old = s[n].old /\ z[n].new = s[n].new  BY DEF Places
<1>. QED  BY <1>1, <1>2, LinkedSame

\* A function on 1 .. L is a sequence of that length.
LEMMA FunctionSeq ==
    ASSUME NEW S, NEW L \in Nat, NEW f \in [1 .. L -> S] PROVE f \in Seq(S) /\ Len(f) = L
OBVIOUS


-----------------------------------------------------------------------------
(* One lemma for each action.                                              *)

\* A thread that calls set() is outside the lock, and sends nothing yet.
LEMMA Step_set ==
    ASSUME IInv, NEW t \in Threads, NEW k \in Keys, NEW v \in Values, set(t, k, v)
    PROVE  IInv'
<1>. USE NamesAssumption DEF IInv, set, Begin, SetCall, Go, callerVars, listVars, serverVars
<1>1. TypeOK'
  BY DataAssumption
  DEF TypeOK, Callers, Buses, Values, Pcs, Calls, NoCall, Matched, Changes, NoChange,
      Subscriptions
<1>2. Together'  BY DEF Together, TypeOK, Callers
<1>3. CallsFit'  BY DEF CallsFit, TypeOK, Callers, NoCall, Together
<1>4. LockHeld'  BY DEF LockHeld, Inside, CallsFit, TypeOK, Callers, NoCall, Together
<1>5. Listing'  BY DEF Listing, Matched, TypeOK, Callers, CallsFit
<1>6. Waiting'  BY DEF Waiting, TypeOK, Callers, CallsFit, NoCall
<1>7. Signals'  BY SignalsKept DEF TypeOK, Callers
<1>8. FeedLinked'  BY FeedKept
<1>. QED  BY <1>1, <1>2, <1>3, <1>4, <1>5, <1>6, <1>7, <1>8

\* subscribe() waits for m_lock.
LEMMA Step_subscribe ==
    ASSUME IInv, NEW t \in Threads, NEW s \in Subscriptions, subscribe(t, s) PROVE IInv'
<1>. USE NamesAssumption DEF IInv, subscribe, Begin, Go, callerVars, listVars, serverVars
<1>1. TypeOK'
  BY DataAssumption
  DEF TypeOK, Callers, Buses, Values, Pcs, Calls, NoCall, Matched, Changes, NoChange,
      Subscriptions
<1>2. Together'  BY DEF Together, TypeOK, Callers
<1>3. CallsFit'  BY DEF CallsFit, TypeOK, Callers, NoCall, Together
<1>4. LockHeld'  BY DEF LockHeld, Inside, CallsFit, TypeOK, Callers, NoCall, Together
<1>5. Listing'  BY DEF Listing, Matched, TypeOK, Callers, CallsFit
<1>6. Waiting'  BY DEF Waiting, TypeOK, Callers, CallsFit, NoCall
<1>7. Signals'  BY SignalsKept DEF TypeOK, Callers
<1>8. FeedLinked'  BY FeedKept
<1>. QED  BY <1>1, <1>2, <1>3, <1>4, <1>5, <1>6, <1>7, <1>8

\* unsubscribe() waits for m_lock.
LEMMA Step_unsubscribe ==
    ASSUME IInv, NEW t \in Threads, NEW cb \in Callbacks, unsubscribe(t, cb) PROVE IInv'
<1>. USE NamesAssumption DEF IInv, unsubscribe, Begin, Go, callerVars, listVars, serverVars
<1>1. TypeOK'
  BY DataAssumption
  DEF TypeOK, Callers, Buses, Values, Pcs, Calls, NoCall, Matched, Changes, NoChange,
      Subscriptions
<1>2. Together'  BY DEF Together, TypeOK, Callers
<1>3. CallsFit'  BY DEF CallsFit, TypeOK, Callers, NoCall, Together
<1>4. LockHeld'  BY DEF LockHeld, Inside, CallsFit, TypeOK, Callers, NoCall, Together
<1>5. Listing'  BY DEF Listing, Matched, TypeOK, Callers, CallsFit
<1>6. Waiting'  BY DEF Waiting, TypeOK, Callers, CallsFit, NoCall
<1>7. Signals'  BY SignalsKept DEF TypeOK, Callers
<1>8. FeedLinked'  BY FeedKept
<1>. QED  BY <1>1, <1>2, <1>3, <1>4, <1>5, <1>6, <1>7, <1>8

\* Who takes m_lock is inside from there; unsubscribe may have nothing to do.
LEMMA Step_Lock ==
    ASSUME IInv, NEW t \in Callers, Lock(t) PROVE IInv'
<1>. USE NamesAssumption DEF IInv, Lock, Go, callerVars, listVars, serverVars
<1>0. \/ /\ pc' = [pc EXCEPT ![t] = "idle"] /\ m_lock' = m_lock
         /\ call' = [call EXCEPT ![t] = NoCall]
      \/ pc' = [pc EXCEPT ![t] = "ensure"] /\ m_lock' = t /\ call' = call
  OBVIOUS
<1>. /\ t \in Threads /\ pc[t] = "lock" /\ m_lock = Free
     /\ UNCHANGED <<bus, info, m_callbacks, calls, event, inbox, requests, serverVars,
                    view>>
  OBVIOUS
<1>. HIDE DEF Lock
<1>1. TypeOK'  BY <1>0, NoCallType DEF TypeOK, Callers, Pcs, Matched
<1>2. Together'  BY <1>0 DEF Together, TypeOK, Callers
<1>3. CallsFit'  BY <1>0 DEF CallsFit, TypeOK, Callers, NoCall, Together
<1>4. LockHeld'
  <2>. SUFFICES ASSUME pc'["dispatcher"] # "dead", NEW u \in Callers
                PROVE  Inside(u)' <=> m_lock' = u
    BY DEF LockHeld
  <2>1. Inside(u) <=> m_lock = u  BY <1>0 DEF LockHeld, TypeOK, Callers
  <2>2. CASE u = t  BY <1>0, <2>1, <2>2 DEF Inside, CallsFit, TypeOK, Callers, NoCall
  <2>3. CASE u # t  BY <1>0, <2>1, <2>3 DEF Inside, CallsFit, TypeOK, Callers, NoCall
  <2>. QED  BY <2>2, <2>3
<1>5. Listing'  BY <1>0 DEF Listing, Matched, TypeOK, Callers, CallsFit
<1>6. Waiting'  BY <1>0 DEF Waiting, TypeOK, Callers, CallsFit, NoCall
<1>7. Signals'  BY <1>0, SignalsKept DEF TypeOK, Callers
<1>8. FeedLinked'  BY FeedKept
<1>. QED  BY <1>1, <1>2, <1>3, <1>4, <1>5, <1>6, <1>7, <1>8

\* The bus is there: who holds m_lock keeps it, who sets has one request on its way.
LEMMA Step_EnsureRun ==
    ASSUME IInv, NEW t \in Callers, EnsureRun(t) PROVE IInv'
<1>. USE NamesAssumption DEF IInv, EnsureRun, BusFor, Go, callerVars, listVars, serverVars
<1>0. \/ /\ bus[BusFor(call[t])] = "NULL"
         /\ bus' = [bus EXCEPT ![BusFor(call[t])] = "invalid"] /\ UNCHANGED <<pc, requests>>
      \/ /\ bus' = bus /\ bus["signal"] = "up" /\ call[t].op # "set"
         /\ pc' = [pc EXCEPT ![t] = "posted"] /\ requests' = requests
      \/ /\ bus' = bus /\ call[t].op = "set"
         /\ pc' = [pc EXCEPT ![t] = "wait"] /\ requests' = Append(requests, t)
  BY Zenon DEF BusFor
<1>. /\ pc[t] = "ensure" /\ BusFor(call[t]) \in Buses
     /\ UNCHANGED <<call, calls, listVars, event, inbox, serverVars, view>>
  BY DEF Buses
<1>b. /\ bus' \in [Buses -> {"NULL", "invalid", "up"}]
      /\ bus["signal"] = "up" => bus'["signal"] = "up"
  BY <1>0 DEF TypeOK, Buses
<1>c. /\ pc' \in [Callers -> Pcs]
      /\ \A u \in Callers : u # t => pc'[u] = pc[u]
      /\ \/ pc'[t] = "ensure"
         \/ pc'[t] = "posted" /\ call[t].op # "set"
         \/ pc'[t] = "wait" /\ call[t].op = "set"
  BY <1>0 DEF TypeOK, Pcs
<1>d. t = "dispatcher" => call[t].op = "set"  BY DEF CallsFit
<1>. HIDE DEF EnsureRun, BusFor
<1>1. TypeOK'
  <2>1. requests \in Seq(Callers)  BY DEF TypeOK
  <2>2. requests' \in Seq(Callers)  BY <1>0, <2>1
  <2>. QED  BY <1>b, <1>c, <2>2 DEF TypeOK, Matched
<1>2. Together'  BY <1>c DEF Together, TypeOK, Callers
<1>3. CallsFit'
  <2>1. \A u \in Callers : call[u] \in Calls  BY DEF TypeOK
  <2>2. call[t].op \in {"none", "set", "subscribe", "unsubscribe"}  BY <2>1, CallFields
  <2>. QED  BY <1>b, <1>c, <1>d, <2>2 DEF CallsFit, Callers, NoCall
<1>4. LockHeld'
  <2>. SUFFICES ASSUME pc'["dispatcher"] # "dead", NEW u \in Callers
                PROVE  Inside(u)' <=> m_lock' = u
    BY DEF LockHeld
  <2>1. Inside(u) <=> m_lock = u  BY <1>c DEF LockHeld, TypeOK, Callers
  <2>2. CASE u = t  BY <1>c, <1>d, <2>1, <2>2 DEF Inside, CallsFit, TypeOK, Callers, NoCall
  <2>3. CASE u # t  BY <1>c, <2>1, <2>3 DEF Inside, CallsFit, TypeOK, Callers, NoCall
  <2>. QED  BY <2>2, <2>3
<1>5. Listing'  BY <1>c DEF Listing, Matched, TypeOK, Callers, CallsFit
<1>6. Waiting'
  <2>1. CASE requests' = requests  BY SMTT(60), <2>1, <1>c DEF Waiting, TypeOK
  <2>2. CASE /\ call[t].op = "set" /\ pc' = [pc EXCEPT ![t] = "wait"]
             /\ requests' = Append(requests, t)
    <3>1. \A n \in 1 .. Len(requests) : requests[n] \in Callers /\ requests[n] # t
      BY DEF Waiting, TypeOK
    <3>2. /\ Len(requests) \in Nat /\ Len(requests') = Len(requests) + 1
          /\ requests'[Len(requests) + 1] = t
          /\ \A n \in 1 .. Len(requests) : requests'[n] = requests[n]
      BY <2>2 DEF TypeOK
    <3>. QED  BY <2>2, <3>1, <3>2, <1>c DEF Waiting
  <2>. QED  BY <1>0, <2>1, <2>2
<1>7. Signals'  BY <1>c, SignalsKept DEF TypeOK, Callers
<1>8. FeedLinked'  BY FeedKept
<1>. QED  BY <1>1, <1>2, <1>3, <1>4, <1>5, <1>6, <1>7, <1>8

\* The dispatcher starts with no signal at hand, or the client ends as a whole.
LEMMA Step_BusStarts ==
    ASSUME IInv, NEW b \in Buses, BusStarts(b) PROVE IInv'
<1>. USE NamesAssumption DEF IInv, BusStarts, Go, callerVars, listVars, serverVars
<1>0. \/ /\ bus' = [bus EXCEPT ![b] = "up"]
         /\ pc' = IF b = "signal" THEN [pc EXCEPT !["dispatcher"] = "idle"] ELSE pc
      \/ bus' = [bus EXCEPT ![b] = "NULL"] /\ pc' = [t \in Callers |-> "dead"]
  BY Zenon
<1>. /\ bus[b] = "invalid" /\ pc["dispatcher"] # "dead" /\ "dispatcher" \in Callers
     /\ UNCHANGED <<call, calls, listVars, event, inbox, requests, serverVars, view>>
  BY DEF Callers
<1>a. b = "signal" => pc["dispatcher"] = "none" /\ call["dispatcher"] = NoCall
  BY DEF CallsFit
<1>. HIDE DEF BusStarts
<1>1. TypeOK'  BY <1>0 DEF TypeOK, Pcs, Matched
<1>2. Together'  BY <1>0 DEF Together, TypeOK
<1>3. CallsFit'
  <2>1. CASE /\ bus' = [bus EXCEPT ![b] = "up"]
             /\ pc' = IF b = "signal" THEN [pc EXCEPT !["dispatcher"] = "idle"] ELSE pc
    <3>1. CASE b = "signal"
      <4>1. bus'["signal"] = "up"  BY <2>1, <3>1 DEF TypeOK
      <4>2. pc'["dispatcher"] = "idle" /\ \A t \in Threads : pc'[t] = pc[t]
        BY <2>1, <3>1 DEF TypeOK, Callers
      <4>. QED  BY <1>a, <3>1, <4>1, <4>2 DEF CallsFit
    <3>2. CASE b # "signal"
      <4>1. bus'["signal"] = bus["signal"] /\ pc' = pc  BY <2>1, <3>2 DEF TypeOK, Buses
      <4>. QED  BY <4>1 DEF CallsFit
    <3>. QED  BY <3>1, <3>2
  <2>2. CASE pc' = [t \in Callers |-> "dead"]  BY <2>2 DEF CallsFit, Callers
  <2>. QED  BY <1>0, <2>1, <2>2
<1>4. LockHeld'  BY <1>0, <1>a DEF LockHeld, Inside, CallsFit, TypeOK, Callers
<1>5. Listing'  BY <1>0 DEF Listing, Matched, TypeOK, Callers
<1>6. Waiting'  BY <1>0, <1>a DEF Waiting, TypeOK, Callers
<1>7. Signals'
  <2>1. pc'["dispatcher"] \in {"none", "idle"} => pc["dispatcher"] \in {"none", "idle"}
    BY <1>0, <1>a DEF TypeOK
  <2>. QED  BY <2>1, SignalsKept
<1>8. FeedLinked'  BY FeedKept
<1>. QED  BY <1>1, <1>2, <1>3, <1>4, <1>5, <1>6, <1>7, <1>8

\* The list has every object that has a match again, and m_lock is free.
LEMMA Step_Push ==
    ASSUME IInv, NEW t \in Callers, Push(t) PROVE IInv'
<1>. USE NamesAssumption DEF IInv, Push, Go, callerVars, listVars, serverVars
<1>1. TypeOK'
  BY DataAssumption
  DEF TypeOK, Callers, Buses, Values, Pcs, Calls, NoCall, Matched, Changes, NoChange,
      Subscriptions
<1>2. Together'  BY DEF Together, TypeOK, Callers
<1>3. CallsFit'  BY DEF CallsFit, TypeOK, Callers, NoCall, Together
<1>4. LockHeld'  BY DEF LockHeld, Inside, CallsFit, TypeOK, Callers, NoCall, Together
<1>5. Listing'  BY DEF Listing, Matched, TypeOK, Callers, CallsFit
<1>6. Waiting'  BY DEF Waiting, TypeOK, Callers, CallsFit, NoCall
<1>7. Signals'
  <2>1. pc'["dispatcher"] = pc["dispatcher"]  BY DEF TypeOK, Callers, CallsFit
  <2>. QED  BY <2>1, SignalsKept
<1>8. FeedLinked'  BY FeedKept
<1>. QED  BY <1>1, <1>2, <1>3, <1>4, <1>5, <1>6, <1>7, <1>8

\* The new match knows what was sent, and nobody was told of it before.
LEMMA Step_RunAddMatch ==
    ASSUME IInv, NEW t \in Threads, RunAddMatch(t) PROVE IInv'
<1>. USE NamesAssumption DEF IInv, RunAddMatch, Go, callerVars, listVars, serverVars
<1>. DEFINE s == call[t].sub
<1>0. PICK i \in Ids \ Matched :
         /\ info' = [info EXCEPT ![i] = s]
         /\ view' = [view EXCEPT ![i] = [k \in Keys |-> Known(k)]]
  OBVIOUS
<1>. /\ pc["dispatcher"] = "idle" /\ pc[t] = "posted" /\ call[t].op = "subscribe"
     /\ pc' = [pc EXCEPT ![t] = "push"] /\ t \in Callers
     /\ UNCHANGED <<callerVars, m_lock, m_callbacks, event, inbox, requests, serverVars>>
  BY DEF Callers
<1>a. s \in Subscriptions /\ s # NoInfo
  <2>1. call[t] \in Calls  BY DEF TypeOK
  <2>. QED  BY <2>1, CallFields DEF Subscriptions
<1>b. Matched' = Matched \cup {i}  BY <1>0, <1>a DEF Matched, TypeOK
<1>c. \A k \in Keys : Known(k) \in Values \cup {Unknown}
  <2>. SUFFICES ASSUME NEW k \in Keys PROVE Known(k) \in Values \cup {Unknown}  OBVIOUS
  <2>1. store[k] \in Values  BY DEF TypeOK
  <2>2. srv = "emit" => change.old \in Values  BY DEF Signals, Changes
  <2>. QED  BY <2>1, <2>2 DEF Known
<1>. HIDE DEF RunAddMatch, s
<1>1. TypeOK'
  <2>1. info' \in [Ids -> Subscriptions \cup {NoInfo}]  BY <1>0, <1>a DEF TypeOK
  <2>2. view' \in [Ids -> [Keys -> Values \cup {Unknown}]]  BY <1>0, <1>c DEF TypeOK
  <2>3. m_callbacks' \subseteq Matched'  BY <1>b DEF TypeOK
  <2>4. pc' \in [Callers -> Pcs]  BY DEF TypeOK, Pcs
  <2>. QED  BY <2>1, <2>2, <2>3, <2>4 DEF TypeOK
<1>2. Together'  BY DEF Together, TypeOK, Callers
<1>3. CallsFit'  BY DEF CallsFit, TypeOK, Callers, NoCall, Together
<1>4. LockHeld'  BY DEF LockHeld, Inside, CallsFit, TypeOK, Callers, NoCall, Together
<1>5. Listing'  BY DEF Listing, TypeOK, Callers
<1>6. Waiting'  BY DEF Waiting, TypeOK, Callers, CallsFit, NoCall
<1>7. Signals'
  <2>1. srv = "down" => \A k \in Keys : Known(k) = Unknown  BY DEF Known
  <2>2. srv' = "down" => \A j \in Ids, k \in Keys : view'[j][k] = Unknown
    BY <1>0, <2>1 DEF Signals, TypeOK
  <2>3. pc'["dispatcher"] = pc["dispatcher"]  BY DEF TypeOK, Callers
  <2>. QED  BY <1>b, <2>2, <2>3 DEF Signals
<1>8. FeedLinked'
  <2>. SUFFICES ASSUME srv' # "down", NEW j \in Matched', NEW k \in Keys, Wants(j, k)'
                PROVE  Linked(Feed', Places(Feed', j, k), view'[j][k], Sent(k)')
    BY DEF FeedLinked
  <2>1. Feed' = Feed /\ Sent(k)' = Sent(k)  BY DEF Feed, Sent
  <2>2. CASE j = i
    <3>1. Places(Feed, i, k) = {}  BY NoPlaces
    <3>2. view'[i][k] = Known(k)  BY <1>0 DEF TypeOK
    <3>3. Known(k) = Sent(k)  BY DEF Known, Sent
    <3>. QED  BY <2>1, <2>2, <3>1, <3>2, <3>3, LinkedNone
  <2>3. CASE j # i
    <3>1. j \in Matched /\ Wants(j, k) /\ view'[j] = view[j]
      BY <1>0, <1>b, <2>3 DEF Wants, TypeOK, Matched
    <3>. QED  BY <2>1, <3>1 DEF FeedLinked
  <2>. QED  BY <2>2, <2>3
<1>. QED  BY <1>1, <1>2, <1>3, <1>4, <1>5, <1>6, <1>7, <1>8

\* The match leaves the list and every signal with its object.
LEMMA Step_RunUnref ==
    ASSUME IInv, NEW t \in Threads, RunUnref(t) PROVE IInv'
<1>. USE NamesAssumption DEF IInv, RunUnref, Erased, Unsubscribed, Go, callerVars,
    listVars, serverVars
<1>0. PICK i \in Unsubscribed(call[t]) :
         /\ info' = [info EXCEPT ![i] = NoInfo]
         /\ inbox' = [n \in 1 .. Len(inbox) |-> [inbox[n] EXCEPT !.to = @ \ {i}]]
         /\ m_callbacks' = m_callbacks \ {i}
         /\ view' = [view EXCEPT ![i] = [k \in Keys |-> Unknown]]
         /\ \/ /\ pc' = [pc EXCEPT ![t] = "idle"] /\ m_lock' = Free
               /\ call' = [call EXCEPT ![t] = NoCall]
            \/ UNCHANGED <<pc, m_lock, call>>
  OBVIOUS
<1>. /\ pc["dispatcher"] = "idle" /\ pc[t] = "posted" /\ call[t].op = "unsubscribe"
     /\ UNCHANGED <<bus, calls, event, requests, serverVars>> /\ t \in Callers
  BY DEF Callers
<1>a. i \in m_callbacks /\ i \in Matched /\ i \in Ids  BY DEF Unsubscribed, TypeOK, Matched
<1>b. Matched' = Matched \ {i}  BY <1>0, <1>a DEF Matched, TypeOK
<1>c. Len(inbox) \in Nat /\ \A n \in 1 .. Len(inbox) : inbox[n] \in Changes  BY DEF TypeOK
<1>d. /\ inbox' \in Seq(Changes) /\ Len(inbox') = Len(inbox)
      /\ \A n \in 1 .. Len(inbox) : inbox'[n] = [inbox[n] EXCEPT !.to = @ \ {i}]
  <2>1. \A n \in 1 .. Len(inbox) : [inbox[n] EXCEPT !.to = @ \ {i}] \in Changes
    BY <1>c DEF Changes
  <2>2. \A n \in 1 .. Len(inbox) : inbox'[n] = [inbox[n] EXCEPT !.to = @ \ {i}]  BY <1>0
  <2>3. inbox' \in [1 .. Len(inbox) -> Changes]  BY <1>0, <2>1
  <2>. QED  BY <1>c, <2>2, <2>3, FunctionSeq
<1>e. event = NoChange  BY DEF Signals
<1>. HIDE DEF RunUnref, Unsubscribed
<1>1. TypeOK'
  <2>1. info' \in [Ids -> Subscriptions \cup {NoInfo}]  BY <1>0 DEF TypeOK
  <2>2. view' \in [Ids -> [Keys -> Values \cup {Unknown}]]  BY <1>0 DEF TypeOK
  <2>3. m_callbacks' \subseteq Matched'  BY <1>0, <1>b DEF TypeOK
  <2>4. pc' \in [Callers -> Pcs]  BY <1>0 DEF TypeOK, Pcs
  <2>5. call' \in [Callers -> Calls]  BY <1>0, NoCallType DEF TypeOK
  <2>6. m_lock' \in Callers \cup {Free}  BY <1>0 DEF TypeOK
  <2>. QED  BY <1>d, <2>1, <2>2, <2>3, <2>4, <2>5, <2>6 DEF TypeOK
<1>2. Together'  BY <1>0 DEF Together, TypeOK, Callers
<1>3. CallsFit'  BY <1>0 DEF CallsFit, TypeOK, Callers, NoCall
<1>4. LockHeld'
  <2>. SUFFICES ASSUME pc'["dispatcher"] # "dead", NEW u \in Callers
                PROVE  Inside(u)' <=> m_lock' = u
    BY DEF LockHeld
  <2>1. (Inside(u) <=> m_lock = u) /\ (Inside(t) <=> m_lock = t)
    BY <1>0 DEF LockHeld, TypeOK, Callers
  <2>2. Inside(t) /\ u # Free  BY DEF Inside, Callers
  <2>3. CASE u = t  BY <1>0, <2>1, <2>2, <2>3 DEF Inside, TypeOK, Callers
  <2>4. CASE u # t  BY <1>0, <2>1, <2>2, <2>4 DEF Inside, TypeOK, Callers
  <2>. QED  BY <2>3, <2>4
<1>5. Listing'  BY <1>0, <1>b DEF Listing, TypeOK, Callers
<1>6. Waiting'
  <2>1. \A n \in 1 .. Len(requests) : requests[n] \in Callers /\ requests[n] # t
    BY DEF Waiting, TypeOK
  <2>. QED  BY <1>0, <2>1 DEF Waiting, TypeOK
<1>7. Signals'
  <2>1. \A n \in 1 .. Len(inbox) : inbox'[n].to = inbox[n].to \ {i}
                                   /\ inbox'[n].stale = inbox[n].stale
    BY ZenonT(60), <1>c, <1>d DEF Changes
  <2>2. srv' = "down" => \A j \in Ids, k \in Keys : view'[j][k] = Unknown
    BY <1>0 DEF Signals, TypeOK
  <2>. QED  BY <1>b, <1>d, <1>e, <2>1, <2>2, NoChangeType DEF Signals
<1>8. FeedLinked'
  <2>. SUFFICES ASSUME srv' # "down", NEW j \in Matched', NEW k \in Keys, Wants(j, k)'
                PROVE  Linked(Feed', Places(Feed', j, k), view'[j][k], Sent(k)')
    BY DEF FeedLinked
  <2>1. j \in Matched /\ j # i /\ Wants(j, k) /\ view'[j] = view[j] /\ Sent(k)' = Sent(k)
    BY <1>0, <1>b DEF Wants, TypeOK, Matched, Sent
  <2>2. Len(Feed') = Len(Feed)  BY <1>1, <1>d, FeedNow, FeedNext
  <2>3. ASSUME NEW n \in 1 .. Len(Feed)
        PROVE  /\ (j \in Feed'[n].to /\ Feed'[n].key = k /\ ~Feed'[n].stale)
                    <=> (j \in Feed[n].to /\ Feed[n].key = k /\ ~Feed[n].stale)
               /\ Feed'[n].old = Feed[n].old /\ Feed'[n].new = Feed[n].new
    <3>1. CASE n = 1  BY <3>1, <1>1, FeedNow, FeedNext
    <3>2. CASE n # 1
      <4>1. n \in 2 .. Len(inbox) + 1 /\ n - 1 \in 1 .. Len(inbox)  BY <3>2, FeedNow
      <4>2. Feed[n] = inbox[n - 1] /\ Feed'[n] = inbox'[n - 1]
        BY <4>1, <1>1, <1>d, FeedNow, FeedNext
      <4>3. Feed'[n] = [Feed[n] EXCEPT !.to = @ \ {i}] /\ Feed[n] \in Changes
        BY <4>1, <4>2, <1>c, <1>d
      <4>. QED  BY <4>3, <2>1 DEF Changes
    <3>. QED  BY <3>1, <3>2
  <2>4. Linked(Feed, Places(Feed, j, k), view[j][k], Sent(k))  BY <2>1 DEF FeedLinked
  <2>. QED  BY <2>1, <2>2, <2>3, <2>4, LinkedStays
<1>. QED  BY <1>1, <1>2, <1>3, <1>4, <1>5, <1>6, <1>7, <1>8

\* The signal at hand is the first of those on the way: the feed stays the same.
LEMMA Step_TakeSignal ==
    ASSUME IInv, TakeSignal PROVE IInv'
<1>. USE NamesAssumption DEF IInv, TakeSignal, Continue, Go, callerVars, listVars,
    serverVars
<1>. DEFINE e == inbox[1]
<1>0. /\ event' = IF e.to = {} THEN NoChange ELSE e
      /\ pc' = [pc EXCEPT !["dispatcher"] = IF e.to = {} THEN "idle" ELSE "lock"]
      /\ inbox' = Tail(inbox) /\ inbox # <<>> /\ pc["dispatcher"] = "idle"
      /\ UNCHANGED <<callerVars, listVars, requests, serverVars, view>>
  <2>1. inbox \in Seq(Changes)  BY DEF TypeOK
  <2>2. inbox # <<>> => Head(inbox) = inbox[1]  BY <2>1
  <2>. QED  BY <2>2
<1>a. /\ inbox \in Seq(Changes) /\ Len(inbox) \in Nat /\ Len(inbox) >= 1 /\ e \in Changes
      /\ inbox' \in Seq(Changes) /\ Len(inbox') = Len(inbox) - 1
      /\ \A n \in 1 .. Len(inbox) - 1 : inbox'[n] = inbox[n + 1]
  <2>1. inbox \in Seq(Changes)  BY DEF TypeOK
  <2>. QED  BY <1>0, <2>1
<1>b. event = NoChange /\ call["dispatcher"] = NoCall /\ "dispatcher" \in Callers
  BY <1>0 DEF Signals, CallsFit, Callers
<1>c. Matched' = Matched  BY <1>0 DEF Matched
<1>. HIDE DEF TakeSignal, e
<1>1. TypeOK'
  <2>1. event' \in Changes \cup {NoChange}  BY <1>0, <1>a
  <2>2. pc' \in [Callers -> Pcs]  BY <1>0 DEF TypeOK, Pcs
  <2>. QED  BY <1>0, <1>a, <1>c, <2>1, <2>2 DEF TypeOK
<1>2. Together'  BY <1>0 DEF Together, TypeOK, Callers
<1>3. CallsFit'  BY <1>0, <1>b DEF CallsFit, TypeOK, Callers
<1>4. LockHeld'  BY <1>0, <1>b DEF LockHeld, Inside, TypeOK, Callers
<1>5. Listing'  BY <1>0, <1>c DEF Listing, TypeOK, Callers
<1>6. Waiting'  BY <1>0 DEF Waiting, TypeOK, Callers
<1>7. Signals'
  <2>1. e.to \subseteq Matched /\ (srv = "down" => e.stale)  BY <1>a DEF Signals, e
  <2>2. pc'["dispatcher"] \in {"none", "idle"} => event' = NoChange
    BY <1>0 DEF TypeOK, Callers
  <2>3. event'.to \subseteq Matched /\ (srv = "down" /\ event' # NoChange => event'.stale)
    BY <1>0, <2>1, NoChangeType
  <2>4. \A n \in 1 .. Len(inbox') : /\ inbox'[n].to \subseteq Matched
                                    /\ srv = "down" => inbox'[n].stale
    <3>. SUFFICES ASSUME NEW n \in 1 .. Len(inbox')
                  PROVE  inbox'[n].to \subseteq Matched /\ (srv = "down" => inbox'[n].stale)
      OBVIOUS
    <3>1. n + 1 \in 1 .. Len(inbox) /\ inbox'[n] = inbox[n + 1]  BY <1>a
    <3>. QED  BY <3>1 DEF Signals
  <2>. QED  BY <1>0, <1>c, <2>2, <2>3, <2>4 DEF Signals
<1>8. FeedLinked'
  <2>. SUFFICES ASSUME srv' # "down", NEW j \in Matched', NEW k \in Keys, Wants(j, k)'
                PROVE  Linked(Feed', Places(Feed', j, k), view'[j][k], Sent(k)')
    BY DEF FeedLinked
  <2>. DEFINE R == Places(Feed, j, k)
              Q == Places(Feed', j, k)
  <2>1. /\ j \in Matched /\ Wants(j, k) /\ view' = view /\ Sent(k)' = Sent(k)
        /\ srv # "down"
    BY <1>0, <1>c DEF Wants, Sent
  <2>2. /\ Len(Feed) = Len(inbox) + 1 /\ Len(Feed') = Len(inbox) /\ Feed[1] = NoChange
        /\ \A n \in 2 .. Len(inbox) + 1 : Feed[n] = inbox[n - 1]
        /\ Feed'[1] = event' /\ \A n \in 2 .. Len(inbox) : Feed'[n] = inbox'[n - 1]
    BY <1>1, <1>a, <1>b, FeedNow, FeedNext
  <2>3. ASSUME NEW n \in 2 .. Len(inbox) PROVE Feed'[n] = Feed[n + 1]
    <3>1. n - 1 \in 1 .. Len(inbox) - 1 /\ n + 1 \in 2 .. Len(inbox) + 1
          /\ (n - 1) + 1 = n /\ (n + 1) - 1 = n
      BY <1>a
    <3>2. Feed'[n] = inbox'[n - 1] /\ Feed[n + 1] = inbox[n]  BY <3>1, <2>2
    <3>3. inbox'[n - 1] = inbox[n]  BY <3>1, <1>a
    <3>. QED  BY <3>2, <3>3
  <2>4. Feed[2] = e  BY <1>a, <2>2 DEF e
  <2>5. R \subseteq Nat /\ Q \subseteq Nat /\ 0 \notin R  BY <1>a, <2>2 DEF Places
  <2>6. ASSUME NEW n \in Nat
        PROVE  /\ n \in Q <=> n + 1 \in R
               /\ n \in Q => Feed'[n].old = Feed[n + 1].old /\ Feed'[n].new = Feed[n + 1].new
    <3>1. CASE n = 0  BY <3>1, <2>2, NoChangeType DEF Places
    <3>2. CASE n = 1  BY <3>2, <1>0, <1>a, <2>2, <2>4, NoChangeType DEF Places
    <3>3. CASE n \in 2 .. Len(inbox)
      <4>1. Feed'[n] = Feed[n + 1]  BY <3>3, <2>3
      <4>. QED  BY <3>3, <4>1, <1>a, <2>2 DEF Places
    <3>4. CASE n > Len(inbox)
      <4>1. n \notin 1 .. Len(Feed') /\ n + 1 \notin 1 .. Len(Feed)  BY <3>4, <1>a, <2>2
      <4>. QED  BY <4>1 DEF Places
    <3>. QED  BY <3>1, <3>2, <3>3, <3>4, <1>a
  <2>7. Linked(Feed, R, view[j][k], Sent(k))  BY <2>1 DEF FeedLinked
  <2>. HIDE DEF R, Q
  <2>8. Linked(Feed', Q, view[j][k], Sent(k))  BY <2>5, <2>6, <2>7, LinkedShift
  <2>. QED  BY <2>1, <2>8 DEF Q
<1>. QED  BY <1>1, <1>2, <1>3, <1>4, <1>5, <1>6, <1>7, <1>8

\* Who is told of a change knows what the next one for it starts from.
LEMMA Step_Handle ==
    ASSUME IInv, NEW i \in Ids, Handle(i) PROVE IInv'
<1>. USE NamesAssumption DEF IInv, Handle, Continue, Go, callerVars, listVars, serverVars
<1>. DEFINE rest == [event EXCEPT !.to = @ \ {i}]
<1>. /\ pc["dispatcher"] = "lock" /\ m_lock = Free /\ i \in event.to
     /\ UNCHANGED <<callerVars, info, m_callbacks, inbox, requests, serverVars>>
     /\ "dispatcher" \in Callers
  BY DEF Callers
<1>a. event \in Changes /\ i \in Matched /\ event.key \in Keys  /\ event # NoChange
  <2>1. event \in Changes  BY NoChangeType DEF TypeOK
  <2>. QED  BY <2>1, NoChangeType DEF Signals, Changes
<1>b. m_callbacks = Matched
  <2>1. \A t \in Threads : m_lock # t  BY DEF Callers
  <2>2. \A t \in Threads : pc[t] \notin {"push", "dead"}
    BY <2>1 DEF LockHeld, Inside, Callers, Together
  <2>. QED  BY <2>2 DEF Listing
<1>0. /\ m_lock' = "dispatcher" /\ event' = rest
      /\ view' = [view EXCEPT ![i][event.key] = IF event.stale THEN @ ELSE event.new]
      /\ pc' = [pc EXCEPT !["dispatcher"] = "call"]
  BY <1>a, <1>b
<1>c. /\ rest \in Changes /\ rest.to = event.to \ {i} /\ rest.key = event.key
      /\ rest.stale = event.stale /\ rest.old = event.old /\ rest.new = event.new
  BY <1>a DEF Changes
<1>d. Matched' = Matched  BY DEF Matched
<1>e. /\ view' \in [Ids -> [Keys -> Values \cup {Unknown}]]
      /\ \A j \in Ids, k \in Keys : view'[j][k] =
            IF j = i /\ k = event.key /\ ~event.stale THEN event.new ELSE view[j][k]
  <2>1. event.new \in Values /\ i \in Ids  BY <1>a DEF Changes, Matched
  <2>2. view \in [Ids -> [Keys -> Values \cup {Unknown}]]  BY DEF TypeOK
  <2>. QED  BY <1>0, <1>a, <2>1, <2>2
<1>f. call["dispatcher"] = NoCall  BY DEF CallsFit
<1>. HIDE DEF Handle, rest
<1>1. TypeOK'
  <2>1. pc' \in [Callers -> Pcs]  BY <1>0 DEF TypeOK, Pcs
  <2>. QED  BY <1>0, <1>c, <1>d, <1>e, <2>1 DEF TypeOK, Callers
<1>2. Together'  BY <1>0 DEF Together, TypeOK, Callers
<1>3. CallsFit'  BY <1>0, <1>f DEF CallsFit, TypeOK, Callers
<1>4. LockHeld'  BY <1>0 DEF LockHeld, Inside, TypeOK, Callers
<1>5. Listing'  BY <1>0, <1>b, <1>d DEF Listing, TypeOK, Callers
<1>6. Waiting'  BY <1>0 DEF Waiting, TypeOK, Callers
<1>7. Signals'
  <2>1. pc'["dispatcher"] = "call"  BY <1>0 DEF TypeOK
  <2>2. srv = "down" => event.stale  BY <1>a DEF Signals
  <2>. QED  BY <1>0, <1>c, <1>d, <1>e, <2>1, <2>2 DEF Signals
<1>8. FeedLinked'
  <2>. SUFFICES ASSUME srv' # "down", NEW j \in Matched', NEW k \in Keys, Wants(j, k)'
                PROVE  Linked(Feed', Places(Feed', j, k), view'[j][k], Sent(k)')
    BY DEF FeedLinked
  <2>1. j \in Matched /\ j \in Ids /\ Wants(j, k) /\ Sent(k)' = Sent(k) /\ srv # "down"
    BY <1>d DEF Wants, Sent, Matched
  <2>2. /\ Len(Feed') = Len(Feed) /\ Feed[1] = event /\ Feed'[1] = rest
        /\ \A n \in 1 .. Len(Feed) : n # 1 => Feed'[n] = Feed[n]
    BY <1>0, <1>1, FeedNow, FeedNext
  <2>3. Linked(Feed, Places(Feed, j, k), view[j][k], Sent(k))  BY <2>1 DEF FeedLinked
  <2>4. CASE j = i /\ k = event.key /\ ~event.stale
    <3>1. 1 \in Places(Feed, j, k) /\ Places(Feed, j, k) \subseteq Nat \ {0}
      BY <2>2, <2>4, FeedNow DEF Places
    <3>2. Places(Feed', j, k) = Places(Feed, j, k) \ {1}
      BY <2>2, <2>4, <1>c DEF Places
    <3>3. view'[j][k] = Feed[1].new  BY <2>1, <2>2, <2>4, <1>e
    <3>4. \A n \in Places(Feed, j, k) : n # 1 => Feed'[n].old = Feed[n].old
                                                 /\ Feed'[n].new = Feed[n].new
      BY <2>2 DEF Places
    <3>5. Linked(Feed', Places(Feed, j, k) \ {1}, Feed[1].new, Sent(k))
      BY <2>3, <3>1, <3>4, LinkedFirst
    <3>. QED  BY <2>1, <3>2, <3>3, <3>5
  <2>5. CASE ~(j = i /\ k = event.key /\ ~event.stale)
    <3>1. view'[j][k] = view[j][k]  BY <2>1, <2>5, <1>e
    <3>2. ASSUME NEW n \in 1 .. Len(Feed)
          PROVE  /\ (j \in Feed'[n].to /\ Feed'[n].key = k /\ ~Feed'[n].stale)
                      <=> (j \in Feed[n].to /\ Feed[n].key = k /\ ~Feed[n].stale)
                 /\ Feed'[n].old = Feed[n].old /\ Feed'[n].new = Feed[n].new
      BY <2>2, <2>5, <1>c
    <3>. QED  BY <2>1, <2>2, <2>3, <3>1, <3>2, LinkedStays
  <2>. QED  BY <2>4, <2>5
<1>. QED  BY <1>1, <1>2, <1>3, <1>4, <1>5, <1>6, <1>7, <1>8

\* The rest of a signal stays at hand until nobody is left to be told.
LEMMA Step_CallbackReturns ==
    ASSUME IInv, CallbackReturns PROVE IInv'
<1>. USE NamesAssumption DEF IInv, CallbackReturns, Continue, Go, callerVars, listVars,
    serverVars
<1>1. TypeOK'
  BY DataAssumption
  DEF TypeOK, Callers, Buses, Values, Pcs, Calls, NoCall, Matched, Changes, NoChange,
      Subscriptions
<1>2. Together'  BY DEF Together, TypeOK, Callers
<1>3. CallsFit'  BY DEF CallsFit, TypeOK, Callers, NoCall, Together
<1>4. LockHeld'  BY DEF LockHeld, Inside, CallsFit, TypeOK, Callers, NoCall, Together
<1>5. Listing'  BY DEF Listing, Matched, TypeOK, Callers, CallsFit
<1>6. Waiting'  BY DEF Waiting, TypeOK, Callers, CallsFit, NoCall
<1>7. Signals'  BY DEF Signals, Matched, TypeOK, NoChange
<1>8. FeedLinked'
  <2>. SUFFICES ASSUME srv' # "down", NEW j \in Matched', NEW k \in Keys, Wants(j, k)'
                PROVE  Linked(Feed', Places(Feed', j, k), view'[j][k], Sent(k)')
    BY DEF FeedLinked
  <2>1. /\ j \in Matched /\ Wants(j, k) /\ Sent(k)' = Sent(k) /\ srv # "down"
        /\ view' = view /\ inbox' = inbox
        /\ event' = IF event.to = {} THEN NoChange ELSE event
    BY DEF Wants, Sent, Matched
  <2>2. /\ Len(Feed') = Len(Feed) /\ Feed[1] = event /\ Feed'[1] = event'
        /\ \A n \in 1 .. Len(Feed) : n # 1 => Feed'[n] = Feed[n]
    BY <2>1, <1>1, FeedNow, FeedNext
  <2>3. Linked(Feed, Places(Feed, j, k), view[j][k], Sent(k))  BY <2>1 DEF FeedLinked
  <2>4. ASSUME NEW n \in 1 .. Len(Feed)
        PROVE  /\ (j \in Feed'[n].to /\ Feed'[n].key = k /\ ~Feed'[n].stale)
                    <=> (j \in Feed[n].to /\ Feed[n].key = k /\ ~Feed[n].stale)
               /\ (j \in Feed[n].to /\ Feed[n].key = k /\ ~Feed[n].stale) =>
                    Feed'[n].old = Feed[n].old /\ Feed'[n].new = Feed[n].new
    BY <2>1, <2>2, NoChangeType
  <2>. QED  BY <2>1, <2>2, <2>3, <2>4, LinkedStays
<1>. QED  BY <1>1, <1>2, <1>3, <1>4, <1>5, <1>6, <1>7, <1>8

\* A callback sets a property with m_lock held, over the other connection.
LEMMA Step_CallbackSets ==
    ASSUME IInv, NEW k \in Keys, NEW v \in Values, CallbackSets(k, v) PROVE IInv'
<1>. USE NamesAssumption DEF IInv, CallbackSets, Begin, SetCall, Go, callerVars,
    listVars, serverVars
<1>1. TypeOK'
  BY DataAssumption
  DEF TypeOK, Callers, Buses, Values, Pcs, Calls, NoCall, Matched, Changes, NoChange,
      Subscriptions
<1>2. Together'  BY DEF Together, TypeOK, Callers
<1>3. CallsFit'  BY DEF CallsFit, TypeOK, Callers, NoCall, Together
<1>4. LockHeld'  BY DEF LockHeld, Inside, CallsFit, TypeOK, Callers, NoCall, Together
<1>5. Listing'  BY DEF Listing, Matched, TypeOK, Callers, CallsFit
<1>6. Waiting'  BY DEF Waiting, TypeOK, Callers, CallsFit, NoCall
<1>7. Signals'  BY SignalsKept DEF TypeOK, Callers
<1>8. FeedLinked'  BY FeedKept
<1>. QED  BY <1>1, <1>2, <1>3, <1>4, <1>5, <1>6, <1>7, <1>8

\* A callback that subscribes keeps m_lock for ever.
LEMMA Step_CallbackSubscribes ==
    ASSUME IInv, CallbackSubscribes PROVE IInv'
<1>. USE NamesAssumption DEF IInv, CallbackSubscribes, Go, callerVars, listVars, serverVars
<1>1. TypeOK'
  BY DataAssumption
  DEF TypeOK, Callers, Buses, Values, Pcs, Calls, NoCall, Matched, Changes, NoChange,
      Subscriptions
<1>2. Together'  BY DEF Together, TypeOK, Callers
<1>3. CallsFit'  BY DEF CallsFit, TypeOK, Callers, NoCall, Together
<1>4. LockHeld'  BY DEF LockHeld, Inside, CallsFit, TypeOK, Callers, NoCall, Together
<1>5. Listing'  BY DEF Listing, Matched, TypeOK, Callers, CallsFit
<1>6. Waiting'  BY DEF Waiting, TypeOK, Callers, CallsFit, NoCall
<1>7. Signals'  BY SignalsKept DEF TypeOK, Callers
<1>8. FeedLinked'  BY FeedKept
<1>. QED  BY <1>1, <1>2, <1>3, <1>4, <1>5, <1>6, <1>7, <1>8

\* The change the server has not sent is of what it had to what it has.
LEMMA Step_ServeSet ==
    ASSUME IInv, ServeSet PROVE IInv'
<1>. USE NamesAssumption DEF IInv, ServeSet, Changed, callerVars, listVars, serverVars
<1>. DEFINE c == call[Head(requests)]
<1>a. /\ requests \in Seq(Callers) /\ requests # <<>> /\ Head(requests) = requests[1]
      /\ 1 \in 1 .. Len(requests)
  <2>1. requests \in Seq(Callers)  BY DEF TypeOK
  <2>. QED  BY <2>1
<1>b. c.key \in Keys /\ c.value \in Values
  <2>1. c \in Calls /\ c.op = "set"  BY <1>a DEF Waiting, TypeOK
  <2>. QED  BY <2>1, CallFields
<1>. /\ srv = "idle"
     /\ UNCHANGED <<pc, callerVars, listVars, event, inbox, requests, persistDb,
                    crashes, view>>
  OBVIOUS
<1>c. change = NoChange  BY DEF Signals
<1>d. store \in [Keys -> Values]  BY DEF TypeOK
<1>0. \/ /\ srv' = "emit" /\ store' = [store EXCEPT ![c.key] = c.value]
         /\ change' = [key |-> c.key, old |-> store[c.key], new |-> c.value,
                       to |-> {}, stale |-> FALSE]
      \/ srv' = "reply" /\ change' = NoChange /\ store' = store
  <2>1. PICK written \in Writes(c.key) :
          /\ store' = IF written THEN [store EXCEPT ![c.key] = c.value] ELSE store
          /\ IF written /\ store[c.key] # c.value
             THEN /\ srv' = "emit"
                  /\ change' = [key |-> c.key, old |-> store[c.key], new |-> c.value,
                                to |-> {}, stale |-> FALSE]
             ELSE srv' = "reply" /\ change' = change
    BY Zenon
  <2>2. CASE written /\ store[c.key] # c.value  BY <2>1, <2>2
  <2>3. CASE ~(written /\ store[c.key] # c.value)
    <3>1. store' = store  BY <2>1, <2>3, <1>b, <1>d
    <3>. QED  BY <2>1, <2>3, <3>1, <1>c
  <2>. QED  BY <2>2, <2>3
<1>. HIDE DEF ServeSet, c
<1>e. srv' = "emit" => /\ change' \in Changes /\ change'.to = {} /\ ~change'.stale
                       /\ change'.key = c.key /\ change'.old = store[c.key]
                       /\ change'.new = store'[c.key]
  <2>. SUFFICES ASSUME srv' = "emit"
                PROVE  /\ change' \in Changes /\ change'.to = {} /\ ~change'.stale
                       /\ change'.key = c.key /\ change'.old = store[c.key]
                       /\ change'.new = store'[c.key]
    OBVIOUS
  <2>1. /\ store' = [store EXCEPT ![c.key] = c.value]
        /\ change' = [key |-> c.key, old |-> store[c.key], new |-> c.value,
                      to |-> {}, stale |-> FALSE]
    BY <1>0
  <2>2. store'[c.key] = c.value /\ store[c.key] \in Values  BY <2>1, <1>b, <1>d
  <2>3. change' \in Changes  BY <2>1, <2>2, <1>b DEF Changes
  <2>. QED  BY <2>1, <2>2, <2>3
<1>1. TypeOK'
  <2>1. store' \in [Keys -> Values]  BY <1>0, <1>b, <1>d
  <2>2. change' \in Changes \cup {NoChange} /\ srv' \in {"idle", "emit", "reply", "down"}
    BY <1>0, <1>e
  <2>. QED  BY <2>1, <2>2 DEF TypeOK, Matched
<1>2. Together'  BY DEF Together, TypeOK, Callers
<1>3. CallsFit'  BY DEF CallsFit, TypeOK, Callers, NoCall, Together
<1>4. LockHeld'  BY DEF LockHeld, Inside, CallsFit, TypeOK, Callers, NoCall, Together
<1>5. Listing'  BY DEF Listing, Matched, TypeOK, Callers, CallsFit
<1>6. Waiting'  BY <1>0, <1>a DEF Waiting
<1>7. Signals'  BY <1>0, <1>e DEF Signals, Matched
<1>8. FeedLinked'
  <2>. SUFFICES ASSUME srv' # "down", NEW j \in Matched', NEW k \in Keys, Wants(j, k)'
                PROVE  Linked(Feed', Places(Feed', j, k), view'[j][k], Sent(k)')
    BY DEF FeedLinked
  <2>1. /\ j \in Matched /\ Wants(j, k) /\ srv # "down" /\ view' = view /\ Feed' = Feed
    BY DEF Wants, Matched, Feed
  <2>2. Sent(k)' = store[k]  BY <1>0, <1>b, <1>d, <1>e DEF Sent
  <2>3. Sent(k) = store[k]  BY DEF Sent
  <2>. QED  BY <2>1, <2>2, <2>3 DEF FeedLinked
<1>. QED  BY <1>1, <1>2, <1>3, <1>4, <1>5, <1>6, <1>7, <1>8

\* The change goes to the end of the feed of everyone with a match that fits.
LEMMA Step_EmitSignal ==
    ASSUME IInv, EmitSignal PROVE IInv'
<1>. USE NamesAssumption DEF IInv, EmitSignal, Audience, callerVars, listVars, serverVars
<1>. DEFINE A == {i \in Matched : Wants(i, change.key)}
              new == [change EXCEPT !.to = A]
<1>0. /\ srv = "emit" /\ srv' = "reply" /\ change' = NoChange
      /\ inbox' = IF A = {} THEN inbox ELSE Append(inbox, new)
      /\ UNCHANGED <<pc, callerVars, listVars, event, requests, store, persistDb,
                     crashes, view>>
  OBVIOUS
<1>a. /\ change \in Changes /\ change.to = {} /\ ~change.stale /\ change.key \in Keys
      /\ change.new = store[change.key]
  BY <1>0 DEF Signals, Changes
<1>b. /\ new \in Changes /\ new.to = A /\ new.key = change.key /\ ~new.stale
      /\ new.old = change.old /\ new.new = change.new
  BY <1>a DEF Changes, Matched
<1>c. /\ inbox \in Seq(Changes) /\ Len(inbox) \in Nat
      /\ A # {} => /\ inbox' \in Seq(Changes) /\ Len(inbox') = Len(inbox) + 1
                   /\ inbox'[Len(inbox) + 1] = new
                   /\ \A n \in 1 .. Len(inbox) : inbox'[n] = inbox[n]
  <2>1. inbox \in Seq(Changes)  BY DEF TypeOK
  <2>. HIDE DEF A, new
  <2>. QED  BY <2>1, <1>0, <1>b
<1>d. Matched' = Matched  BY <1>0 DEF Matched
<1>. HIDE DEF EmitSignal, new
<1>1. TypeOK'
  <2>1. inbox' \in Seq(Changes)  BY <1>0, <1>c
  <2>. QED  BY <1>0, <1>d, <2>1 DEF TypeOK
<1>2. Together'  BY <1>0 DEF Together
<1>3. CallsFit'  BY <1>0 DEF CallsFit
<1>4. LockHeld'  BY <1>0 DEF LockHeld, Inside
<1>5. Listing'  BY <1>0, <1>d DEF Listing
<1>6. Waiting'  BY <1>0 DEF Waiting
<1>7. Signals'
  <2>1. \A n \in 1 .. Len(inbox') : inbox'[n].to \subseteq Matched
    <3>1. CASE A = {}  BY <3>1, <1>0 DEF Signals
    <3>2. CASE A # {}
      <4>. SUFFICES ASSUME NEW n \in 1 .. Len(inbox) + 1 PROVE inbox'[n].to \subseteq Matched
        BY <3>2, <1>c
      <4>1. CASE n = Len(inbox) + 1  BY <4>1, <3>2, <1>b, <1>c
      <4>2. CASE n \in 1 .. Len(inbox)  BY <4>2, <3>2, <1>c DEF Signals
      <4>. QED  BY <4>1, <4>2, <1>c
    <3>. QED  BY <3>1, <3>2
  <2>. QED  BY <1>0, <1>d, <2>1 DEF Signals
<1>8. FeedLinked'
  <2>. SUFFICES ASSUME srv' # "down", NEW j \in Matched', NEW k \in Keys, Wants(j, k)'
                PROVE  Linked(Feed', Places(Feed', j, k), view'[j][k], Sent(k)')
    BY DEF FeedLinked
  <2>. DEFINE L == Len(Feed)
  <2>1. j \in Matched /\ Wants(j, k) /\ srv # "down" /\ view' = view
    BY <1>0, <1>d DEF Wants
  <2>2. Linked(Feed, Places(Feed, j, k), view[j][k], Sent(k))  BY <2>1 DEF FeedLinked
  <2>3. Sent(k)' = store[k]  BY <1>0 DEF Sent
  <2>4. CASE A = {}
    <3>1. Feed' = Feed  BY <2>4, <1>0 DEF Feed
    <3>2. k # change.key  BY <2>1, <2>4
    <3>3. Sent(k) = store[k]  BY <3>2 DEF Sent
    <3>. QED  BY <2>1, <2>2, <2>3, <3>1, <3>3
  <2>5. CASE A # {}
    <3>1. L = Len(inbox) + 1 /\ Len(Feed') = L + 1 /\ L \in Nat
      BY <2>5, <1>1, <1>c, FeedNow, FeedNext
    <3>2. \A n \in 1 .. L : Feed'[n] = Feed[n]
      <4>. SUFFICES ASSUME NEW n \in 1 .. L PROVE Feed'[n] = Feed[n]  OBVIOUS
      <4>1. CASE n = 1  BY <4>1, <1>0, <1>1, FeedNow, FeedNext
      <4>2. CASE n # 1
        <5>1. n \in 2 .. Len(inbox) + 1 /\ n \in 2 .. Len(inbox') + 1 /\ n - 1 \in 1 .. Len(inbox)
          BY <4>2, <3>1, <2>5, <1>c
        <5>. QED  BY <5>1, <2>5, <1>1, <1>c, FeedNow, FeedNext
      <4>. QED  BY <4>1, <4>2
    <3>3. Feed'[L + 1] = new
      <4>1. L + 1 \in 2 .. Len(inbox') + 1 /\ (L + 1) - 1 = Len(inbox) + 1
        BY <3>1, <2>5, <1>c
      <4>. QED  BY <4>1, <2>5, <1>1, <1>c, FeedNext
    <3>4. Places(Feed, j, k) \subseteq 1 .. L  BY DEF Places
    <3>. HIDE DEF L
    <3>5. \A n \in Places(Feed, j,
        k) : Feed'[n].old = Feed[n].old /\ Feed'[n].new = Feed[n].new
      BY <3>2, <3>4
    <3>6. CASE k = change.key
      <4>1. j \in A  BY <2>1, <3>6
      <4>2. Places(Feed', j, k) = Places(Feed, j, k) \cup {L + 1}
        <5>1. \A n \in 1 .. L + 1 : n \in Places(Feed', j, k)
                 <=> n \in Places(Feed, j, k) \/ n = L + 1
          BY <3>1, <3>2, <3>3, <3>6, <4>1, <1>b DEF Places, L
        <5>2. Places(Feed', j, k) \subseteq 1 .. L + 1  BY <3>1 DEF Places
        <5>. QED  BY <5>1, <5>2, <3>1, <3>4
      <4>3. Sent(k) = change.old /\ store[k] = change.new  BY <1>0, <1>a, <3>6 DEF Sent
      <4>4. Linked(Feed', Places(Feed, j, k) \cup {L + 1}, view[j][k], change.new)
        <5>1. L \in Nat /\ Feed'[L + 1].old = Sent(k) /\ Feed'[L + 1].new = change.new
          BY <3>1, <3>3, <4>3, <1>b
        <5>. QED  BY <2>2, <3>4, <3>5, <5>1, LinkedLast
      <4>. QED  BY <2>1, <2>3, <4>2, <4>3, <4>4
    <3>7. CASE k # change.key
      <4>1. Places(Feed', j, k) = Places(Feed, j, k)
        <5>1. \A n \in 1 .. L + 1 : n \in Places(Feed', j, k) <=> n \in Places(Feed, j, k)
          BY <3>1, <3>2, <3>3, <3>7, <1>b DEF Places, L
        <5>2. Places(Feed', j, k) \subseteq 1 .. L + 1  BY <3>1 DEF Places
        <5>3. Places(Feed, j, k) \subseteq 1 .. L + 1  BY <3>1, <3>4
        <5>. QED  BY <5>1, <5>2, <5>3
      <4>2. Sent(k) = store[k]  BY <3>7 DEF Sent
      <4>3. Linked(Feed', Places(Feed, j, k), view[j][k], Sent(k))
        BY <2>2, <3>5, LinkedSame
      <4>. QED  BY <2>1, <2>3, <4>1, <4>2, <4>3
    <3>. QED  BY <3>6, <3>7
  <2>. QED  BY <2>4, <2>5
<1>. QED  BY <1>1, <1>2, <1>3, <1>4, <1>5, <1>6, <1>7, <1>8

\* The first request is answered: its thread is let go on, if it still lives.
LEMMA Step_Reply ==
    ASSUME IInv, Reply PROVE IInv'
<1>. USE NamesAssumption DEF IInv, Reply, LetGo, WakeUp, callerVars, listVars, serverVars
<1>. DEFINE t == Head(requests)
<1>a. /\ requests \in Seq(Callers) /\ requests # <<>> /\ t = requests[1] /\ t \in Callers
      /\ requests' = Tail(requests) /\ Len(requests) \in Nat /\ Len(requests) >= 1
      /\ requests' \in Seq(Callers) /\ Len(requests') = Len(requests) - 1
      /\ \A n \in 1 .. Len(requests) - 1 : requests'[n] = requests[n + 1]
  <2>1. requests \in Seq(Callers) /\ requests # <<>>  BY DEF TypeOK, Waiting
  <2>. QED  BY <2>1
<1>b. /\ call' = [call EXCEPT ![t] = NoCall] /\ call[t].op = "set"
      /\ \/ pc[t] = "dead" /\ pc' = pc
         \/ /\ pc[t] = "wait"
            /\ pc' = [pc EXCEPT ![t] = IF t = "dispatcher" THEN "call" ELSE "idle"]
  <2>1. pc[t] \in {"wait", "dead"} /\ call[t].op = "set"  BY <1>a DEF Waiting
  <2>. QED  BY <2>1
<1>c. UNCHANGED <<bus, calls, listVars, event, inbox, change, store, persistDb, crashes,
                  view>>
  OBVIOUS
<1>d. srv = "reply" /\ srv' = "idle"
  OBVIOUS
<1>. HIDE DEF Reply, LetGo, t
<1>1. TypeOK'
  <2>1. pc' \in [Callers -> Pcs] /\ call' \in [Callers -> Calls]
    BY <1>a, <1>b, NoCallType DEF TypeOK, Pcs
  <2>. QED  BY <1>a, <1>c, <1>d, <2>1 DEF TypeOK, Matched
<1>2. Together'  BY <1>a, <1>b DEF Together, TypeOK
<1>3. CallsFit'
  <2>1. CASE pc[t] = "dead"
    BY <2>1, <1>a, <1>b, <1>c DEF CallsFit, Together, TypeOK, Callers
  <2>2. CASE pc[t] = "wait"
    <3>1. \A u \in Callers : u # t => pc'[u] = pc[u] /\ call'[u] = call[u]
      BY <2>2, <1>b DEF TypeOK
    <3>2. /\ pc'[t] = IF t = "dispatcher" THEN "call" ELSE "idle"
          /\ call'[t] = NoCall
      BY <2>2, <1>a, <1>b DEF TypeOK
    <3>3. t = "dispatcher" => bus["signal"] = "up"  BY <2>2 DEF CallsFit
    <3>. QED  BY <3>1, <3>2, <3>3, <1>c DEF CallsFit, Callers
  <2>. QED  BY <1>b, <2>1, <2>2
<1>4. LockHeld'
  <2>. SUFFICES ASSUME pc'["dispatcher"] # "dead", NEW u \in Callers
                PROVE  Inside(u)' <=> m_lock' = u
    BY DEF LockHeld
  <2>0. pc[t] = "wait"  BY <1>a, <1>b DEF Together, Callers
  <2>1. Inside(u) <=> m_lock = u  BY <1>b DEF LockHeld, TypeOK, Callers
  <2>2. CASE u = t  BY <1>a, <1>b, <1>c, <2>0, <2>1, <2>2 DEF Inside, TypeOK
  <2>3. CASE u # t  BY <1>a, <1>b, <1>c, <2>0, <2>1, <2>3 DEF Inside, TypeOK
  <2>. QED  BY <2>2, <2>3
<1>5. Listing'  BY <1>a, <1>b, <1>c DEF Listing, Matched, TypeOK, Callers, Together
<1>6. Waiting'
  <2>1. ASSUME NEW n \in 1 .. Len(requests')
        PROVE  /\ n + 1 \in 1 .. Len(requests) /\ requests'[n] = requests[n + 1]
               /\ requests'[n] # t /\ requests'[n] \in Callers
    <3>1. n + 1 \in 1 .. Len(requests) /\ n + 1 # 1 /\ 1 \in 1 .. Len(requests)  BY <1>a
    <3>2. requests'[n] = requests[n + 1]  BY <1>a
    <3>. QED  BY <1>a, <3>1, <3>2 DEF Waiting
  <2>2. ASSUME NEW n \in 1 .. Len(requests')
        PROVE  pc'[requests'[n]] \in {"wait", "dead"} /\ call'[requests'[n]].op = "set"
    BY SMTT(60), <2>1, <1>b DEF Waiting, TypeOK
  <2>3. ASSUME NEW m \in 1 .. Len(requests'), NEW n \in 1 .. Len(requests'),
               requests'[m] = requests'[n]
        PROVE  m = n
    <3>1. m + 1 = n + 1  BY <2>1, <2>3 DEF Waiting
    <3>. QED  BY <3>1, <1>a
  <2>. QED  BY <2>2, <2>3, <1>d DEF Waiting
<1>7. Signals'
  <2>1. pc'["dispatcher"] \in {"none", "idle"} => pc["dispatcher"] \in {"none", "idle"}
    BY <1>a, <1>b DEF TypeOK, Callers
  <2>. QED  BY <1>c, <1>d, <2>1 DEF Signals, Matched
<1>8. FeedLinked'  BY <1>c, <1>d DEF FeedLinked, Feed, Sent, Wants, Matched
<1>. QED  BY <1>1, <1>2, <1>3, <1>4, <1>5, <1>6, <1>7, <1>8

\* So it is when the server is gone.
LEMMA Step_CallFails ==
    ASSUME IInv, CallFails PROVE IInv'
<1>. USE NamesAssumption DEF IInv, CallFails, LetGo, WakeUp, callerVars, listVars,
    serverVars
<1>. DEFINE t == Head(requests)
<1>a. /\ requests \in Seq(Callers) /\ requests # <<>> /\ t = requests[1] /\ t \in Callers
      /\ requests' = Tail(requests) /\ Len(requests) \in Nat /\ Len(requests) >= 1
      /\ requests' \in Seq(Callers) /\ Len(requests') = Len(requests) - 1
      /\ \A n \in 1 .. Len(requests) - 1 : requests'[n] = requests[n + 1]
  <2>1. requests \in Seq(Callers) /\ requests # <<>>  BY DEF TypeOK, Waiting
  <2>. QED  BY <2>1
<1>b. /\ call' = [call EXCEPT ![t] = NoCall] /\ call[t].op = "set"
      /\ \/ pc[t] = "dead" /\ pc' = pc
         \/ /\ pc[t] = "wait"
            /\ pc' = [pc EXCEPT ![t] = IF t = "dispatcher" THEN "call" ELSE "idle"]
  <2>1. pc[t] \in {"wait", "dead"} /\ call[t].op = "set"  BY <1>a DEF Waiting
  <2>. QED  BY <2>1
<1>c. UNCHANGED <<bus, calls, listVars, event, inbox, change, store, persistDb, crashes,
                  view>>
  OBVIOUS
<1>d. srv = "down" /\ srv' = "down"
  OBVIOUS
<1>. HIDE DEF CallFails, LetGo, t
<1>1. TypeOK'
  <2>1. pc' \in [Callers -> Pcs] /\ call' \in [Callers -> Calls]
    BY <1>a, <1>b, NoCallType DEF TypeOK, Pcs
  <2>. QED  BY <1>a, <1>c, <1>d, <2>1 DEF TypeOK, Matched
<1>2. Together'  BY <1>a, <1>b DEF Together, TypeOK
<1>3. CallsFit'
  <2>1. CASE pc[t] = "dead"
    BY <2>1, <1>a, <1>b, <1>c DEF CallsFit, Together, TypeOK, Callers
  <2>2. CASE pc[t] = "wait"
    <3>1. \A u \in Callers : u # t => pc'[u] = pc[u] /\ call'[u] = call[u]
      BY <2>2, <1>b DEF TypeOK
    <3>2. /\ pc'[t] = IF t = "dispatcher" THEN "call" ELSE "idle"
          /\ call'[t] = NoCall
      BY <2>2, <1>a, <1>b DEF TypeOK
    <3>3. t = "dispatcher" => bus["signal"] = "up"  BY <2>2 DEF CallsFit
    <3>. QED  BY <3>1, <3>2, <3>3, <1>c DEF CallsFit, Callers
  <2>. QED  BY <1>b, <2>1, <2>2
<1>4. LockHeld'
  <2>. SUFFICES ASSUME pc'["dispatcher"] # "dead", NEW u \in Callers
                PROVE  Inside(u)' <=> m_lock' = u
    BY DEF LockHeld
  <2>0. pc[t] = "wait"  BY <1>a, <1>b DEF Together, Callers
  <2>1. Inside(u) <=> m_lock = u  BY <1>b DEF LockHeld, TypeOK, Callers
  <2>2. CASE u = t  BY <1>a, <1>b, <1>c, <2>0, <2>1, <2>2 DEF Inside, TypeOK
  <2>3. CASE u # t  BY <1>a, <1>b, <1>c, <2>0, <2>1, <2>3 DEF Inside, TypeOK
  <2>. QED  BY <2>2, <2>3
<1>5. Listing'  BY <1>a, <1>b, <1>c DEF Listing, Matched, TypeOK, Callers, Together
<1>6. Waiting'
  <2>1. ASSUME NEW n \in 1 .. Len(requests')
        PROVE  /\ n + 1 \in 1 .. Len(requests) /\ requests'[n] = requests[n + 1]
               /\ requests'[n] # t /\ requests'[n] \in Callers
    <3>1. n + 1 \in 1 .. Len(requests) /\ n + 1 # 1 /\ 1 \in 1 .. Len(requests)  BY <1>a
    <3>2. requests'[n] = requests[n + 1]  BY <1>a
    <3>. QED  BY <1>a, <3>1, <3>2 DEF Waiting
  <2>2. ASSUME NEW n \in 1 .. Len(requests')
        PROVE  pc'[requests'[n]] \in {"wait", "dead"} /\ call'[requests'[n]].op = "set"
    BY SMTT(60), <2>1, <1>b DEF Waiting, TypeOK
  <2>3. ASSUME NEW m \in 1 .. Len(requests'), NEW n \in 1 .. Len(requests'),
               requests'[m] = requests'[n]
        PROVE  m = n
    <3>1. m + 1 = n + 1  BY <2>1, <2>3 DEF Waiting
    <3>. QED  BY <3>1, <1>a
  <2>. QED  BY <2>2, <2>3, <1>d DEF Waiting
<1>7. Signals'
  <2>1. pc'["dispatcher"] \in {"none", "idle"} => pc["dispatcher"] \in {"none", "idle"}
    BY <1>a, <1>b DEF TypeOK, Callers
  <2>. QED  BY <1>c, <1>d, <2>1 DEF Signals, Matched
<1>8. FeedLinked'  BY <1>c, <1>d DEF FeedLinked
<1>. QED  BY <1>1, <1>2, <1>3, <1>4, <1>5, <1>6, <1>7, <1>8

\* What was known is void, and what is on the way is of no more use.
LEMMA Step_ServerCrash ==
    ASSUME IInv, ServerCrash PROVE IInv'
<1>. USE NamesAssumption DEF IInv, ServerCrash, callerVars, listVars, serverVars
<1>a. /\ Len(inbox) \in Nat /\ inbox' \in Seq(Changes) /\ Len(inbox') = Len(inbox)
      /\ \A n \in 1 .. Len(inbox) : inbox'[n].to = inbox[n].to /\ inbox'[n].stale
  <2>1. \A n \in 1 .. Len(inbox) : inbox[n] \in Changes  BY DEF TypeOK
  <2>2. \A n \in 1 .. Len(inbox) : /\ [inbox[n] EXCEPT !.stale = TRUE] \in Changes
                                   /\ [inbox[n] EXCEPT !.stale = TRUE].to = inbox[n].to
                                   /\ [inbox[n] EXCEPT !.stale = TRUE].stale
    BY <2>1 DEF Changes
  <2>3. inbox' \in [1 .. Len(inbox) -> Changes]  BY <2>2
  <2>4. Len(inbox) \in Nat  BY DEF TypeOK
  <2>. QED  BY ZenonT(60), <2>2, <2>3, <2>4, FunctionSeq
<1>b. /\ event' \in Changes \cup {NoChange} /\ event'.to = event.to
      /\ event = NoChange => event' = NoChange
      /\ event' # NoChange => event'.stale
  <2>1. CASE event = NoChange  BY <2>1 DEF NoChange
  <2>2. CASE event \in Changes /\ event # NoChange  BY <2>2 DEF Changes
  <2>. QED  BY <2>1, <2>2 DEF TypeOK
<1>1. TypeOK'
  <2>1. view' \in [Ids -> [Keys -> Values \cup {Unknown}]]  BY Zenon
  <2>2. crashes' \in Nat  BY DEF TypeOK
  <2>. QED  BY <1>a, <1>b, <2>1, <2>2 DEF TypeOK, Matched
<1>2. Together'  BY DEF Together, TypeOK, Callers
<1>3. CallsFit'  BY DEF CallsFit, TypeOK, Callers, NoCall, Together
<1>4. LockHeld'  BY DEF LockHeld, Inside, CallsFit, TypeOK, Callers, NoCall, Together
<1>5. Listing'  BY DEF Listing, Matched, TypeOK, Callers, CallsFit
<1>6. Waiting'  BY DEF Waiting, TypeOK, Callers, CallsFit, NoCall
<1>7. Signals'  BY <1>a, <1>b DEF Signals, Matched
<1>8. FeedLinked'  BY DEF FeedLinked, Feed, Places, Sent, Wants, Matched
<1>. QED  BY <1>1, <1>2, <1>3, <1>4, <1>5, <1>6, <1>7, <1>8

\* Nobody knows anything, and nothing is on the way that counts.
LEMMA Step_ServerRestart ==
    ASSUME IInv, ServerRestart PROVE IInv'
<1>. USE NamesAssumption DEF IInv, ServerRestart, callerVars, listVars, serverVars
<1>a. /\ store' \in [Keys -> Values] /\ persistDb' \in BOOLEAN
      /\ srv = "down" /\ srv' = "idle" /\ requests = <<>>
      /\ UNCHANGED <<pc, callerVars, listVars, event, inbox, requests, change, crashes,
                     view>>
  <2>1. store \in [Keys -> Values] /\ NoDb \in [Keys -> Values]
    BY LoadedType DEF TypeOK
  <2>. QED  BY <2>1, LoadedType DEF Opened
<1>b. Matched' = Matched  BY <1>a DEF Matched
<1>. HIDE DEF ServerRestart
<1>1. TypeOK'  BY <1>a, <1>b DEF TypeOK
<1>2. Together'  BY <1>a DEF Together
<1>3. CallsFit'  BY <1>a DEF CallsFit
<1>4. LockHeld'  BY <1>a DEF LockHeld, Inside
<1>5. Listing'  BY <1>a, <1>b DEF Listing
<1>6. Waiting'  BY <1>a DEF Waiting
<1>7. Signals'  BY <1>a, <1>b DEF Signals
<1>8. FeedLinked'
  <2>. SUFFICES ASSUME srv' # "down", NEW j \in Matched', NEW k \in Keys, Wants(j, k)'
                PROVE  Linked(Feed', Places(Feed', j, k), view'[j][k], Sent(k)')
    BY DEF FeedLinked
  <2>1. /\ Feed' = Feed /\ view' = view /\ j \in Ids /\ view[j][k] = Unknown
        /\ change = NoChange /\ srv' = "idle"
    BY <1>a DEF Feed, Matched, Signals
  <2>2. \A n \in 1 .. Len(Feed) : Feed[n].to = {} \/ Feed[n].stale
    <3>. SUFFICES ASSUME NEW n \in 1 .. Len(Feed) PROVE Feed[n].to = {} \/ Feed[n].stale
      OBVIOUS
    <3>1. CASE n = 1  BY <3>1, <1>a, FeedNow, NoChangeType DEF Signals
    <3>2. CASE n # 1
      <4>1. n \in 2 .. Len(inbox) + 1 /\ n - 1 \in 1 .. Len(inbox)  BY <3>2, FeedNow
      <4>. QED  BY <4>1, <1>a, FeedNow DEF Signals
    <3>. QED  BY <3>1, <3>2
  <2>3. Places(Feed, j, k) = {}  BY <2>2 DEF Places
  <2>. QED  BY <2>1, <2>3, LinkedNone
<1>. QED  BY <1>1, <1>2, <1>3, <1>4, <1>5, <1>6, <1>7, <1>8

-----------------------------------------------------------------------------
(* The theorems.                                                           *)

\* In Init no thread has called and nothing was sent.
LEMMA InitIInv == Init => IInv
<1>. SUFFICES ASSUME Init PROVE IInv  OBVIOUS
<1>. USE NamesAssumption DEF Init
<1>0. "dispatcher" \in Callers /\ Matched = {}  BY DEF Callers, Matched
<1>1. TypeOK
  <2>1. store \in [Keys -> Values]
    <3>1. NoDb \in [Keys -> Values]  BY DEF NoDb, Values
    <3>. QED  BY <3>1, LoadedType
  <2>2. view \in [Ids -> [Keys -> Values \cup {Unknown}]]  BY Zenon
  <2>3. pc \in [Callers -> Pcs] /\ call \in [Callers -> Calls]
    BY NoCallType DEF Pcs
  <2>4. bus \in [Buses -> {"NULL", "invalid", "up"}]  OBVIOUS
  <2>5. info \in [Ids -> Subscriptions \cup {NoInfo}]  OBVIOUS
  <2>6. inbox \in Seq(Changes) /\ requests \in Seq(Callers)  OBVIOUS
  <2>7. /\ m_lock \in Callers \cup {Free} /\ m_callbacks \subseteq Matched
        /\ event \in Changes \cup {NoChange} /\ change \in Changes \cup {NoChange}
        /\ srv \in {"idle", "emit", "reply", "down"} /\ persistDb \in BOOLEAN
        /\ calls \in Nat /\ crashes \in Nat
    OBVIOUS
  <2>. QED  BY <2>1, <2>2, <2>3, <2>4, <2>5, <2>6, <2>7 DEF TypeOK
<1>2. Together  BY DEF Together, Callers
<1>3. CallsFit  BY <1>0 DEF CallsFit, Callers, NoCall
<1>4. LockHeld  BY DEF LockHeld, Inside, Callers, NoCall
<1>5. Listing  BY <1>0 DEF Listing
<1>6. Waiting  BY DEF Waiting
<1>7. Signals  BY <1>0, NoChangeType DEF Signals
<1>8. FeedLinked  BY <1>0 DEF FeedLinked
<1>. QED  BY <1>1, <1>2, <1>3, <1>4, <1>5, <1>6, <1>7, <1>8 DEF IInv

\* Every step keeps it.
LEMMA StepIInv == IInv /\ [Next]_vars => IInv'
<1>. SUFFICES ASSUME IInv, [Next]_vars PROVE IInv'  OBVIOUS
<1>1. ASSUME NEW t \in Threads, NEW k \in Keys, NEW v \in Values, set(t, k, v) PROVE IInv'
  BY <1>1, Step_set
<1>2. ASSUME NEW t \in Threads, NEW s \in Subscriptions, subscribe(t, s) PROVE IInv'
  BY <1>2, Step_subscribe
<1>3. ASSUME NEW t \in Threads, NEW cb \in Callbacks, unsubscribe(t, cb) PROVE IInv'
  BY <1>3, Step_unsubscribe
<1>4. ASSUME NEW t \in Callers, Thread(t) PROVE IInv'
  BY <1>4, Step_Lock, Step_EnsureRun, Step_Push DEF Thread
<1>5. ASSUME NEW b \in Buses, BusStarts(b) PROVE IInv'  BY <1>5, Step_BusStarts
<1>6. CASE Dispatcher
  BY <1>6, Step_RunAddMatch, Step_RunUnref, Step_TakeSignal, Step_CallbackReturns,
     Step_Handle
  DEF Dispatcher
<1>7. CASE CallbackSubscribes  BY <1>7, Step_CallbackSubscribes
<1>8. ASSUME NEW k \in Keys, NEW v \in Values, CallbackSets(k, v) PROVE IInv'
  BY <1>8, Step_CallbackSets
<1>9. CASE Server
  BY <1>9, Step_ServeSet, Step_EmitSignal, Step_Reply, Step_CallFails, Step_ServerRestart
  DEF Server
<1>10. CASE ServerCrash  BY <1>10, Step_ServerCrash
<1>11. CASE UNCHANGED vars
  <2>. USE <1>11 DEF vars, callerVars, listVars, serverVars, IInv
  <2>1. TypeOK'  BY DEF TypeOK, Matched
  <2>2. Together' /\ CallsFit' /\ LockHeld'  BY DEF Together, CallsFit, LockHeld, Inside
  <2>3. Listing' /\ Waiting'  BY DEF Listing, Waiting, Matched
  <2>4. Signals'  BY DEF Signals, Matched
  <2>5. FeedLinked'  BY FeedKept
  <2>. QED  BY <2>1, <2>2, <2>3, <2>4, <2>5
<1>. QED
  BY <1>1, <1>2, <1>3, <1>4, <1>5, <1>6, <1>7, <1>8, <1>9, <1>10, <1>11 DEF Next

\* So it holds in every state.
LEMMA IInvHolds == Spec => []IInv
<1>. QED  BY InitIInv, StepIInv, PTL DEF Spec

\* Every variable keeps its type, with any number of threads, objects, keys and crashes:
\* in particular only objects with a match are in the list.
THEOREM TypeCorrect == Spec => []TypeOK
<1>1. IInv => TypeOK  BY DEF IInv
<1>. QED  BY IInvHolds, <1>1, PTL

\* A set of places that is not empty has a first one.
LEMMA FirstPlace ==
    ASSUME NEW m \in Nat, NEW K, K \subseteq 1 .. m, K # {}
    PROVE  \E x \in K : \A y \in K : x <= y
<1>. DEFINE T == {1 .. k : k \in K}
<1>1. IsFiniteSet(1 .. m)  BY FS_Interval
<1>2. IsWellFoundedOn(StrictSubsetOrdering(1 .. m), FiniteSubsetsOf(1 .. m))
  BY <1>1, FS_StrictSubsetOrderingWellFounded
<1>3. T \subseteq FiniteSubsetsOf(1 .. m)  BY FS_Interval DEF FiniteSubsetsOf
<1>4. PICK x \in T : \A y \in T : <<y, x>> \notin StrictSubsetOrdering(1 .. m)
  <2>1. T # {}  OBVIOUS
  <2>. HIDE DEF T
  <2>. QED  BY <1>2, <1>3, <2>1, WFMin, Zenon
<1>5. PICK k \in K : x = 1 .. k  OBVIOUS
<1>6. \A j \in K : k <= j
  <2>. SUFFICES ASSUME NEW j \in K, j < k PROVE FALSE  OBVIOUS
  <2>1. 1 .. j \subseteq 1 .. k /\ 1 .. j # 1 .. k  OBVIOUS
  <2>2. <<1 .. j, 1 .. k>> \in StrictSubsetOrdering(1 .. m)
    BY <2>1 DEF StrictSubsetOrdering
  <2>. QED  BY <2>2, <1>4, <1>5
<1>. QED  BY <1>6

\* And a last one.
LEMMA LastPlace ==
    ASSUME NEW m \in Nat, NEW K, K \subseteq 1 .. m, K # {}
    PROVE  \E x \in K : \A y \in K : y <= x
<1>. DEFINE Q == {(m + 1) - x : x \in K}
<1>1. Q \subseteq 1 .. m /\ Q # {}
  <2>1. \A x \in K : x \in 1 .. m /\ (m + 1) - x \in 1 .. m  OBVIOUS
  <2>. QED  BY <2>1
<1>. HIDE DEF Q
<1>2. PICK q \in Q : \A r \in Q : q <= r  BY <1>1, FirstPlace
<1>3. PICK x \in K : q = (m + 1) - x  BY DEF Q
<1>4. \A y \in K : (m + 1) - y \in Q  BY DEF Q
<1>5. ASSUME NEW y \in K PROVE y <= x
  <2>1. q <= (m + 1) - y /\ x \in 1 .. m /\ y \in 1 .. m  BY <1>2, <1>4
  <2>. QED  BY <2>1, <1>3
<1>. QED  BY <1>5

\* What Told says of the places before n.
LEMMA ToldCases ==
    ASSUME TypeOK, NEW i \in Ids, NEW k \in Keys, NEW n \in Nat
    PROVE  LET R == Places(Feed, i, k) IN
           \/ (\A m \in R : n <= m) /\ Told(i, k, n) = view[i][k]
           \/ \E m \in R : /\ m < n /\ \A l \in R : l <= m \/ n <= l
                           /\ Told(i, k, n) = Feed[m].new
<1>. DEFINE R == Places(Feed, i, k)
            before == {m \in R : m < n}
<1>1. R \subseteq 1 .. Len(Feed) /\ Len(Feed) \in Nat  BY FeedNow DEF Places
<1>. HIDE DEF R
<1>2. CASE before = {}
  <2>1. \A m \in R : n <= m  BY <1>1, <1>2
  <2>2. Told(i, k, n) = view[i][k]  BY <1>2 DEF Told, R
  <2>. QED  BY <2>1, <2>2 DEF R
<1>3. CASE before # {}
  <2>. DEFINE m == CHOOSE x \in before : \A l \in before : l <= x
  <2>1. \E x \in before : \A l \in before : l <= x
    <3>1. before \subseteq 1 .. Len(Feed)  BY <1>1
    <3>. HIDE DEF before
    <3>. QED  BY <1>1, <1>3, <3>1, LastPlace
  <2>2. m \in before /\ \A l \in before : l <= m
    <3>. HIDE DEF before
    <3>. QED  BY <2>1
  <2>3. Told(i, k, n) = Feed[m].new  BY <1>3 DEF Told, R
  <2>. HIDE DEF m
  <2>4. m \in R /\ m < n /\ \A l \in R : l <= m \/ n <= l  BY <2>2, <1>1
  <2>. QED  BY <2>3, <2>4 DEF R
<1>. QED  BY <1>2, <1>3

\* What is linked is coherent.
LEMMA LinkedCoherent == IInv => FeedCoherent
<1>. SUFFICES ASSUME IInv, srv # "down", NEW i \in Matched, NEW k \in Keys,
                     Wants(i, k), view[i][k] # Unknown
              PROVE  /\ \A n \in Places(Feed, i, k) : Feed[n].old = Told(i, k, n)
                     /\ Told(i, k, Len(Feed) + 1) = Sent(k) /\ Unsent(k)
  BY Zenon DEF FeedCoherent
<1>. DEFINE R == Places(Feed, i, k)
<1>1. TypeOK /\ i \in Ids /\ Linked(Feed, R, view[i][k], Sent(k))
  BY DEF IInv, FeedLinked, Matched
<1>2. R \subseteq 1 .. Len(Feed) /\ Len(Feed) \in Nat  BY <1>1, FeedNow DEF Places
<1>3. Unsent(k)  BY DEF IInv, Signals, Unsent
<1>4. \A n \in Nat :
         \/ (\A m \in R : n <= m) /\ Told(i, k, n) = view[i][k]
         \/ \E m \in R : /\ m < n /\ \A l \in R : l <= m \/ n <= l
                         /\ Told(i, k, n) = Feed[m].new
  BY <1>1, ToldCases
<1>. HIDE DEF R
<1>5. ASSUME NEW n \in R PROVE Feed[n].old = Told(i, k, n)
  <2>1. n \in Nat  BY <1>2
  <2>2. CASE (\A m \in R : n <= m) /\ Told(i, k, n) = view[i][k]
    BY <2>2, <1>1 DEF Linked
  <2>3. ASSUME NEW m \in R, m < n, \A l \in R : l <= m \/ n <= l,
               Told(i, k, n) = Feed[m].new
        PROVE  Feed[n].old = Told(i, k, n)
    BY <2>3, <1>1 DEF Linked
  <2>. QED  BY <1>4, <2>1, <2>2, <2>3
<1>6. Told(i, k, Len(Feed) + 1) = Sent(k)
  <2>. DEFINE n == Len(Feed) + 1
  <2>1. n \in Nat /\ \A m \in R : m \in Int /\ m < n  BY <1>2
  <2>. HIDE DEF n
  <2>2. CASE (\A m \in R : n <= m) /\ Told(i, k, n) = view[i][k]
    <3>1. R = {}  BY <2>1, <2>2
    <3>. QED  BY <3>1, <2>2, <1>1 DEF Linked, n
  <2>3. ASSUME NEW m \in R, m < n, \A l \in R : l <= m \/ n <= l,
               Told(i, k, n) = Feed[m].new
        PROVE  Told(i, k, n) = Sent(k)
    <3>1. \A l \in R : l <= m  BY <2>1, <2>3
    <3>. QED  BY <3>1, <2>3, <1>1 DEF Linked
  <2>4. Told(i, k, n) = Sent(k)  BY <1>4, <2>1, <2>2, <2>3 DEF n
  <2>. QED  BY <2>4 DEF n
<1>. QED  BY <1>3, <1>5, <1>6 DEF R

\* Whoever subscribes or unsubscribes meanwhile, what a subscriber was told and will be
\* told leads, change by change, to what the server has, as long as that stays up.
THEOREM ChangesToldInOrder == Spec => []FeedCoherent
<1>. QED  BY IInvHolds, LinkedCoherent, PTL
\* When no signal is under way and the server has none to send, a subscriber knows what
\* the server has, if it knows anything.
QuietKnown ==
    event = NoChange /\ inbox = <<>> /\ srv \in {"idle", "reply"} =>
        \A i \in Matched, k \in Keys : Wants(i, k) => view[i][k] \in {store[k], Unknown}

\* A subscriber lags behind the server only by signals that are still under way: whatever
\* is lost, lapses or is told in vain, with none left it has caught up.
THEOREM QuietCaughtUp == Spec => []QuietKnown
<1>1. IInv => QuietKnown
  <2>. SUFFICES ASSUME IInv, event = NoChange, inbox = <<>>, srv \in {"idle", "reply"},
                       NEW i \in Matched, NEW k \in Keys, Wants(i, k)
                PROVE  view[i][k] \in {store[k], Unknown}
    BY DEF QuietKnown
  <2>1. Linked(Feed, Places(Feed, i, k), view[i][k], Sent(k))  BY DEF IInv, FeedLinked
  <2>2. Places(Feed, i, k) = {}
    <3>1. Len(Feed) = 1 /\ Feed[1] = event  BY FeedNow DEF IInv
    <3>. QED  BY <3>1, NoChangeType DEF Places
  <2>3. Sent(k) = store[k]  BY DEF Sent
  <2>. QED  BY <2>1, <2>2, <2>3 DEF Linked
<1>. QED  BY <1>1, IInvHolds, PTL

-----------------------------------------------------------------------------
(* Who waits for whom: what CallsReturn rests on besides the schedule.      *)

\* Whose call is on its way has a request there.
Queued == \A t \in Callers : pc[t] = "wait" => \E n \in 1 .. Len(requests) : requests[n] = t

\* Nobody has posted a task to a connection without a dispatcher.
Dispatched ==
    /\ bus["signal"] = "up" => pc["dispatcher"] # "none"
    /\ \A t \in Threads : pc[t] = "posted" => bus["signal"] = "up"

\* A call of unsubscribe that has the lock has an object left to delete.
Erasing ==
    \A t \in Threads :
        pc[t] \in {"ensure", "posted"} /\ call[t].op = "unsubscribe"
        => Unsubscribed(call[t]) # {}

\* A dispatcher that waits for m_lock has somebody to tell.
Telling == pc["dispatcher"] = "lock" => event.to # {}

\* What a thread waits for has come: m_lock, the dispatcher's loop, or an answer to the
\* requests, which the server or the bus always gives.
CanMove(t) ==
    CASE pc[t] = "lock"   -> m_lock = Free /\ (t = "dispatcher" => event.to # {})
      [] pc[t] = "posted" -> /\ pc["dispatcher"] = "idle"
                             /\ call[t].op = "unsubscribe" => Unsubscribed(call[t]) # {}
      [] pc[t] = "wait"   -> requests # <<>>
      [] OTHER            -> pc[t] \in {"ensure", "push", "call"}

\* The only circle of threads that wait for each other is the one of Embrace.
SomebodyMoves ==
    Ended \/ (\A t \in Threads : pc[t] = "idle") \/ \E t \in Callers : CanMove(t)

\* Only ambus_ensure_run sends requests, and who is answered waits no more.
LEMMA NextQueued == IInv /\ Queued /\ [Next]_vars => Queued'
<1>. SUFFICES ASSUME IInv, Queued, [Next]_vars, NEW u \in Callers, pc'[u] = "wait"
              PROVE  \E n \in 1 .. Len(requests') : requests'[n] = u
  BY DEF Queued
<1>0. /\ pc \in [Callers -> Pcs] /\ requests \in Seq(Callers) /\ Threads \subseteq Callers
      /\ "dispatcher" \in Callers
  BY DEF IInv, TypeOK, Callers
<1>. DEFINE Same == requests' = requests /\ pc[u] = "wait"
<1>1. Same => \E n \in 1 .. Len(requests') : requests'[n] = u  BY DEF Queued
<1>. HIDE DEF Same
<1>. USE <1>0 DEF Same, Go
<1>2. ASSUME NEW t \in Threads,
             \/ \E k \in Keys, v \in Values : set(t, k, v)
             \/ \E s \in Subscriptions : subscribe(t, s)
             \/ \E cb \in Callbacks : unsubscribe(t, cb)
      PROVE  Same
  BY <1>2 DEF set, subscribe, unsubscribe, Begin
<1>3. ASSUME NEW t \in Callers, Lock(t) \/ Push(t) PROVE Same  BY <1>3 DEF Lock, Push
<1>4. ASSUME NEW t \in Callers, EnsureRun(t)
      PROVE  \E n \in 1 .. Len(requests') : requests'[n] = u
  <2>1. CASE requests' = requests /\ pc[u] = "wait"  BY <2>1, <1>1
  <2>2. CASE requests' = Append(requests, t)
    <3>1. /\ Len(requests) \in Nat /\ Len(requests') = Len(requests) + 1
          /\ requests'[Len(requests) + 1] = t
          /\ \A n \in 1 .. Len(requests) : requests'[n] = requests[n]
      BY <2>2
    <3>2. u = t \/ pc[u] = "wait"  BY <1>4 DEF EnsureRun
    <3>. QED  BY <3>1, <3>2 DEF Queued
  <2>. QED  BY <1>4, <2>1, <2>2 DEF EnsureRun
<1>5. ASSUME NEW b \in Buses, BusStarts(b) PROVE Same  BY <1>5 DEF BusStarts
<1>6. CASE Dispatcher
  <2>1. ASSUME NEW t \in Threads, RunAddMatch(t) \/ RunUnref(t) PROVE Same
    BY <2>1 DEF RunAddMatch, RunUnref
  <2>2. ASSUME TakeSignal \/ CallbackReturns PROVE Same
    BY <2>2 DEF TakeSignal, CallbackReturns, Continue
  <2>3. ASSUME NEW i \in Ids, Handle(i) PROVE Same  BY <2>3 DEF Handle, Continue
  <2>. QED  BY <1>6, <1>1, <2>1, <2>2, <2>3 DEF Dispatcher
<1>7. ASSUME CallbackSubscribes \/ \E k \in Keys, v \in Values : CallbackSets(k, v)
      PROVE  Same
  BY <1>7 DEF CallbackSubscribes, CallbackSets, Begin
<1>8. ASSUME ServeSet \/ EmitSignal \/ ServerRestart \/ ServerCrash PROVE Same
  BY <1>8 DEF ServeSet, EmitSignal, ServerRestart, ServerCrash
<1>9. ASSUME LetGo, requests # <<>> PROVE \E n \in 1 .. Len(requests') : requests'[n] = u
  <2>1. /\ Len(requests) \in Nat /\ Head(requests) = requests[1]
        /\ Len(requests') = Len(requests) - 1
        /\ \A n \in 1 .. Len(requests) - 1 : requests'[n] = requests[n + 1]
    BY <1>9 DEF LetGo
  <2>2. u # requests[1] /\ pc[u] = "wait"  BY <1>9, <2>1 DEF LetGo, WakeUp
  <2>3. PICK n \in 1 .. Len(requests) : requests[n] = u  BY <2>2 DEF Queued
  <2>4. n - 1 \in 1 .. Len(requests) - 1 /\ (n - 1) + 1 = n  BY <2>1, <2>2, <2>3
  <2>. QED  BY <2>1, <2>3, <2>4
<1>10. Reply \/ CallFails => LetGo /\ requests # <<>>
  BY DEF Reply, CallFails, IInv, Waiting
<1>11. CASE UNCHANGED vars  BY <1>11, <1>1 DEF vars
<1>. QED
  BY <1>1, <1>2, <1>3, <1>4, <1>5, <1>6, <1>7, <1>8, <1>9, <1>10, <1>11 DEF Next, Thread,
     Server

\* The dispatcher of ambus_signal is there from the time the bus is up.
LEMMA NextDispatched == IInv /\ Dispatched /\ [Next]_vars => Dispatched'
<1>. SUFFICES ASSUME IInv, Dispatched, [Next]_vars PROVE Dispatched'  OBVIOUS
<1>0. /\ pc \in [Callers -> Pcs] /\ Threads \subseteq Callers /\ "dispatcher" \in Callers
      /\ bus \in [Buses -> {"NULL", "invalid", "up"}] /\ "signal" \in Buses
      /\ "dispatcher" \notin Threads
  BY NamesAssumption DEF IInv, TypeOK, Callers, Buses
<1>. USE <1>0 DEF Dispatched, Go
<1>1. ASSUME NEW t \in Threads,
             \/ \E k \in Keys, v \in Values : set(t, k, v)
             \/ \E s \in Subscriptions : subscribe(t, s)
             \/ \E cb \in Callbacks : unsubscribe(t, cb)
      PROVE  Dispatched'
  BY <1>1 DEF set, subscribe, unsubscribe, Begin
<1>2. ASSUME NEW t \in Callers, Lock(t) \/ Push(t) PROVE Dispatched'
  BY <1>2 DEF Lock, Push
<1>3. ASSUME NEW t \in Callers, EnsureRun(t) PROVE Dispatched'
  <2>1. BusFor(call[t]) \in Buses  BY DEF BusFor, Buses
  <2>2. bus'["signal"] = "up" <=> bus["signal"] = "up"  BY <1>3, <2>1 DEF EnsureRun
  <2>3. \A u \in Callers : pc'[u] = pc[u] \/ (pc'[u] = "posted" /\ bus["signal"] = "up")
                           \/ pc'[u] = "wait"
    BY <1>3 DEF EnsureRun
  <2>. QED  BY <2>2, <2>3
<1>4. ASSUME NEW b \in Buses, BusStarts(b) PROVE Dispatched'
  <2>1. CASE bus' = [bus EXCEPT ![b] = "up"]
    BY <1>4, <2>1 DEF BusStarts
  <2>2. CASE pc' = [t \in Callers |-> "dead"]  BY <2>2
  <2>. QED  BY <1>4, <2>1, <2>2 DEF BusStarts
<1>5. CASE Dispatcher
  <2>1. ASSUME NEW t \in Threads, RunAddMatch(t) \/ RunUnref(t) PROVE Dispatched'
    BY <2>1 DEF RunAddMatch, RunUnref, callerVars
  <2>2. ASSUME TakeSignal \/ CallbackReturns PROVE Dispatched'
    BY <2>2 DEF TakeSignal, CallbackReturns, Continue, callerVars
  <2>3. ASSUME NEW i \in Ids, Handle(i) PROVE Dispatched'
    BY <2>3 DEF Handle, Continue, callerVars
  <2>. QED  BY <1>5, <2>1, <2>2, <2>3 DEF Dispatcher
<1>6. ASSUME CallbackSubscribes \/ \E k \in Keys, v \in Values : CallbackSets(k, v)
      PROVE  Dispatched'
  BY <1>6 DEF CallbackSubscribes, CallbackSets, Begin, callerVars
<1>7. ASSUME ServeSet \/ EmitSignal \/ ServerRestart \/ ServerCrash PROVE Dispatched'
  BY <1>7 DEF ServeSet, EmitSignal, ServerRestart, ServerCrash, callerVars
<1>8. ASSUME LetGo, bus' = bus PROVE Dispatched'
  BY <1>8 DEF LetGo, WakeUp
<1>9. Reply \/ CallFails => LetGo /\ bus' = bus  BY DEF Reply, CallFails
<1>10. CASE UNCHANGED vars  BY <1>10 DEF vars, callerVars
<1>. QED
  BY <1>1, <1>2, <1>3, <1>4, <1>5, <1>6, <1>7, <1>8, <1>9, <1>10 DEF Next, Thread, Server

\* A dispatcher goes for m_lock only to tell somebody.
LEMMA NextTelling == IInv /\ Telling /\ [Next]_vars => Telling'
<1>. SUFFICES ASSUME IInv, Telling, [Next]_vars PROVE Telling'  OBVIOUS
<1>0. /\ pc \in [Callers -> Pcs] /\ Threads \subseteq Callers /\ "dispatcher" \in Callers
      /\ "dispatcher" \notin Threads
  BY NamesAssumption DEF IInv, TypeOK, Callers
<1>. USE <1>0 DEF Telling, Go
<1>1. ASSUME NEW t \in Threads,
             \/ \E k \in Keys, v \in Values : set(t, k, v)
             \/ \E s \in Subscriptions : subscribe(t, s)
             \/ \E cb \in Callbacks : unsubscribe(t, cb)
      PROVE  Telling'
  BY <1>1 DEF set, subscribe, unsubscribe, Begin
<1>2. ASSUME NEW t \in Callers, Lock(t) \/ Push(t) \/ EnsureRun(t) PROVE Telling'
  BY <1>2 DEF Lock, Push, EnsureRun
<1>3. ASSUME NEW b \in Buses, BusStarts(b) PROVE Telling'  BY <1>3 DEF BusStarts
<1>4. CASE Dispatcher
  <2>1. ASSUME NEW t \in Threads, RunAddMatch(t) \/ RunUnref(t) PROVE Telling'
    BY <2>1 DEF RunAddMatch, RunUnref
  <2>2. ASSUME NEW e, Continue(e) PROVE Telling'  BY <2>2 DEF Continue
  <2>3. ASSUME NEW i \in Ids, Handle(i) PROVE Telling'  BY <2>3, <2>2 DEF Handle
  <2>. QED  BY <1>4, <2>1, <2>2, <2>3 DEF Dispatcher, TakeSignal, CallbackReturns
<1>5. ASSUME CallbackSubscribes \/ \E k \in Keys, v \in Values : CallbackSets(k, v)
      PROVE  Telling'
  BY <1>5 DEF CallbackSubscribes, CallbackSets, Begin
<1>6. ASSUME ServeSet \/ EmitSignal \/ ServerRestart PROVE Telling'
  BY <1>6 DEF ServeSet, EmitSignal, ServerRestart
<1>7. CASE ServerCrash
  <2>1. [event EXCEPT !.stale = event # NoChange].to = event.to
    <3>1. event \in Changes \cup {NoChange}  BY DEF IInv, TypeOK
    <3>. QED  BY <3>1 DEF Changes, NoChange
  <2>. QED  BY <1>7, <2>1 DEF ServerCrash
<1>8. ASSUME LetGo, event' = event PROVE Telling'  BY <1>8 DEF LetGo, WakeUp
<1>9. Reply \/ CallFails => LetGo /\ event' = event  BY DEF Reply, CallFails
<1>10. CASE UNCHANGED vars  BY <1>10 DEF vars
<1>. QED
  BY <1>1, <1>2, <1>3, <1>4, <1>5, <1>6, <1>7, <1>8, <1>9, <1>10 DEF Next, Thread, Server

\* What a call of unsubscribe found under m_lock is left to it.
LEMMA NextErasing == IInv /\ Erasing /\ [Next]_vars => Erasing'
<1>. SUFFICES ASSUME IInv, Erasing, [Next]_vars, NEW t \in Threads,
                     pc'[t] \in {"ensure", "posted"}, call'[t].op = "unsubscribe"
              PROVE  \E j \in m_callbacks' : info'[j].cb = call'[t].cb
  BY DEF Erasing, Unsubscribed
<1>0. /\ pc \in [Callers -> Pcs] /\ call \in [Callers -> Calls] /\ Threads \subseteq Callers
      /\ "dispatcher" \in Callers /\ "dispatcher" \notin Threads
      /\ info \in [Ids -> Subscriptions \cup {NoInfo}] /\ m_callbacks \subseteq Matched
      /\ Matched \subseteq Ids /\ NoCall.op = "none"
  BY NamesAssumption, NoCallType DEF IInv, TypeOK, Callers, Matched
<1>. DEFINE Same == pc[t] \in {"ensure", "posted"} /\ call'[t] = call[t]
            Kept == m_callbacks' = m_callbacks /\ info' = info
<1>1. ASSUME Same PROVE \E j \in m_callbacks : info[j].cb = call'[t].cb
  BY <1>1 DEF Erasing, Unsubscribed
<1>2. Same /\ Kept => \E j \in m_callbacks' : info'[j].cb = call'[t].cb  BY <1>1
<1>. USE <1>0 DEF Go
<1>3. ASSUME NEW u \in Threads,
             \/ \E k \in Keys, v \in Values : set(u, k, v)
             \/ \E s \in Subscriptions : subscribe(u, s)
             \/ \E cb \in Callbacks : unsubscribe(u, cb)
      PROVE  Same /\ Kept
  <2>1. ASSUME NEW k \in Keys, NEW v \in Values, set(u, k, v) PROVE Same /\ Kept
    <3>1. SetCall(k, v).op = "set"  BY DEF SetCall
    <3>. QED  BY <2>1, <3>1 DEF set, Begin, listVars
  <2>2. ASSUME NEW s \in Subscriptions, subscribe(u, s) PROVE Same /\ Kept
    BY <2>2 DEF subscribe, Begin, listVars
  <2>3. ASSUME NEW cb \in Callbacks, unsubscribe(u, cb) PROVE Same /\ Kept
    BY <2>3 DEF unsubscribe, Begin, listVars
  <2>. QED  BY <1>3, <2>1, <2>2, <2>3
<1>4. ASSUME NEW u \in Callers, Lock(u)
      PROVE  \E j \in m_callbacks' : info'[j].cb = call'[t].cb
  <2>1. CASE u # t
    <3>1. Same /\ Kept  BY <1>4, <2>1 DEF Lock, listVars
    <3>. QED  BY <3>1, <1>2
  <2>2. CASE u = t
    <3>1. call[t].op = "unsubscribe" /\ Unsubscribed(call[t]) # {} /\ call' = call /\ Kept
      BY <1>4, <2>2 DEF Lock
    <3>. QED  BY <3>1 DEF Unsubscribed
  <2>. QED  BY <2>1, <2>2
<1>5. ASSUME NEW u \in Callers, EnsureRun(u) PROVE Same /\ Kept
  BY <1>5 DEF EnsureRun, listVars
<1>6. ASSUME NEW u \in Callers, Push(u)
      PROVE  \E j \in m_callbacks' : info'[j].cb = call'[t].cb
  <2>1. Same /\ m_callbacks \subseteq m_callbacks' /\ info' = info  BY <1>6 DEF Push
  <2>. QED  BY <2>1, <1>1
<1>7. ASSUME NEW b \in Buses, BusStarts(b) PROVE Same /\ Kept
  BY <1>7 DEF BusStarts, listVars
<1>8. CASE Dispatcher
  <2>1. ASSUME NEW u \in Threads, RunAddMatch(u)
        PROVE  \E j \in m_callbacks' : info'[j].cb = call'[t].cb
    <3>1. PICK i \in Ids \ Matched : info' = [info EXCEPT ![i] = call[u].sub]
      BY <2>1 DEF RunAddMatch
    <3>2. Same /\ m_callbacks' = m_callbacks  BY <2>1 DEF RunAddMatch, callerVars
    <3>3. PICK j \in m_callbacks : info[j].cb = call'[t].cb  BY <3>2, <1>1
    <3>4. info'[j] = info[j]  BY <3>1
    <3>. QED  BY <3>2, <3>3, <3>4
  <2>2. ASSUME NEW u \in Threads, RunUnref(u)
        PROVE  \E j \in m_callbacks' : info'[j].cb = call'[t].cb
    <3>1. PICK i \in Unsubscribed(call[u]) :
             /\ info' = [info EXCEPT ![i] = NoInfo] /\ m_callbacks' = m_callbacks \ {i}
             /\ IF Unsubscribed(call[u]) = {i}
                THEN pc' = [pc EXCEPT ![u] = "idle"] /\ call' = [call EXCEPT ![u] = NoCall]
                ELSE UNCHANGED <<pc, call>>
      BY <2>2 DEF RunUnref, Erased
    <3>2. Same  BY <3>1
    <3>3. u = t
      <4>1. pc["dispatcher"] # "dead" /\ pc[u] = "posted"  BY <2>2 DEF RunUnref
      <4>2. Inside(u) /\ Inside(t)  BY <3>2, <4>1 DEF Inside
      <4>. QED  BY <4>1, <4>2 DEF IInv, LockHeld
    <3>4. i \in Unsubscribed(call[t]) /\ Unsubscribed(call[t]) # {i}  BY <3>1, <3>3
    <3>5. PICK j \in Unsubscribed(call[t]) : j # i  BY <3>4
    <3>6. j \in m_callbacks' /\ info'[j] = info[j] /\ info[j].cb = call[t].cb
      BY <3>1, <3>5 DEF Unsubscribed
    <3>. QED  BY <3>2, <3>6
  <2>3. ASSUME TakeSignal \/ CallbackReturns PROVE Same /\ Kept
    BY <2>3 DEF TakeSignal, CallbackReturns, Continue, callerVars, listVars
  <2>4. ASSUME NEW i \in Ids, Handle(i) PROVE Same /\ Kept
    BY <2>4 DEF Handle, Continue, callerVars
  <2>. QED  BY <1>8, <1>2, <2>1, <2>2, <2>3, <2>4 DEF Dispatcher
<1>9. ASSUME CallbackSubscribes \/ \E k \in Keys, v \in Values : CallbackSets(k, v)
      PROVE  Same /\ Kept
  BY <1>9 DEF CallbackSubscribes, CallbackSets, Begin, callerVars, listVars
<1>10. ASSUME ServeSet \/ EmitSignal \/ ServerRestart \/ ServerCrash PROVE Same /\ Kept
  BY <1>10 DEF ServeSet, EmitSignal, ServerRestart, ServerCrash, callerVars, listVars
<1>11. ASSUME Reply \/ CallFails PROVE Same /\ Kept
  <2>1. requests # <<>> /\ Head(requests) \in Callers
    BY <1>11 DEF Reply, CallFails, IInv, Waiting, TypeOK
  <2>2. /\ pc' = IF pc[Head(requests)] # "wait" THEN pc
                 ELSE [pc EXCEPT ![Head(requests)] = WakeUp(Head(requests))]
        /\ call' = [call EXCEPT ![Head(requests)] = NoCall] /\ Kept
    BY <1>11 DEF Reply, CallFails, LetGo, listVars
  <2>. HIDE DEF Kept
  <2>3. Head(requests) # t  BY <2>1, <2>2
  <2>. QED  BY <2>1, <2>2, <2>3
<1>12. CASE UNCHANGED vars  BY <1>12, <1>2 DEF vars, callerVars, listVars
<1>. HIDE DEF Same, Kept
<1>. QED
  BY <1>2, <1>3, <1>4, <1>5, <1>6, <1>7, <1>8, <1>9, <1>10, <1>11, <1>12 DEF Next, Thread,
     Server

\* A caller that is not idle can move, or can name somebody who can: only Embrace is a
\* circle.
LEMMA MovesOrEmbrace ==
    IInv /\ Queued /\ Dispatched /\ Erasing /\ Telling => SomebodyMoves
<1>. SUFFICES ASSUME IInv, Queued, Dispatched, Erasing, Telling, ~Ended,
                     NEW t \in Threads, pc[t] # "idle"
              PROVE  \E u \in Callers : CanMove(u)
  BY DEF SomebodyMoves
<1>0. /\ Threads \subseteq Callers /\ "dispatcher" \in Callers /\ "dispatcher" \notin Threads
      /\ m_lock \in Callers \cup {Free} /\ pc["dispatcher"] \in Pcs
  BY NamesAssumption DEF IInv, TypeOK, Callers
<1>1. ASSUME NEW u \in Callers, pc[u] = "wait" PROVE CanMove(u)
  <2>1. Len(requests) > 0  BY <1>1 DEF Queued, IInv, TypeOK
  <2>. QED  BY <1>1, <2>1 DEF CanMove
<1>2. ASSUME NEW u \in Callers, pc[u] \in {"ensure", "push", "call"} PROVE CanMove(u)
  BY <1>2 DEF CanMove
<1>3. pc["dispatcher"] \notin {"dead", "stuck"}  BY DEF Ended
<1>4. ASSUME NEW u \in Threads, pc[u] = "posted" PROVE \E w \in Callers : CanMove(w)
  <2>1. m_lock = u  BY <1>0, <1>3, <1>4 DEF IInv, LockHeld, Inside
  <2>2. pc["dispatcher"] \notin {"none", "lock", "posted", "push"}
    BY <1>0, <1>4, <2>1 DEF Dispatched, Ended, Embrace, IInv, CallsFit
  <2>3. pc["dispatcher"] = "idle" => CanMove(u)  BY <1>4 DEF CanMove, Erasing
  <2>. QED  BY <1>0, <1>1, <1>2, <1>3, <2>2, <2>3 DEF Pcs
<1>5. CASE pc[t] = "lock"
  <2>1. CASE m_lock = Free  BY <1>0, <1>5, <2>1 DEF CanMove
  <2>2. CASE m_lock \in Threads
    <3>1. pc[m_lock] \in {"posted", "push", "ensure"}
      BY <1>0, <1>3, <2>2 DEF IInv, LockHeld, Inside
    <3>. QED  BY <1>0, <1>2, <1>4, <2>2, <3>1
  <2>3. CASE m_lock = "dispatcher"
    <3>1. pc["dispatcher"] \in {"call", "ensure", "wait"}
      BY <1>0, <1>3, <2>3 DEF IInv, LockHeld, Inside
    <3>. QED  BY <1>0, <1>1, <1>2, <3>1
  <2>. QED  BY <1>0, <2>1, <2>2, <2>3 DEF Callers
<1>6. pc[t] \in {"lock", "ensure", "posted", "push", "wait"}
  BY <1>0, <1>3 DEF IInv, CallsFit, Together
<1>. QED  BY <1>0, <1>1, <1>2, <1>4, <1>5, <1>6

\* No call hangs but for the reasons CallsReturn names: as long as one is under way,
\* somebody it waits for, over m_lock, the dispatcher's loop or the server, can go on.
THEOREM OnlyEmbraceHangs == Spec => []SomebodyMoves
<1>1. Init => Queued /\ Dispatched /\ Erasing /\ Telling
  <2>. SUFFICES ASSUME Init PROVE Queued /\ Dispatched /\ Erasing /\ Telling  OBVIOUS
  <2>1. /\ \A t \in Callers : pc[t] \in {"none", "idle"}
        /\ bus["signal"] = "NULL" /\ Threads \subseteq Callers /\ "dispatcher" \in Callers
    BY DEF Init, Callers, Buses
  <2>. QED  BY <2>1 DEF Queued, Dispatched, Erasing, Telling
<1>. QED
  BY <1>1, NextQueued, NextDispatched, NextErasing, NextTelling, MovesOrEmbrace, IInvHolds,
     PTL DEF Spec

=============================================================================
