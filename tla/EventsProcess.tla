---------------------------- MODULE EventsProcess ----------------------------
(***************************************************************************)
(* The keys (utils/events_process.cpp): the input thread notes presses and *)
(* releases; a detached thread for each press, its timer, finds out        *)
(* whether it is a long one; the main thread takes keys from a queue and   *)
(* runs a script for each, according to the event it finds for the key.    *)
(* All share key_queue_mutex; a step is what one of them does under it, or *)
(* an access outside it.                                                   *)
(*                                                                         *)
(* A press is its number, key_down_count.  WaitKey is one step: what it    *)
(* does after it has unlocked, to choose and to run the script, changes    *)
(* nothing.  All devices feed the one input thread, so that a key may be   *)
(* pressed or released twice in a row.  Left out: key_pressed, which       *)
(* nothing reads, reading devices and the table of keys.                   *)
(***************************************************************************)
EXTENDS Integers, Sequences, SequencesExt

CONSTANTS Keycodes,
          Longmode,   \* those whose long press is reported while it lasts
          NoKey,      \* -1
          QueueMax,   \* bound: room in key_queue (256)
          MaxPresses  \* bound: presses

ASSUME KeysAssumption ==
    /\ NoKey \notin Keycodes /\ Longmode \subseteq Keycodes
    /\ QueueMax \in Nat /\ MaxPresses \in Nat

VARIABLES
    key_queue,     \* keys, each with the press that it was queued for
    key_last_down, key_down_count, last_key,
    mKeyEventVec,
    input,         \* what the input thread is about to do
    released,      \* its local variables: the press, its key, register_key, flag
    keytimer,      \* where the timer of each press is
    keyOf,         \* and its key
    orphaned,      \* history: a release was not queued
    repeated       \* history: a timer queued a key

keyVars == <<key_queue, key_last_down, key_down_count, last_key, mKeyEventVec,
             input, released, keytimer, keyOf, orphaned, repeated>>

Presses == 1 .. MaxPresses
KeyEvents == [press : Presses, keyCode : Keycodes, keyState : {0, 1},
              longPress : BOOLEAN, curlongPress : BOOLEAN]
NoRelease == [press |-> 0, key |-> NoKey, register |-> FALSE, flag |-> FALSE]

KeysTypeOK ==
    /\ key_queue \in Seq([key : Keycodes, press : Presses]) /\ Len(key_queue) <= QueueMax
    /\ key_last_down \in Keycodes \cup {NoKey} /\ last_key \in Keycodes \cup {NoKey}
    /\ key_down_count \in Nat
    /\ mKeyEventVec \in Seq(KeyEvents)
    /\ input \in {"read", "note", "enqueue"}
    /\ released \in [press : Presses \cup {0}, key : Keycodes \cup {NoKey},
                     register : BOOLEAN, flag : BOOLEAN]
    /\ keytimer \in [Presses -> {"none", "sleep", "loop", "enqueue"}]
    /\ keyOf \in [Presses -> Keycodes \cup {NoKey}]
    /\ orphaned \in BOOLEAN /\ repeated \in BOOLEAN

KeysInit ==
    /\ key_queue = <<>>
    /\ key_last_down = NoKey /\ last_key = NoKey /\ key_down_count = 0
    /\ mKeyEventVec = <<>> /\ input = "read" /\ released = NoRelease
    /\ keytimer = [n \in Presses |-> "none"] /\ keyOf = [n \in Presses |-> NoKey]
    /\ orphaned = FALSE /\ repeated = FALSE

-----------------------------------------------------------------------------
(* The input thread.                                                       *)

\* ProcessKey, value 1.
KeyDown(k) ==
    LET n == key_down_count + 1 IN
    /\ input = "read" /\ n \in Presses
    /\ mKeyEventVec' = Append(mKeyEventVec, [press |-> n, keyCode |-> k, keyState |-> 1,
                                             longPress |-> FALSE, curlongPress |-> FALSE])
    /\ key_down_count' = n /\ key_last_down' = k
    /\ keytimer' = [keytimer EXCEPT ![n] = "sleep"] /\ keyOf' = [keyOf EXCEPT ![n] = k]
    /\ input' = "note" /\ released' = [NoRelease EXCEPT !.key = k]
    /\ UNCHANGED <<key_queue, last_key, orphaned, repeated>>

\* ProcessKey, value 2.
KeyRepeat(k) ==
    /\ input = "read" /\ input' = "note" /\ released' = [NoRelease EXCEPT !.key = k]
    /\ UNCHANGED <<key_queue, key_last_down, key_down_count, last_key, mKeyEventVec, keytimer,
                   keyOf, orphaned, repeated>>

\* The event of k that is down, the first in the vector, or 0.
DownEvent(k) == SelectInSeq(mKeyEventVec, LAMBDA e : e.keyCode = k /\ e.keyState = 1)

\* ProcessKey, value 0.
KeyUp(k) ==
    LET i == DownEvent(k)
        e == mKeyEventVec[i]
        known == key_last_down = k
    IN
    /\ input = "read" /\ input' = "note"
    /\ \/ /\ i = 0 /\ mKeyEventVec' = mKeyEventVec
          /\ released' = [NoRelease EXCEPT !.key = k, !.register = known]
       \/ /\ i # 0
          /\ mKeyEventVec' =
                [mKeyEventVec EXCEPT ![i].keyState = 0, ![i].curlongPress = FALSE]
          /\ released' = [press |-> e.press, key |-> k, register |-> known,
                          flag |-> e.longPress \/ e.curlongPress]
    /\ key_last_down' = NoKey
    /\ orphaned' = (orphaned \/ (i # 0 /\ ~known))
    /\ UNCHANGED <<key_queue, key_down_count, last_key, keytimer, keyOf, repeated>>

\* After the unlock.
Note ==
    /\ input = "note" /\ last_key' = released.key
    /\ input' = IF released.register THEN "enqueue" ELSE "read"
    /\ released' = IF released.register THEN released ELSE NoRelease
    /\ UNCHANGED <<key_queue, key_last_down, key_down_count, mKeyEventVec, keytimer,
                   keyOf, orphaned, repeated>>

\* EnqueueKey: an entry is appended if there is room, and, for the same key, if enough
\* time has passed (checkEventTime) or flag is set.
Queued(k, n) == key_queue' = Append(key_queue, [key |-> k, press |-> n])
RoomForOne == Len(key_queue) <= QueueMax                 \* mutant
Room == Len(key_queue) < QueueMax
MayDrop(k, flag) == ~Room \/ (last_key = k /\ ~flag)

InputEnqueue ==
    LET r == released IN
    /\ input = "enqueue" /\ input' = "read" /\ released' = NoRelease
    /\ \/ Room /\ Queued(r.key, r.press) /\ orphaned' = orphaned
       \/ MayDrop(r.key, r.flag) /\ key_queue' = key_queue /\ orphaned' = TRUE
    /\ UNCHANGED <<key_last_down, key_down_count, last_key, mKeyEventVec, keytimer,
                   keyOf, repeated>>

-----------------------------------------------------------------------------
(* time_key.                                                               *)

KeyAgain(n) == key_last_down = keyOf[n]                  \* mutant
StillDown(n) == key_last_down = keyOf[n] /\ key_down_count = n

Alive(n) == \E i \in 1 .. Len(mKeyEventVec) : mKeyEventVec[i].press = n

\* 750 ms later.  If the key is still down, its event is marked.  If not, the event may
\* have been deleted: it then reads as anything.
TimerWake(n) ==
    /\ keytimer[n] = "sleep"
    /\ LET long == keyOf[n] \in Longmode IN
       IF StillDown(n)
       THEN /\ mKeyEventVec' = [i \in 1 .. Len(mKeyEventVec) |->
                  IF mKeyEventVec[i].press = n
                  THEN [mKeyEventVec[i] EXCEPT !.longPress = TRUE, !.curlongPress = long]
                  ELSE mKeyEventVec[i]]
            /\ keytimer' = [keytimer EXCEPT ![n] = IF long THEN "loop" ELSE "none"]
       ELSE /\ mKeyEventVec' = mKeyEventVec
            /\ \E to \in {"none"} \cup (IF Alive(n) THEN {} ELSE {"loop"}) :
                  keytimer' = [keytimer EXCEPT ![n] = to]
    /\ UNCHANGED <<key_queue, key_last_down, key_down_count, last_key, input,
                   released, keyOf, orphaned, repeated>>

\* The condition of the loop, without the lock.
TimerLoop(n) ==
    /\ keytimer[n] = "loop"
    /\ keytimer' = [keytimer EXCEPT ![n] = IF StillDown(n) THEN "enqueue" ELSE "none"]
    /\ UNCHANGED <<key_queue, key_last_down, key_down_count, last_key, mKeyEventVec,
                   input, released, keyOf, orphaned, repeated>>

TimerEnqueue(n) ==
    /\ keytimer[n] = "enqueue" /\ keytimer' = [keytimer EXCEPT ![n] = "loop"]
    /\ \/ Room /\ Queued(keyOf[n], n) /\ repeated' = TRUE
       \/ MayDrop(keyOf[n], FALSE) /\ key_queue' = key_queue /\ repeated' = repeated
    /\ UNCHANGED <<key_last_down, key_down_count, last_key, mKeyEventVec, input,
                   released, keyOf, orphaned>>

-----------------------------------------------------------------------------
Reported(e, k) == e.keyCode = k /\ (e.keyState = 0 \/ e.curlongPress)

\* WaitKey: the first event of the key that is up, which is deleted, or that is reported
\* while it lasts, which stays.
WaitKey ==
    /\ key_queue # <<>> /\ key_queue' = Tail(key_queue)
    /\ LET k == Head(key_queue).key
           i == SelectInSeq(mKeyEventVec, LAMBDA e : Reported(e, k))
       IN  mKeyEventVec' = IF i = 0 \/ mKeyEventVec[i].curlongPress THEN mKeyEventVec
                           ELSE RemoveAt(mKeyEventVec, i)
    /\ UNCHANGED <<key_last_down, key_down_count, last_key, input, released,
                   keytimer, keyOf, orphaned, repeated>>

KeysNext ==
    \/ \E k \in Keycodes : KeyDown(k) \/ KeyRepeat(k) \/ KeyUp(k)
    \/ Note \/ InputEnqueue
    \/ \E n \in Presses : TimerWake(n) \/ TimerLoop(n) \/ TimerEnqueue(n)
    \/ WaitKey

KeysSpec == KeysInit /\ [][KeysNext]_keyVars

-----------------------------------------------------------------------------
(* What must hold.                                                         *)

\* The queue with the entry that is about to be appended.
Entries == key_queue \o (IF released.register
                         THEN <<[key |-> released.key, press |-> released.press]>> ELSE <<>>)

\* The presses of k that are queued or about to be, and those that are up.
PressesQueued(k) == {Entries[i].press : i \in {j \in 1 .. Len(Entries) : Entries[j].key = k}}
PressesUp(k) ==
    {mKeyEventVec[i].press : i \in {j \in 1 .. Len(mKeyEventVec) :
        mKeyEventVec[j].keyCode = k /\ mKeyEventVec[j].keyState = 0}}

InOrder ==
    \A i, j \in 1 .. Len(Entries) :
        i < j /\ Entries[i].key = Entries[j].key => Entries[i].press < Entries[j].press

\* A timer marks the event of its own press only, while that is down and not deleted.
\* And events and entries of a key are of the same presses, both in their order, so
\* that WaitKey finds for each key in the queue the event of the press it was queued
\* for, unless a release was dropped (too soon, no room, or with another key down),
\* or a timer queued the key while it was down: from then on they are out of step.
PressesKept ==
    /\ \A n \in Presses : keytimer[n] # "none" /\ StillDown(n) =>
          \E i \in 1 .. Len(mKeyEventVec) :
             mKeyEventVec[i].press = n /\ mKeyEventVec[i].keyState = 1
    /\ \A i, j \in 1 .. Len(mKeyEventVec) :
          i < j => mKeyEventVec[i].press < mKeyEventVec[j].press
    /\ orphaned \/ repeated \/ (InOrder /\ \A k \in Keycodes :
                                         PressesQueued(k) = PressesUp(k))
=============================================================================
