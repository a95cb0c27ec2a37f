---------------------------- MODULE MessageQueue ----------------------------
(***************************************************************************)
(* What the message list of a socket server promises: a queue of numbered  *)
(* messages, first in, first out.  The first one is offered to clients,    *)
(* and then taken off; how often it is sent to one of them is not the      *)
(* queue's affair.  A race on the list or the end of the process breaks    *)
(* it, and then nothing is promised.                                       *)
(***************************************************************************)
EXTENDS Integers, Sequences

CONSTANT Clients

VARIABLES
    up,        \* the server runs
    waiting,   \* the messages put and not taken yet
    last,      \* the number of the last message put
    served,    \* the clients that were offered the first message
    broken     \* the promise is off

vars == <<up, waiting, last, served, broken>>

Init == up = FALSE /\ waiting = <<>> /\ last = 0 /\ served = {} /\ broken = FALSE

Start ==
    /\ ~up /\ up' = TRUE
    /\ UNCHANGED <<waiting, last, served, broken>>

Put ==
    /\ up
    /\ last' = last + 1
    /\ waiting' = Append(waiting, last')
    /\ UNCHANGED <<up, served, broken>>

Offer(c) ==
    /\ up /\ waiting # <<>> /\ c \notin served
    /\ served' = served \cup {c}
    /\ UNCHANGED <<up, waiting, last, broken>>

\* A client leaves; one that comes in its place is offered what comes next.
Leave(c) ==
    /\ c \in served
    /\ served' = served \ {c}
    /\ UNCHANGED <<up, waiting, last, broken>>

Take ==
    /\ up /\ waiting # <<>>
    /\ waiting' = Tail(waiting) /\ served' = {}
    /\ UNCHANGED <<up, last, broken>>

\* The server exits in order: only then is a message dropped.
Stop ==
    /\ up /\ up' = FALSE
    /\ waiting' = <<>> /\ served' = {}
    /\ UNCHANGED <<last, broken>>

\* The queue may break as a message is put, and may still be started and stopped.
Break ==
    /\ broken' = TRUE
    /\ waiting' = <<>> /\ served' = {} /\ last' \in {last, last + 1}
    /\ up' \in BOOLEAN

Next ==
    \/ ~broken /\ (Start \/ Put \/ Take \/ Stop \/ \E c \in Clients : Offer(c) \/ Leave(c))
    \/ Break

Spec == Init /\ [][Next]_vars
=============================================================================
