--------------------------- MODULE MCSocketServer ---------------------------
(* An instance of SocketServer: one client registers for business messages, *)
(* and perhaps again; the others register for heartbeats only, and once.    *)
EXTENDS SocketServer

CONSTANT Subscriber

SomeWant == [c \in Conns |-> IF c = Subscriber THEN Types ELSE {}]

CONSTANT Again  \* how often the one client registers at most

SomeRegs == [c \in Conns |-> IF c = Subscriber THEN Again ELSE 1]
=============================================================================
