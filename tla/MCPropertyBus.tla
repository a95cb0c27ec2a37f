---------------------------- MODULE MCPropertyBus ----------------------------
(* An instance of PropertyBus: a persistent key with a default.              *)
EXTENDS PropertyBus

CONSTANTS Persistent, Default

MCAttribute == [k \in Keys |-> IF k = Persistent THEN "persist" ELSE "temp"]
MCDevice == [k \in Keys |-> IF k = Persistent THEN Default ELSE None]
=============================================================================
