----------------------------- MODULE MCRegistry -----------------------------
(* A small instance of Registry for TLC: the workers of the three          *)
(* controllers, an App and the startup client.                             *)
EXTENDS Registry

CONSTANTS token, clusterToken, app, a1

Of(op, key, version) == [op |-> op, key |-> key, version |-> version]

ControllerUses ==
    [c \in Callers |->
        IF c = app THEN {Of("Obtain", a1, 1), Of("Obtain", a1, 2), Of("Invalidate", a1, 0)}
        ELSE {Of("Obtain", StartupKey, 0), Of("Lookup", a1, 0)}]
=============================================================================
