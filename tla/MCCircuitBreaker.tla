--------------------------- MODULE MCCircuitBreaker ---------------------------
(* Instances of CircuitBreaker for TLC: two threads of one process.          *)
EXTENDS CircuitBreaker, TLC

CONSTANTS p1, c1, c2

MCProcesses == {p1}

MCCalls == {c1, c2}

MCProcessOf == (c1 :> p1) @@ (c2 :> p1)
===============================================================================
