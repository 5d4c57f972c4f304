----------------------------- MODULE MCTaskSockets -----------------------------
(* Sockets on small instances.                                               *)
EXTENDS TaskSockets

CONSTANTS s1, s2, u1, u2, t1, t2

MCUserOf == [s \in Sockets |-> IF s = s1 THEN u1 ELSE u2]
MCOwnerOf == [t \in Tasks |-> IF t = t1 THEN u1 ELSE u2]
===============================================================================
