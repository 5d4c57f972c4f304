------------------------------- MODULE MCCaches -------------------------------
(* The caches on small instances.                                            *)
EXTENDS Caches
===============================================================================
