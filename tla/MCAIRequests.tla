----------------------------- MODULE MCAIRequests -----------------------------
(* The AI endpoints on small instances.                                      *)
EXTENDS AIRequests, TLC

Symmetry == Permutations(Workers) \cup Permutations(Payloads)
===============================================================================
