----------------------------- MODULE MCAuditChain -----------------------------
EXTENDS AuditChain, TLC

CONSTANTS w1, w2, u1

MCWorkers == {w1, w2}

MCUsers == {u1}

Symmetry == Permutations(MCWorkers)
===============================================================================
