---------------------------- MODULE MCTaskQueue -----------------------------
(* The task queue for TLC: four heap nodes, two clients.                   *)
EXTENDS TaskQueue, TLC

CONSTANTS n1, n2, n3, n4, c1, c2

MCNode == {n1, n2, n3, n4}
MCClient == {c1, c2}

\* Nodes differ only in who holds them, and clients only in name.
MCSymmetry == Permutations(MCNode) \cup Permutations(MCClient)

=============================================================================
