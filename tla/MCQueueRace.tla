---------------------------- MODULE MCQueueRace -----------------------------
(* The queue's races for TLC: four threads, three heap nodes.              *)
EXTENDS QueueRace, TLC

CONSTANTS n1, n2, n3, c1, t1, t2, t3, t4

MCNode == {n1, n2, n3}
MCThread == {t1, t2, t3, t4}

\* Threads and nodes differ only in name.
MCSymmetry == Permutations(MCNode) \cup Permutations(MCThread)

=============================================================================
