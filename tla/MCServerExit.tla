---------------------------- MODULE MCServerExit ----------------------------
(* The server's console and its exit for TLC: two clients that send two    *)
(* requests in all, one each or one of them both.                          *)
EXTENDS ServerExit, TLC

CONSTANTS c1, c2

MCClient == {c1, c2}

\* Clients differ only in name; used where no liveness is checked.
MCSymmetry == Permutations(MCClient)

=============================================================================
