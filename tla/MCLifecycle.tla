---------------------------- MODULE MCLifecycle -----------------------------
(* Lifecycle for TLC: three processes, each of which may be a server, a    *)
(* client and the clean-up tool in turn.                                   *)
EXTENDS Lifecycle

CONSTANTS p1, p2, p3

=============================================================================
