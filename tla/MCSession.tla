----------------------------- MODULE MCSession ------------------------------
(* Sessions for TLC: two clients that send two requests in all, one each   *)
(* or one of them both, of commands with up to two lines of output.        *)
EXTENDS Session

CONSTANTS c1, c2

=============================================================================
