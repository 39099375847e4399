--------------------------- MODULE MCRequestSlot ----------------------------
(* The request slot for TLC: two clients, two commands of different        *)
(* length, as many threads as clients.                                     *)
EXTENDS RequestSlot, TLC

CONSTANTS c1, c2, t1, t2, ls, date

MCLength == ls :> 3 @@ date :> 5

=============================================================================
