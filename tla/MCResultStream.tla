--------------------------- MODULE MCResultStream ---------------------------
(* The result stream for TLC: ordinary lines, lines around the size of the *)
(* markers, and around the size of the buffer.                             *)
EXTENDS ResultStream

MCLineLength == {1, 29, 30, 31, 32, 33, 4094, 4095, 5000}

=============================================================================
