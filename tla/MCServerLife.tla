---------------------------- MODULE MCServerLife ----------------------------
(* The life of the process on a small instance, for TLC. *)
EXTENDS ServerLife

CONSTANT c1
=============================================================================
