---------------------------- MODULE MCChannelLog ----------------------------
(* Channel logging on its own, for TLC. *)
EXTENDS ChannelLog

CONSTANT c1

=============================================================================
