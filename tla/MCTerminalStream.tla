-------------------------- MODULE MCTerminalStream --------------------------
(* Small instances of TerminalStream for TLC. *)
EXTENDS TerminalStream
=============================================================================
