---------------------------- MODULE MCReconnect ----------------------------
(* Reconnect as it is; its constants are numbers.                          *)
EXTENDS Reconnect

=============================================================================
