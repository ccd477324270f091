---------------------------- MODULE MCHookVerify ----------------------------
(* HookVerify as it is; its constants are numbers.                         *)
EXTENDS HookVerify

=============================================================================
