---------------------------- MODULE MCInjection ----------------------------
(* Injection as it is.                                                     *)
EXTENDS Injection

=============================================================================
