-------------------------- MODULE MCDeleteCommand --------------------------
(* TLC instances of DeleteCommand. *)
EXTENDS DeleteCommand
=============================================================================
