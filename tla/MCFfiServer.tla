------------------------------ MODULE MCFfiServer ------------------------------
(* A small instance of FfiServer for TLC. *)
EXTENDS FfiServer

=============================================================================
