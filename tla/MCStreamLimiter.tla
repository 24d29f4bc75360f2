---------------------------- MODULE MCStreamLimiter ----------------------------
(* A small instance of StreamLimiter for TLC. *)
EXTENDS StreamLimiter

=============================================================================
