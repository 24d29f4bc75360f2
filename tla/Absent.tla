--------------------------------- MODULE Absent ---------------------------------
(* The value that stands for a Rust None in the modules that share it.      *)
CONSTANT None
=============================================================================
