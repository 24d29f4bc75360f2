-------------------------- MODULE MCAcestreamSession --------------------------
(* A small instance of AcestreamSession for TLC. *)
EXTENDS AcestreamSession, TLC

(* Requests are interchangeable. *)
Symmetry == Permutations(Client)

=============================================================================
