---------------------------- MODULE MCHlsPrebuffer ----------------------------
(* Small instances of HlsPrebuffer for TLC. *)
EXTENDS HlsPrebuffer

CONSTANTS s1, s2   \* two segment URLs

(* A live playlist that advances by one segment, and its overlap. *)
MCQueues == {<<s1>>, <<s1, s2>>}

=============================================================================
