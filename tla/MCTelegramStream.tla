--------------------------- MODULE MCTelegramStream ---------------------------
(* A small instance of TelegramStream for TLC. *)
EXTENDS TelegramStream

Get(mode, size, length, kind, low, high) ==
  [mode |-> mode, head |-> FALSE, size |-> size, length |-> length,
   header |-> [kind |-> kind, low |-> low, high |-> high]]

(* Documents of 3 and 4 bytes in chunks of 2: with a short last chunk and   *)
(* without.  Ranges that are the whole file, begin within a chunk, go       *)
(* beyond the end, are a suffix, or empty.  Sizes from the document, and    *)
(* sizes the request gives: too small, too large, none.                     *)
MCJob ==
  {Get("message", 0, 4, "none", 0, 0),
   Get("message", 0, 3, "between", 1, 9),
   Get("message", 0, 3, "suffix", 0, 0),
   Get("either", 2, 4, "suffix", 3, 0),
   Get("file_id", 6, 4, "none", 0, 0),
   [Get("file_id", 2, 3, "from", 1, 0) EXCEPT !.head = TRUE]}

=============================================================================
