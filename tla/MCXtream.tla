-------------------------------- MODULE MCXtream --------------------------------
(* Providers with and without a port, and users that look like ports.       *)
EXTENDS XtreamCodes

MCAccount ==
  [host : {"tv"}, port : {None, "8080", "80/c"}, user : {"alice", "12345"},
   password : {None, "api", "old"}]
MCShortNumber(text) == text \in {"8080", "12345"}
MCListed ==
  {[host |-> host, port |-> port, kind |-> kind, ext |-> "ts"] :
     host \in {"tv", "cdn"}, port \in {None, "8080"}, kind \in {"live", "series"}}
MCKind == {"live", "movie", "series", "episode", "short", "timeshift", "timeshift.php", "hls", "get", "xmltv"}
=============================================================================
