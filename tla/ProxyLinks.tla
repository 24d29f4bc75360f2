------------------------------- MODULE ProxyLinks -------------------------------
(***************************************************************************)
(* The links of the proxy: how they are built (build_proxy_url in           *)
(* src/proxy/handler.rs) and what the authentication middleware makes of a  *)
(* request for one (src/auth/middleware.rs, src/auth/encryption.rs).        *)
(*                                                                         *)
(* A header is <<name, value>>.  A link to the proxy is                     *)
(*   endpoint  "manifest", "segment", "stream" or "forward"                 *)
(*   file      the rest of the path, see Encoded, or None                   *)
(*   tokenIn   where it has an encrypted token: "path", "query", "nowhere"  *)
(*   token     the token, None if nowhere                                   *)
(*   query     the parameters that are not encrypted                        *)
(* Parameters are [d, headers, playlist, opts]: the destination, the h_*    *)
(* headers, the playlist_url, and the set of flags; those of a query also   *)
(* have the api_password.  Encryption is abstract: a token holds the        *)
(* password it was encrypted with and opens with no other.                  *)
(***************************************************************************)
EXTENDS Absent, Integers, Sequences, FiniteSets

NoQuery == [d |-> None, headers |-> {}, playlist |-> None, opts |-> {}, password |-> None]

(* SUPPORTED_REQUEST_HEADERS: what a player sends anew with each request. *)
PerRequest(h) == h[1] \in {"range", "if-range"}

(* encode_url_to_base64 and decode_base64_url: an encoded destination is    *)
(* told from a plain one.                                                   *)
Encoded(url) == [base64 |-> TRUE, of |-> url]
Decoded(x)   == IF x = None THEN None ELSE x.of

(* Mutant: the token never runs out. *)
TokenForever(link, password, now) ==
  [key |-> password, d |-> link.d, headers |-> link.headers, playlist |-> link.playlist,
   opts |-> link.opts, ip |-> link.ip, exp |-> None]

(* EncryptionHandler::encrypt *)
TokenOf(link, password, now) ==
  [key |-> password, d |-> link.d, headers |-> link.headers, playlist |-> link.playlist,
   opts |-> link.opts, ip |-> link.ip,
   exp |-> IF link.expiration = None THEN None ELSE now + link.expiration]

(* build_proxy_url: everything goes into a token in the path if there is a  *)
(* password, and else into the query, but for headers that come anew with   *)
(* each request; the destination is in the path then if that was asked for. *)
BuildUrl(link, password, now) ==
  IF password # None
  THEN [endpoint |-> link.endpoint, file |-> link.file, query |-> NoQuery,
        tokenIn |-> "path", token |-> TokenOf(link, password, now)]
  ELSE [endpoint |-> link.endpoint,
        file |-> IF link.base64 THEN Encoded(link.d.of) ELSE link.file,
        query |-> [d |-> IF link.base64 THEN None ELSE link.d,
                   headers |-> {h \in link.headers : ~PerRequest(h)},
                   playlist |-> link.playlist, opts |-> link.opts, password |-> None],
        tokenIn |-> "nowhere", token |-> None]

-----------------------------------------------------------------------------
(* EncryptionHandler::decrypt *)
Opens(token, password, ip, now) ==
  /\ token.key = password
  /\ token.exp # None => now <= token.exp
  /\ token.ip # None => ip = token.ip

(* build_proxy_data_from_query: what the handlers see of a plain query. *)
FromQuery(query) ==
  [d |-> query.d, headers |-> query.headers, playlist |-> query.playlist, opts |-> query.opts]

(* build_query_from_proxy_data: the token's parameters, which win, over     *)
(* those of the query.                                                      *)
FromToken(token, query) ==
  [d |-> token.d, headers |-> token.headers, opts |-> token.opts \cup query.opts,
   playlist |-> IF token.playlist # None THEN token.playlist ELSE query.playlist]

(* AuthMiddleware::call: whether a request from an address is let through.  *)
Admits(link, ip, password, now) ==
  IF password = None THEN link.tokenIn = "nowhere"
  ELSE IF link.tokenIn = "nowhere" THEN link.query.password = password
  ELSE Opens(link.token, password, ip, now)

(* AuthMiddleware::call: the parameters it hands to the handler.  A token   *)
(* in the query replaces the rest of the query.                             *)
Parameters(link) ==
  IF link.tokenIn = "nowhere" THEN FromQuery(link.query)
  ELSE FromToken(link.token, IF link.tokenIn = "path" THEN link.query ELSE NoQuery)

(* resolve_stream_destination: the destination, encoded or not, or else the *)
(* rest of the path if it is an encoded one.                                *)
StreamDestination(link, data) ==
  IF data.d # None THEN Decoded(data.d)
  ELSE IF link.file # None /\ link.file.base64 THEN Decoded(link.file) ELSE None

=============================================================================
