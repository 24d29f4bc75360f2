-------------------------------- MODULE Gateway --------------------------------
(***************************************************************************)
(* A player and the proxy: links are generated (generate_url in             *)
(* src/proxy/handler.rs), followed through the middleware to the handlers   *)
(* of HLS playlists and segments (src/hls/handler.rs, src/hls/segment.rs),  *)
(* streams and forwarded requests (src/proxy/handler.rs), and the links of  *)
(* a playlist are followed in turn.  The handlers share nothing but the     *)
(* segments cached by HlsPrebuffer, so each is one step.                    *)
(*                                                                         *)
(* page is what the player has: the generated link or the links of the last *)
(* playlist.  Each has a want, what it stands for in the world without a    *)
(* proxy, [url, way, headers, until, ip]: the URL that is referenced, how   *)
(* it is to be handled, the headers the first client asked for, and how     *)
(* long and for which address the link was made.                            *)
(***************************************************************************)
EXTENDS HlsManifest

CONSTANTS
  Server,       \* configurations [password, publicIp], None if not set
  Generated,    \* what clients ask generate_url for
  Typed,        \* query strings clients write themselves
  Flags,        \* sets of options clients add to a link
  Moved(_),     \* where the origin redirects a URL to
  Content,      \* the origin's playlists, by URL
  Prefetch,     \* prebuffer_segments
  Allowed(_),   \* check_forward_destination: whether a host may be asked
  Dropped,      \* names of headers that are not forwarded
  Client,       \* addresses
  Ranges,       \* Range headers of players
  MaxClock      \* bound: the last time

(* Clients name a destination, do not pass on headers of single requests,   *)
(* and have only that of a stream in the path; the playlists are plain.     *)
ASSUME GatewayAssumption ==
  /\ \A link \in Generated : /\ link.d # None
                             /\ link.base64 => link.endpoint = "stream"
                             /\ link.expiration \in Nat \cup {None}
  /\ \A link \in Typed : /\ \A h \in link.headers : ~PerRequest(h)
                         /\ link.endpoint \in {"manifest", "segment"} => link.d # None
  /\ \A url \in DOMAIN Content : PlainPlaylist(Content[url])

VARIABLES
  server,       \* the configuration
  gwNow,        \* the clock
  page,         \* the links at hand, [link, want]
  registered,   \* what the playlist at hand registered with HlsPrebuffer, or None
  deed          \* what following the last link did, or None

gwVars == <<server, gwNow, page, registered, deed>>

GatewayInit ==
  /\ server \in Server
  /\ gwNow = 0
  /\ page = <<>>
  /\ registered = None
  /\ deed = None

-----------------------------------------------------------------------------
Lasting(headers) == {h \in headers : ~PerRequest(h)}

WayOf(endpoint) ==
  IF endpoint = "manifest" THEN "playlist"
  ELSE IF endpoint = "forward" THEN "forward" ELSE "bytes"

(* {mediaflow_ip} in a destination becomes the public address. *)
Substituted(url) ==
  IF url.name = "placeholder" /\ server.publicIp # None
  THEN [url EXCEPT !.name = server.publicIp] ELSE url

Wanted(link) ==
  [url     |-> IF link.endpoint = "forward" THEN Substituted(Decoded(link.d))
               ELSE Decoded(link.d),
   way     |-> WayOf(link.endpoint),
   headers |-> IF link.endpoint = "forward"
               THEN {h \in Lasting(link.headers) : h[1] \notin Dropped} ELSE Lasting(link.headers),
   until   |-> IF server.password = None \/ link.expiration = None THEN None
               ELSE gwNow + link.expiration,
   ip      |-> IF server.password = None THEN None ELSE link.ip]

Proxied(req, link) == [kind |-> "proxied", url |-> Decoded(link.d), to |-> req]

(* generate_url; the client then may add options to the link, and may move  *)
(* a token from the path to the query.                                      *)
Generate ==
  /\ page = <<>>
  /\ \E link \in Generated, opts \in Flags :
       \E req \in {BuildUrl(link, server.password, gwNow)} :
       \E tokenIn \in IF req.tokenIn = "nowhere" THEN {"nowhere"} ELSE {"path", "query"} :
         page' = <<[link |-> Proxied([req EXCEPT !.query.opts = opts, !.tokenIn = tokenIn], link),
                    want |-> Wanted(link)]>>
  /\ UNCHANGED <<server, gwNow, registered, deed>>

(* A client writes the query itself, with the password if there is one. *)
Type ==
  /\ page = <<>>
  /\ \E link \in Typed :
       page' = <<[link |-> Proxied([endpoint |-> link.endpoint, file |-> None, token |-> None,
                                    tokenIn |-> "nowhere",
                                    query |-> [d |-> link.d, headers |-> link.headers,
                                               playlist |-> None, opts |-> link.opts,
                                               password |-> server.password]], link),
                  want |-> [Wanted(link) EXCEPT !.until = None, !.ip = None]]>>
  /\ UNCHANGED <<server, gwNow, registered, deed>>

-----------------------------------------------------------------------------
(* Following link i from an address. *)

Admitted(i, ip) == Admits(page[i].link.to, ip, server.password, gwNow)
Data(i)         == Parameters(page[i].link.to)

At(i, endpoint) ==
  /\ i \in DOMAIN page
  /\ page[i].link.kind = "proxied"
  /\ page[i].link.to.endpoint = endpoint

Deed(way, url, headers, i, range, ip) ==
  [way |-> way, url |-> url, headers |-> headers, want |-> page[i].want,
   range |-> range, ip |-> ip, at |-> gwNow]

(* The player's Range, unless the parameters have one. *)
Merged(headers, range) ==
  IF range = None \/ (\E h \in headers : h[1] = "range") THEN headers
  ELSE headers \cup {<<"range", range>>}

Reject(i, ip) ==
  /\ i \in DOMAIN page
  /\ page[i].link.kind = "proxied"
  /\ ~Admitted(i, ip)
  /\ deed' = Deed("rejected", None, {}, i, None, ip)
  /\ UNCHANGED <<server, gwNow, page, registered>>

(* What a URI of a playlist stands for. *)
Purpose(entry, opts) ==
  IF \/ entry.tag \in {"variant", "media", "iframe"}
     \/ entry.tag \in {"segment", "bare"} /\ (entry.uri.list \/ "force_playlist_proxy" \in opts)
  THEN "playlist" ELSE "bytes"

(* Mutant: segments are said to belong to the playlist that was asked for. *)
PlaylistUrlAsked(asked, effective) == asked

(* with_playlist_url *)
PlaylistUrl(asked, effective) == effective

NoPlaylist   == [form |-> "other", entries |-> <<>>]
Fetched(url) == IF url \in DOMAIN Content THEN Content[url] ELSE NoPlaylist

(* The links of a playlist, each with what its URI stands for. *)
LinksOf(content, base, params, lasting) ==
  [k \in DOMAIN content.entries |->
     [link |-> Process(content, base, params)[k],
      want |-> [url     |-> Resolve(base, content.entries[k].uri),
                way     |-> Purpose(content.entries[k], params.opts),
                headers |-> lasting, until |-> None, ip |-> None]]]

(* What is registered with HlsPrebuffer for it. *)
Registration(content, base, params) ==
  LET urls == MediaSegmentUrls(content, base, Prefetch)
  IN  IF \/ urls = {}
         \/ params.opts \cap {"no_proxy", "key_only_proxy", "force_playlist_proxy"} # {}
      THEN None
      ELSE [playlist |-> base, headers |-> params.headers, urls |-> urls]

(* hls_manifest_handler: the registration runs on its own; the answer to a  *)
(* failed fetch and to what is no playlist is an empty one.                 *)
ServeManifest(i, ip) ==
  /\ At(i, "manifest")
  /\ Admitted(i, ip)
  /\ \E ok \in BOOLEAN, asked \in {Data(i).d.of} :
     \E effective \in {Moved(asked)} :
       LET content == Fetched(effective)
           params  == [password |-> server.password, headers |-> Data(i).headers,
                       playlist |-> PlaylistUrl(asked, effective), opts |-> Data(i).opts]
       IN  /\ deed' = Deed("playlist", asked, params.headers, i, None, ip)
           /\ page' = IF ok /\ content.form # "other"
                      THEN LinksOf(content, effective, params, page[i].want.headers) ELSE <<>>
           /\ registered' = IF ok THEN Registration(content, effective, params) ELSE None
  /\ UNCHANGED <<server, gwNow>>

(* hls_segment_handler: without a Range a cached segment will do. *)
CacheHit(data, range) ==
  /\ range = None
  /\ registered # None
  /\ data.d.of \in registered.urls
  /\ data.headers = registered.headers

ServeSegment(i, range, ip) ==
  /\ At(i, "segment")
  /\ Admitted(i, ip)
  /\ \E data \in {Data(i)} :
     \E cached \in IF CacheHit(data, range) THEN BOOLEAN ELSE {FALSE} :
       deed' = Deed("bytes", data.d.of, IF cached THEN registered.headers
                                        ELSE Merged(data.headers, range), i, range, ip)
  /\ UNCHANGED <<server, gwNow, page, registered>>

(* proxy_stream_get and proxy_stream_head *)
ServeStream(i, range, ip) ==
  /\ At(i, "stream")
  /\ Admitted(i, ip)
  /\ \E data \in {Data(i)} :
     \E url \in {StreamDestination(page[i].link.to, data)} :
       deed' = IF url = None THEN Deed("missing", None, {}, i, range, ip)
               ELSE Deed("bytes", url, Merged(data.headers, range), i, range, ip)
  /\ UNCHANGED <<server, gwNow, page, registered>>

(* proxy_forward *)
Forward(i, ip) ==
  /\ At(i, "forward")
  /\ Admitted(i, ip)
  /\ \E data \in {Data(i)} :
       deed' = IF data.d = None THEN Deed("missing", None, {}, i, None, ip)
               ELSE IF ~Allowed(data.d.of.dir) THEN Deed("refused", None, {}, i, None, ip)
               ELSE Deed("forward", Substituted(data.d.of),
                         {h \in data.headers : h[1] \notin Dropped}, i, None, ip)
  /\ UNCHANGED <<server, gwNow, page, registered>>

(* The player goes to the origin itself. *)
GoDirectly(i, range, ip) ==
  /\ i \in DOMAIN page
  /\ page[i].link.kind = "direct"
  /\ deed' = Deed("direct", page[i].link.url, {}, i, range, ip)
  /\ UNCHANGED <<server, gwNow, page, registered>>

(* The player starts again. *)
Leave ==
  /\ page # <<>>
  /\ page' = <<>>
  /\ registered' = None
  /\ deed' = None
  /\ UNCHANGED <<server, gwNow>>

Pass ==
  /\ gwNow < MaxClock
  /\ gwNow' = gwNow + 1
  /\ UNCHANGED <<server, page, registered, deed>>

MaxEntries == 8   \* bound: entries of a playlist

GatewayNext ==
  \/ Generate
  \/ Type
  \/ \E i \in 1 .. MaxEntries, ip \in Client :
       \/ Reject(i, ip)
       \/ ServeManifest(i, ip)
       \/ Forward(i, ip)
       \/ \E range \in Ranges :
            \/ ServeSegment(i, range, ip)
            \/ ServeStream(i, range, ip)
            \/ GoDirectly(i, range, ip)
  \/ Leave
  \/ Pass

GatewaySpec == GatewayInit /\ [][GatewayNext]_gwVars

-----------------------------------------------------------------------------
(* Whatever links a player follows, from a generated or typed link through  *)
(* playlists of any form, redirected or not, the upstream is asked for what *)
(* the origin's playlist refers to, with the headers the first link was     *)
(* made with, and the answer is handled as what it is: a playlist is        *)
(* rewritten again, a segment, key or init segment is passed on.            *)
LinksLead ==
  deed # None /\ deed.way \in {"playlist", "bytes", "forward", "direct"} =>
    /\ deed.url = deed.want.url
    /\ deed.way # "direct" => /\ deed.way = deed.want.way
                              /\ Lasting(deed.headers) = deed.want.headers

(* A link is accepted for exactly as long and from where it was made for,   *)
(* and a link in a playlist always: a player that was let in at the start   *)
(* is not shut out of the rest of the stream.                               *)
GrantHonoured ==
  deed # None =>
    (deed.way = "rejected" <=> \/ deed.want.until # None /\ deed.at > deed.want.until
                               \/ deed.want.ip # None /\ deed.ip # deed.want.ip)

(* What a playlist registers for prefetching is what its player will ask    *)
(* for: each registered URL has a link whose request, when it has come      *)
(* through the middleware, names the registered playlist, the URL, and the  *)
(* headers it is cached under.                                              *)
PrefetchIsAskedFor ==
  registered # None /\ page # <<>> =>
    \A url \in registered.urls, ip \in Client : \E i \in DOMAIN page :
      /\ At(i, "segment")
      /\ Admitted(i, ip)
      /\ Data(i).playlist = registered.playlist
      /\ Data(i).d.of = url
      /\ Data(i).headers = registered.headers

(* Comment in build_proxy_url: headers of single requests are skipped, as   *)
(* "baking them into the URL would override the player's actual seek        *)
(* headers on playback".  So a player's Range is the one upstream sees.     *)
SeekHeadersReach ==
  deed # None /\ deed.way = "bytes" /\ deed.range # None =>
    <<"range", deed.range>> \in deed.headers

=============================================================================
