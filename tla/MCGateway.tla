------------------------------- MODULE MCGateway -------------------------------
(* An origin with playlists of every form, and the links clients ask for.   *)
EXTENDS Gateway, TLC

Url(dir, name, list) == [dir |-> dir, name |-> name, list |-> list]
Rel(name, list)      == [abs |-> FALSE, dir |-> None, name |-> name, list |-> list]
Abs(dir, name, list) == [abs |-> TRUE, dir |-> dir, name |-> name, list |-> list]
Entry(tag, uri)      == [tag |-> tag, uri |-> uri]

MCServer == {[password |-> None, publicIp |-> None], [password |-> "secret", publicIp |-> "1.2.3.4"]}

(* Two playlists are on another host than they are asked for on. *)
MCMoved(url) == IF url.name \in {"master", "video"} THEN [url EXCEPT !.dir = "edge"] ELSE url

MasterList == <<Entry("variant", Rel("video", TRUE)), Entry("variant", Rel("video", FALSE)),
            Entry("media", Rel("iptv", TRUE)),
            Entry("variant", Abs("cdn", "odd", TRUE)), Entry("tag", Rel("data", FALSE))>>
VideoList == <<Entry("key", Abs("keys", "k", FALSE)), Entry("map", Rel("init", FALSE)),
            Entry("segment", Rel("s1", FALSE)), Entry("segment", Abs("cdn", "s2", FALSE)),
            Entry("segment", Rel("iptv", TRUE)), Entry("media", Rel("iptv", TRUE)),
            Entry("iframe", Rel("odd", TRUE)), Entry("tag", Rel("license", FALSE))>>
IptvList == <<Entry("segment", Rel("s1", FALSE)), Entry("key", Rel("k", FALSE)),
            Entry("segment", Rel("odd", TRUE)), Entry("segment", Abs("cdn", "s2", FALSE))>>
OddList == <<Entry("variant", Rel("video", TRUE)), Entry("bare", Rel("s1", FALSE)),
            Entry("map", Rel("init", FALSE)), Entry("segment", Rel("s3", FALSE)),
            Entry("media", Rel("iptv", TRUE)), Entry("key", Rel("k", FALSE))>>

MCContent ==
  LET Named(name) == {Url(dir, name, list) : dir \in {"cdn", "edge"}, list \in BOOLEAN}
  IN  [url \in Named("master") |-> [form |-> "master", entries |-> MasterList]]
      @@ [url \in Named("video") |-> [form |-> "media", entries |-> VideoList]]
      @@ [url \in Named("iptv") |-> [form |-> "iptv", entries |-> IptvList]]
      @@ [url \in Named("odd") |-> [form |-> "odd", entries |-> OddList]]

Referer == <<"referer", "site">>
PlainUrl(url)  == [base64 |-> FALSE, of |-> url]
CodedUrl(url)  == [base64 |-> TRUE, of |-> url]
Link(endpoint, d, headers) ==
  [endpoint |-> endpoint, d |-> d, headers |-> headers, file |-> None, playlist |-> None,
   opts |-> {}, expiration |-> None, ip |-> None, base64 |-> FALSE]

MCGenerated ==
  {Link("manifest", PlainUrl(Url("cdn", "master", TRUE)), {Referer}),
   [Link("manifest", PlainUrl(Url("cdn", "video", TRUE)), {Referer, <<"range", "0-">>})
      EXCEPT !.expiration = 1],
   [Link("stream", PlainUrl(Url("cdn", "film", FALSE)), {<<"range", "0-">>})
      EXCEPT !.ip = "home", !.base64 = TRUE],
   [Link("stream", PlainUrl(Url("cdn", "film", FALSE)), {Referer})
      EXCEPT !.expiration = 0, !.file = [base64 |-> FALSE, of |-> None]],
   Link("forward", PlainUrl(Url("debrid", "placeholder", FALSE)), {Referer, <<"host", "x">>}),
   Link("forward", PlainUrl(Url("localhost", "api", FALSE)), {})}
MCTyped ==
  {[Link("manifest", PlainUrl(Url("cdn", "master", TRUE)), {Referer}) EXCEPT !.opts = {"no_proxy"}],
   Link("stream", CodedUrl(Url("cdn", "film", FALSE)), {Referer}),
   Link("stream", None, {}),
   Link("forward", CodedUrl(Url("debrid", "api", FALSE)), {})}
MCFlags == {{}, {"no_proxy"}, {"key_only_proxy"}, {"force_playlist_proxy"}}
MCAllowed(host) == host \notin {"localhost"}

=============================================================================
