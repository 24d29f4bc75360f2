------------------------------ MODULE HlsManifest ------------------------------
(***************************************************************************)
(* Rewriting of HLS playlists (src/hls/manifest.rs).                        *)
(*                                                                         *)
(* A URL is [dir, name, list]: the host and directory, the name, and        *)
(* whether its extension says it is a playlist.  A URI of a playlist also   *)
(* has abs; the dir of a relative one does not count.  A playlist is        *)
(*   form     "master" or "media", "iptv" (a media playlist with tvg        *)
(*            attributes), "odd" (m3u8-rs cannot parse it), or "other"      *)
(*   entries  [tag, uri]: what m3u8-rs makes of a URI, "variant" (also      *)
(*            alternatives and I-frame variants), "key", "map", "segment",  *)
(*            or the tag it does not know, "media" or "iframe" (X-MEDIA,    *)
(*            X-I-FRAME-STREAM-INF) or "tag" (any other); in an odd         *)
(*            playlist "bare" is a URI without #EXTINF                      *)
(* The parameters of a rewriter are [password, headers, playlist, opts].    *)
(* Skip ranges are left out, no handler passes any; so is what is not about *)
(* URIs.                                                                    *)
(***************************************************************************)
EXTENDS ProxyLinks

(* Playlists in which the tag and the extension of a URI tell what it is:   *)
(* the line by line rewriting takes a variant without a playlist extension  *)
(* for a segment, and the I-frame playlist of a tag for a key.              *)
PlainPlaylist(content) ==
  \A i \in DOMAIN content.entries :
    LET entry == content.entries[i]
    IN  /\ content.form = "media" =>
             entry.tag \in {"segment", "map", "key", "tag", "media", "iframe"}
        /\ content.form \notin {"master", "media"} =>
             \/ entry.tag \in {"segment", "bare", "map", "key", "tag", "media"}
             \/ entry.tag = "variant" /\ entry.uri.list

(* resolve_url *)
Resolve(base, uri) ==
  [dir |-> IF uri.abs THEN uri.dir ELSE base.dir, name |-> uri.name, list |-> uri.list]

-----------------------------------------------------------------------------
(* What is written in place of a URI: a link [kind, url, to], directly to   *)
(* the origin, to a request of the proxy, or as it was.                     *)

Direct(url)   == [kind |-> "direct", url |-> url, to |-> None]
Verbatim(uri) == [kind |-> "verbatim", url |-> uri, to |-> None]

Linked(endpoint, url, playlist, params) ==
  [kind |-> "proxied", url |-> url,
   to |-> BuildUrl([endpoint |-> endpoint, d |-> [base64 |-> FALSE, of |-> url], file |-> None,
                    headers |-> params.headers, playlist |-> playlist, opts |-> {},
                    expiration |-> None, ip |-> None, base64 |-> FALSE], params.password, 0)]

(* proxy_manifest_url, proxy_segment_url, proxy_key_url *)
ManifestUrl(url, params) == Linked("manifest", url, None, params)
SegmentUrl(url, params)  == Linked("segment", url, params.playlist, params)
KeyUrl(url, params)      == Linked("segment", url, None, params)

Unless(opt, params, url, link) == IF opt \in params.opts THEN Direct(url) ELSE link

(* rewrite_segment_or_playlist_uri *)
RewriteSegment(url, params) ==
  IF params.opts \cap {"no_proxy", "key_only_proxy"} # {} THEN Direct(url)
  ELSE IF url.list \/ "force_playlist_proxy" \in params.opts THEN ManifestUrl(url, params)
  ELSE SegmentUrl(url, params)

(* process_master: without a proxy an X-MEDIA that m3u8-rs does not know is *)
(* not even made absolute.                                                  *)
RewriteMaster(entry, url, params) ==
  IF "no_proxy" \in params.opts /\ entry.tag = "media" THEN Verbatim(entry.uri)
  ELSE IF entry.tag \in {"variant", "media"}
       THEN Unless("no_proxy", params, url, ManifestUrl(url, params))
  ELSE Verbatim(entry.uri)

(* Mutant: every unknown tag is one of a key. *)
RewriteMediaAsKey(entry, url, params) ==
  IF entry.tag = "segment" THEN RewriteSegment(url, params)
  ELSE Unless("no_proxy", params, url,
              IF entry.tag = "map" THEN SegmentUrl(url, params) ELSE KeyUrl(url, params))

(* process_media *)
RewriteMedia(entry, url, params) ==
  IF entry.tag = "segment" THEN RewriteSegment(url, params)
  ELSE Unless("no_proxy", params, url,
              IF entry.tag = "map" THEN SegmentUrl(url, params)
              ELSE IF entry.tag \in {"media", "iframe"} THEN ManifestUrl(url, params)
              ELSE KeyUrl(url, params))

(* process_lines and process_tag_with_uri *)
RewriteLine(entry, url, params) ==
  IF entry.tag \in {"segment", "bare", "variant"} THEN RewriteSegment(url, params)
  ELSE Unless("no_proxy", params, url,
              IF entry.tag = "map" THEN SegmentUrl(url, params)
              ELSE IF entry.tag = "media" THEN ManifestUrl(url, params)
              ELSE KeyUrl(url, params))

(* ManifestProcessor::process: the link in place of each entry's URI. *)
Process(content, base, params) ==
  [i \in DOMAIN content.entries |->
     LET entry == content.entries[i]
         url   == Resolve(base, entry.uri)
     IN  IF content.form = "master" THEN RewriteMaster(entry, url, params)
         ELSE IF content.form = "media" THEN RewriteMedia(entry, url, params)
         ELSE RewriteLine(entry, url, params)]

(* media_segment_urls and the take of the handler: the first limit media    *)
(* segments that are not playlists themselves.                              *)
MediaSegmentUrls(content, base, limit) ==
  LET listed == {i \in DOMAIN content.entries :
                   content.entries[i].tag = "segment" /\ ~content.entries[i].uri.list}
      first  == {i \in listed : Cardinality({k \in listed : k <= i}) <= limit}
  IN  IF content.form \in {"media", "iptv", "odd"}
      THEN {Resolve(base, content.entries[i].uri) : i \in first} ELSE {}

=============================================================================
