--------------------------- MODULE Handlers_proofs ---------------------------
(***************************************************************************)
(* Proofs about the handlers a player and its user go through.  Gateway:    *)
(* links, for any playlists and redirects of an origin.  TelegramLogin, for *)
(* any number of logins and requests.  XtreamCodes, for any provider and    *)
(* any answers of its API.                                                  *)
(***************************************************************************)
EXTENDS Gateway, TelegramLogin, XtreamCodes, TLAPS

-----------------------------------------------------------------------------
(* The links of a page                                                      *)

(* What the link of an entry of the page leads to is what is wanted. *)
Leads(e) ==
  /\ e.link.kind = "direct" => e.link.url = e.want.url
  /\ e.link.kind = "proxied" =>
       LET to == e.link.to
           data == Parameters(to)
       IN  /\ to.endpoint \in {"manifest", "segment"} => data.d.of = e.want.url
           /\ to.endpoint = "stream" /\ StreamDestination(to, data) # None =>
                StreamDestination(to, data) = e.want.url
           /\ to.endpoint = "forward" /\ data.d # None => Substituted(data.d.of) = e.want.url
           /\ to.endpoint \in {"manifest", "segment", "stream", "forward"} =>
                /\ e.want.way = WayOf(to.endpoint)
                /\ to.endpoint # "forward" => Lasting(data.headers) = e.want.headers
                /\ to.endpoint = "forward" =>
                     Lasting({h \in data.headers : h[1] \notin Dropped}) = e.want.headers
           /\ server.password = None => \A h \in data.headers : ~PerRequest(h)

(* What a link grants is what is wanted. *)
Grants(e) ==
  /\ e.want.until \in Nat \cup {None}
  /\ e.link.kind # "proxied" => e.want.until = None /\ e.want.ip = None
  /\ e.link.kind = "proxied" =>
       LET to == e.link.to
       IN  /\ server.password = None =>
                to.tokenIn = "nowhere" /\ e.want.until = None /\ e.want.ip = None
           /\ server.password # None /\ to.tokenIn = "nowhere" =>
                /\ to.query.password = server.password
                /\ e.want.until = None /\ e.want.ip = None
           /\ server.password # None /\ to.tokenIn # "nowhere" =>
                /\ to.token.key = server.password
                /\ to.token.exp = e.want.until /\ to.token.ip = e.want.ip

(* A link by which a registered URL is asked for, at any time from anywhere. *)
Asks(e, url) ==
  /\ e.link.kind = "proxied"
  /\ e.link.to.endpoint = "segment"
  /\ server.password = None => e.link.to.tokenIn = "nowhere"
  /\ server.password # None =>
       e.link.to.tokenIn # "nowhere" /\ e.link.to.token.key = server.password
       /\ e.link.to.token.exp = None /\ e.link.to.token.ip = None
  /\ Parameters(e.link.to).playlist = registered.playlist
  /\ Parameters(e.link.to).d.of = url
  /\ Parameters(e.link.to).headers = registered.headers

PageOK == \A i \in DOMAIN page : Leads(page[i]) /\ Grants(page[i])

RegisteredOK ==
  registered # None =>
    /\ page # <<>>
    /\ \A url \in registered.urls : \E i \in DOMAIN page : Asks(page[i], url)

GatewayInv ==
  /\ gwNow \in Nat
  /\ PageOK
  /\ RegisteredOK
  /\ LinksLead
  /\ GrantHonoured

-----------------------------------------------------------------------------
(* The links of a playlist are of three kinds, and those to the proxy lead  *)
(* to the endpoint that their purpose asks for.                             *)
LEMMA LinkKinds ==
  ASSUME NEW content, PlainPlaylist(content), NEW base, NEW params,
         NEW i \in DOMAIN content.entries
  PROVE  LET l == Process(content, base, params)[i]
             entry == content.entries[i]
             url == Resolve(base, entry.uri)
         IN  \/ l = Verbatim(entry.uri)
             \/ l = Direct(url)
             \/ l = ManifestUrl(url, params) /\ Purpose(entry, params.opts) = "playlist"
             \/ l = SegmentUrl(url, params) /\ Purpose(entry, params.opts) = "bytes"
             \/ l = KeyUrl(url, params) /\ Purpose(entry, params.opts) = "bytes"
<1> DEFINE entry == content.entries[i]
           url == Resolve(base, entry.uri)
           l == Process(content, base, params)[i]
<1>1. l = IF content.form = "master" THEN RewriteMaster(entry, url, params)
          ELSE IF content.form = "media" THEN RewriteMedia(entry, url, params)
          ELSE RewriteLine(entry, url, params)
  BY DEF Process
<1>2. url.list = entry.uri.list
  BY DEF Resolve
<1> SUFFICES \/ l = Verbatim(entry.uri)
             \/ l = Direct(url)
             \/ l = ManifestUrl(url, params) /\ Purpose(entry, params.opts) = "playlist"
             \/ l = SegmentUrl(url, params) /\ Purpose(entry, params.opts) = "bytes"
             \/ l = KeyUrl(url, params) /\ Purpose(entry, params.opts) = "bytes"
  OBVIOUS
<1> HIDE DEF l, url, entry
<1>3. CASE content.form = "master"
  BY <1>1, <1>2, <1>3 DEF RewriteMaster, Unless, Purpose
<1>4. CASE content.form = "media"
  <2>1. entry.tag \in {"segment", "map", "key", "tag", "media", "iframe"}
    BY <1>4 DEF PlainPlaylist, entry
  <2>2. CASE entry.tag = "segment"
    BY <1>1, <1>2, <1>4, <2>2 DEF RewriteMedia, RewriteSegment, Purpose
  <2>3. CASE entry.tag # "segment"
    BY <1>1, <1>2, <1>4, <2>1, <2>3 DEF RewriteMedia, Unless, Purpose
  <2> QED BY <2>2, <2>3
<1>5. CASE content.form \notin {"master", "media"}
  <2>1. \/ entry.tag \in {"segment", "bare", "map", "key", "tag", "media"}
        \/ entry.tag = "variant" /\ entry.uri.list
    BY <1>5 DEF PlainPlaylist, entry
  <2>2. CASE entry.tag \in {"segment", "bare", "variant"}
    BY <1>1, <1>2, <1>5, <2>1, <2>2 DEF RewriteLine, RewriteSegment, Purpose
  <2>3. CASE entry.tag \notin {"segment", "bare", "variant"}
    BY <1>1, <1>2, <1>5, <2>1, <2>3 DEF RewriteLine, Unless, Purpose
  <2> QED BY <2>2, <2>3
<1> QED BY <1>3, <1>4, <1>5

(* What the middleware and the handlers make of a link of a playlist. *)
LEMMA LinkedParameters ==
  ASSUME NEW endpoint, NEW url, NEW playlist, NEW params
  PROVE  LET l == Linked(endpoint, url, playlist, params)
         IN  /\ l.kind = "proxied"
             /\ l.to.endpoint = endpoint
             /\ Parameters(l.to).d.of = url
             /\ Parameters(l.to).playlist = playlist
             /\ Parameters(l.to).headers =
                  IF params.password # None THEN params.headers
                  ELSE {h \in params.headers : ~PerRequest(h)}
             /\ params.password = None => l.to.tokenIn = "nowhere"
             /\ params.password # None =>
                  /\ l.to.tokenIn = "path"
                  /\ l.to.token.key = params.password
                  /\ l.to.token.exp = None
                  /\ l.to.token.ip = None
<1>1. CASE params.password = None
  BY <1>1 DEF Linked, BuildUrl, Parameters, FromQuery
<1>2. CASE params.password # None
  BY <1>2 DEF Linked, BuildUrl, TokenOf, Parameters, FromToken, NoQuery
<1> QED BY <1>1, <1>2

-----------------------------------------------------------------------------
(* Headers of single requests come and go; what lasts stays. *)
LEMMA LastingMerged ==
  ASSUME NEW headers, NEW range
  PROVE  Lasting(Merged(headers, range)) = Lasting(headers)
BY DEF Lasting, Merged, PerRequest

LEMMA LastingLasting ==
  ASSUME NEW headers
  PROVE  Lasting({h \in headers : ~PerRequest(h)}) = Lasting(headers)
BY DEF Lasting

(* A request is let through exactly if its link grants it. *)
LEMMA GrantsAdmit ==
  ASSUME NEW i \in DOMAIN page, Grants(page[i]), page[i].link.kind = "proxied",
         NEW ip, gwNow \in Nat
  PROVE  Admitted(i, ip) <=>
           /\ page[i].want.until # None => gwNow <= page[i].want.until
           /\ page[i].want.ip # None => ip = page[i].want.ip
BY DEF Admitted, Admits, Opens, Grants

(* A step after which only deed is another keeps the rest. *)
LEMMA DeedOnly ==
  ASSUME gwNow \in Nat, PageOK, RegisteredOK, UNCHANGED <<server, gwNow, page, registered>>
  PROVE  gwNow' \in Nat /\ PageOK' /\ RegisteredOK'
<1>1. gwNow' \in Nat
  OBVIOUS
<1>2. PageOK'
  BY DEF PageOK, Leads, Grants, Substituted
<1>3. RegisteredOK'
  BY DEF RegisteredOK, Asks
<1> QED BY <1>1, <1>2, <1>3

LEMMA GatewayInitially == GatewayInit => GatewayInv
BY DEF GatewayInit, GatewayInv, PageOK, RegisteredOK, LinksLead, GrantHonoured

-----------------------------------------------------------------------------
(* Steps that follow a link and leave the page alone. *)

LEMMA RejectKeeps ==
  ASSUME GatewayInv, NEW i, NEW ip, Reject(i, ip)
  PROVE  GatewayInv'
<1>1. gwNow' \in Nat /\ PageOK' /\ RegisteredOK'
  BY DeedOnly DEF GatewayInv, Reject
<1>2. LinksLead'
  BY DEF LinksLead, Reject, Deed
<1>3. GrantHonoured'
  <2>1. /\ page[i].link.kind = "proxied" /\ Grants(page[i]) /\ gwNow \in Nat
        /\ i \in DOMAIN page /\ ~Admitted(i, ip)
    BY DEF GatewayInv, PageOK, Reject
  <2>2. page[i].want.until \in Nat \cup {None}
    BY <2>1 DEF Grants
  <2>3. \/ page[i].want.until # None /\ gwNow > page[i].want.until
        \/ page[i].want.ip # None /\ ip # page[i].want.ip
    BY <2>1, <2>2, GrantsAdmit
  <2>4. deed' = Deed("rejected", None, {}, i, None, ip)
    BY DEF Reject
  <2> QED BY <2>3, <2>4 DEF GrantHonoured, Deed
<1> QED BY <1>1, <1>2, <1>3 DEF GatewayInv

(* An admitted request does what its link grants. *)
LEMMA AdmittedHonoured ==
  ASSUME GatewayInv, NEW i \in DOMAIN page, page[i].link.kind = "proxied", NEW ip,
         Admitted(i, ip), NEW way, way # "rejected", NEW url, NEW headers, NEW range,
         deed' = Deed(way, url, headers, i, range, ip)
  PROVE  GrantHonoured'
<1>1. Grants(page[i]) /\ gwNow \in Nat
  BY DEF GatewayInv, PageOK
<1>2. page[i].want.until \in Nat \cup {None}
  BY <1>1 DEF Grants
<1>3. ~ \/ page[i].want.until # None /\ gwNow > page[i].want.until
        \/ page[i].want.ip # None /\ ip # page[i].want.ip
  BY <1>1, <1>2, GrantsAdmit
<1> QED BY <1>3 DEF GrantHonoured, Deed

LEMMA ServeSegmentKeeps ==
  ASSUME GatewayInv, NEW i, NEW range, NEW ip, ServeSegment(i, range, ip)
  PROVE  GatewayInv'
<1>1. gwNow' \in Nat /\ PageOK' /\ RegisteredOK'
  BY DeedOnly DEF GatewayInv, ServeSegment
<1>2. /\ i \in DOMAIN page /\ page[i].link.kind = "proxied"
      /\ page[i].link.to.endpoint = "segment" /\ Admitted(i, ip)
  BY DEF ServeSegment, At
<1>3. PICK headers : /\ deed' = Deed("bytes", Data(i).d.of, headers, i, range, ip)
                     /\ Lasting(headers) = Lasting(Data(i).headers)
  BY LastingMerged DEF ServeSegment, CacheHit
<1>4. /\ Data(i).d.of = page[i].want.url /\ page[i].want.way = "bytes"
      /\ Lasting(Data(i).headers) = page[i].want.headers
  BY <1>2 DEF GatewayInv, PageOK, Leads, Data, WayOf
<1>5. LinksLead'
  BY <1>3, <1>4 DEF LinksLead, Deed
<1>6. GrantHonoured'
  BY <1>2, <1>3, AdmittedHonoured
<1> QED BY <1>1, <1>5, <1>6 DEF GatewayInv

LEMMA ServeStreamKeeps ==
  ASSUME GatewayInv, NEW i, NEW range, NEW ip, ServeStream(i, range, ip)
  PROVE  GatewayInv'
<1> DEFINE url == StreamDestination(page[i].link.to, Data(i))
<1>1. gwNow' \in Nat /\ PageOK' /\ RegisteredOK'
  BY DeedOnly DEF GatewayInv, ServeStream
<1>2. /\ i \in DOMAIN page /\ page[i].link.kind = "proxied"
      /\ page[i].link.to.endpoint = "stream" /\ Admitted(i, ip)
  BY DEF ServeStream, At
<1>3. deed' = IF url = None THEN Deed("missing", None, {}, i, range, ip)
              ELSE Deed("bytes", url, Merged(Data(i).headers, range), i, range, ip)
  BY DEF ServeStream
<1>4. /\ url # None => url = page[i].want.url
      /\ page[i].want.way = "bytes"
      /\ Lasting(Data(i).headers) = page[i].want.headers
  BY <1>2 DEF GatewayInv, PageOK, Leads, Data, WayOf
<1> HIDE DEF url
<1>5. LinksLead'
  BY <1>3, <1>4, LastingMerged DEF LinksLead, Deed
<1>6. GrantHonoured'
  BY <1>2, <1>3, AdmittedHonoured
<1> QED BY <1>1, <1>5, <1>6 DEF GatewayInv

LEMMA ForwardKeeps ==
  ASSUME GatewayInv, NEW i, NEW ip, Forward(i, ip)
  PROVE  GatewayInv'
<1> DEFINE sent == {h \in Data(i).headers : h[1] \notin Dropped}
<1>1. gwNow' \in Nat /\ PageOK' /\ RegisteredOK'
  BY DeedOnly DEF GatewayInv, Forward
<1>2. /\ i \in DOMAIN page /\ page[i].link.kind = "proxied"
      /\ page[i].link.to.endpoint = "forward" /\ Admitted(i, ip)
  BY DEF Forward, At
<1>3. \/ deed' = Deed("missing", None, {}, i, None, ip)
      \/ deed' = Deed("refused", None, {}, i, None, ip)
      \/ /\ Data(i).d # None
         /\ deed' = Deed("forward", Substituted(Data(i).d.of), sent, i, None, ip)
  BY DEF Forward
<1>4. /\ Data(i).d # None => Substituted(Data(i).d.of) = page[i].want.url
      /\ page[i].want.way = "forward"
      /\ Lasting(sent) = page[i].want.headers
  BY <1>2 DEF GatewayInv, PageOK, Leads, Data, WayOf
<1> HIDE DEF sent
<1>5. LinksLead'
  BY <1>3, <1>4 DEF LinksLead, Deed
<1>6. GrantHonoured'
  BY <1>2, <1>3, AdmittedHonoured
<1> QED BY <1>1, <1>5, <1>6 DEF GatewayInv

LEMMA GoDirectlyKeeps ==
  ASSUME GatewayInv, NEW i, NEW range, NEW ip, GoDirectly(i, range, ip)
  PROVE  GatewayInv'
<1>1. gwNow' \in Nat /\ PageOK' /\ RegisteredOK'
  BY DeedOnly DEF GatewayInv, GoDirectly
<1>2. /\ i \in DOMAIN page /\ page[i].link.kind = "direct"
      /\ deed' = Deed("direct", page[i].link.url, {}, i, range, ip)
  BY DEF GoDirectly
<1>3. /\ page[i].link.url = page[i].want.url
      /\ page[i].want.until = None /\ page[i].want.ip = None
  BY <1>2 DEF GatewayInv, PageOK, Leads, Grants
<1>4. LinksLead'
  BY <1>2, <1>3 DEF LinksLead, Deed
<1>5. GrantHonoured'
  BY <1>2, <1>3 DEF GrantHonoured, Deed
<1> QED BY <1>1, <1>4, <1>5 DEF GatewayInv

-----------------------------------------------------------------------------
(* Steps that make a page. *)

(* A generated link leads to what was asked for, as long and from where. *)
LEMMA GenerateKeeps ==
  ASSUME GatewayInv, Generate
  PROVE  GatewayInv'
<1>1. PICK link \in Generated, opts \in Flags :
        \E tokenIn \in IF BuildUrl(link, server.password, gwNow).tokenIn = "nowhere"
                       THEN {"nowhere"} ELSE {"path", "query"} :
          page' = <<[link |-> Proxied([BuildUrl(link, server.password, gwNow)
                                         EXCEPT !.query.opts = opts, !.tokenIn = tokenIn], link),
                     want |-> Wanted(link)]>>
  BY DEF Generate
<1> DEFINE built == BuildUrl(link, server.password, gwNow)
<1>2. PICK tokenIn \in IF built.tokenIn = "nowhere" THEN {"nowhere"} ELSE {"path", "query"} :
        page' = <<[link |-> Proxied([built EXCEPT !.query.opts = opts, !.tokenIn = tokenIn], link),
                   want |-> Wanted(link)]>>
  BY <1>1
<1> DEFINE to == [built EXCEPT !.query.opts = opts, !.tokenIn = tokenIn]
           entry == [link |-> Proxied(to, link), want |-> Wanted(link)]
<1>3. /\ page' = <<entry>> /\ page = <<>> /\ gwNow \in Nat
      /\ UNCHANGED <<server, gwNow, registered, deed>>
  BY <1>2 DEF Generate, GatewayInv
<1>4. registered = None
  BY <1>3 DEF GatewayInv, RegisteredOK
<1>5. link.d # None /\ (link.base64 => link.endpoint = "stream")
      /\ link.expiration \in Nat \cup {None}
  BY GatewayAssumption
<1>6. /\ entry.link.kind = "proxied" /\ entry.link.to = to /\ entry.want = Wanted(link)
      /\ to.endpoint = link.endpoint
  BY DEF Proxied, BuildUrl
<1>7. ASSUME server.password = None PROVE Leads(entry) /\ Grants(entry)
  <2>1. /\ to.tokenIn = "nowhere"
        /\ to.file = IF link.base64 THEN Encoded(link.d.of) ELSE link.file
        /\ to.query.d = IF link.base64 THEN None ELSE link.d
        /\ to.query.headers = {h \in link.headers : ~PerRequest(h)}
    BY <1>7 DEF BuildUrl
  <2>2. /\ Parameters(to).d = IF link.base64 THEN None ELSE link.d
        /\ Parameters(to).headers = {h \in link.headers : ~PerRequest(h)}
    BY <2>1 DEF Parameters, FromQuery
  <2> HIDE DEF to, entry
  <2>3. Grants(entry)
    BY <1>6, <1>7, <2>1 DEF Grants, Wanted
  <2>4. Leads(entry)
    BY <1>5, <1>6, <1>7, <2>1, <2>2, LastingLasting
       DEF Leads, Wanted, WayOf, StreamDestination, Decoded, Encoded, Lasting
  <2> QED BY <2>3, <2>4
<1>8. ASSUME server.password # None PROVE Leads(entry) /\ Grants(entry)
  <2>1. /\ to.tokenIn \in {"path", "query"}
        /\ to.token = TokenOf(link, server.password, gwNow)
    BY <1>8, <1>2 DEF BuildUrl
  <2>2. /\ Parameters(to).d = link.d
        /\ Parameters(to).headers = link.headers
    BY <2>1 DEF Parameters, FromToken, TokenOf
  <2> HIDE DEF to, entry
  <2>3. Grants(entry)
    BY <1>3, <1>5, <1>6, <1>8, <2>1 DEF Grants, Wanted, TokenOf
  <2>4. Leads(entry)
    BY <1>5, <1>6, <1>8, <2>2 DEF Leads, Wanted, WayOf, StreamDestination, Decoded, Lasting
  <2> QED BY <2>3, <2>4
<1>9. Leads(entry) /\ Grants(entry)
  BY <1>7, <1>8
<1> HIDE DEF entry
<1>10. PageOK'
  <2>1. DOMAIN page' = {1} /\ page'[1] = entry
    BY <1>3
  <2> SUFFICES ASSUME NEW k \in DOMAIN page' PROVE (Leads(page[k]) /\ Grants(page[k]))'
    BY DEF PageOK
  <2>2. Leads(page'[k]) /\ Grants(page'[k])
    BY <1>3, <1>9, <2>1
  <2> QED BY <1>3, <2>2 DEF Leads, Grants, Substituted
<1>11. RegisteredOK'
  BY <1>3, <1>4 DEF RegisteredOK
<1> QED BY <1>3, <1>10, <1>11 DEF GatewayInv, LinksLead, GrantHonoured

(* A typed link leads to what it names. *)
LEMMA TypeKeeps ==
  ASSUME GatewayInv, Type
  PROVE  GatewayInv'
<1> DEFINE To(link) == [endpoint |-> link.endpoint, file |-> None, token |-> None,
                        tokenIn |-> "nowhere",
                        query |-> [d |-> link.d, headers |-> link.headers, playlist |-> None,
                                   opts |-> link.opts, password |-> server.password]]
           Typing(link) == [link |-> Proxied(To(link), link),
                            want |-> [Wanted(link) EXCEPT !.until = None, !.ip = None]]
<1>1. PICK link \in Typed : page' = <<Typing(link)>>
  BY DEF Type
<1>2. /\ page = <<>> /\ gwNow \in Nat /\ UNCHANGED <<server, gwNow, registered, deed>>
  BY DEF Type, GatewayInv
<1> DEFINE to == To(link)
           entry == Typing(link)
<1>3. /\ \A h \in link.headers : ~PerRequest(h)
      /\ link.endpoint \in {"manifest", "segment"} => link.d # None
  BY GatewayAssumption
<1>4. /\ entry.link.kind = "proxied" /\ entry.link.to = to
      /\ entry.want.url = Wanted(link).url /\ entry.want.way = Wanted(link).way
      /\ entry.want.headers = Wanted(link).headers
      /\ entry.want.until = None /\ entry.want.ip = None
  BY DEF Proxied, Wanted
<1>5. /\ to.endpoint = link.endpoint /\ to.tokenIn = "nowhere" /\ to.file = None
      /\ to.query.password = server.password
      /\ Parameters(to).d = link.d /\ Parameters(to).headers = link.headers
  BY DEF Parameters, FromQuery
<1> HIDE DEF to, entry
<1>6. Grants(entry)
  BY <1>4, <1>5 DEF Grants
<1>7. Leads(entry)
  BY <1>3, <1>4, <1>5 DEF Leads, Wanted, WayOf, StreamDestination, Decoded, Lasting
<1>8. page' = <<entry>>
  BY <1>1 DEF entry
<1>9. PageOK'
  <2>1. DOMAIN page' = {1} /\ page'[1] = entry
    BY <1>8
  <2> SUFFICES ASSUME NEW k \in DOMAIN page' PROVE (Leads(page[k]) /\ Grants(page[k]))'
    BY DEF PageOK
  <2>2. Leads(page'[k]) /\ Grants(page'[k])
    BY <1>2, <1>6, <1>7, <2>1
  <2> QED BY <1>2, <2>2 DEF Leads, Grants, Substituted
<1>10. RegisteredOK'
  BY <1>2 DEF RegisteredOK, GatewayInv
<1> QED BY <1>2, <1>9, <1>10 DEF GatewayInv, LinksLead, GrantHonoured

-----------------------------------------------------------------------------
(* The links of a playlist lead to what its URIs stand for. *)
LEMMA LinksOfLead ==
  ASSUME NEW content, PlainPlaylist(content), NEW base, NEW params, NEW lasting,
         NEW k \in DOMAIN content.entries,
         params.password = server.password, Lasting(params.headers) = lasting,
         params.password = None => \A h \in params.headers : ~PerRequest(h)
  PROVE  LET e == LinksOf(content, base, params, lasting)[k]
         IN  Leads(e) /\ Grants(e)
<1> DEFINE uri == content.entries[k].uri
           url == Resolve(base, uri)
           way == Purpose(content.entries[k], params.opts)
           e == LinksOf(content, base, params, lasting)[k]
<1> SUFFICES Leads(e) /\ Grants(e)
  OBVIOUS
<1>1. /\ e.link = Process(content, base, params)[k]
      /\ e.want.url = url /\ e.want.way = way /\ e.want.headers = lasting
      /\ e.want.until = None /\ e.want.ip = None
  BY DEF LinksOf
<1>2. \/ e.link = Verbatim(uri)
      \/ e.link = Direct(url)
      \/ e.link = ManifestUrl(url, params) /\ way = "playlist"
      \/ e.link = SegmentUrl(url, params) /\ way = "bytes"
      \/ e.link = KeyUrl(url, params) /\ way = "bytes"
  BY <1>1, LinkKinds
<1> HIDE DEF uri, url, way, e
<1>3. CASE e.link = Verbatim(uri) \/ e.link = Direct(url)
  BY <1>1, <1>3 DEF Leads, Grants, Verbatim, Direct
<1>4. ASSUME NEW endpoint \in {"manifest", "segment"}, NEW playlist,
             e.link = Linked(endpoint, url, playlist, params), way = WayOf(endpoint)
      PROVE  Leads(e) /\ Grants(e)
  <2>1. /\ e.link.kind = "proxied" /\ e.link.to.endpoint = endpoint
        /\ Parameters(e.link.to).d.of = url
        /\ Parameters(e.link.to).headers = IF params.password # None THEN params.headers
                                           ELSE {h \in params.headers : ~PerRequest(h)}
        /\ params.password = None => e.link.to.tokenIn = "nowhere"
        /\ params.password # None =>
             /\ e.link.to.tokenIn = "path" /\ e.link.to.token.key = params.password
             /\ e.link.to.token.exp = None /\ e.link.to.token.ip = None
    <3> DEFINE l == Linked(endpoint, url, playlist, params)
    <3>1. /\ l.kind = "proxied" /\ l.to.endpoint = endpoint
          /\ Parameters(l.to).d.of = url
          /\ Parameters(l.to).headers = IF params.password # None THEN params.headers
                                        ELSE {h \in params.headers : ~PerRequest(h)}
          /\ params.password = None => l.to.tokenIn = "nowhere"
          /\ params.password # None =>
               /\ l.to.tokenIn = "path" /\ l.to.token.key = params.password
               /\ l.to.token.exp = None /\ l.to.token.ip = None
      BY LinkedParameters
    <3>2. e.link = l
      BY <1>4
    <3> HIDE DEF l
    <3> QED BY <3>1, <3>2
  <2>2. Parameters(e.link.to).headers = params.headers
    BY <2>1
  <2>3. Leads(e)
    BY <1>1, <1>4, <2>1, <2>2 DEF Leads
  <2>4. Grants(e)
    BY <1>1, <2>1 DEF Grants
  <2> QED BY <2>3, <2>4
<1>5. CASE e.link = ManifestUrl(url, params) /\ way = "playlist"
  BY <1>4, <1>5 DEF ManifestUrl, WayOf
<1>6. CASE e.link = SegmentUrl(url, params) /\ way = "bytes"
  BY <1>4, <1>6 DEF SegmentUrl, WayOf
<1>7. CASE e.link = KeyUrl(url, params) /\ way = "bytes"
  BY <1>4, <1>7 DEF KeyUrl, WayOf
<1> QED BY <1>2, <1>3, <1>5, <1>6, <1>7

(* What media_segment_urls lists are segments of the playlist. *)
LEMMA RegisteredSegments ==
  ASSUME NEW content, NEW base, NEW limit, NEW url \in MediaSegmentUrls(content, base, limit)
  PROVE  /\ content.form \in {"media", "iptv", "odd"}
         /\ \E k \in DOMAIN content.entries : /\ content.entries[k].tag = "segment"
                                             /\ ~content.entries[k].uri.list
                                             /\ url = Resolve(base, content.entries[k].uri)
<1> DEFINE usual == {i \in DOMAIN content.entries :
                        content.entries[i].tag = "segment" /\ ~content.entries[i].uri.list}
           first == {i \in usual : Cardinality({k \in usual : k <= i}) <= limit}
<1>1. content.form \in {"media", "iptv", "odd"}
  BY DEF MediaSegmentUrls
<1>2. url \in {Resolve(base, content.entries[i].uri) : i \in first}
  BY <1>1 DEF MediaSegmentUrls
<1>3. first \subseteq usual
  OBVIOUS
<1> HIDE DEF first
<1>4. PICK k \in first : url = Resolve(base, content.entries[k].uri)
  BY <1>2
<1> QED BY <1>1, <1>3, <1>4

(* What hls_manifest_handler hands out leads to what the playlist refers    *)
(* to, and what it registers is asked for.                                  *)
LEMMA ServeManifestKeeps ==
  ASSUME GatewayInv, NEW i, NEW ip, ServeManifest(i, ip)
  PROVE  GatewayInv'
<1> DEFINE asked == Data(i).d.of
           effective == Moved(asked)
           content == Fetched(effective)
           params == [password |-> server.password, headers |-> Data(i).headers,
                      playlist |-> PlaylistUrl(asked, effective), opts |-> Data(i).opts]
           lasting == page[i].want.headers
<1>1. /\ i \in DOMAIN page /\ page[i].link.kind = "proxied"
      /\ page[i].link.to.endpoint = "manifest" /\ Admitted(i, ip)
      /\ UNCHANGED <<server, gwNow>> /\ gwNow \in Nat
  BY DEF ServeManifest, At, GatewayInv
<1>2. PICK ok \in BOOLEAN :
        /\ deed' = Deed("playlist", asked, params.headers, i, None, ip)
        /\ page' = IF ok /\ content.form # "other"
                   THEN LinksOf(content, effective, params, lasting) ELSE <<>>
        /\ registered' = IF ok THEN Registration(content, effective, params) ELSE None
  BY DEF ServeManifest
<1>3. /\ params.password = server.password /\ params.headers = Data(i).headers
      /\ params.playlist = effective
  BY DEF PlaylistUrl
<1>4. /\ asked = page[i].want.url /\ page[i].want.way = "playlist"
      /\ Lasting(params.headers) = lasting
      /\ params.password = None => \A h \in params.headers : ~PerRequest(h)
  BY <1>1, <1>3 DEF GatewayInv, PageOK, Leads, Data, WayOf
<1>5. PlainPlaylist(content)
  BY GatewayAssumption DEF Fetched, NoPlaylist, PlainPlaylist
<1> HIDE DEF asked, effective, content, params, lasting
<1>6. LinksLead'
  BY <1>2, <1>4 DEF LinksLead, Deed, lasting
<1>7. GrantHonoured'
  BY <1>1, <1>2, AdmittedHonoured
<1>8. PageOK'
  <2> SUFFICES ASSUME NEW k \in DOMAIN page' PROVE (Leads(page[k]) /\ Grants(page[k]))'
    BY DEF PageOK
  <2>1. page' = LinksOf(content, effective, params, lasting) /\ k \in DOMAIN content.entries
    BY <1>2 DEF LinksOf
  <2>2. Leads(page'[k]) /\ Grants(page'[k])
    BY <1>3, <1>4, <1>5, <2>1, LinksOfLead
  <2> QED BY <1>1, <2>2 DEF Leads, Grants, Substituted
<1>9. RegisteredOK'
  <2> SUFFICES ASSUME registered' # None
               PROVE  /\ page' # <<>>
                      /\ \A url \in registered'.urls : \E k \in DOMAIN page' : Asks(page[k], url)'
    BY DEF RegisteredOK
  <2>1. ok /\ registered' = Registration(content, effective, params)
    BY <1>2
  <2>2. /\ MediaSegmentUrls(content, effective, Prefetch) # {}
        /\ params.opts \cap {"no_proxy", "key_only_proxy", "force_playlist_proxy"} = {}
        /\ registered'.playlist = effective /\ registered'.headers = params.headers
        /\ registered'.urls = MediaSegmentUrls(content, effective, Prefetch)
    BY <2>1 DEF Registration
  <2>3. content.form \in {"media", "iptv", "odd"}
    BY <2>2 DEF MediaSegmentUrls
  <2>4. page' = LinksOf(content, effective, params, lasting)
    BY <1>2, <2>1, <2>3
  <2>5. ASSUME NEW url \in registered'.urls
        PROVE  \E k \in DOMAIN page' : Asks(page[k], url)'
    <3>1. PICK k \in DOMAIN content.entries : /\ content.entries[k].tag = "segment"
                                              /\ ~content.entries[k].uri.list
                                              /\ url = Resolve(effective, content.entries[k].uri)
      <4>1. url \in MediaSegmentUrls(content, effective, Prefetch)
        BY <2>2, <2>5
      <4> QED BY <4>1, RegisteredSegments
    <3>2. Process(content, effective, params)[k] = SegmentUrl(url, params)
      BY <2>2, <2>3, <3>1 DEF Process, RewriteMedia, RewriteLine, RewriteSegment, Resolve
    <3>3. k \in DOMAIN page' /\ page'[k].link = Linked("segment", url, effective, params)
      BY <1>3, <2>4, <3>2 DEF LinksOf, SegmentUrl
    <3> DEFINE l == page'[k].link
               made == Linked("segment", url, effective, params)
    <3>4. /\ made.kind = "proxied" /\ made.to.endpoint = "segment"
          /\ Parameters(made.to).d.of = url /\ Parameters(made.to).playlist = effective
          /\ Parameters(made.to).headers = IF params.password # None THEN params.headers
                                           ELSE {h \in params.headers : ~PerRequest(h)}
          /\ params.password = None => made.to.tokenIn = "nowhere"
          /\ params.password # None =>
               /\ made.to.tokenIn = "path" /\ made.to.token.key = params.password
               /\ made.to.token.exp = None /\ made.to.token.ip = None
      BY LinkedParameters
    <3>5. Parameters(made.to).headers = params.headers
      BY <1>4, <3>4
    <3>6. l = made
      BY <3>3
    <3> HIDE DEF l, made
    <3>7. Asks(page[k], url)'
      BY <1>1, <1>3, <2>2, <3>4, <3>5, <3>6 DEF Asks, l
    <3> QED BY <3>3, <3>7
  <2>6. page' # <<>>
    BY <2>2, <2>5
  <2> QED BY <2>5, <2>6
<1> QED BY <1>1, <1>6, <1>7, <1>8, <1>9 DEF GatewayInv

LEMMA LeaveKeeps ==
  ASSUME GatewayInv, Leave
  PROVE  GatewayInv'
BY DEF GatewayInv, Leave, PageOK, RegisteredOK, LinksLead, GrantHonoured

LEMMA PassKeeps ==
  ASSUME GatewayInv, Pass
  PROVE  GatewayInv'
<1>1. gwNow' \in Nat /\ UNCHANGED <<server, page, registered, deed>>
  BY DEF GatewayInv, Pass
<1>2. PageOK'
  BY <1>1 DEF GatewayInv, PageOK, Leads, Grants, Substituted
<1>3. RegisteredOK'
  BY <1>1 DEF GatewayInv, RegisteredOK, Asks
<1> QED BY <1>1, <1>2, <1>3 DEF GatewayInv, LinksLead, GrantHonoured

LEMMA UnchangedKeeps ==
  ASSUME GatewayInv, UNCHANGED gwVars
  PROVE  GatewayInv'
<1>1. gwNow' \in Nat /\ PageOK' /\ RegisteredOK'
  BY DeedOnly DEF GatewayInv, gwVars
<1> QED BY <1>1 DEF GatewayInv, gwVars, LinksLead, GrantHonoured

(* GatewayInv is inductive. *)
THEOREM GatewayInvariant == GatewaySpec => []GatewayInv
<1>1. GatewayInit => GatewayInv
  BY GatewayInitially
<1>2. GatewayInv /\ [GatewayNext]_gwVars => GatewayInv'
  <2> SUFFICES ASSUME GatewayInv, [GatewayNext]_gwVars PROVE GatewayInv'
    OBVIOUS
  <2>1. CASE Generate
    BY <2>1, GenerateKeeps
  <2>2. CASE Type
    BY <2>2, TypeKeeps
  <2>3. ASSUME NEW i \in 1 .. MaxEntries, NEW ip \in Client, Reject(i, ip) PROVE GatewayInv'
    BY <2>3, RejectKeeps
  <2>4. ASSUME NEW i \in 1 .. MaxEntries, NEW ip \in Client, ServeManifest(i, ip)
        PROVE  GatewayInv'
    BY <2>4, ServeManifestKeeps
  <2>5. ASSUME NEW i \in 1 .. MaxEntries, NEW ip \in Client, Forward(i, ip) PROVE GatewayInv'
    BY <2>5, ForwardKeeps
  <2>6. ASSUME NEW i \in 1 .. MaxEntries, NEW ip \in Client, NEW range \in Ranges,
               ServeSegment(i, range, ip)
        PROVE  GatewayInv'
    BY <2>6, ServeSegmentKeeps
  <2>7. ASSUME NEW i \in 1 .. MaxEntries, NEW ip \in Client, NEW range \in Ranges,
               ServeStream(i, range, ip)
        PROVE  GatewayInv'
    BY <2>7, ServeStreamKeeps
  <2>8. ASSUME NEW i \in 1 .. MaxEntries, NEW ip \in Client, NEW range \in Ranges,
               GoDirectly(i, range, ip)
        PROVE  GatewayInv'
    BY <2>8, GoDirectlyKeeps
  <2>9. CASE Leave
    BY <2>9, LeaveKeeps
  <2>10. CASE Pass
    BY <2>10, PassKeeps
  <2>11. CASE UNCHANGED gwVars
    BY <2>11, UnchangedKeeps
  <2> QED
    BY <2>1, <2>2, <2>3, <2>4, <2>5, <2>6, <2>7, <2>8, <2>9, <2>10, <2>11 DEF GatewayNext
<1> QED BY <1>1, <1>2, PTL DEF GatewaySpec

(* Links lead where they should, whatever the origin refers and redirects   *)
(* to: the handlers of HLS playlists, segments, streams and forwarded       *)
(* requests, and the links that the rewriting of playlists makes.           *)
THEOREM LinksStayRight == GatewaySpec => []LinksLead
<1>1. GatewayInv => LinksLead
  BY DEF GatewayInv
<1> QED BY <1>1, GatewayInvariant, PTL

(* The middleware honours what a link was made for, and nothing else. *)
THEOREM GrantsStayHonoured == GatewaySpec => []GrantHonoured
<1>1. GatewayInv => GrantHonoured
  BY DEF GatewayInv
<1> QED BY <1>1, GatewayInvariant, PTL

(* Whatever hls_manifest_handler registers has a link that asks for it. *)
THEOREM PrefetchStaysAskedFor == GatewaySpec => []PrefetchIsAskedFor
<1>1. GatewayInv => PrefetchIsAskedFor
  <2> SUFFICES ASSUME GatewayInv, registered # None,
                      NEW url \in registered.urls, NEW ip \in Client
               PROVE  \E i \in DOMAIN page :
                        /\ At(i, "segment") /\ Admitted(i, ip)
                        /\ Data(i).playlist = registered.playlist
                        /\ Data(i).d.of = url /\ Data(i).headers = registered.headers
    BY DEF PrefetchIsAskedFor
  <2>1. PICK i \in DOMAIN page : Asks(page[i], url)
    BY DEF GatewayInv, RegisteredOK
  <2>2. At(i, "segment") /\ Admitted(i, ip)
    BY <2>1 DEF Asks, At, Admitted, Admits, Opens
  <2> QED BY <2>1, <2>2 DEF Asks, Data
<1> QED BY <1>1, GatewayInvariant, PTL

-----------------------------------------------------------------------------
(* The login wizard of Telegram                                             *)

(* A login that waits, in the map or with a request that may put it back. *)
Pending == [code : BOOLEAN, challenge : BOOLEAN, created : Nat]

(* What requests await.  Only a request that checks a code puts back what   *)
(* it took, and it took a login with a code and no challenge.               *)
CallShape ==
  \A c \in Call :
    \/ call[c] = Idle
    \/ /\ call[c].step \in {"code", "verify", "password"}
       /\ call[c].id \in Login
       /\ call[c].step = "verify" => /\ call[c].held \in Pending
                                     /\ call[c].held.code /\ ~call[c].held.challenge

(* A login in the map has exactly one way on, the code or the password: the *)
(* hint of session_verify_handler to submit the password can be followed.   *)
OneWayOn ==
  \A id \in Login : pending[id] # None => (pending[id].code <=> ~pending[id].challenge)

LoginInv ==
  /\ loginNow \in Nat
  /\ pending \in [Login -> Pending \cup {None}]
  /\ call = [c \in Call |-> call[c]]
  /\ CallShape
  /\ LoginInOnePlace
  /\ OneWayOn

-----------------------------------------------------------------------------
(* At first no login is anywhere. *)
LEMMA LoginInitially == ASSUME LoginInit PROVE LoginInv
<1>1. \A id \in Login : Holders(id) = {}
  BY LoginAssumption DEF LoginInit, Holders, Idle
<1>2. LoginInOnePlace
  BY <1>1 DEF LoginInit, LoginInOnePlace
<1> QED BY <1>2 DEF LoginInit, LoginInv, CallShape, OneWayOn

(* Who works on a login after a request returned: whoever else did. *)
LEMMA HoldersAfterReturn ==
  ASSUME LoginInv, NEW c \in Call, Returns(c), NEW id \in Login
  PROVE  Holders(id)' = Holders(id) \ {c}
BY LoginAssumption DEF LoginInv, Returns, Holders, Idle

(* A request that took up a login works on that one only. *)
LEMMA HoldersAfterAwait ==
  ASSUME LoginInv, NEW c \in Call, call[c] = Idle, NEW step, NEW taken \in Login, NEW held,
         Awaits(c, step, taken, held), NEW id \in Login
  PROVE  Holders(id)' = IF id = taken THEN Holders(id) \cup {c} ELSE Holders(id)
BY LoginAssumption DEF LoginInv, Awaits, Holders, Idle

(* A request that awaits works on its login, and nothing else does. *)
LEMMA Awaiting ==
  ASSUME LoginInv, NEW c \in Call, call[c] # Idle
  PROVE  /\ call[c].id \in Login
         /\ Holders(call[c].id) = {c}
         /\ pending[call[c].id] = None
         /\ call[c].id \notin strings
<1>1. call[c].id \in Login /\ c \in Holders(call[c].id)
  BY DEF LoginInv, CallShape, Holders
<1>2. \A other \in Call : other \in Holders(call[c].id) => other = c
  BY <1>1 DEF LoginInv, LoginInOnePlace
<1>3. Holders(call[c].id) = {c}
  BY <1>1, <1>2 DEF Holders
<1> QED BY <1>1, <1>3 DEF LoginInv, LoginInOnePlace

(* A request that returns leaves the others as they were. *)
LEMMA ReturnShape ==
  ASSUME LoginInv, NEW c \in Call, Returns(c)
  PROVE  (call = [e \in Call |-> call[e]])' /\ CallShape'
BY DEF LoginInv, CallShape, Returns

(* So does one that takes up a login. *)
LEMMA AwaitShape ==
  ASSUME LoginInv, NEW c \in Call, NEW step \in {"code", "verify", "password"},
         NEW id \in Login, NEW held, Awaits(c, step, id, held),
         step = "verify" => held \in Pending /\ held.code /\ ~held.challenge
  PROVE  (call = [e \in Call |-> call[e]])' /\ CallShape'
BY DEF LoginInv, CallShape, Awaits

-----------------------------------------------------------------------------
(* One step each: what is put back is put back by the only request that     *)
(* held it, what is taken out is taken by the only one.                     *)

LEMMA StartKeeps ==
  ASSUME LoginInv, NEW c \in Call, NEW id \in Login, Start(c, id)
  PROVE  LoginInv'
<1>1. /\ call[c] = Idle /\ Unused(id) /\ Awaits(c, "code", id, None)
      /\ loginNow' = loginNow /\ strings' = strings
  BY DEF Start
<1>2. /\ pending' \in [Login -> Pending \cup {None}]
      /\ \A i \in Login : pending'[i] # None => pending'[i] = pending[i]
      /\ \A i \in Login : pending[i] = None => pending'[i] = None
  BY DEF Start, LoginInv
<1>3. (call = [e \in Call |-> call[e]])' /\ CallShape'
  BY <1>1, AwaitShape
<1>4. \A i \in Login : Holders(i)' = IF i = id THEN Holders(i) \cup {c} ELSE Holders(i)
  BY <1>1, HoldersAfterAwait
<1>5. pending[id] = None /\ id \notin strings /\ Holders(id) = {}
  BY <1>1 DEF Unused, Holders
<1>6. LoginInOnePlace'
  BY <1>1, <1>2, <1>4, <1>5 DEF LoginInv, LoginInOnePlace
<1> QED BY <1>1, <1>2, <1>3, <1>6 DEF LoginInv, OneWayOn

(* A request that leaves the map as it was, or puts its login back. *)
LEMMA ReturnKeeps ==
  ASSUME LoginInv, NEW c \in Call, call[c] # Idle, Returns(c), UNCHANGED <<loginNow, strings>>,
         pending' \in [Login -> Pending \cup {None}],
         \A i \in Login : i # call[c].id => pending'[i] = pending[i],
         LET e == pending'[call[c].id] IN e # None => (e.code <=> ~e.challenge)
  PROVE  LoginInv'
<1> DEFINE id == call[c].id
<1>1. id \in Login /\ Holders(id) = {c} /\ pending[id] = None /\ id \notin strings
  BY Awaiting
<1>2. (call = [e \in Call |-> call[e]])' /\ CallShape'
  BY ReturnShape
<1>3. \A i \in Login : Holders(i)' = Holders(i) \ {c}
  BY HoldersAfterReturn
<1>4. \A i \in Login : i # id => c \notin Holders(i)
  BY DEF Holders
<1> HIDE DEF id
<1>5. LoginInOnePlace'
  BY <1>1, <1>3, <1>4 DEF LoginInv, LoginInOnePlace, id
<1>6. OneWayOn'
  BY DEF LoginInv, OneWayOn
<1> QED BY <1>2, <1>5, <1>6 DEF LoginInv

LEMMA CodeSentKeeps ==
  ASSUME LoginInv, NEW c \in Call, CodeSent(c)
  PROVE  LoginInv'
<1> DEFINE login == [code |-> TRUE, challenge |-> FALSE, created |-> loginNow]
<1>1. call[c] # Idle /\ Returns(c) /\ UNCHANGED <<loginNow, strings>>
  BY DEF CodeSent, Idle
<1>2. login \in Pending /\ login.code /\ ~login.challenge
  BY DEF Pending, LoginInv
<1>3. pending' = [pending EXCEPT ![call[c].id] = login]
  BY DEF CodeSent
<1> HIDE DEF login
<1> QED BY <1>1, <1>2, <1>3, Awaiting, ReturnKeeps DEF LoginInv

LEMMA PasswordRequiredKeeps ==
  ASSUME LoginInv, NEW c \in Call, PasswordRequired(c)
  PROVE  LoginInv'
<1> DEFINE login == [code |-> FALSE, challenge |-> TRUE, created |-> loginNow]
<1>1. call[c] # Idle /\ Returns(c) /\ UNCHANGED <<loginNow, strings>>
  BY DEF PasswordRequired, Idle
<1>2. login \in Pending /\ ~login.code /\ login.challenge
  BY DEF Pending, LoginInv
<1>3. pending' = [pending EXCEPT ![call[c].id] = login]
  BY DEF PasswordRequired
<1> HIDE DEF login
<1> QED BY <1>1, <1>2, <1>3, Awaiting, ReturnKeeps DEF LoginInv

LEMMA InvalidCodeKeeps ==
  ASSUME LoginInv, NEW c \in Call, InvalidCode(c)
  PROVE  LoginInv'
<1> DEFINE login == [call[c].held EXCEPT !.created = loginNow]
<1>1. call[c] # Idle /\ Returns(c) /\ UNCHANGED <<loginNow, strings>>
  BY DEF InvalidCode, Idle
<1>2. call[c].held \in Pending /\ call[c].held.code /\ ~call[c].held.challenge
  BY <1>1 DEF InvalidCode, LoginInv, CallShape
<1>3. login \in Pending /\ login.code /\ ~login.challenge
  BY <1>2 DEF Pending, LoginInv
<1>4. pending' = [pending EXCEPT ![call[c].id] = login]
  BY DEF InvalidCode
<1> HIDE DEF login
<1> QED BY <1>1, <1>3, <1>4, Awaiting, ReturnKeeps DEF LoginInv

LEMMA StepFailsKeeps ==
  ASSUME LoginInv, NEW c \in Call, StepFails(c)
  PROVE  LoginInv'
BY Awaiting, ReturnKeeps DEF LoginInv, StepFails

LEMMA SignedInKeeps ==
  ASSUME LoginInv, NEW c \in Call, SignedIn(c)
  PROVE  LoginInv'
<1> DEFINE id == call[c].id
<1>1. call[c] # Idle /\ Returns(c) /\ UNCHANGED <<loginNow, pending>>
  BY DEF SignedIn, Idle
<1>2. id \in Login /\ Holders(id) = {c} /\ pending[id] = None
  BY <1>1, Awaiting
<1>3. (call = [e \in Call |-> call[e]])' /\ CallShape'
  BY <1>1, ReturnShape
<1>4. \A i \in Login : Holders(i)' = Holders(i) \ {c}
  BY <1>1, HoldersAfterReturn
<1>5. strings' = strings \cup {id}
  BY DEF SignedIn
<1> HIDE DEF id
<1>6. LoginInOnePlace'
  BY <1>1, <1>2, <1>4, <1>5 DEF LoginInv, LoginInOnePlace
<1> QED BY <1>1, <1>3, <1>6 DEF LoginInv, OneWayOn

(* A login is taken out of the map by one request, or by none. *)
LEMMA TakenOutKeeps ==
  ASSUME LoginInv, NEW id \in Login, pending[id] # None,
         pending' = [pending EXCEPT ![id] = None], UNCHANGED <<loginNow, strings>>,
         \/ UNCHANGED call
         \/ \E c \in Call : /\ call[c] = Idle
                            /\ \/ Awaits(c, "verify", id, pending[id]) /\ pending[id].code
                               \/ \E held : Awaits(c, "password", id, held)
  PROVE  LoginInv'
<1>1. /\ pending' \in [Login -> Pending \cup {None}] /\ pending'[id] = None
      /\ \A i \in Login : i # id => pending'[i] = pending[i]
  BY DEF LoginInv
<1>2. Holders(id) = {} /\ id \notin strings
  BY DEF LoginInv, LoginInOnePlace
<1>3. pending[id] \in Pending /\ (pending[id].code => ~pending[id].challenge)
  BY DEF LoginInv, OneWayOn
<1>4. OneWayOn'
  BY <1>1 DEF LoginInv, OneWayOn
<1>5. CASE UNCHANGED call
  <2>1. \A i \in Login : Holders(i)' = Holders(i)
    BY <1>5 DEF Holders
  <2>2. LoginInOnePlace'
    BY <1>1, <2>1 DEF LoginInv, LoginInOnePlace
  <2> QED BY <1>1, <1>4, <1>5, <2>2 DEF LoginInv, CallShape
<1>6. ASSUME NEW c \in Call, call[c] = Idle, NEW step \in {"verify", "password"}, NEW held,
             Awaits(c, step, id, held),
             step = "verify" => held \in Pending /\ held.code /\ ~held.challenge
      PROVE  LoginInv'
  <2>1. \A i \in Login : Holders(i)' = IF i = id THEN Holders(i) \cup {c} ELSE Holders(i)
    BY <1>6, HoldersAfterAwait
  <2>2. LoginInOnePlace'
    BY <1>1, <1>2, <2>1 DEF LoginInv, LoginInOnePlace
  <2>3. (call = [e \in Call |-> call[e]])' /\ CallShape'
    BY <1>6, AwaitShape
  <2> QED BY <1>1, <1>4, <2>2, <2>3 DEF LoginInv
<1> QED BY <1>3, <1>5, <1>6

-----------------------------------------------------------------------------
(* LoginInv is inductive. *)
THEOREM LoginInvariant == LoginSpec => []LoginInv
<1>1. LoginInit => LoginInv
  BY LoginInitially
<1>2. LoginInv /\ [LoginNext]_loginVars => LoginInv'
  <2> SUFFICES ASSUME LoginInv, [LoginNext]_loginVars PROVE LoginInv'
    OBVIOUS
  <2>1. ASSUME NEW c \in Call, NEW id \in Login, Start(c, id) PROVE LoginInv'
    BY <2>1, StartKeeps
  <2>2. ASSUME NEW c \in Call, NEW id \in Login, Verify(c, id) PROVE LoginInv'
    BY <2>2, TakenOutKeeps DEF Verify
  <2>3. ASSUME NEW c \in Call, NEW id \in Login, Submit2fa(c, id) PROVE LoginInv'
    BY <2>3, TakenOutKeeps DEF Submit2fa
  <2>4. ASSUME NEW c \in Call, CodeSent(c) PROVE LoginInv'
    BY <2>4, CodeSentKeeps
  <2>5. ASSUME NEW c \in Call, SignedIn(c) PROVE LoginInv'
    BY <2>5, SignedInKeeps
  <2>6. ASSUME NEW c \in Call, PasswordRequired(c) PROVE LoginInv'
    BY <2>6, PasswordRequiredKeeps
  <2>7. ASSUME NEW c \in Call, InvalidCode(c) PROVE LoginInv'
    BY <2>7, InvalidCodeKeeps
  <2>8. ASSUME NEW c \in Call, StepFails(c) PROVE LoginInv'
    BY <2>8, StepFailsKeeps
  <2>9. ASSUME NEW id \in Login, Cancel(id) PROVE LoginInv'
    BY <2>9, TakenOutKeeps DEF Cancel
  <2>10. CASE Second \/ UNCHANGED loginVars
    <3>1. loginNow' \in Nat /\ UNCHANGED <<pending, call, strings>>
      BY <2>10 DEF Second, loginVars, LoginInv
    <3>2. \A i \in Login : Holders(i)' = Holders(i)
      BY <3>1 DEF Holders
    <3>3. LoginInOnePlace'
      BY <3>1, <3>2 DEF LoginInv, LoginInOnePlace
    <3> QED BY <3>1, <3>3 DEF LoginInv, CallShape, OneWayOn
  <2> QED
    BY <2>1, <2>2, <2>3, <2>4, <2>5, <2>6, <2>7, <2>8, <2>9, <2>10 DEF LoginNext
<1> QED BY <1>1, <1>2, PTL DEF LoginSpec

(* However the steps of the wizard, cancels and lost requests interleave, a *)
(* login is with one request, or in the map, or gone.                       *)
THEOREM LoginStaysInOnePlace == LoginSpec => []LoginInOnePlace
<1>1. LoginInv => LoginInOnePlace
  BY DEF LoginInv
<1> QED BY <1>1, LoginInvariant, PTL

(* A login that waits in the map can be gone on with: by its code until     *)
(* Telegram asked for the password, and by the password from then on.       *)
THEOREM LoginGoesOn == LoginSpec => []OneWayOn
<1>1. LoginInv => OneWayOn
  BY DEF LoginInv
<1> QED BY <1>1, LoginInvariant, PTL

-----------------------------------------------------------------------------
(* The credentials of Xtream Codes usernames                                *)

(* Credentials that say the same as those the player was set up with.       *)
Same(creds) ==
  /\ creds.host = account.host /\ creds.port = account.port
  /\ creds.user = account.user /\ creds.password = account.password

(* A username leads to the account however often it is taken apart.         *)
NameLeads(name) == Same(Parse(name))

(* Unless the credentials can be mistaken, whatever username a player has   *)
(* leads to its account, and an API call was answered only to one whose     *)
(* password passes.                                                         *)
AccountInv ==
  /\ ~Mistakable => /\ NameLeads(username)
                    /\ \A url \in listed : NameLeads(url.name)
                    /\ opened => xcPassword = None \/ account.password = xcPassword
  /\ ProviderReached

(* Packing and unpacking credentials that cannot be mistaken loses nothing, *)
(* with or without a port and a password.                                   *)
LEMMA PackedLeads ==
  ASSUME ~Mistakable, NEW creds, Same(creds)
  PROVE  NameLeads(EncodeUsername(creds))
<1> DEFINE h == <<creds.host>>
           u == <<creds.user>>
           n == EncodeUsername(creds)
<1>1. n.form = "packed" /\ n.parts = h \o Only(creds.port) \o u \o Only(creds.password)
  BY DEF EncodeUsername
<1> SUFFICES NameLeads(n)
  OBVIOUS
<1> HIDE DEF n
<1>2. CASE creds.port = None /\ creds.password = None
  <2>1. /\ Len(n.parts) = 2
        /\ n.parts[1] = creds.host /\ n.parts[2] = creds.user
    BY <1>1, <1>2 DEF Only
  <2> QED BY <1>1, <1>2, <2>1 DEF NameLeads, Same, Parse, Unpack, Credentials
<1>3. CASE creds.port = None /\ creds.password # None
  <2>1. /\ Len(n.parts) = 3
        /\ n.parts[1] = creds.host /\ n.parts[2] = creds.user /\ n.parts[3] = creds.password
    BY <1>1, <1>3 DEF Only
  <2>2. ~ShortNumber(creds.user)
    BY <1>3 DEF Mistakable, Same
  <2> QED BY <1>1, <1>3, <2>1, <2>2 DEF NameLeads, Same, Parse, Unpack, Credentials
<1>4. CASE creds.port # None /\ creds.password = None
  <2>1. /\ Len(n.parts) = 3
        /\ n.parts[1] = creds.host /\ n.parts[2] = creds.port /\ n.parts[3] = creds.user
    BY <1>1, <1>4 DEF Only
  <2>2. ShortNumber(creds.port)
    BY <1>4 DEF Mistakable, Same
  <2> QED BY <1>1, <1>4, <2>1, <2>2 DEF NameLeads, Same, Parse, Unpack, Credentials
<1>5. CASE creds.port # None /\ creds.password # None
  <2>1. /\ Len(n.parts) = 4
        /\ n.parts[1] = creds.host /\ n.parts[2] = creds.port /\ n.parts[3] = creds.user /\ n.parts[4] = creds.password
    BY <1>1, <1>5 DEF Only
  <2> QED BY <1>1, <1>5, <2>1 DEF NameLeads, Same, Parse, Unpack, Credentials
<1> QED BY <1>2, <1>3, <1>4, <1>5

(* A player is set up with a packed username or with a legacy one. *)
LEMMA AccountInitially == ASSUME XcInit PROVE AccountInv
<1>1. ASSUME ~Mistakable PROVE NameLeads(username)
  <2>1. CASE username = EncodeUsername(account)
    BY <1>1, <2>1, PackedLeads DEF Same
  <2>2. CASE username = [form |-> "legacy", parts |-> account]
    BY <2>2 DEF NameLeads, Parse, Same
  <2> QED BY <2>1, <2>2 DEF XcInit
<1>2. listed = {} /\ ~opened /\ xcDeed = None
  BY DEF XcInit
<1> QED BY <1>1, <1>2 DEF AccountInv, ProviderReached

(* A request with a username that leads to the account reaches the provider *)
(* as that user, and none is shut out whose password passes.                *)
LEMMA HandledReaches ==
  ASSUME NEW creds, NEW kind, NEW ext, NEW with, Handle(creds, kind, ext, with),
         UNCHANGED <<xcPassword, account>>,
         ~Mistakable => Same(creds),
         ~Mistakable /\ opened' => xcPassword = None \/ account.password = xcPassword
  PROVE  ProviderReached'
<1>1. /\ xcDeed'.way = Way(creds, kind, ext, with) /\ xcDeed'.with = with
      /\ xcDeed'.host = creds.host /\ xcDeed'.port = creds.port /\ xcDeed'.user = creds.user
  BY DEF Handle
<1>2. Mistakable' = Mistakable
  BY DEF Mistakable
<1>3. ASSUME ~Mistakable, opened', with
      PROVE  Way(creds, kind, ext, with) \notin {"rejected", "forbidden"}
  BY <1>3 DEF Way, Same
<1> QED BY <1>1, <1>2, <1>3 DEF ProviderReached, Same

LEMMA AskKeepsAccount ==
  ASSUME AccountInv, NEW kind, NEW ext, NEW with,
         AskFor(kind, ext, with) \/ AskListed(kind, ext, with)
  PROVE  AccountInv'
<1>1. UNCHANGED <<xcPassword, account, username, listed, opened>>
  BY DEF AskFor, AskListed
<1>2. PICK name : Handle(Parse(name), kind, ext, with) /\ (~Mistakable => NameLeads(name))
  BY DEF AskFor, AskListed, AccountInv
<1>3. ProviderReached'
  BY <1>1, <1>2, HandledReaches DEF AccountInv, NameLeads
<1> QED BY <1>1, <1>3 DEF AccountInv, NameLeads, Same, Mistakable

(* An answer gives the player usernames made from the one it sent. *)
LEMMA CallApiKeepsAccount ==
  ASSUME AccountInv, NEW with, CallApi(with)
  PROVE  AccountInv'
<1> DEFINE creds == Parse(username)
           answered == Way(creds, "api", None, with) = "answered"
<1>1. /\ Handle(creds, "api", None, with) /\ UNCHANGED <<xcPassword, account>>
      /\ answered => /\ opened' = TRUE
                     /\ \/ username' = EncodeUsername(creds) /\ listed' = {}
                        \/ listed' = RewriteUrls(creds) /\ UNCHANGED username
      /\ ~answered => UNCHANGED <<username, listed, opened>>
  BY DEF CallApi
<1>2. ~Mistakable => Same(creds)
  BY DEF AccountInv, NameLeads
<1>3. ~Mistakable /\ answered => xcPassword = None \/ account.password = xcPassword
  BY <1>2 DEF Way, Same
<1> HIDE DEF creds
<1>4. ~Mistakable => NameLeads(EncodeUsername(creds))
  BY <1>2, PackedLeads
<1>5. \A url \in RewriteUrls(creds) : url.name = EncodeUsername(creds)
  BY DEF RewriteUrls
<1>6. ~Mistakable /\ opened' => xcPassword = None \/ account.password = xcPassword
  BY <1>1, <1>3 DEF AccountInv
<1>7. ProviderReached'
  BY <1>1, <1>2, <1>6, HandledReaches
<1>8. \A name : NameLeads(name)' = NameLeads(name')
  BY <1>1 DEF NameLeads, Same
<1>9. ~Mistakable => NameLeads(username') /\ \A url \in listed' : NameLeads(url.name)
  BY <1>1, <1>4, <1>5 DEF AccountInv
<1> QED BY <1>1, <1>6, <1>7, <1>9 DEF AccountInv, NameLeads, Same, Mistakable

(* AccountInv is inductive. *)
THEOREM AccountInvariant == XcSpec => []AccountInv
<1>1. XcInit => AccountInv
  BY AccountInitially
<1>2. AccountInv /\ [XcNext]_xcVars => AccountInv'
  <2> SUFFICES ASSUME AccountInv, [XcNext]_xcVars PROVE AccountInv'
    OBVIOUS
  <2>1. ASSUME NEW with \in BOOLEAN, CallApi(with) PROVE AccountInv'
    BY <2>1, CallApiKeepsAccount
  <2>2. ASSUME NEW with \in BOOLEAN, NEW kind \in Kind, NEW ext \in Ext,
               AskFor(kind, ext, with) \/ AskListed(kind, ext, with)
        PROVE  AccountInv'
    BY <2>2, AskKeepsAccount
  <2>3. CASE UNCHANGED xcVars
    BY <2>3 DEF xcVars, AccountInv, ProviderReached, NameLeads, Same, Mistakable
  <2> QED BY <2>1, <2>2, <2>3 DEF XcNext
<1> QED BY <1>1, <1>2, PTL DEF XcSpec

(* Whatever answers of the API are rewritten, and however often, a player   *)
(* stays with its provider and user, and is not shut out once an API call   *)
(* was answered.                                                            *)
THEOREM ProviderStaysReached == XcSpec => []ProviderReached
<1>1. AccountInv => ProviderReached
  BY DEF AccountInv
<1> QED BY <1>1, AccountInvariant, PTL

=============================================================================
