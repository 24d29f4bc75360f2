# A TLA+ model of MediaFlow Proxy Light

MediaFlow Proxy Light is a streaming proxy in Rust (`src/src`): an actix-web
server that fetches media for its clients, rewrites HLS and DASH manifests,
decrypts CENC segments, and bridges Acestream, Telegram and Xtream sources.
This directory holds TLA+ models of its components, TLC configurations that
check them on small instances, and TLAPS proofs that hold for all instances.

## 1. The system

### 1.1 What is shared between what

`main.rs` starts one actix worker per core. Each worker is a single-threaded
tokio runtime: its tasks interleave only at awaits. What the workers share they
share through `Arc`s, and there the tasks of different workers interleave at
every atomic access, mutex or DashMap operation.

| state | shared by | consequence for the model |
|---|---|---|
| `AcestreamSessionManager` | the tasks of one worker (built in the app factory) | a step is the code between two awaits |
| `HlsPrebuffer`, segment caches | all workers | a step is one critical section |
| `StreamManager.per_host_semaphores` | all workers | a step is one access to the map or to a semaphore |
| the pending Telegram logins | all workers | a step is one critical section of the map or the code between two awaits |
| the MPD cache | all workers | a step is the code between two awaits; the cache only has whole entries |
| the Telegram `CLIENT` | all workers | a step is one critical section of its mutex or the code between two awaits |
| the FFI handle `MediaflowServer` | all threads of the host and the server's background threads | a step is one atomic or mutex operation |

### 1.2 Inventory

For each component: its state; its operations; what is hard; what makes it
correct. `PROJECT.json` has the same list with sources and status.

* **Acestream sessions** (`acestream/`). State: a map infohash → session (pid,
  playback and command URL, `client_count`, `last_access`), armed grace timers.
  Operations: `get_or_create`, `increment_client`, `release_client`,
  `invalidate`, the manifest and stream handlers. Hard: the map is read before
  an await and written after it; clients leave, reconnect within 30 s, or are
  dropped half-way. Correct: the count is the number of viewers, the engine is
  told to stop a session when and only when its last viewer has left.
* **HLS pre-buffer** (`hls/prebuffer.rs`, driven by `hls/handler.rs` and
  `hls/segment.rs`). State: map playlist → prefetcher (queue, headers, last
  activity, a `Notify`), one worker task each, the shared segment cache.
  Operations: `register_playlist`, `on_segment_request`, the worker loop. Hard:
  parallel registrations, eviction against update, wake-ups, refreshed headers.
  Correct: one worker per playlist, no update lost to a dead prefetcher, no lost
  wake-up, nothing cached under the wrong headers, the queue drains.
* **Upstream client and limiter** (`proxy/stream.rs`). State: map host →
  semaphore; permits travel with the request, then with the body stream.
  Operations: `make_request`, `create_stream`, `fetch_bytes`,
  `forward_request`. Hard: cancellation and failure at each await,
  get-then-insert on the map. Correct: no permit is lost or given back twice;
  at most the configured number of streams per host; waiting requests move.
* **FFI server control** (`ffi/mod.rs`). State: `is_running`, `actual_port`, a
  stored shutdown sender; one background thread per start. Operations: `start`,
  `stop`, `load_config`, `destroy`, the queries. Hard: host threads race with
  each other and with the background threads. Correct: the flag and the port
  describe the server, no call hangs, a server nobody can reach any more stops.
* **Generic proxy handlers** (`proxy/handler.rs`). No state. Operations:
  `generate_url`/`build_proxy_url`, stream requests, `proxy_forward`. Hard: a
  link is made once and followed many times, by then with other headers, from
  other addresses, through the middleware. Correct: a link asks upstream for what
  it was made for, with the headers it was made with and those of the player.
* **HLS manifest rewriting** (`hls/manifest.rs`, `hls/handler.rs`,
  `hls/segment.rs`). No state of its own. Hard: four rewriting paths (master,
  media, IPTV, lines) and four options classify the same URIs; after a redirect
  the base is another one; the segments to prefetch are listed separately.
  Correct: every link of every playlist leads to what its URI stood for, and
  what is prefetched is what the player asks for.
* **DASH pre-buffer** (`mpd/prebuffer.rs`): as the HLS one, without its guards;
  `main.rs` builds it and no handler uses it.
* **DASH manifests** (`mpd/`). State: the MPD cache. Operations: the manifest,
  playlist, segment and init handlers; timeline expansion, the live window, the
  HLS conversion. Hard: every refresh computes the window and its media sequence
  number anew; the MPD is fetched across an await and another request stores its
  own meanwhile; init segments change between periods; four addressing forms.
  Correct: a playlist has all segments there are and no other, a sequence number
  means one segment, a segment follows its own init segment, an MPD is not older
  than the cache allows.
* **CENC decryption** (`drm/`). State: a decrypter per request, with what the
  last moof said. Operations: init processing, moof, mdat, sidx, and the reader
  that cuts a download into boxes. Hard: chunks cut anywhere, state from one
  fragment to the next, offsets after boxes were stripped, sub-samples and
  patterns. Correct: every byte is decrypted, none twice, the boxes that come out
  do not depend on the chunks, and data offsets hit the samples.
* **Telegram client** (`telegram/session.rs`, `telegram/handler.rs`). State: one
  client for the process, `CLIENT`, behind a tokio mutex; per stream an `Arc` of
  a client, the offset of the next chunk, the bytes emitted, the reconnects.
  Operations: `get_or_init_client`, `reset_client`, `fetch_chunk`,
  `stream_document_range`, `parse_range`, the stream handler. Hard: a stream
  resets a client that another one may have replaced; chunks are fetched again
  in the middle of a body; ranges and chunks meet at every boundary. Correct: a
  body is the requested range, complete unless it ends with an error; nobody
  gets a broken client back; nobody hangs.
* **Telegram login** (`telegram/session_gen.rs`). State: the map of pending
  logins. Operations: start, verify, 2fa, cancel, `gc_expired`. Hard: a step
  takes the login out of the map while it awaits Telegram; meanwhile come a
  second step, a cancel, the expiry, or the loss of the request. Correct: a login
  is in one place, and after its session string was given out in none.
* **Authentication** (`auth/`). No state. Operations: the middleware's checks,
  merging a token with the query, encryption with expiry and address binding.
  Correct: a link is accepted exactly when it was made for that, and the links of
  a playlist go on being accepted.
* **Xtream** (`xtream/`). No state: the username a player sends holds URL, user
  and password. Operations: packing and parsing, the API, playlist and stream
  handlers, the rewriting of API answers. Hard: a username is packed again in
  every answer; its fields are told apart by colons. Correct: a player stays
  with its provider and user.
* **Caches** (`cache/`, `epg/handler.rs`): read-through caches filled after an
  await; that of MPDs is modelled with its handler.
* **Transcoder** (`transcode/`), **extractors**
  (`extractor/`), **configuration** (`config.rs`), **utilities** (metrics, speed
  test, playlist builder, web UI, URL helpers), **server set-up** (`main.rs`).

How they interact: the HLS manifest handler fetches through the upstream client,
rewrites the manifest and spawns a registration with the pre-buffer; the segment
handler notifies the pre-buffer of every segment, looks in its cache and falls
back to the upstream client, whose permits bound both. The Acestream handlers
use a registry of their own. The FFI layer starts a reduced server (streams and
health only). The authentication middleware is in front of every handler; the
links that `build_proxy_url`, the HLS and the DASH conversion write come back
through it. The DASH segment handler feeds what it downloads to the decrypter.

## 2. The modules

| module | models | run | proofs |
|---|---|---|---|
| `AcestreamSession` | `acestream/session.rs`, `acestream/handler.rs` | `MCAcestreamSession` | `AcestreamSession_proofs` |
| `HlsPrebuffer` | `hls/prebuffer.rs` and its callers | `MCHlsPrebuffer` | `HlsPrebuffer_proofs` |
| `StreamLimiter` | `proxy/stream.rs`, permits | `MCStreamLimiter` | `StreamLimiter_proofs` |
| `HostSlots` | what the limiter promises (abstract) | refined by `StreamLimiter` | in `StreamLimiter_proofs` |
| `FfiServer` | `ffi/mod.rs` | `MCFfiServer` | `FfiServer_proofs` |
| `TelegramStream` | `telegram/session.rs`, `telegram/handler.rs` | `MCTelegramStream` | `TelegramStream_proofs` |
| `TelegramLogin` | `telegram/session_gen.rs` | `MCProxy` | `Handlers_proofs` |
| `ProxyLinks` | `build_proxy_url`, `auth/` | through `Gateway` | through `Handlers_proofs` |
| `HlsManifest` | `hls/manifest.rs` | through `Gateway` | through `Handlers_proofs` |
| `Gateway` | `proxy/handler.rs`, `hls/handler.rs`, `hls/segment.rs` | `MCGateway`, `MCProxy` | `Handlers_proofs` |
| `DashPlaylist` | `mpd/processor.rs`, `mpd/timeline.rs`, `mpd/segment.rs` | through `DashHandler` | through `Dash_proofs` |
| `DashHandler` | `mpd/handler.rs` | `MCDash`, `MCProxy` | `Dash_proofs` |
| `DashStandard` | channels as ISO/IEC 23009-1 has them (premises of a theorem) | `MCDash`, `MCProxy` | `Dash_proofs` |
| `CencSamples` | the four sample ciphers of `drm/cenc.rs` | through `CencStream` | through `Cenc_proofs` |
| `CencDecrypter` | `Mp4Decrypter`, `drm/mp4_atom.rs`, `drm/clearkey.rs` | through `CencStream` | through `Cenc_proofs` |
| `CencStream` | `decrypt_segment_streaming` | `MCCenc`, `MCProxy` | `Cenc_proofs` |
| `CencSealed` | segments encrypted by ISO/IEC 23001-7 (premise of a theorem) | `MCCenc`, `MCProxy` | `Cenc_proofs` |
| `XtreamCodes` | `xtream/` | `MCXtream`, `MCProxy` | `Handlers_proofs` |

`MCProxy` runs five of them that share no state, one per behaviour: their
instances are small, and a product of them would only multiply states that have
nothing to say to each other. `Absent` declares the value `None`; `Places` has
the operators on sequences that the DASH and CENC modules share.

Every definition that models code has an entry in the `map` of `PROJECT.json`
with the lines it stands for. Definitions commented "Mutant" are not part of any
specification: each is a plausible bug, and with it in place of the definition
below it the run finds the property of the `mutants` table violated.

### 2.1 AcestreamSession

One infohash of one manager. `session` is the map's entry, `timers` the armed
30 s timers with the pid and command URL they captured, `stopped` the pids the
engine was told to stop. A request is in `init`/`reinit` while the engine is
asked, `fetch`/`refetch` while a manifest is fetched, `open` from
`increment_client` until getstream answers, `stream` while its body is sent,
`signalled` between the drop of the body and the release task. `Hit`, `Miss`
and `Created` are the three exits of `get_or_create`; `Miss` and `Created` are
separated by the await of the engine, which is where two misses overwrite each
other. `release_client` finds the entry by infohash only, as the code does, and
`client_count` wraps like the `AtomicUsize`. `disturbed` is a history variable:
an entry with clients has been overwritten by a second miss or invalidated by a
403. `stop_session` has no caller and is left out.

### 2.2 HlsPrebuffer

A task is one call; past its lookup it holds the DashMap guard of its entry
until it ends, as `register_playlist` (which awaits `update` under `get_mut`)
and `on_segment_request` (which awaits `prioritize` under `get`) do. `Replace`,
`Stamp`, `Notify` are the mutex sections of `update`; `Promote`, `Ring`, `Mark`
those of `prioritize`. The worker goes `check` (is_idle) → `evict` or `pop` →
`filter` (skip what is cached) → `fetch` → `check`, or `wait`, which the
notification or the timeout ends. `wake` is the permit a tokio `Notify` stores.
`idle` abstracts the clock: `GoIdle` lets the timeout pass at any time.
`offered` and `requested` are history variables.

### 2.3 StreamLimiter and HostSlots

The requests to one host. `Lookup` and `Insert` are the two map accesses of
`host_semaphore`; `Running` says that a thread does not leave the function
half-way. `Acquire`, `Granted`, `ReleasePermit` model tokio's semaphore, an
external library: fair queue, a released permit is assigned to the first waiter,
an assigned permit of a dropped future is released. `kind` says which operation
the request is and hence when its permit goes: with the body of a `get`, with
the headers otherwise, never taken by `forward`. `HostSlots` is the abstract
specification: a set of holders, a set of waiters, nobody waits while a slot is
free, a freed slot goes to a waiter.

### 2.4 FfiServer

One handle, the host threads and one background thread per start. `Start` is
the check and the spawn; `StoresPort` and `StoresSender` what the call does
after the reply. The background thread goes `starting` → `bound` (port bound,
reply sent) → `flagged` → `serving` → `stopping` → `ended`. `sender` says where
its shutdown sender is; replacing, taking or freeing it wakes the `select!`. A
call refused because of `is_running` changes nothing, and neither do the
queries: both are stuttering steps. `overlap` is a history variable: a start was
let in while another start had not returned or another server was on. The guard
of `LoadConfig` and `Destroy` (no other call on the handle) is the obligation
`&mut *srv` and `Box::from_raw` put on the host.

### 2.5 TelegramStream

`shared` is `CLIENT`, `holder` the request that holds its mutex while it
connects, `client[s]` the `Arc` a request keeps. A request goes `lock`
(→ `connect`) → `resolve` → `fetch`, and from there by `reset` → `relock`
(→ `reconnect`) back to `fetch` whenever its connection is found broken. The
lookup of the document is one step, `Found` or `NotResolved`; `Trusted` uses the
`file_id` with the size the request gives, which need not be the document's. A
byte is its position, so `sent` shows order, gaps and repetitions. `GetChunk`
is the answer of Telegram and the slicing of the chunk; the loop's exits are
`Enough`, `GetNothing` and the two conditions after a chunk. `Breaks` and
`DropRequest` are the environment: a connection dies, a player hangs up at any
await. `left` is a history variable. `Total` is `end - start + 1` as a release
build computes it: for the suffix `bytes=-0` it wraps to 0, where a debug build
panics; the doc of `parse_range` (`telegram/handler.rs:406`) says the range is
clamped to the file, which this suffix alone contradicts.

### 2.6 TelegramLogin

`pending` is the map; a request that has taken a login out of it holds it in
`call[c].held`. `Verify` and `Submit2fa` take, the four ends of a step give back
or not, `StepFails` is an error as well as a request that was dropped at its
await. `Start` includes `gc_expired`. That `Submit2fa` of a login without a
challenge drops it, although the answer says "verify a code first", is in the
model.

### 2.7 ProxyLinks, HlsManifest, Gateway

A link is a record: the endpoint, what is in the path, the token or the query.
`BuildUrl` is `build_proxy_url`, `Admits` the checks of the middleware and
`Parameters` what the handler gets after the token is merged with the query. A
token opens with the password it was made with, which is all the properties need
of the encryption. `HlsManifest` maps a playlist to one link per URI
(`Process`), by the same four paths and options as the code, and lists the
segments to prefetch (`MediaSegmentUrls`). `Gateway` follows a link: `Reject`,
`ServeManifest`, `ServeSegment`, `ServeStream`, `Forward`, or, under the options
that leave URIs alone, `GoDirectly`. `want` is the meaning of a link without a
proxy, computed from the playlist alone, against which `deed`, what the proxy
did, is compared.

`GatewayAssumption` says which links clients make: a typed link has a
destination and no headers of single requests, only a stream is generated in the
base64 form, which only the stream handler resolves. `PlainPlaylist` excludes
what the line fallback gets wrong: it takes a variant without a playlist
extension for a segment, and the URI of `X-I-FRAME-STREAM-INF` for a key.

### 2.8 DashPlaylist, DashHandler, DashStandard

`DashPlaylist` is pure: `ParseMpd` makes the segments of all representations,
`MediaPlaylist` the window, the media sequence and the lines. `DashHandler` adds
the clock, the cache and the requests: `Ask` is `fetch_mpd_cached` up to its
await, `UpstreamAnswers` the moment the origin makes the answer, `FetchEnds` its
arrival, the store and the rest of the handler. `MaxFetch` is the age an answer
has at most when it arrives; the client's timeout is what bounds it in the code.
`Truth`, the segments there are, comes with the instance and is written apart
from the conversion. Filters, sorts and removals of duplicates are sets of
places put in order (`Arranged` and `Filtered` of `Places`, `SortDown`,
`DedupBy`), which the provers can see into where they cannot see into `SelectSeq`.

`DashDocuments` and `DashTypes` say what an MPD is: finitely many periods and
representations, a height for pictures only, one kind and language under one
profile id, one quality under one representation id (the handler finds a
representation by its id alone). Four conditions on a channel are not
assumptions of the model, which describes what the code does without them, but
of what the code promises; `MCDash` checks each for the channels of the run
that a property is about:

* `Steady(c)`, for media sequence numbers: while the channel is live it has one
  period, and each representation counts its segments from a start number, or
  from their times, in the same way in all MPDs;
* `OwnInits(c)`, for init segments: every representation has one, and within a
  profile its URL tells it, because `build_hls_media_playlist` compares URLs;
* `Truthful(c)`, for complete playlists: `Truth` is what the MPD means by the
  standard. `DashStandard` says this declaratively and without the code's
  arithmetic: where the first segment of an S element is and how the next one
  follows, how many segments of equal length a period needs or have ended, what
  a SegmentList names, which bytes a sidx assigns to which subsegment, and that
  the segments of the periods follow each other;
* `Listable(c)`, what the code presumes of such an MPD: an init template,
  times other than 0 where a name has `$Time$`, non-negative repeats, one
  period as long as the whole where all segments have one duration, a live
  channel older than its window, a sidx that was fetched in whole, unique ids.
  The channel of `DashTimeZero` is not `Listable`, all others of the runs are
  (`MCTruthful`, `MCListable`).

### 2.9 CencSamples, CencDecrypter, CencStream

A byte is named by its place in the clear track and by the keystream bytes it is
xored with; decryption cancels them, so that a byte is clear exactly when its
`mask` is empty. `CencDecrypter` is the state of `Mp4Decrypter` as a record and
one operator per box; a body counts units, and the encryption overhead and
offsets are sums of them. A loop is written as what it leaves behind: the
sub-sample that a place of a sample is in (`PartAt`), the last child of a kind
that a traf has and what earlier trafs and fragments left (`TrackInfo`), the last
track that writes a place of the mdat (`DecryptBody`). `CencStream` is the reader: `Receive` appends a chunk
of any length, `ReadHeader`, `TakePart`, `EmitBox` are the parts of its loop
between two yields, `PassTail` a box of size 0, which lasts to the end.
`MCCenc` encrypts by the standard, independently of the decrypter.
`CencSealed` says by the standard what an encrypted segment is, for any segment:
how each byte of a sample is masked (`Sealed`), that the bytes of known tracks
are those in samples of tracks with a key (`BodySealed`), and that an mdat
follows a moof that describes it (`FragmentSealed`, `Protected`); and which
segments can be decrypted in either way (`Joinable`). `MCProtected` and
`MCJoinable` check that the segments which `MCCenc` makes are `Protected`, and
those of one fragment `Joinable`. `Boxwise` is
what the reader has to yield, the boxes of a segment processed one after the
other, as a recursive function. `CencAssumption` says what a segment is: finite
sequences of boxes, of which one that reaches to the end is the last.

### 2.10 XtreamCodes

A username is packed or legacy. `Parse` tells its parts apart as the code does,
by their number and by `ShortNumber`. `CallApi` rewrites an answer, after which
the player has the new username or URLs; `AskFor` and `AskListed` are the
requests that follow. `Unserved` lists the routes whose handler takes more path
parameters than they have, which actix answers with 404.

## 3. What the runs check

| run | instance | result |
|---|---|---|
| `AcestreamSessions` | 3 requests of any kind, 3 pids, counter mod 8 | the count, the last-client rule, fresh pids and the grace protocol hold while no entry with clients is overwritten or invalidated |
| `AcestreamStop` | the same | **violated**: without that condition a session with a viewer is stopped |
| `HlsPrebuffer` | 1 playlist, 2 segments, 2 header contexts, 2 calls, 2 prefetchers | one worker per playlist, updates reach it, no lost wake-up, own headers, queues drain, inactive prefetchers go |
| `StreamLimiter` | 3 requests of every kind, 2 threads, 1 permit | permits conserved, each semaphore implements `HostSlots`, at most 1 stream per thread and permit, the queue moves |
| `LimiterRace` | streams only | **violated**: two threads create a semaphore each and the host sees 2 streams |
| `FfiServer` | 2 host threads, 3 starts, 2 ports and "any" | the flag is honest, tracks a lone server, calls return, unreachable servers stop |
| `FfiLostFlag` | 1 host thread, 2 starts | **violated**: a serving server is reported as stopped |
| `TelegramStream` | 2 requests of 6 kinds, 3 connections, chunks of 2, 1 reconnect | bodies are the requested range and complete, no broken connection is given back, requests end |
| `Proxy` | `MCCenc`, `MCDash`, `MCGateway`, `MCXtream`, 2 logins and 3 requests | see 3.1 |
| `CencFragments` | buffers of one and two fragments | **violated**: a buffer with two fragments comes back with the first one twice |
| `DashTimeZero` | a recording that starts at 0 | **violated**: the name of its first segment keeps `$Time$` |
| `SeekHeaders` | `MCGateway` | **violated**: with a password, a `range` given to `generate_url` replaces the player's |

The violated runs state what a comment or header of the repository says;
`findings` quotes it. Two smaller divergences need no model:
`mediaflow_get_proxy_url` never returns NULL for a stopped server although
`mediaflow_ffi.h` says so, and `mediaflow_load_config` does not refuse a running
server.

### 3.1 The properties of `Proxy`

| property | what it says |
|---|---|
| `BoxwiseOutput` | the reader yields what processing the segment box by box gives, however it is cut |
| `BytesDecrypted` | every byte that comes out is in its place, and clear if the request has the key of its track |
| `OffsetsHit` | the data offset of every trun that comes out points to its first sample |
| `PathsAgree` | the reader and the buffer path agree on segments of one fragment |
| `PlaylistComplete` | a playlist has the segments that the origin has, in order, from the beginning or the live window on, each linked with its own init segment |
| `SequenceNamesSegment` | on all refreshes of a `Steady` channel a media sequence number stands for one segment |
| `SegmentDecodable` | the init segment in force at a segment, by EXT-X-MAP or inline, is that of its period, and it is decrypted with it |
| `MpdFreshEnough` | a playlist is made of an MPD not older than the time to live and the longest answer |
| `MasterPlayable` | a master offers each height once with its best bandwidth and exactly one default audio, English if there is, and its links lead to profiles of the MPD |
| `LinksLead` | a followed link asks for what its URI referred to, with the first link's headers, and is handled as what it is |
| `GrantHonoured` | a link is refused exactly after its time or from another address |
| `PrefetchIsAskedFor` | each registered segment has a link whose request matches the registration |
| `LoginInOnePlace` | a login is in the map, or with one request, or gone; gone once its string was given out |
| `ProviderReached` | a player stays with its provider and user, and is not shut out after an answered call |

### 3.2 Bounds

* *Acestream*: three requests are two that race plus a third that joins, leaves
  or reconnects; three pids are a session, its overwriting rival and a
  successor. The counter's modulus only has to exceed the requests; a wrap below
  zero shows as a count of 7. `Ttl` 1 lets entries become stale.
* *HLS*: two calls are two racing registrations, or a registration and a segment
  request, with the worker as third party; two
  prefetchers are an evicted one and its successor. Playlists only meet in the
  cache, so one is enough. The run has no symmetry, which would be unsound for
  its liveness properties.
* *Limiter*: one permit and three requests give a holder, a first and a second
  waiter. Two threads suffice for the race. `Watched` picks the semaphore whose
  refinement is checked; semaphores are interchangeable.
* *FFI*: a third start can follow two that overlapped; two ports let a fixed
  port be taken and a free one be picked.
* *Telegram*: documents of 3 and 4 bytes in chunks of 2 have a short last chunk
  or none; the ranges begin within a chunk, end at a boundary, go beyond the end
  or are empty; the sizes given are right, too small and too large. Two streams
  are the one that resets and the one whose client is replaced; with three
  connections each can reconnect once. `MAX_RECONNECTS` is 1 for 6: the counter
  only decides when a stream gives up.
* *CENC*: a cipher block has 2 bytes; samples end at a block or have a part
  of one; sub-samples begin in the middle of a keystream
  block; patterns have skipped blocks or none; there are two tracks with keys by
  different forms of key id, one of which a request may lack, and two fragments.
  Chunks are cut at every unit.
* *DASH*: one channel of each form of addressing, two of them live, with two
  periods, repeated S elements with and without a time, and a sidx with a
  reference that is not to media. Two players are enough for one to store an MPD that another is served from; the
  clock goes past the time to live once. Players are symmetric.
* *Gateway*: one playlist of each form, of which two are redirected to another
  host, with every tag next to segments of all kinds, followed to any depth
  (a page replaces the one before, so the state space is finite); with and
  without password, expiry, address and each option. An expiration of 0 and 1
  against a clock of 0 to 2 hits both sides of the boundary.
* *Telegram login*: two logins and three requests are two steps that race for one
  login beside a third that starts or expires another; the clock passes
  `SESSION_TTL_SECS` for logins of all ages.
* *Xtream*: provider URLs without a port, with one, and with one and a path;
  users that look like a port; the right, a wrong and no password; legacy and
  packed usernames; URLs of the provider with and without its port and of
  another host. `Mistakable` names what packing cannot tell apart, see 5.

`CHECK_DEADLOCK FALSE` is in every configuration because requests, calls and
starts are finite and the system may rightly come to rest.

### 3.3 Fairness

Only what the runtime gives: a spawned task runs to completion and a timer fires
(`ReleaseTask`, `GraceEnds`); a call once started goes on and a worker loop is
polled, its fetches having 30 s timeouts; a queued future is polled and headers
and buffered bodies time out, while the body of a stream may last for ever
(`QueueMoves` therefore excuses a queue behind live streams); threads that have
work are scheduled; a Telegram request is answered or its connection breaks, and
who waits for the mutex of `CLIENT` gets it (strong fairness, because tokio's
mutex is a fair queue). No client is assumed to send, leave or reconnect, and no
host to call anything.

## 4. What is proved

All for any finite or infinite number of actors the assumptions admit
(`AceAssumption`, `HlsAssumption`, `LimiterAssumption`, `FfiAssumption`,
`TelegramAssumption`, `GatewayAssumption`, `LoginAssumption`, `DashAssumption`,
`DashDocuments`, `DashTypes`, `CencAssumption`, stated with the constants).

* **AcestreamSession**: `TypeCorrect`, `CountCorrect`, `StopSafe`, `FreshPid`.
  `IInv == TypeOK /\ PidInv /\ CountIsClients`: a count can be trusted only if
  all holders are on the registered pid, and that pid is not retired only
  because pids are handed out once, which is `PidInv`. `StopSafe` follows:
  viewers are on the registered session, whose pid is not retired.
* **HlsPrebuffer**: `TypeCorrect`, `OneWorker`, `UpdatesReach`, `WakeupsKept`,
  `OwnHeaders`. `IInv == TypeOK /\ Registered /\ Guarded /\ JobOk /\
  NoLostWakeup /\ FetchedUnderOwnHeaders`: `Registered` ties the map to the
  living workers in both directions, `Guarded` says that a call in progress
  pins its entry, so that eviction has to wait.
* **StreamLimiter**: `TypeCorrect`, `PermitsStayConserved`, and
  `ImplementsSlots`: `Spec => SemaphoreKeepsPromise`, a refinement with holders
  and waiters computed from the program counters. `IInv == TypeOK /\ QueueInv
  /\ MineInv /\ PermitsConserved`. Every step has one of five effects on the
  watched semaphore (`Effect`: someone enters, queues, leaves, hands over, gives
  up, or nothing); conservation and refinement both follow from the effect.
* **FfiServer**: `TypeCorrect`, `RunningHonest`, `FlagTracks`. `IInv == TypeOK
  /\ RunningIsTrue /\ FlagTracksServer /\ RepliesPort /\ StartsAlone`; the last
  two say that a reply names the listening port and that, without overlap, the
  start that is in progress is the one of the server that is on.
* **TelegramStream** (`TelegramAssumption`): `TypeCorrect`, `BodyCorrect`,
  `CompleteBodies`, `FreshConnection`, and `ParseRangeInFile` about
  `parse_range` alone. `IInv == TypeOK /\ BodyFollowsOffset /\ BodyIsRange /\
  EndedIsComplete /\ LeftIsGone /\ NotTheBrokenOneAgain`. `BodyFollowsOffset`
  computes the length of the body from the offset of the next chunk, so that a
  chunk continues exactly where the body is (`Continued`, `BodyGrows`), and says
  why a short chunk or an offset beyond the range means a complete body.
  `LeftIsGone` says that what a stream has left is broken and no longer cached
  while it waits to reconnect: `reset_client` has cleared `CLIENT`, and only new
  connections are put there.

* **StreamLimiter**, `StreamsStayPerThread`: a host sees at most `Max` streams
  per thread. `CreatorInv` gives every semaphore that is used the thread that
  created it: no thread creates two, because a thread does not leave
  `host_semaphore` half-way. With `PermitsConserved` the streams inject into
  threads times permits (`StreamsFit`), which bounds their number.
* **Gateway**: `LinksStayRight` (`LinksLead`), `GrantsStayHonoured`
  (`GrantHonoured`), `PrefetchStaysAskedFor` (`PrefetchIsAskedFor`), for all
  playlists, redirects, options, passwords and links that `GatewayAssumption`
  admits. `GatewayInv` says of every link at hand, not only of the one that is
  followed, that it leads to what is wanted (`Leads`) and grants what is wanted
  (`Grants`), and that each registered URL has a link that asks for it (`Asks`).
  The lemmas go along the layers: what `BuildUrl` builds `Parameters` gives back,
  what `Process` writes for an entry has the endpoint of its purpose, and what
  `MediaSegmentUrls` lists is among the segments `Process` links.
* **TelegramLogin**: `LoginStaysInOnePlace` (`LoginInOnePlace`) and `LoginGoesOn`
  (a login in the map can be gone on with by its code or by the password, never
  by both or neither). `LoginInv` adds `CallShape`: only a request that checks a
  code puts back what it took, and that was a login without a challenge.
* **XtreamCodes**: `ProviderStaysReached` (`ProviderReached`), for all accounts
  and answers of the API. `AccountInv` says it of everything the player has at
  hand: its username and every URL it was listed lead to the account, packed or
  legacy and however often they were rewritten, unless the account is
  `Mistakable`; a rewritten answer packs again what `Parse` took apart.
* **DashHandler**, for all MPDs, queries, players and orders of answers:
  * `MpdStaysFreshEnough` (`MpdFreshEnough`). `AgeInv` bounds the age of an MPD
    when it is stored and while its answer is on its way, so that the bound holds
    although an older answer may overwrite a newer one.
  * `MastersStayPlayable` (`MasterPlayable`), with `MasterInv == TimesInv /\
    MasterPlayable`. Its lemmas go along the pipeline: what filtering, sorting
    (`SortDownIs`) and removing duplicates (`DedupIs`) keep and lose, that the
    best of each height is among what is left, and that one audio track is the
    default.
  * `CompleteIsDecodable`: on a channel with `OwnInits`, `PlaylistComplete`
    implies `SegmentDecodable`. `ListInv` says that in every playlist the map in
    effect at a line (the last EXT-X-MAP before it) is the init segment that the
    line's own link names, whatever periods the MPD has and wherever the window
    begins, and that what is played comes from one line of the playlist shown.
  * `PlaylistsStayComplete`: on a channel that is `Truthful` and `Listable`,
    `PlaylistComplete` holds, so the link at a line names the right segment,
    whatever the MPD, its age, the profile, the window and the start offset; and
    with `CompleteIsDecodable`, `SegmentsStayDecodable`: every segment is played
    after its own init segment. `ListedInv` says that of the playlist shown last.
    The proof follows a segment through the handler. The code's expansion of a
    timeline, its quotients and its running sums over a sidx give the last
    segments that there truly are (`Matches`: `TimelineMatches`,
    `RecordingMatches`, `LiveMatches`, `ListMatches`, `FileMatches`); with the
    init segment of `compute_init_url` the profile lists them (`Lists`); the
    profiles with the id asked for are one of each period, in order
    (`OneOfEachIs`, since filtering a joined sequence keeps order and number);
    their segments, joined (`FlattenPlaces`), are the last of the channel's
    (`ListsAll`); and the window leaves out some of them only if the channel is
    live and as many stay as its depth asks for (`Completes`).
  * `SequencesNameSegments`: on a `Steady` channel `SequenceNamesSegment` holds.
    `NumberingInv` says that every media sequence number n ever given, from
    whatever MPD, window and start offset, is given to the segment that n counts
    (`Named`). The lemmas follow the code's arithmetic: an expanded timeline
    counts on (`TimelineCounts`), so do the segments made of a number template,
    the window is a stretch of them, and the media sequence, a start number or a
    rounded quotient of time and duration, is the number of its first segment.
* **CencStream**: `OutputIsBoxwise` (`BoxwiseOutput`), for all segments, with
  any boxes, keys and fragments, and for every way their bytes are cut into
  chunks. `CencInv` says that some k boxes were processed: the decrypter and the
  output are those of `Boxwise` after k boxes, and the reader is between boxes,
  in a header, inside box k + 1 with as many of its parts taken as have
  been received, or passing on a last box that reaches to the end. `Boxwise` and
  `FlattenSeq` are recursive over the data: their equations are taken from the
  theorems about well-founded recursion, and `SetInduction`, an induction over a
  set of numbers instead of an operator, serves for their lemmas.
* **What the decrypter does to the media**, on top of `CencInv`. `OutInv` says
  that the boxes that came out, in every state, are those of `Boxwise` up to
  their headers, and that a box that comes out after k others was made of its own
  box with the decrypter of that point. From it follow
  * `OffsetsStayHit` (`OffsetsHit`), for all `Regular` segments: the moof gets
    shorter by exactly `Overhead`, which is what each offset in it loses
    (`Chained`), and the units before the samples' stay as many;
  * `MediaStayInPlace`: whatever the moofs say, the media that came out are the
    first bytes of the segment, none lost, repeated or made up, unless the init
    segment has media of its own;
  * `BytesStayDecrypted` (`BytesDecrypted`), for all `Protected` segments.
    `SampleClears` proves for each scheme that the decryption of a sample takes
    away the keystream it was sealed with, byte by byte: the counter of AES-CTR
    after sub-samples of whole blocks, the chain of AES-CBC over the chosen
    blocks of a pattern. `BodyCleared` adds up the samples of all tracks of an
    mdat, of which the last to write a place counts, and `AsDescribed` says that
    the tracks the decrypter has after a moof are those the moof describes,
    although it reads them through state of earlier trafs and fragments.

  `Protected` presumes of a segment, besides the encryption itself, what the
  decrypter presumes of it: each mdat directly follows its moof; trafs follow each
  other and have one tfhd, one trun and at most one senc; a track whose key the
  request has is described by the init segment, has IVs as long as the last tenc
  says or a constant IV, and its samples have sizes. It leaves out what the
  decrypter gets wrong or the standard does not use: a pattern of no blocks at
  all, cenc sub-samples that end within a block, and cbc1 with several
  sub-samples (see 5.1). Where the samples of a track begin and end, and which key
  a track has, is taken from the model (`SampleEnds`, `KeyForTrack`); that this is
  where segments really have them is what the segments of `MCCenc` check, which
  are made without these operators.
* **The two ways to decrypt a segment**: `PathsStayAgreed` (`PathsAgree`), for all
  `Joinable` segments of one fragment. `CompleteInv` says that a stream that ended
  had keys and yielded every box that has arrived, or passes on the last one, so
  that a complete one yielded `Boxwise` of all boxes. The buffer path is compared
  with that in four steps: `list_atoms` finds in the units it is given exactly the
  boxes that were sent (`ListAtomsIs`); `decrypt_segment` puts into the place of
  every box what it made of the first of its type, and keeps those that are wanted
  (`DecryptSegmentIs`); keeping those and then leaving out the sidx is one
  filter (`FilteredTwice`); and both outputs are equal box by box, by induction
  over the boxes (`PathsJoin`).
  `Joinable` leaves out what really differs: init segments with fragments, a moov
  in the segment, a second mdat, a moof after its mdat, and boxes of the init
  segment that only one of the ways yields without `includeInit`.

Only model-checked:

* the liveness properties (`AbandonedEngineStops`, `QueueDrains`,
  `InactiveIsEvicted`, `QueueMoves`, `UnreachableServersStop`, `CallsReturn`,
  `RequestsEnd`), which need fairness and are out of the prover's reach.

## 5. What is not modelled

Left out for good: HTTP, TLS and sockets, parsing and formatting of third-party
pages (all extractors), static data, logging, metrics. Whether actix-server
closes its listener when `select!` in `ffi/mod.rs` drops the server future is not
decided by the sources here, so `Binds` may treat the port as taken or free.

Not modelled, and why:

* the DASH pre-buffer: nothing calls it; the transcoder: a request runs one
  ffmpeg and shares nothing, `transcode_bytes_to_stream` has no caller;
* worker threads that block on a DashMap shard whose guard a task of the same
  thread holds: which entries share a shard, and which tasks a thread, is not
  determined by the code;
* the EPG cache, a second read-through cache like that of MPDs;
* `ProxyRouter`: a pure choice made of a list at start-up;
* the retries of the Telegram history scan, and thread-local HTTP clients;
* of `drm/`: the fallback for a moof without a traf, senc versions and license
  servers.

### 5.1 What the code does besides

Behaviour met while modelling that the models contain or that their properties
had to leave room for:

* *CENC*: `cbc1` starts every sub-sample with the IV of the sample; the IV length
  is that of the last track's tenc; of several truns in a traf the last counts;
  a 64-bit mdat header, and a tfhd that is missing, shift offsets by what is not
  counted (`OffsetsHit` asks for `Regular` segments); a sidx reference smaller
  than what is stripped underflows.
* *DASH*: an older MPD that arrives late overwrites a newer one; a period
  without an init segment goes on with the EXT-X-MAP of the one before; a segment
  is served alone when its init segment could not be fetched; the resolution
  filter takes the first profile of that height; a negative repeat count, which
  in DASH repeats up to the end of the period, counts as 0; a numbered live
  channel that is younger than its window lists segments that do not exist yet;
  an EXT-X-MAP is repeated only when the URL changes, so that another range of
  the same file is missed; a live timeline without a start number that begins at
  time 0 has the media sequence 1 for two successive windows, because a quotient
  of 0 is replaced by 1 (`mpd/processor.rs:815`); of a recording whose segments
  have one duration each period lists as many as the whole recording needs
  (`mpd/processor.rs:499`), so that with several periods it lists too many, and
  their time is 0, so that a name with `$Time$` keeps the variable.
* *Links*: the options `key_only_proxy`, `no_proxy` and `start_offset` are not
  passed on to the links of sub-playlists; under `no_proxy` an X-MEDIA
  that m3u8-rs does not know stays relative in a master; session
  keys are left to m3u8-rs; a destination in base64 in the path is decoded by the
  stream handler only; an `h_range` a client writes itself is dropped from the
  links but not from the registration, so what is prefetched misses.
* *Telegram*: the suffix `bytes=-0` (2.5); a 2FA password sent before the code
  drops the login.
* *Xtream*: a numeric user of up to five digits with a password and no port is
  taken for a port, and a port with a path for a user if there is no password;
  with a configured password every request needs it in the query as well as in
  the username, and rewritten URLs do not have it; `docs/usage/xtream.md` says
  the username is the provider's, which is answered with 400; live streams and
  movies without an extension, short forms of series, `/hls/`, and
  `timeshift.php` are answered with 404; `/hlsr/` takes its token for a username;
  short streams and timeshifts other than ts lose their extension; a URL of the
  provider on a port that its URL does not have is rewritten to a broken one.
* *Routing* (`config.rs:550`): the comment says "fewer wildcards = more specific
  = higher priority", the comparison puts the pattern with the most wildcards
  first.

### 5.2 What could come next

1. `ProxyRouter` with `StreamLimiter`: which client a request gets, and that the
   thread-local clients follow the route.
2. `CachedFetch`: the EPG cache with header contexts.
3. `DashPrebuffer`, as soon as a handler uses it, with an abstract registry that
   `HlsPrebuffer` implements too.

No module declares a RECURSIVE operator, so that all can be proved about.

## 6. Running it

    tlc -workers 2 -config MCFfiServer.cfg MCFfiServer
    tlc -workers 2 -config MCProxy.cfg MCProxy
    tlapm FfiServer_proofs.tla
