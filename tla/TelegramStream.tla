----------------------------- MODULE TelegramStream -----------------------------
(***************************************************************************)
(* Streaming of Telegram documents (src/telegram/handler.rs and             *)
(* src/telegram/session.rs).  All requests of the process share one client  *)
(* connection, CLIENT, behind a tokio mutex that get_or_init_client holds   *)
(* while it connects.  A stream keeps its Arc of the client, fetches the    *)
(* document in aligned chunks and, when the connection breaks, resets       *)
(* CLIENT and goes on with another connection at the same offset.           *)
(*                                                                         *)
(* A document is the byte positions 0 .. length - 1; a byte is its          *)
(* position.  What a request asks for:                                      *)
(*   mode "message"  chat_id with message_id or document_id                 *)
(*        "either"   chat_id with file_id: a lookup, then the file_id       *)
(*        "file_id"  file_id and file_size, without a lookup                *)
(*   size            the file_size parameter; 0 if it is absent or zero     *)
(*   header          its Range header, see ParseRange                       *)
(*   length          the length of the document                             *)
(***************************************************************************)
EXTENDS Integers, Sequences

CONSTANTS
  Stream,         \* the requests
  Client,         \* bound: connections that may be made
  None,           \* no connection, no request
  Job,            \* what requests may ask for
  Chunk,          \* MAX_CHUNK
  MaxReconnects   \* MAX_RECONNECTS

Headers == [kind : {"none", "suffix", "from", "between"}, low : Nat, high : Nat]
Jobs    == [mode : {"message", "either", "file_id"}, head : BOOLEAN,
            size : Nat, header : Headers, length : Nat \ {0}]

ASSUME TelegramAssumption ==
  /\ Job \subseteq Jobs
  /\ Chunk \in Nat \ {0}
  /\ MaxReconnects \in Nat
  /\ None \notin Client
  /\ None \notin Stream

VARIABLES
  shared,      \* CLIENT: the cached connection or None
  holder,      \* the request that holds CLIENT's mutex across an await
  made,        \* connections that have been made
  broken,      \* connections that are dead
  pc,          \* where each request is
  job,         \* what it asks for
  client,      \* its Arc of a client
  range,       \* what parse_range returned
  offset,      \* chunk_offset
  sent,        \* the bytes yielded so far
  reconnects,  \* reconnect_count
  left         \* history: connections this stream has left as broken

connections == <<shared, holder, made, broken>>
body        == <<range, offset, sent>>
vars == <<connections, pc, job, client, body, reconnects, left>>

Pcs == {"idle",
        "lock", "connect",       \* get_or_init_client in the handler
        "resolve",               \* looking up the document
        "fetch",                 \* GetFile is sent, or about to be
        "reset",                 \* about to lock CLIENT to clear it
        "relock", "reconnect",   \* get_or_init_client in fetch_chunk
        "ended", "failed", "refused", "dropped"}

Over(s) == pc[s] \in {"ended", "failed", "refused", "dropped"}

TypeOK ==
  /\ shared \in Client \cup {None}
  /\ holder \in Stream \cup {None}
  /\ made \subseteq Client
  /\ broken \subseteq made
  /\ pc \in [Stream -> Pcs]
  /\ job \in [Stream -> Job]
  /\ client \in [Stream -> Client \cup {None}]
  /\ range \in [Stream -> [start : Nat, end : Nat]]
  /\ offset \in [Stream -> Nat]
  /\ sent \in [Stream -> Seq(Nat)]
  /\ reconnects \in [Stream -> 0 .. MaxReconnects]
  /\ left \in [Stream -> SUBSET Client]

Init ==
  /\ shared = None
  /\ holder = None
  /\ made = {}
  /\ broken = {}
  /\ pc = [s \in Stream |-> "idle"]
  /\ job \in [Stream -> Job]
  /\ client = [s \in Stream |-> None]
  /\ range = [s \in Stream |-> [start |-> 0, end |-> 0]]
  /\ offset = [s \in Stream |-> 0]
  /\ sent = [s \in Stream |-> <<>>]
  /\ reconnects = [s \in Stream |-> 0]
  /\ left = [s \in Stream |-> {}]

Goto(s, to) == pc' = [pc EXCEPT ![s] = to]

Least(a, b)    == IF a <= b THEN a ELSE b
Greatest(a, b) == IF a <= b THEN b ELSE a

----------------------------------------------------------------------------
(* parse_range and the alignment of the first chunk *)

(* saturating_sub(1) *)
LastByte(size) == IF size = 0 THEN 0 ELSE size - 1

WholeFile(size) == [start |-> 0, end |-> LastByte(size)]

Suffix(n, size) == [start |-> size - Least(n, size), end |-> LastByte(size)]

Between(low, high, size) ==
  IF low > Least(high, LastByte(size))
  THEN WholeFile(size)
  ELSE [start |-> low, end |-> Least(high, LastByte(size))]

(* Text that does not parse is 0 as the start or the suffix length, and     *)
(* absent as the end.                                                       *)
ParseRange(h, size) ==
  CASE h.kind = "none"    -> WholeFile(size)
    [] h.kind = "suffix"  -> Suffix(h.low, size)
    [] h.kind = "from"    -> Between(h.low, LastByte(size), size)
    [] h.kind = "between" -> Between(h.low, h.high, size)

(* content_length and total_needed: end - start + 1, which is 0 for the     *)
(* suffix "bytes=-0" (u64 wraps in a release build; a debug build panics).  *)
Total(s) == range[s].end - range[s].start + 1

AlignDown(n) == (n \div Chunk) * Chunk

----------------------------------------------------------------------------
(* get_or_init_client, from the handler and from fetch_chunk *)

Arrive(s) ==
  /\ pc[s] = "idle"
  /\ Goto(s, "lock")
  /\ UNCHANGED <<connections, job, client, body, reconnects, left>>

After(s) == IF pc[s] \in {"lock", "connect"} THEN "resolve" ELSE "fetch"

ReuseClient(s) ==
  /\ pc[s] \in {"lock", "relock"}
  /\ holder = None
  /\ shared # None
  /\ client' = [client EXCEPT ![s] = shared]
  /\ Goto(s, After(s))
  /\ UNCHANGED <<connections, job, body, reconnects, left>>

StartConnect(s) ==
  /\ pc[s] \in {"lock", "relock"}
  /\ holder = None
  /\ shared = None
  /\ holder' = s
  /\ Goto(s, IF pc[s] = "lock" THEN "connect" ELSE "reconnect")
  /\ UNCHANGED <<shared, made, broken, job, client, body, reconnects, left>>

Connected(s) ==
  /\ pc[s] \in {"connect", "reconnect"}
  /\ \E c \in Client \ made :
       /\ made' = made \cup {c}
       /\ shared' = c
       /\ client' = [client EXCEPT ![s] = c]
  /\ holder' = None
  /\ Goto(s, After(s))
  /\ UNCHANGED <<broken, job, body, reconnects, left>>

ConnectFails(s) ==
  /\ pc[s] \in {"connect", "reconnect"}
  /\ holder' = None
  /\ Goto(s, IF pc[s] = "connect" THEN "refused" ELSE "failed")
  /\ UNCHANGED <<shared, made, broken, job, client, body, reconnects, left>>

----------------------------------------------------------------------------
(* The document: telegram_stream_handler between client and body *)

(* The headers are sent; a HEAD is answered without a body. *)
Answer(s, size) ==
  LET r == ParseRange(job[s].header, size) IN
  /\ range' = [range EXCEPT ![s] = r]
  /\ offset' = [offset EXCEPT ![s] = AlignDown(r.start)]
  /\ Goto(s, IF job[s].head THEN "ended" ELSE "fetch")

(* A message or a scan of the history gives the document with its size. *)
Found(s) ==
  /\ pc[s] = "resolve"
  /\ job[s].mode \in {"message", "either"}
  /\ client[s] \notin broken
  /\ Answer(s, job[s].length)
  /\ UNCHANGED <<connections, job, client, sent, reconnects, left>>

(* The file_id is used as it is, with the size the request gives. *)
Trusted(s) ==
  /\ pc[s] = "resolve"
  /\ job[s].mode \in {"either", "file_id"}
  /\ job[s].size # 0
  /\ Answer(s, job[s].size)
  /\ UNCHANGED <<connections, job, client, sent, reconnects, left>>

(* Not found, which is also what a broken connection comes to, no size, or  *)
(* a file_id that cannot be decoded.                                        *)
NotResolved(s) ==
  /\ pc[s] = "resolve"
  /\ Goto(s, "refused")
  /\ UNCHANGED <<connections, job, client, body, reconnects, left>>

----------------------------------------------------------------------------
(* stream_document_range and fetch_chunk *)

Wanted(s) == pc[s] = "fetch" /\ Len(sent[s]) < Total(s)

(* bytes_emitted >= total_needed *)
Enough(s) ==
  /\ pc[s] = "fetch"
  /\ Len(sent[s]) >= Total(s)
  /\ Goto(s, "ended")
  /\ UNCHANGED <<connections, job, client, body, reconnects, left>>

(* The part from..to of a chunk that is yielded. *)
Slice(from, to) == [i \in 1 .. to - from + 1 |-> from + i - 1]

(* Mutant: the last byte is forgotten when a chunk begins with it. *)
GetChunkTooFew(s) ==
  LET size == Least(Chunk, job[s].length - offset[s])
      from == Greatest(range[s].start, offset[s])
      to   == Least(range[s].end, offset[s] + size - 1)
  IN
  /\ Wanted(s)
  /\ client[s] \notin broken
  /\ offset[s] < job[s].length
  /\ sent' = [sent EXCEPT ![s] = IF from <= to THEN @ \o Slice(from, to) ELSE @]
  /\ offset' = [offset EXCEPT ![s] = @ + size]
  /\ Goto(s, IF size < Chunk \/ offset[s] + size >= range[s].end
             THEN "ended" ELSE "fetch")
  /\ UNCHANGED <<connections, job, client, range, reconnects, left>>

(* GetFile answers with the bytes at the offset, up to Chunk of them. *)
GetChunk(s) ==
  LET size == Least(Chunk, job[s].length - offset[s])
      from == Greatest(range[s].start, offset[s])
      to   == Least(range[s].end, offset[s] + size - 1)
  IN
  /\ Wanted(s)
  /\ client[s] \notin broken
  /\ offset[s] < job[s].length
  /\ sent' = [sent EXCEPT ![s] = IF from <= to THEN @ \o Slice(from, to) ELSE @]
  /\ offset' = [offset EXCEPT ![s] = @ + size]
  /\ Goto(s, IF size < Chunk \/ offset[s] + size > range[s].end
             THEN "ended" ELSE "fetch")
  /\ UNCHANGED <<connections, job, client, range, reconnects, left>>

GetNothing(s) ==
  /\ Wanted(s)
  /\ client[s] \notin broken
  /\ offset[s] >= job[s].length
  /\ Goto(s, "ended")
  /\ UNCHANGED <<connections, job, client, body, reconnects, left>>

(* A CDN redirect or an error that is not an IO error. *)
GetFails(s) ==
  /\ Wanted(s)
  /\ Goto(s, "failed")
  /\ UNCHANGED <<connections, job, client, body, reconnects, left>>

(* Mutant: one reconnect more than MAX_RECONNECTS. *)
DisconnectedOnceMore(s) ==
  /\ Wanted(s)
  /\ client[s] \in broken
  /\ reconnects[s] <= MaxReconnects
  /\ reconnects' = [reconnects EXCEPT ![s] = @ + 1]
  /\ left' = [left EXCEPT ![s] = @ \cup {client[s]}]
  /\ Goto(s, "reset")
  /\ UNCHANGED <<connections, job, client, body>>

(* Mutant: the stream goes on with the next chunk. *)
DisconnectedSkips(s) ==
  /\ Wanted(s)
  /\ client[s] \in broken
  /\ reconnects[s] < MaxReconnects
  /\ reconnects' = [reconnects EXCEPT ![s] = @ + 1]
  /\ left' = [left EXCEPT ![s] = @ \cup {client[s]}]
  /\ offset' = [offset EXCEPT ![s] = @ + Chunk]
  /\ Goto(s, "reset")
  /\ UNCHANGED <<connections, job, client, range, sent>>

Disconnected(s) ==
  /\ Wanted(s)
  /\ client[s] \in broken
  /\ reconnects[s] < MaxReconnects
  /\ reconnects' = [reconnects EXCEPT ![s] = @ + 1]
  /\ left' = [left EXCEPT ![s] = @ \cup {client[s]}]
  /\ Goto(s, "reset")
  /\ UNCHANGED <<connections, job, client, body>>

GivesUp(s) ==
  /\ Wanted(s)
  /\ client[s] \in broken
  /\ reconnects[s] = MaxReconnects
  /\ Goto(s, "failed")
  /\ UNCHANGED <<connections, job, client, body, reconnects, left>>

(* Mutant: a client that is still cached is kept. *)
ResetNothing(s) ==
  /\ pc[s] = "reset"
  /\ holder = None
  /\ Goto(s, "relock")
  /\ UNCHANGED <<connections, job, client, body, reconnects, left>>

(* reset_client, whichever client is cached by now, and the sleep. *)
ResetClient(s) ==
  /\ pc[s] = "reset"
  /\ holder = None
  /\ shared' = None
  /\ Goto(s, "relock")
  /\ UNCHANGED <<holder, made, broken, job, client, body, reconnects, left>>

----------------------------------------------------------------------------
(* The environment *)

(* Mutant: the mutex is not released with the future that holds it. *)
DropKeepsMutex(s) ==
  /\ pc[s] # "idle"
  /\ ~Over(s)
  /\ Goto(s, "dropped")
  /\ UNCHANGED <<connections, job, client, body, reconnects, left>>

(* The player hangs up: the handler or the stream is dropped at an await. *)
DropRequest(s) ==
  /\ pc[s] # "idle"
  /\ ~Over(s)
  /\ holder' = IF holder = s THEN None ELSE holder
  /\ Goto(s, "dropped")
  /\ UNCHANGED <<shared, made, broken, job, client, body, reconnects, left>>

Breaks(c) ==
  /\ c \in made \ broken
  /\ broken' = broken \cup {c}
  /\ UNCHANGED <<shared, holder, made, pc, job, client, body, reconnects, left>>

----------------------------------------------------------------------------

Progress(s) ==
  \/ ReuseClient(s) \/ StartConnect(s) \/ Connected(s) \/ ConnectFails(s)
  \/ Found(s) \/ Trusted(s) \/ NotResolved(s)
  \/ Enough(s) \/ GetChunk(s) \/ GetNothing(s) \/ GetFails(s)
  \/ Disconnected(s) \/ GivesUp(s) \/ ResetClient(s)

Next ==
  \/ \E s \in Stream : Arrive(s) \/ Progress(s) \/ DropRequest(s)
  \/ \E c \in Client : Breaks(c)

(* Futures are polled and Telegram answers or the connection breaks; the    *)
(* tokio mutex is fair, so that who waits for it gets it.                   *)
Fairness ==
  \A s \in Stream :
    /\ WF_vars(Progress(s))
    /\ SF_vars(ReuseClient(s) \/ StartConnect(s) \/ ResetClient(s))

Spec     == Init /\ [][Next]_vars
FairSpec == Spec /\ Fairness

----------------------------------------------------------------------------
(* Properties. *)

(* The body is the requested range from its first byte on, each byte once   *)
(* and in order, and never goes beyond Content-Length: whatever chunks were *)
(* fetched again after a reconnect.                                         *)
BodyIsRange ==
  \A s \in Stream :
    /\ \A i \in 1 .. Len(sent[s]) : sent[s][i] = range[s].start + i - 1
    /\ Len(sent[s]) <= Total(s)

(* A body that ends without an error has all the bytes Content-Length       *)
(* announced, if the size it was computed from is not too large.            *)
EndedIsComplete ==
  \A s \in Stream :
    pc[s] = "ended" /\ ~job[s].head /\ range[s].end < job[s].length =>
      Len(sent[s]) = Total(s)

(* How far the body has come, from the offset of the next chunk.  A request *)
(* that is over is done with its offset.                                    *)
InStream(s) == pc[s] \in {"fetch", "reset", "relock", "reconnect"}

BodyFollowsOffset ==
  \A s \in Stream :
    /\ range[s].start <= range[s].end + 1
    /\ ~InStream(s) /\ ~Over(s) => sent[s] = <<>>
    /\ InStream(s) =>
         Len(sent[s]) = IF offset[s] <= range[s].start THEN 0
                        ELSE Least(offset[s], range[s].end + 1) - range[s].start

(* Comment of stream_document_range: the same chunk is retried after the    *)
(* broken client "is replaced in-place".  A stream never gets back a        *)
(* connection that it left as broken, whoever else connects or resets.      *)
NotTheBrokenOneAgain ==
  \A s \in Stream : pc[s] = "fetch" => client[s] \notin left[s]

(* Why it does not: what a stream left is broken, and is not cached when it *)
(* asks for a connection again.                                             *)
LeftIsGone ==
  \A s \in Stream :
    /\ left[s] \subseteq broken
    /\ pc[s] \in {"idle", "lock", "connect", "resolve"} => left[s] = {}
    /\ pc[s] \in {"relock", "reconnect"} => shared \notin left[s]

(* The inductive invariant of TelegramStream_proofs. *)
IInv ==
  /\ TypeOK
  /\ BodyFollowsOffset /\ BodyIsRange /\ EndedIsComplete
  /\ LeftIsGone /\ NotTheBrokenOneAgain

(* No request hangs, whoever is dropped while it holds the mutex. *)
RequestsEnd == \A s \in Stream : pc[s] # "idle" ~> Over(s)

=============================================================================
