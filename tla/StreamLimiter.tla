----------------------------- MODULE StreamLimiter -----------------------------
(***************************************************************************)
(* Upstream requests of the StreamManager (src/proxy/stream.rs) to one host *)
(* and the per-host semaphore that limits them.  No operation touches two   *)
(* hosts.  The manager is shared by the actix workers: requests of one      *)
(* worker thread interleave at awaits, requests of different threads at     *)
(* every access to the DashMap of semaphores or to a semaphore.             *)
(*                                                                         *)
(* kind is the operation a handler calls:                                   *)
(*   "get", "head"  create_stream (proxy/handler.rs, hls/segment.rs)        *)
(*   "bytes"        fetch_bytes, or make_request and then the body          *)
(*   "forward"      forward_request                                         *)
(* The semaphore is tokio's: waiters queue, and a permit that is given back *)
(* while someone waits is assigned to the first waiter.                     *)
(***************************************************************************)
EXTENDS Naturals, Sequences, FiniteSets

CONSTANTS
  Request,   \* upstream requests to the host
  Thread,    \* worker threads
  Sem,       \* semaphore objects; one per request is enough
  Watched,   \* any one of them
  None,      \* no semaphore
  Kinds,     \* the operations that are called
  Max        \* config.max_concurrent_per_host, not 0

ASSUME LimiterAssumption ==
  /\ IsFiniteSet(Request)
  /\ IsFiniteSet(Thread)
  /\ Watched \in Sem
  /\ None \notin Sem
  /\ Kinds \subseteq {"get", "head", "bytes", "forward"}
  /\ Max \in Nat \ {0}

VARIABLES
  entry,     \* per_host_semaphores: the host's semaphore or None
  permits,   \* permits left in each semaphore
  waiters,   \* each semaphore's queue of requests
  pc,        \* where each request is
  kind,      \* which operation it is
  thread,    \* the thread it runs on
  mine       \* the semaphore host_semaphore returned to it

vars == <<entry, permits, waiters, pc, kind, thread, mine>>

Pcs == {"idle",
        "lookup",    \* about to get() the host's semaphore
        "insert",    \* it found none
        "acquire",   \* has a semaphore, about to poll acquire_owned
        "queued",    \* waits for a permit
        "granted",   \* was assigned one, not polled since
        "headers",   \* request sent, awaiting the response headers
        "body",      \* the body is being read
        "done"}

TypeOK ==
  /\ entry \in Sem \cup {None}
  /\ permits \in [Sem -> 0 .. Max]
  /\ waiters \in [Sem -> Seq(Request)]
  /\ pc \in [Request -> Pcs]
  /\ kind \in [Request -> {"get", "head", "bytes", "forward"}]
  /\ thread \in [Request -> Thread]
  /\ mine \in [Request -> Sem \cup {None}]

Init ==
  /\ entry = None
  /\ permits = [s \in Sem |-> Max]
  /\ waiters = [s \in Sem |-> <<>>]
  /\ pc = [r \in Request |-> "idle"]
  /\ kind \in [Request -> Kinds]
  /\ thread \in [Request -> Thread]
  /\ mine = [r \in Request |-> None]

Goto(r, to) == pc' = [pc EXCEPT ![r] = to]

(* A thread does not leave host_semaphore half-way. *)
Running(r) ==
  \A q \in Request :
    q # r /\ thread[q] = thread[r] => pc[q] \notin {"lookup", "insert"}

----------------------------------------------------------------------------
(* host_semaphore *)

Start(r) ==
  /\ pc[r] = "idle"
  /\ Goto(r, IF kind[r] = "forward" THEN "headers" ELSE "lookup")
  /\ UNCHANGED <<entry, permits, waiters, kind, thread, mine>>

(* Mutant: every request gets a semaphore of its own. *)
LookupMisses(r) ==
  /\ pc[r] = "lookup"
  /\ Goto(r, "insert")
  /\ UNCHANGED <<entry, permits, waiters, kind, thread, mine>>

Lookup(r) ==
  /\ pc[r] = "lookup"
  /\ Goto(r, IF entry = None THEN "insert" ELSE "acquire")
  /\ mine' = [mine EXCEPT ![r] = entry]
  /\ UNCHANGED <<entry, permits, waiters, kind, thread>>

Insert(r) ==
  /\ pc[r] = "insert"
  /\ \E s \in Sem :
       /\ \A q \in Request : mine[q] # s
       /\ entry' = s
       /\ mine' = [mine EXCEPT ![r] = s]
  /\ Goto(r, "acquire")
  /\ UNCHANGED <<permits, waiters, kind, thread>>

----------------------------------------------------------------------------
(* The semaphore. *)

(* Mutant: a request may pass although no permit is left. *)
AcquireAlways(r) ==
  LET s == mine[r] IN
  /\ pc[r] = "acquire"
  /\ permits' = [permits EXCEPT ![s] = IF @ > 0 THEN @ - 1 ELSE @]
  /\ Goto(r, "headers")
  /\ UNCHANGED <<entry, waiters, kind, thread, mine>>

Acquire(r) ==
  LET s == mine[r] IN
  /\ pc[r] = "acquire"
  /\ \/ /\ permits[s] > 0
        /\ permits' = [permits EXCEPT ![s] = @ - 1]
        /\ Goto(r, "headers")
        /\ UNCHANGED waiters
     \/ /\ permits[s] = 0
        /\ waiters' = [waiters EXCEPT ![s] = Append(@, r)]
        /\ Goto(r, "queued")
        /\ UNCHANGED permits
  /\ UNCHANGED <<entry, kind, thread, mine>>

Granted(r) ==
  /\ pc[r] = "granted"
  /\ Goto(r, "headers")
  /\ UNCHANGED <<entry, permits, waiters, kind, thread, mine>>

(* Mutant: the permit is freed though somebody waits for it. *)
GivesUpPermit(r, to) ==
  LET s == mine[r] IN
  /\ permits' = [permits EXCEPT ![s] = @ + 1]
  /\ Goto(r, to)
  /\ UNCHANGED waiters

(* Request r drops its permit and goes on to "to". *)
ReleasePermit(r, to) ==
  LET s == mine[r] IN
  \/ /\ waiters[s] = <<>>
     /\ permits' = [permits EXCEPT ![s] = @ + 1]
     /\ Goto(r, to)
     /\ UNCHANGED waiters
  \/ /\ waiters[s] # <<>>
     /\ waiters' = [waiters EXCEPT ![s] = Tail(@)]
     /\ pc' = [pc EXCEPT ![r] = to, ![Head(waiters[s])] = "granted"]
     /\ UNCHANGED permits

----------------------------------------------------------------------------
(* The request. *)

(* The response headers arrived with an acceptable status.  Only a stream   *)
(* takes the permit along with its body.                                    *)
HeadersArrive(r) ==
  /\ pc[r] = "headers"
  /\ \/ /\ kind[r] \in {"get", "forward"}
        /\ Goto(r, "body")
        /\ UNCHANGED <<permits, waiters>>
     \/ /\ kind[r] = "head"
        /\ ReleasePermit(r, "done")
     \/ /\ kind[r] = "bytes"
        /\ ReleasePermit(r, "body")
  /\ UNCHANGED <<entry, kind, thread, mine>>

(* Mutant: the permit is forgotten when there is no stream to carry it. *)
RequestFailsHolding(r) ==
  /\ pc[r] = "headers"
  /\ Goto(r, "done")
  /\ UNCHANGED <<entry, permits, waiters, kind, thread, mine>>

(* Header timeout, connection failure, or an error status. *)
RequestFails(r) ==
  /\ pc[r] = "headers"
  /\ \/ /\ kind[r] = "forward"
        /\ Goto(r, "done")
        /\ UNCHANGED <<permits, waiters>>
     \/ /\ kind[r] # "forward"
        /\ ReleasePermit(r, "done")
  /\ UNCHANGED <<entry, kind, thread, mine>>

(* The body ends, fails or times out, or its reader goes away. *)
BodyEnds(r) ==
  /\ pc[r] = "body"
  /\ \/ /\ kind[r] = "get"
        /\ ReleasePermit(r, "done")
     \/ /\ kind[r] # "get"
        /\ Goto(r, "done")
        /\ UNCHANGED <<permits, waiters>>
  /\ UNCHANGED <<entry, kind, thread, mine>>

Without(q, i) == SubSeq(q, 1, i - 1) \o SubSeq(q, i + 1, Len(q))

(* The client leaves: actix drops the handler at its await. *)
DropQueued(r) ==
  LET s == mine[r] IN
  /\ pc[r] = "queued"
  /\ \E i \in DOMAIN waiters[s] :
       /\ waiters[s][i] = r
       /\ waiters' = [waiters EXCEPT ![s] = Without(@, i)]
  /\ Goto(r, "done")
  /\ UNCHANGED <<entry, permits, kind, thread, mine>>

DropGranted(r) ==
  /\ pc[r] = "granted"
  /\ ReleasePermit(r, "done")
  /\ UNCHANGED <<entry, kind, thread, mine>>

----------------------------------------------------------------------------

Step(r) ==
  \/ Start(r) \/ Lookup(r) \/ Insert(r) \/ Acquire(r) \/ Granted(r)
  \/ HeadersArrive(r) \/ RequestFails(r) \/ BodyEnds(r)
  \/ DropQueued(r) \/ DropGranted(r)

Next == \E r \in Request : Running(r) /\ Step(r)

(* Tasks are polled; headers and buffered bodies have timeouts.  The body   *)
(* of a stream may go on for ever.                                          *)
Progress(r) ==
  /\ Running(r)
  /\ \/ Lookup(r) \/ Insert(r) \/ Acquire(r) \/ Granted(r)
     \/ HeadersArrive(r) \/ RequestFails(r)
     \/ kind[r] # "get" /\ BodyEnds(r)

Fairness == \A r \in Request : WF_vars(Progress(r))

Spec     == Init /\ [][Next]_vars
FairSpec == Spec /\ Fairness

----------------------------------------------------------------------------
(* Properties. *)

(* Requests that hold a permit of semaphore s, or wait for one. *)
Holders(s) ==
  {r \in Request :
     /\ mine[r] = s
     /\ \/ pc[r] \in {"granted", "headers"}
        \/ pc[r] = "body" /\ kind[r] = "get"}

Waiting(s) == {r \in Request : mine[r] = s /\ pc[r] = "queued"}

(* Queue q holds the members of set W, each once. *)
Lists(q, W) ==
  /\ \A i \in DOMAIN q : q[i] \in W
  /\ \A i, j \in DOMAIN q : q[i] = q[j] => i = j
  /\ \A r \in W : \E i \in DOMAIN q : q[i] = r

(* A semaphore's queue holds the requests that wait for it and is empty     *)
(* while permits are left.                                                  *)
QueueInv ==
  \A s \in Sem :
    /\ Lists(waiters[s], Waiting(s))
    /\ waiters[s] # <<>> => permits[s] = 0

(* A request has a semaphore exactly from host_semaphore on; forward_request *)
(* never asks for one.                                                      *)
MineInv ==
  \A r \in Request :
    /\ pc[r] \in {"idle", "lookup", "insert"} => mine[r] = None
    /\ pc[r] \in {"acquire", "queued", "granted"} => mine[r] \in Sem
    /\ kind[r] # "forward" /\ pc[r] \in {"headers", "body"} => mine[r] \in Sem
    /\ kind[r] = "forward" =>
         mine[r] = None /\ pc[r] \in {"idle", "headers", "body", "done"}

(* No path of create_stream, make_request or fetch_bytes, failing, dropped  *)
(* or ending early, loses a permit or gives one back twice.                 *)
PermitsConserved ==
  \A s \in Sem : permits[s] + Cardinality(Holders(s)) = Max

(* The inductive invariant of StreamLimiter_proofs. *)
IInv == TypeOK /\ QueueInv /\ MineInv /\ PermitsConserved

(* Each semaphore does what HostSlots promises, whatever its requests do.   *)
Slots == INSTANCE HostSlots
           WITH holding <- Holders(Watched), waiting <- Waiting(Watched)

SemaphoreKeepsPromise == Slots!Spec

(* host_semaphore's get-then-insert lets threads that miss at the same time *)
(* create a semaphore each, but no thread misses twice: the host sees at    *)
(* most Max streams per worker thread.                                      *)
StreamsPerThread ==
  Cardinality(UNION {Holders(s) : s \in Sem}) <= Max * Cardinality(Thread)

(* "The permit ... drops when the stream is exhausted or cancelled": a      *)
(* request is stuck in the queue only while live streams take all permits.  *)
QueueMoves ==
  \A r \in Request :
    pc[r] = "queued" ~>
      \/ pc[r] # "queued"
      \/ /\ Cardinality(Holders(mine[r])) = Max
         /\ \A q \in Holders(mine[r]) : pc[q] = "body"

(* Doc of per_host_semaphores: it "caps simultaneous in-flight upstream     *)
(* requests to the same origin".  Streams of the host, whatever semaphore   *)
(* they hold, are at most Max.                                              *)
StreamsPerHost ==
  Cardinality({r \in Request : kind[r] = "get" /\ pc[r] \in {"headers", "body"}})
    <= Max

=============================================================================
