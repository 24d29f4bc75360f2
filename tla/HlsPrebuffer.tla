----------------------------- MODULE HlsPrebuffer -----------------------------
(***************************************************************************)
(* The HLS segment pre-buffer (src/hls/prebuffer.rs).  It is built once and *)
(* shared by all actix workers, so its tasks run in parallel: a step here   *)
(* is one critical section of a prefetcher's mutexes, or one access to the  *)
(* DashMap of prefetchers.                                                  *)
(*                                                                         *)
(* A task is a call of register_playlist (spawned by the manifest handler)  *)
(* or of on_segment_request (from the segment handler).  Both keep the      *)
(* DashMap guard of the playlist's entry across their awaits: a task past   *)
(* its lookup holds the guard until it ends.  DashMap locks a shard of keys *)
(* at a time; here a shard is one playlist.                                 *)
(***************************************************************************)
EXTENDS Naturals, Sequences, FiniteSets

CONSTANTS
  Playlist,       \* playlist URLs
  Segment,        \* segment URLs
  Headers,        \* request header contexts
  Queues,         \* the segment lists a playlist may be registered with
  Task,           \* calls of the two operations
  Prefetcher,     \* bound: the PlaylistPrefetcher objects that may be created
  None,           \* no prefetcher, no playlist
  Ahead           \* config.segments_ahead

(* The manifest handler registers at most Ahead urls, and never none. *)
ASSUME HlsAssumption ==
  /\ Queues \subseteq Seq(Segment) \ {<<>>}
  /\ Headers # {}
  /\ Ahead \in Nat \ {0}
  /\ None \notin Prefetcher
  /\ None \notin Playlist

VARIABLES
  entry,      \* prefetchers: the DashMap, playlist -> prefetcher or None
  key,        \* playlist_key captured by the prefetcher's worker
  queue,      \* state.queue
  headers,    \* state.headers
  idle,       \* last_active is inactivity_timeout or more ago
  wake,       \* the permit stored in the Notify
  worker,     \* where the prefetcher's worker task is
  batch,      \* what the worker popped: urls and the headers to fetch with
  cache,      \* keys of the shared segment cache: <<url, headers>>
  pc,         \* where each call is
  job,        \* its arguments
  target,     \* the prefetcher whose entry it found
  offered,    \* history: <<prefetcher, url, headers>> registered together
  requested   \* history: <<prefetcher, url>> asked for by the player

state == <<entry, key, queue, headers, idle, wake, worker, batch, cache>>
calls == <<pc, job, target>>
vars  == <<state, calls, offered, requested>>

WorkerPcs == {"none", "check", "evict", "pop", "filter", "fetch", "wait", "gone"}
Updating  == {"replace", "stamp", "notify"}     \* holds the write guard
Promoting == {"promote", "ring", "mark"}        \* holds a read guard
Pcs       == {"idle", "done"} \cup Updating \cup Promoting

Job == [playlist : Playlist \cup {None}, urls : Seq(Segment), headers : Headers]

TypeOK ==
  /\ entry \in [Playlist -> Prefetcher \cup {None}]
  /\ key \in [Prefetcher -> Playlist \cup {None}]
  /\ queue \in [Prefetcher -> Seq(Segment)]
  /\ headers \in [Prefetcher -> Headers]
  /\ idle \in [Prefetcher -> BOOLEAN]
  /\ wake \in [Prefetcher -> BOOLEAN]
  /\ worker \in [Prefetcher -> WorkerPcs]
  /\ batch \in [Prefetcher -> [urls : SUBSET Segment, headers : Headers]]
  /\ cache \subseteq Segment \X Headers
  /\ pc \in [Task -> Pcs]
  /\ job \in [Task -> Job]
  /\ target \in [Task -> Prefetcher \cup {None}]
  /\ offered \subseteq Prefetcher \X Segment \X Headers
  /\ requested \subseteq Prefetcher \X Segment

SomeHeaders == CHOOSE h \in Headers : TRUE
NoJob == [playlist |-> None, urls |-> <<>>, headers |-> SomeHeaders]

Init ==
  /\ entry = [p \in Playlist |-> None]
  /\ key = [x \in Prefetcher |-> None]
  /\ queue = [x \in Prefetcher |-> <<>>]
  /\ headers = [x \in Prefetcher |-> SomeHeaders]
  /\ idle = [x \in Prefetcher |-> FALSE]
  /\ wake = [x \in Prefetcher |-> FALSE]
  /\ worker = [x \in Prefetcher |-> "none"]
  /\ batch = [x \in Prefetcher |-> [urls |-> {}, headers |-> SomeHeaders]]
  /\ cache = {}
  /\ pc = [t \in Task |-> "idle"]
  /\ job = [t \in Task |-> NoJob]
  /\ target = [t \in Task |-> None]
  /\ offered = {}
  /\ requested = {}

Elems(s) == {s[i] : i \in DOMAIN s}

(* Guards on the entry of playlist p. *)
WriteLocked(p) == \E t \in Task : pc[t] \in Updating /\ job[t].playlist = p
ReadLocked(p)  == \E t \in Task : pc[t] \in Promoting /\ job[t].playlist = p
Unlocked(p)    == ~WriteLocked(p) /\ ~ReadLocked(p)

Goto(t, to) == pc' = [pc EXCEPT ![t] = to]

Return(t) ==
  /\ Goto(t, "done")
  /\ job' = [job EXCEPT ![t] = NoJob]
  /\ target' = [target EXCEPT ![t] = None]

----------------------------------------------------------------------------
(* register_playlist *)

(* Mutant: the map is not asked for an earlier prefetcher. *)
RegisterOver(t, p, urls, h) ==
  /\ pc[t] = "idle"
  /\ Unlocked(p)
  /\ \E x \in Prefetcher :
       /\ worker[x] = "none"
       /\ entry' = [entry EXCEPT ![p] = x]
       /\ key' = [key EXCEPT ![x] = p]
       /\ queue' = [queue EXCEPT ![x] = urls]
       /\ headers' = [headers EXCEPT ![x] = h]
       /\ worker' = [worker EXCEPT ![x] = "check"]
       /\ offered' = offered \cup {<<x, u, h>> : u \in Elems(urls)}
  /\ Goto(t, "done")
  /\ UNCHANGED <<idle, wake, batch, cache, job, target, requested>>

(* Entry::Vacant: the new prefetcher is inserted and its worker spawned (no  *)
(* await lies between, and an unspawned worker is like one not yet polled).  *)
RegisterNew(t, p, urls, h) ==
  /\ pc[t] = "idle"
  /\ entry[p] = None
  /\ Unlocked(p)
  /\ \E x \in Prefetcher :
       /\ worker[x] = "none"
       /\ entry' = [entry EXCEPT ![p] = x]
       /\ key' = [key EXCEPT ![x] = p]
       /\ queue' = [queue EXCEPT ![x] = urls]
       /\ headers' = [headers EXCEPT ![x] = h]
       /\ worker' = [worker EXCEPT ![x] = "check"]
       /\ offered' = offered \cup {<<x, u, h>> : u \in Elems(urls)}
  /\ Goto(t, "done")
  /\ UNCHANGED <<idle, wake, batch, cache, job, target, requested>>

(* Entry::Occupied: update() runs under the write guard. *)
RegisterKnown(t, p, urls, h) ==
  /\ pc[t] = "idle"
  /\ entry[p] # None
  /\ Unlocked(p)
  /\ Goto(t, "replace")
  /\ job' = [job EXCEPT ![t] = [playlist |-> p, urls |-> urls, headers |-> h]]
  /\ target' = [target EXCEPT ![t] = entry[p]]
  /\ UNCHANGED <<state, offered, requested>>

(* Mutant: the headers stay those of the first registration. *)
ReplaceQueueOnly(t) ==
  LET x == target[t] IN
  /\ pc[t] = "replace"
  /\ queue' = [queue EXCEPT ![x] = job[t].urls]
  /\ offered' = offered \cup {<<x, u, job[t].headers>> : u \in Elems(job[t].urls)}
  /\ Goto(t, "stamp")
  /\ UNCHANGED <<entry, key, headers, idle, wake, worker, batch, cache,
                 job, target, requested>>

(* Queue and headers change under one lock of state. *)
Replace(t) ==
  LET x == target[t] IN
  /\ pc[t] = "replace"
  /\ queue' = [queue EXCEPT ![x] = job[t].urls]
  /\ headers' = [headers EXCEPT ![x] = job[t].headers]
  /\ offered' = offered \cup {<<x, u, job[t].headers>> : u \in Elems(job[t].urls)}
  /\ Goto(t, "stamp")
  /\ UNCHANGED <<entry, key, idle, wake, worker, batch, cache,
                 job, target, requested>>

Stamp(t) ==
  /\ pc[t] = "stamp"
  /\ idle' = [idle EXCEPT ![target[t]] = FALSE]
  /\ Goto(t, "notify")
  /\ UNCHANGED <<entry, key, queue, headers, wake, worker, batch, cache,
                 job, target, offered, requested>>

Notify(t) ==
  /\ pc[t] = "notify"
  /\ wake' = [wake EXCEPT ![target[t]] = TRUE]
  /\ Return(t)
  /\ UNCHANGED <<entry, key, queue, headers, idle, worker, batch, cache,
                 offered, requested>>

----------------------------------------------------------------------------
(* on_segment_request *)

RequestUnknown(t, p) ==
  /\ pc[t] = "idle"
  /\ entry[p] = None
  /\ ~WriteLocked(p)
  /\ Goto(t, "done")
  /\ UNCHANGED <<state, job, target, offered, requested>>

(* A request brings no headers. *)
Asks(p, u) == [playlist |-> p, urls |-> <<u>>, headers |-> SomeHeaders]

RequestKnown(t, p, u) ==
  /\ pc[t] = "idle"
  /\ entry[p] # None
  /\ ~WriteLocked(p)
  /\ Goto(t, "promote")
  /\ job' = [job EXCEPT ![t] = Asks(p, u)]
  /\ target' = [target EXCEPT ![t] = entry[p]]
  /\ UNCHANGED <<state, offered, requested>>

(* Where position() finds u in queue q. *)
FirstAt(q, u, i) == q[i] = u /\ \A j \in 1 .. i - 1 : q[j] # u

Without(q, i) == SubSeq(q, 1, i - 1) \o SubSeq(q, i + 1, Len(q))

(* The requested url moves, or is added, to the front of the queue. *)
Promote(t) ==
  LET x == target[t]
      u == job[t].urls[1]
  IN
  /\ pc[t] = "promote"
  /\ \/ /\ u \notin Elems(queue[x])
        /\ queue' = [queue EXCEPT ![x] = <<u>> \o @]
     \/ \E i \in DOMAIN queue[x] :
          /\ FirstAt(queue[x], u, i)
          /\ queue' = [queue EXCEPT ![x] = <<u>> \o Without(@, i)]
  /\ requested' = requested \cup {<<x, u>>}
  /\ Goto(t, "ring")
  /\ UNCHANGED <<entry, key, headers, idle, wake, worker, batch, cache,
                 job, target, offered>>

(* Mutant: the worker is not told of the promoted segment. *)
RingNobody(t) ==
  /\ pc[t] = "ring"
  /\ Goto(t, "mark")
  /\ UNCHANGED <<state, job, target, offered, requested>>

Ring(t) ==
  /\ pc[t] = "ring"
  /\ wake' = [wake EXCEPT ![target[t]] = TRUE]
  /\ Goto(t, "mark")
  /\ UNCHANGED <<entry, key, queue, headers, idle, worker, batch, cache,
                 job, target, offered, requested>>

Mark(t) ==
  /\ pc[t] = "mark"
  /\ idle' = [idle EXCEPT ![target[t]] = FALSE]
  /\ Return(t)
  /\ UNCHANGED <<entry, key, queue, headers, wake, worker, batch, cache,
                 offered, requested>>

(* The connection breaks while prioritize awaits one of its two locks: actix *)
(* drops the segment handler.  A registration is a spawned task and runs on. *)
DropRequest(t) ==
  /\ pc[t] \in {"promote", "mark"}
  /\ Return(t)
  /\ UNCHANGED <<state, offered, requested>>

----------------------------------------------------------------------------
(* The worker loop of prefetcher x. *)

WorkerGoto(x, to) == worker' = [worker EXCEPT ![x] = to]

CheckIdle(x) ==
  /\ worker[x] = "check"
  /\ WorkerGoto(x, IF idle[x] THEN "evict" ELSE "pop")
  /\ UNCHANGED <<entry, key, queue, headers, idle, wake, batch, cache,
                 calls, offered, requested>>

(* Mutant: the entry is removed under a guard somebody holds. *)
EvictUnguarded(x) ==
  /\ worker[x] = "evict"
  /\ entry' = [entry EXCEPT ![key[x]] = None]
  /\ WorkerGoto(x, "gone")
  /\ UNCHANGED <<key, queue, headers, idle, wake, batch, cache,
                 calls, offered, requested>>

(* prefetchers.remove waits for every guard on the entry; then break. *)
Evict(x) ==
  /\ worker[x] = "evict"
  /\ Unlocked(key[x])
  /\ entry' = [entry EXCEPT ![key[x]] = None]
  /\ WorkerGoto(x, "gone")
  /\ UNCHANGED <<key, queue, headers, idle, wake, batch, cache,
                 calls, offered, requested>>

(* pop_batch_with_headers: the batch and the headers, under one lock.  The  *)
(* batch is fetched concurrently: its order no longer matters.              *)
PopBatch(x) ==
  LET n == IF Len(queue[x]) < Ahead THEN Len(queue[x]) ELSE Ahead IN
  /\ worker[x] = "pop"
  /\ batch' = [batch EXCEPT ![x] = [urls |-> Elems(SubSeq(queue[x], 1, n)),
                                    headers |-> headers[x]]]
  /\ queue' = [queue EXCEPT ![x] = SubSeq(@, n + 1, Len(@))]
  /\ WorkerGoto(x, IF n = 0 THEN "wait" ELSE "filter")
  /\ UNCHANGED <<entry, key, headers, idle, wake, cache,
                 calls, offered, requested>>

(* The urls already cached for these headers are skipped. *)
SkipCached(x) ==
  /\ worker[x] = "filter"
  /\ batch' = [batch EXCEPT ![x].urls =
                 {u \in @ : <<u, batch[x].headers>> \notin cache}]
  /\ WorkerGoto(x, "fetch")
  /\ UNCHANGED <<entry, key, queue, headers, idle, wake, cache,
                 calls, offered, requested>>

(* Mutant: what could not be fetched goes back to the queue. *)
FetchedOrRequeued(x, ok) ==
  LET failed == batch[x].urls \ ok IN
  /\ worker[x] = "fetch"
  /\ ok \subseteq batch[x].urls
  /\ cache' = cache \cup {<<u, batch[x].headers>> : u \in ok}
  /\ queue' = [queue EXCEPT ![x] = IF failed = {} THEN @
                                   ELSE Append(@, CHOOSE u \in failed : TRUE)]
  /\ WorkerGoto(x, "check")
  /\ UNCHANGED <<entry, key, headers, idle, wake, batch,
                 calls, offered, requested>>

(* Mutant: segments are cached under the key of their playlist. *)
FetchedForPlaylist(x, ok) ==
  /\ worker[x] = "fetch"
  /\ ok \subseteq batch[x].urls
  /\ cache' = cache \cup {<<key[x], batch[x].headers>> : u \in ok}
  /\ WorkerGoto(x, "check")
  /\ UNCHANGED <<entry, key, queue, headers, idle, wake, batch,
                 calls, offered, requested>>

(* join_all: the fetches that succeeded are cached, the others forgotten.   *)
(* The urls of a batch are cached in one step.                              *)
Fetched(x, ok) ==
  /\ worker[x] = "fetch"
  /\ ok \subseteq batch[x].urls
  /\ cache' = cache \cup {<<u, batch[x].headers>> : u \in ok}
  /\ WorkerGoto(x, "check")
  /\ UNCHANGED <<entry, key, queue, headers, idle, wake, batch,
                 calls, offered, requested>>

Woken(x) ==
  /\ worker[x] = "wait"
  /\ wake[x]
  /\ wake' = [wake EXCEPT ![x] = FALSE]
  /\ WorkerGoto(x, "check")
  /\ UNCHANGED <<entry, key, queue, headers, idle, batch, cache,
                 calls, offered, requested>>

(* Mutant: the wait for a notification has no timeout. *)
WaitForever(x) == FALSE /\ UNCHANGED vars

(* The 5 s timeout around notified(). *)
WaitTimesOut(x) ==
  /\ worker[x] = "wait"
  /\ WorkerGoto(x, "check")
  /\ UNCHANGED <<entry, key, queue, headers, idle, wake, batch, cache,
                 calls, offered, requested>>

----------------------------------------------------------------------------
(* Time. *)

Alive(x) == worker[x] \notin {"none", "gone"}

(* inactivity_timeout passes without a new last_active. *)
GoIdle(x) ==
  /\ Alive(x)
  /\ ~idle[x]
  /\ idle' = [idle EXCEPT ![x] = TRUE]
  /\ UNCHANGED <<entry, key, queue, headers, wake, worker, batch, cache,
                 calls, offered, requested>>

(* An entry's TTL ends, or the cache is full. *)
CacheDrops(k) ==
  /\ k \in cache
  /\ cache' = cache \ {k}
  /\ UNCHANGED <<entry, key, queue, headers, idle, wake, worker, batch,
                 calls, offered, requested>>

----------------------------------------------------------------------------

TaskStarts(t) ==
  \E p \in Playlist :
    \/ \E urls \in Queues, h \in Headers :
         RegisterNew(t, p, urls, h) \/ RegisterKnown(t, p, urls, h)
    \/ RequestUnknown(t, p)
    \/ \E u \in Segment : RequestKnown(t, p, u)

TaskContinues(t) ==
  \/ Replace(t) \/ Stamp(t) \/ Notify(t)
  \/ Promote(t) \/ Ring(t) \/ Mark(t)

WorkerStep(x) ==
  \/ CheckIdle(x) \/ Evict(x) \/ PopBatch(x) \/ SkipCached(x)
  \/ \E ok \in SUBSET Segment : Fetched(x, ok)
  \/ Woken(x) \/ WaitTimesOut(x)

Next ==
  \/ \E t \in Task : TaskStarts(t) \/ TaskContinues(t) \/ DropRequest(t)
  \/ \E x \in Prefetcher : WorkerStep(x) \/ GoIdle(x)
  \/ \E k \in cache : CacheDrops(k)

(* Calls run on once started, workers are spawned tasks whose fetches have a *)
(* 30 s timeout.                                                            *)
Fairness ==
  /\ \A t \in Task : WF_vars(TaskContinues(t))
  /\ \A x \in Prefetcher : WF_vars(WorkerStep(x))

Spec     == Init /\ [][Next]_vars
FairSpec == Spec /\ Fairness

----------------------------------------------------------------------------
(* Properties. *)

(* Module doc: "One PlaylistPrefetcher per unique playlist URL".  The       *)
(* workers running for a playlist are exactly the one of its entry, through *)
(* evictions and re-registrations.                                          *)
OneWorkerPerPlaylist ==
  \A p \in Playlist :
    {x \in Prefetcher : Alive(x) /\ key[x] = p} = {entry[p]} \ {None}

(* update() and prioritize() work on a prefetcher that is registered and    *)
(* has a worker: eviction cannot slip in between the lookup and the update. *)
UpdatesReachTheWorker ==
  \A t \in Task :
    pc[t] \in Updating \cup Promoting =>
      /\ target[t] # None
      /\ entry[job[t].playlist] = target[t]
      /\ Alive(target[t])

(* Comment in the worker loop: "No URLs are lost".  When the worker waits   *)
(* while its queue has urls, a permit is stored for it or the call that     *)
(* queued them has yet to notify.                                           *)
NoLostWakeup ==
  \A x \in Prefetcher :
    worker[x] = "wait" /\ queue[x] # <<>> =>
      \/ wake[x]
      \/ \E t \in Task : /\ target[t] = x
                         /\ pc[t] \in {"stamp", "notify", "ring"}

(* PrefetcherState: queue and headers are "updated atomically per playlist  *)
(* refresh".  A url is fetched, and cached, under headers it was registered *)
(* with, or, if the player asked for it, under headers of its playlist.     *)
Admitted(x, u, h) ==
  \/ <<x, u, h>> \in offered
  \/ <<x, u>> \in requested /\ \E v \in Segment : <<x, v, h>> \in offered

FetchedUnderOwnHeaders ==
  /\ \A x \in Prefetcher :
       /\ \A u \in Elems(queue[x]) : Admitted(x, u, headers[x])
       /\ worker[x] \in {"filter", "fetch"} =>
            \A u \in batch[x].urls : Admitted(x, u, batch[x].headers)
  /\ \A k \in cache : \E x \in Prefetcher : Admitted(x, k[1], k[2])

(* The strengthening that makes the three invariants above and their proof  *)
(* inductive: a registered prefetcher is alive and knows its playlist, a    *)
(* living one is registered and holds headers of some registration.         *)
Registered ==
  /\ \A p \in Playlist :
       entry[p] # None => Alive(entry[p]) /\ key[entry[p]] = p
  /\ \A x \in Prefetcher :
       Alive(x) =>
         /\ key[x] \in Playlist
         /\ entry[key[x]] = x
         /\ \E v \in Segment : <<x, v, headers[x]>> \in offered

(* A call that updates or promotes holds the guard of its target's entry. *)
Guarded ==
  \A t \in Task :
    pc[t] \in Updating \cup Promoting =>
      /\ job[t].playlist \in Playlist
      /\ target[t] \in Prefetcher
      /\ entry[job[t].playlist] = target[t]

(* What the fields of a call hold: registered urls, or one requested url. *)
JobOk ==
  \A t \in Task :
    pc[t] \in {"replace", "promote"} => job[t].urls # <<>>

(* The inductive invariant of HlsPrebuffer_proofs. *)
IInv ==
  /\ TypeOK /\ Registered /\ Guarded /\ JobOk
  /\ NoLostWakeup /\ FetchedUnderOwnHeaders

(* The worker loop works the queue off: when no more calls come, the queue  *)
(* of every prefetcher becomes empty for good, whatever fetches fail, or    *)
(* the prefetcher is evicted.                                               *)
QueueDrains ==
  \A x \in Prefetcher : <>[](queue[x] = <<>> \/ worker[x] = "gone")

(* Module doc: prefetchers that are inactive "are evicted after a           *)
(* configurable timeout", even when nobody notifies their worker again.     *)
InactiveIsEvicted ==
  \A x \in Prefetcher : Alive(x) /\ idle[x] ~> ~Alive(x) \/ ~idle[x]

=============================================================================
