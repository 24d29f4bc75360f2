--------------------------- MODULE AcestreamSession ---------------------------
(***************************************************************************)
(* The Acestream session registry (src/acestream/session.rs) and the       *)
(* handlers that use it (src/acestream/handler.rs).                        *)
(*                                                                         *)
(* main.rs builds one AcestreamSessionManager per actix worker, and a      *)
(* worker runs its tasks on one thread: a step here is what a task does    *)
(* between two awaits, and tasks interleave at awaits only.  The registry  *)
(* is keyed by infohash and no operation touches two keys, so the module   *)
(* follows one infohash of one manager.                                    *)
(*                                                                         *)
(* A client is one HTTP request.  kind says which handler serves it:       *)
(* "stream" and "manifest" are the GETs; a HEAD on either handler asks for *)
(* a session and returns.                                                  *)
(***************************************************************************)
EXTENDS Naturals, FiniteSets

CONSTANTS
  Client,     \* the requests
  MaxPid,     \* bound: sessions that may be asked of the engine
  CountMod,   \* 2^w, the range of the AtomicUsize client_count
  Ttl,        \* session lifetime in ticks (300 s in the code)
  NoSession   \* the registry holds no entry for the infohash

ASSUME AceAssumption ==
  /\ IsFiniteSet(Client)
  /\ MaxPid \in Nat
  /\ CountMod \in Nat
  /\ Cardinality(Client) < CountMod
  /\ Ttl \in Nat

VARIABLES
  session,    \* the registry's entry: NoSession or a record of Session
  nextPid,    \* the next unused pid (a fresh UUID in the code)
  pc,         \* where each request is
  kind,       \* which handler serves it
  pid,        \* the pid of the session it asked for or was handed
  timers,     \* armed 30 s grace timers: the captured pid and command_url
  stopped,    \* pids whose command_url was sent method=stop
  disturbed   \* history: an entry with clients was overwritten or invalidated

vars == <<session, nextPid, pc, kind, pid, timers, stopped, disturbed>>

Pid   == 1 .. MaxPid
Kinds == {"stream", "manifest", "head"}
Pcs   == {"idle",                        \* not sent yet
          "init", "reinit",              \* awaiting the engine's JSON answer
          "fetch", "refetch",            \* awaiting the HLS manifest
          "open",                        \* counted, awaiting getstream
          "stream",                      \* its body is being sent
          "signalled",                   \* body dropped, release task not run
          "dropped",                     \* handler dropped while in "open"
          "done"}

(* free: is_free_mode; cmd: command_url is Some; age: since last_access. *)
Session == [pid : Pid, free : BOOLEAN, cmd : BOOLEAN,
            count : 0 .. CountMod - 1, age : 0 .. Ttl + 1]
Timer   == [pid : Pid, cmd : BOOLEAN]

ASSUME AceNoSession == NoSession \notin Session

TypeOK ==
  /\ session \in Session \cup {NoSession}
  /\ nextPid \in 1 .. MaxPid + 1
  /\ pc \in [Client -> Pcs]
  /\ kind \in [Client -> Kinds]
  /\ pid \in [Client -> Pid \cup {0}]
  /\ timers \subseteq Timer
  /\ stopped \subseteq Pid
  /\ disturbed \in BOOLEAN

Init ==
  /\ session = NoSession
  /\ nextPid = 1
  /\ pc = [c \in Client |-> "idle"]
  /\ kind \in [Client -> Kinds]
  /\ pid = [c \in Client |-> 0]
  /\ timers = {}
  /\ stopped = {}
  /\ disturbed = FALSE

----------------------------------------------------------------------------
(* Operations of the manager that run within one step. *)

IsStale(s) == s.age > Ttl

(* The entry get_or_create may return. *)
Live == session # NoSession /\ ~IsStale(session)

Touch(s) == [s EXCEPT !.age = 0]

NewSession(p, free, cmd) ==
  [pid |-> p, free |-> free, cmd |-> cmd, count |-> 0, age |-> 0]

IncrementClient(s) ==
  [s EXCEPT !.count = IF @ = CountMod - 1 THEN 0 ELSE @ + 1]

(* Mutant: a subtraction that does not wrap. *)
DecrementBelowZero(s) == [s EXCEPT !.count = @ - 1]

(* fetch_sub wraps below zero; the code notices prev_count = 0 afterwards. *)
DecrementClient(s) ==
  [s EXCEPT !.count = IF @ = 0 THEN CountMod - 1 ELSE @ - 1]

HasClients(s) == s # NoSession /\ s.count # 0

(* Mutant: the entry stays registered while its grace timer runs. *)
ReleaseKeepsEntry ==
  \/ /\ session = NoSession
     /\ UNCHANGED <<session, timers>>
  \/ /\ session # NoSession
     /\ session' = DecrementClient(session)
     /\ timers' = IF session.count = 1
                  THEN timers \cup {[pid |-> session.pid, cmd |-> session.cmd]}
                  ELSE timers

(* Mutant: the test for remaining clients is missing. *)
ReleaseAlwaysRetires ==
  \/ /\ session = NoSession
     /\ UNCHANGED <<session, timers>>
  \/ /\ session # NoSession
     /\ session' = NoSession
     /\ timers' = timers \cup {[pid |-> session.pid, cmd |-> session.cmd]}

(* release_client: decrements the entry found under the infohash, whichever *)
(* session that is, and retires it when the count it saw was one.           *)
ReleaseClient ==
  \/ /\ session = NoSession
     /\ UNCHANGED <<session, timers>>
  \/ /\ session # NoSession
     /\ session.count # 1
     /\ session' = DecrementClient(session)
     /\ UNCHANGED timers
  \/ /\ session # NoSession
     /\ session.count = 1
     /\ session' = NoSession
     /\ timers' = timers \cup {[pid |-> session.pid, cmd |-> session.cmd]}

(* The rest of a handler's step once get_or_create gave it session s. *)
HandOver(c, s) ==
  LET joins == kind[c] = "stream" /\ ~s.free
  IN  /\ session' = IF joins THEN IncrementClient(s) ELSE s
      /\ pid' = [pid EXCEPT ![c] = s.pid]
      /\ pc' = [pc EXCEPT ![c] = IF kind[c] = "head" THEN "done"
                                 ELSE IF joins THEN "open"
                                 ELSE IF @ = "reinit" THEN "refetch"
                                 ELSE "fetch"]

(* get_or_create's miss: a fresh pid is drawn and the engine is asked. *)
AskEngine(c, waiting) ==
  /\ nextPid <= MaxPid
  /\ nextPid' = nextPid + 1
  /\ pid' = [pid EXCEPT ![c] = nextPid]
  /\ pc' = [pc EXCEPT ![c] = waiting]

----------------------------------------------------------------------------
(* Steps of the requests. *)

Hit(c) ==
  /\ pc[c] = "idle"
  /\ Live
  /\ HandOver(c, Touch(session))
  /\ UNCHANGED <<nextPid, kind, timers, stopped, disturbed>>

Miss(c) ==
  /\ pc[c] = "idle"
  /\ ~Live
  /\ AskEngine(c, "init")
  /\ UNCHANGED <<session, kind, timers, stopped, disturbed>>

(* The engine answered, or wants premium and free mode is assumed (with a   *)
(* synthetic command_url).  The insert replaces whatever is there by now.   *)
Created(c, free, cmd) ==
  /\ pc[c] \in {"init", "reinit"}
  /\ free => cmd
  /\ HandOver(c, NewSession(pid[c], free, cmd))
  /\ disturbed' = (disturbed \/ HasClients(session))
  /\ UNCHANGED <<nextPid, kind, timers, stopped>>

CreateFails(c) ==
  /\ pc[c] \in {"init", "reinit"}
  /\ pc' = [pc EXCEPT ![c] = "done"]
  /\ UNCHANGED <<session, nextPid, kind, pid, timers, stopped, disturbed>>

(* The manifest arrived, or failed with anything but a first 403. *)
Fetched(c) ==
  /\ pc[c] \in {"fetch", "refetch"}
  /\ pc' = [pc EXCEPT ![c] = "done"]
  /\ UNCHANGED <<session, nextPid, kind, pid, timers, stopped, disturbed>>

(* A first 403 in the manifest handler: invalidate, then get_or_create,     *)
(* which finds no entry.                                                    *)
Forbidden(c) ==
  /\ pc[c] = "fetch"
  /\ kind[c] = "manifest"
  /\ AskEngine(c, "reinit")
  /\ session' = NoSession
  /\ disturbed' = (disturbed \/ HasClients(session))
  /\ UNCHANGED <<kind, timers, stopped>>

Opened(c) ==
  /\ pc[c] = "open"
  /\ pc' = [pc EXCEPT ![c] = "stream"]
  /\ UNCHANGED <<session, nextPid, kind, pid, timers, stopped, disturbed>>

(* Mutant: the increment is not undone. *)
OpenFailsCounted(c) ==
  /\ pc[c] = "open"
  /\ pc' = [pc EXCEPT ![c] = "done"]
  /\ UNCHANGED <<session, nextPid, kind, pid, timers, stopped, disturbed>>

(* release_client undoes the increment. *)
OpenFails(c) ==
  /\ pc[c] = "open"
  /\ ReleaseClient
  /\ pc' = [pc EXCEPT ![c] = "done"]
  /\ UNCHANGED <<nextPid, kind, pid, stopped, disturbed>>

(* The connection breaks and actix drops the handler at its await.  Past    *)
(* increment_client the count is never taken back.                          *)
DropHandler(c) ==
  /\ pc[c] \in {"init", "reinit", "fetch", "refetch", "open"}
  /\ pc' = [pc EXCEPT ![c] = IF @ = "open" THEN "dropped" ELSE "done"]
  /\ UNCHANGED <<session, nextPid, kind, pid, timers, stopped, disturbed>>

(* StopNotifyStream: the body ends or is dropped, the oneshot fires once. *)
StreamEnds(c) ==
  /\ pc[c] = "stream"
  /\ pc' = [pc EXCEPT ![c] = "signalled"]
  /\ UNCHANGED <<session, nextPid, kind, pid, timers, stopped, disturbed>>

(* The task spawned by the stream handler, after stop_rx resolves. *)
ReleaseTask(c) ==
  /\ pc[c] = "signalled"
  /\ ReleaseClient
  /\ pc' = [pc EXCEPT ![c] = "done"]
  /\ UNCHANGED <<nextPid, kind, pid, stopped, disturbed>>

----------------------------------------------------------------------------
(* Steps of the grace timers and of time. *)

(* Mutant: the test for a successor is inverted. *)
GraceEndsInverted(t) ==
  /\ t \in timers
  /\ timers' = timers \ {t}
  /\ stopped' = IF session # NoSession /\ t.cmd
                THEN stopped \cup {t.pid} ELSE stopped
  /\ UNCHANGED <<session, nextPid, pc, kind, pid, disturbed>>

(* The stop is skipped when the infohash has an entry again. *)
GraceEnds(t) ==
  /\ t \in timers
  /\ timers' = timers \ {t}
  /\ stopped' = IF session = NoSession /\ t.cmd
                THEN stopped \cup {t.pid} ELSE stopped
  /\ UNCHANGED <<session, nextPid, pc, kind, pid, disturbed>>

Tick ==
  /\ Live
  /\ session' = [session EXCEPT !.age = @ + 1]
  /\ UNCHANGED <<nextPid, pc, kind, pid, timers, stopped, disturbed>>

Next ==
  \/ \E c \in Client :
       \/ Hit(c) \/ Miss(c)
       \/ \E free, cmd \in BOOLEAN : Created(c, free, cmd)
       \/ CreateFails(c) \/ Fetched(c) \/ Forbidden(c)
       \/ Opened(c) \/ OpenFails(c) \/ DropHandler(c)
       \/ StreamEnds(c) \/ ReleaseTask(c)
  \/ \E t \in timers : GraceEnds(t)
  \/ Tick

(* Spawned tasks run to completion and tokio timers fire. *)
Fairness ==
  /\ \A c \in Client : WF_vars(ReleaseTask(c))
  /\ \A t \in Timer : WF_vars(GraceEnds(t))

Spec     == Init /\ [][Next]_vars
FairSpec == Spec /\ Fairness

----------------------------------------------------------------------------
(* Properties. *)

(* Requests that count in client_count and have not been released. *)
Holders == {c \in Client : pc[c] \in {"open", "stream", "signalled", "dropped"}}

(* Requests whose viewer is still waiting for, or reading, the stream. *)
Viewers == {c \in Client : pc[c] \in {"open", "stream"}}

(* Pids given up by the registry's last-client rule. *)
Retired == stopped \cup {t.pid : t \in timers}

(* Requests for which the engine is being asked to start pid[c]. *)
Waiting == {c \in Client : pc[c] \in {"init", "reinit"}}

(* Pids are handed out once: the one registered, the ones being started and *)
(* the retired ones are all different.                                      *)
PidInv ==
  /\ \A p \in Retired : p < nextPid
  /\ session # NoSession => session.pid < nextPid /\ session.pid \notin Retired
  /\ \A c \in Waiting :
       /\ pid[c] \in Pid
       /\ pid[c] < nextPid
       /\ pid[c] \notin Retired
       /\ session # NoSession => session.pid # pid[c]
  /\ \A c, d \in Waiting : c # d => pid[c] # pid[d]

(* client_count is "Number of active streaming clients sharing this engine  *)
(* session" (session.rs): it equals the requests counted and not released,  *)
(* all of them on that very session, as long as no entry with clients was   *)
(* overwritten by a concurrent get_or_create or invalidated after a 403.    *)
CountIsClients ==
  ~disturbed =>
    /\ session = NoSession => Holders = {}
    /\ session # NoSession =>
         /\ session.count = Cardinality(Holders)
         /\ \A c \in Holders : pid[c] = session.pid

(* Doc of release_client: "stop the engine session only when the last       *)
(* client leaves".  No viewer is on a session the engine was told to stop.  *)
StopOnlyAfterLastClient ==
  \A c \in Viewers : pid[c] \notin stopped

(* The same, for runs of the code in which no entry with clients was        *)
(* overwritten or invalidated.                                              *)
StopIsSafeUndisturbed == ~disturbed => StopOnlyAfterLastClient

(* The inductive invariant of AcestreamSession_proofs. *)
IInv == TypeOK /\ PidInv /\ CountIsClients

(* Doc of release_client: a reconnecting client "gets a fresh session with  *)
(* a new pid".  Whatever replaced or invalidated entries meanwhile, a       *)
(* request never starts streaming on a pid that was retired.                *)
ReconnectGetsFreshPid ==
  [][\A c \in Client :
       pc[c] # "open" /\ pc'[c] = "open" => pid'[c] \notin Retired']_vars

(* All clients of the registered session p have gone, none leaked. *)
Abandoned(p) ==
  /\ ~disturbed
  /\ session # NoSession
  /\ session.pid = p
  /\ session.cmd
  /\ Holders # {}
  /\ \A c \in Holders : pc[c] = "signalled"

(* The grace protocol of release_client: once every client of a session has *)
(* hung up, the engine is told to stop it, unless a client joined it or     *)
(* another session took over in the meantime.                               *)
AbandonedEngineStops ==
  \A p \in Pid :
    Abandoned(p) ~>
      \/ p \in stopped
      \/ session # NoSession /\ session.pid # p
      \/ \E c \in Viewers : pid[c] = p
      \/ disturbed

=============================================================================
