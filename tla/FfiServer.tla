------------------------------- MODULE FfiServer -------------------------------
(***************************************************************************)
(* The C interface (src/ffi/mod.rs) through which a host application starts *)
(* and stops the proxy: one MediaflowServer handle, the host threads that   *)
(* call its functions, and the background thread every start spawns.        *)
(*                                                                         *)
(* A start passes the is_running check, spawns the thread and waits for its *)
(* reply; the thread replies when it has bound the port, and sets           *)
(* is_running only then.  Dropping a shutdown sender wakes the server's     *)
(* select as sending on it does.  The host must not load a configuration or *)
(* destroy the handle while another call uses it (&mut and Box::from_raw).  *)
(***************************************************************************)
EXTENDS Naturals

CONSTANTS
  Thread,    \* host threads
  MaxStarts, \* bound: how many starts pass the is_running check
  Port,      \* TCP ports
  AnyPort,   \* port 0: the system picks one
  None       \* no server, no port

ASSUME FfiAssumption ==
  /\ MaxStarts \in Nat
  /\ AnyPort \notin Port
  /\ {None, "none", "failed"} \cap Port = {}
  /\ None \notin 1 .. MaxStarts

(* Background threads, numbered in the order of the starts. *)
Server == 1 .. MaxStarts

VARIABLES
  alive,       \* the handle has not been destroyed
  configured,  \* its port
  isRunning,   \* is_running
  actualPort,  \* actual_port
  stored,      \* shutdown_tx: the server its sender stops
  bg,          \* where each background thread is
  port,        \* the port it was asked to bind, then the one it listens on
  reply,       \* what is in its ready channel
  sender,      \* where its shutdown sender is
  pc,          \* where each host thread is
  mine,        \* the server its start spawned
  overlap      \* history: a start was let in while another start or server was on

handle  == <<alive, configured, isRunning, actualPort, stored>>
servers == <<bg, port, reply, sender>>
threads == <<pc, mine>>
vars    == <<handle, servers, threads, overlap>>

BgStates == {"none",
             "starting",   \* builds its runtime and configuration, binds
             "bound",      \* listens, has replied
             "flagged",    \* has set is_running
             "serving",    \* has set actual_port, runs the server
             "stopping",   \* the select is over
             "ended"}      \* has cleared is_running, or failed to start

Active(n)    == bg[n] \notin {"none", "ended"}
Listening(n) == bg[n] \in {"bound", "flagged", "serving", "stopping"}
Starting(t)  == pc[t] \in {"waiting", "storing"}

TypeOK ==
  /\ alive \in BOOLEAN
  /\ configured \in Port \cup {AnyPort}
  /\ isRunning \in BOOLEAN
  /\ actualPort \in Port \cup {None}
  /\ stored \in Server \cup {None}
  /\ bg \in [Server -> BgStates]
  /\ port \in [Server -> Port \cup {AnyPort, None}]
  /\ reply \in [Server -> Port \cup {"none", "failed"}]
  /\ sender \in [Server -> {"none", "starter", "stored", "sent", "dropped"}]
  /\ pc \in [Thread -> {"idle", "waiting", "storing", "taking"}]
  /\ mine \in [Thread -> Server \cup {None}]
  /\ overlap \in BOOLEAN

(* mediaflow_server_create *)
Init ==
  /\ alive = TRUE
  /\ configured \in Port \cup {AnyPort}
  /\ isRunning = FALSE
  /\ actualPort = None
  /\ stored = None
  /\ bg = [n \in Server |-> "none"]
  /\ port = [n \in Server |-> None]
  /\ reply = [n \in Server |-> "none"]
  /\ sender = [n \in Server |-> "none"]
  /\ pc = [t \in Thread |-> "idle"]
  /\ mine = [t \in Thread |-> None]
  /\ overlap = FALSE

Calls(t) == alive /\ pc[t] = "idle"

Returns(t) ==
  /\ pc' = [pc EXCEPT ![t] = "idle"]
  /\ mine' = [mine EXCEPT ![t] = None]

NobodyCalls == \A t \in Thread : pc[t] = "idle"

----------------------------------------------------------------------------
(* mediaflow_server_start.  A call that is refused because is_running is set *)
(* (for stop: is not set) changes nothing and is a stuttering step, and so   *)
(* are is_running and port.                                                  *)

Start(t) ==
  /\ Calls(t)
  /\ ~isRunning
  /\ \E n \in Server :
       /\ bg[n] = "none"
       /\ \A m \in Server : m < n => bg[m] # "none"
       /\ bg' = [bg EXCEPT ![n] = "starting"]
       /\ port' = [port EXCEPT ![n] = configured]
       /\ sender' = [sender EXCEPT ![n] = "starter"]
       /\ mine' = [mine EXCEPT ![t] = n]
  /\ pc' = [pc EXCEPT ![t] = "waiting"]
  /\ overlap' = (\/ overlap
                 \/ \E n \in Server : Active(n)
                 \/ \E u \in Thread : Starting(u))
  /\ UNCHANGED <<handle, reply>>

StartFails(t) ==
  /\ pc[t] = "waiting"
  /\ reply[mine[t]] = "failed"
  /\ reply' = [reply EXCEPT ![mine[t]] = "none"]
  /\ sender' = [sender EXCEPT ![mine[t]] = "dropped"]
  /\ Returns(t)
  /\ UNCHANGED <<handle, bg, port, overlap>>

StoresPort(t) ==
  /\ pc[t] = "waiting"
  /\ reply[mine[t]] \in Port
  /\ reply' = [reply EXCEPT ![mine[t]] = "none"]
  /\ actualPort' = reply[mine[t]]
  /\ pc' = [pc EXCEPT ![t] = "storing"]
  /\ UNCHANGED <<alive, configured, isRunning, stored, bg, port, sender, mine,
                 overlap>>

(* A sender that was stored before is dropped. *)
StoresSender(t) ==
  /\ pc[t] = "storing"
  /\ sender' = [n \in Server |->
                  IF n = mine[t] THEN "stored"
                  ELSE IF n = stored THEN "dropped" ELSE sender[n]]
  /\ stored' = mine[t]
  /\ Returns(t)
  /\ UNCHANGED <<alive, configured, isRunning, actualPort, bg, port, reply, overlap>>

----------------------------------------------------------------------------
(* The background thread of a start *)

(* Mutant: the caller of a failed start gets no reply. *)
FailsSilently(n) ==
  /\ bg[n] = "starting"
  /\ bg' = [bg EXCEPT ![n] = "ended"]
  /\ port' = [port EXCEPT ![n] = None]
  /\ UNCHANGED <<handle, reply, sender, threads, overlap>>

(* No runtime, a bad configuration, the port is taken; or the thread panics. *)
FailsToStart(n) ==
  /\ bg[n] = "starting"
  /\ reply' = [reply EXCEPT ![n] = "failed"]
  /\ bg' = [bg EXCEPT ![n] = "ended"]
  /\ port' = [port EXCEPT ![n] = None]
  /\ UNCHANGED <<handle, sender, threads, overlap>>

Binds(n) ==
  /\ bg[n] = "starting"
  /\ \E p \in Port :
       /\ port[n] \in {p, AnyPort}
       /\ \A m \in Server : Listening(m) => port[m] # p
       /\ port' = [port EXCEPT ![n] = p]
       /\ reply' = [reply EXCEPT ![n] = p]
  /\ bg' = [bg EXCEPT ![n] = "bound"]
  /\ UNCHANGED <<handle, sender, threads, overlap>>

SetsRunning(n) ==
  /\ bg[n] = "bound"
  /\ bg' = [bg EXCEPT ![n] = "flagged"]
  /\ isRunning' = TRUE
  /\ UNCHANGED <<alive, configured, actualPort, stored, port, reply, sender,
                 threads, overlap>>

(* Mutant: publishes the configured port. *)
SetsConfiguredPort(n) ==
  /\ bg[n] = "flagged"
  /\ bg' = [bg EXCEPT ![n] = "serving"]
  /\ actualPort' = configured
  /\ UNCHANGED <<alive, configured, isRunning, stored, port, reply, sender,
                 threads, overlap>>

SetsPort(n) ==
  /\ bg[n] = "flagged"
  /\ bg' = [bg EXCEPT ![n] = "serving"]
  /\ actualPort' = port[n]
  /\ UNCHANGED <<alive, configured, isRunning, stored, port, reply, sender,
                 threads, overlap>>

(* Mutant: the select ignores a sender that is dropped. *)
ShutsDownWhenSent(n) ==
  /\ bg[n] = "serving"
  /\ sender[n] = "sent"
  /\ bg' = [bg EXCEPT ![n] = "stopping"]
  /\ UNCHANGED <<handle, port, reply, sender, threads, overlap>>

ShutsDown(n) ==
  /\ bg[n] = "serving"
  /\ sender[n] \in {"sent", "dropped"}
  /\ bg' = [bg EXCEPT ![n] = "stopping"]
  /\ UNCHANGED <<handle, port, reply, sender, threads, overlap>>

(* Mutant: is_running is cleared when the select is over, and again later. *)
CompletesAndClears(n) ==
  /\ bg[n] = "serving"
  /\ bg' = [bg EXCEPT ![n] = "stopping"]
  /\ isRunning' = FALSE
  /\ UNCHANGED <<alive, configured, actualPort, stored, port, reply, sender,
                 threads, overlap>>

(* The server future completes by itself: a signal, a dead accept loop. *)
ServerCompletes(n) ==
  /\ bg[n] = "serving"
  /\ bg' = [bg EXCEPT ![n] = "stopping"]
  /\ UNCHANGED <<handle, port, reply, sender, threads, overlap>>

(* Mutant: is_running is left set. *)
EndsRunning(n) ==
  /\ bg[n] = "stopping"
  /\ bg' = [bg EXCEPT ![n] = "ended"]
  /\ port' = [port EXCEPT ![n] = None]
  /\ UNCHANGED <<handle, reply, sender, threads, overlap>>

Ends(n) ==
  /\ bg[n] = "stopping"
  /\ bg' = [bg EXCEPT ![n] = "ended"]
  /\ port' = [port EXCEPT ![n] = None]
  /\ isRunning' = FALSE
  /\ UNCHANGED <<alive, configured, actualPort, stored, reply, sender,
                 threads, overlap>>

----------------------------------------------------------------------------
(* mediaflow_server_stop *)

Stop(t) ==
  /\ Calls(t)
  /\ isRunning
  /\ pc' = [pc EXCEPT ![t] = "taking"]
  /\ UNCHANGED <<handle, servers, mine, overlap>>

TakesSender(t) ==
  /\ pc[t] = "taking"
  /\ stored # None
  /\ sender' = [sender EXCEPT ![stored] = "sent"]
  /\ stored' = None
  /\ Returns(t)
  /\ UNCHANGED <<alive, configured, isRunning, actualPort, bg, port, reply, overlap>>

FindsNoSender(t) ==
  /\ pc[t] = "taking"
  /\ stored = None
  /\ Returns(t)
  /\ UNCHANGED <<handle, servers, overlap>>

----------------------------------------------------------------------------
(* mediaflow_load_config, whether the server runs or not, and               *)
(* mediaflow_server_destroy, which drops a stored sender.                   *)

LoadConfig ==
  /\ alive
  /\ NobodyCalls
  /\ configured' \in Port \cup {AnyPort}
  /\ UNCHANGED <<alive, isRunning, actualPort, stored, servers, threads, overlap>>

Destroy ==
  /\ alive
  /\ NobodyCalls
  /\ alive' = FALSE
  /\ stored' = None
  /\ sender' = [n \in Server |-> IF n = stored THEN "dropped" ELSE sender[n]]
  /\ UNCHANGED <<configured, isRunning, actualPort, bg, port, reply, threads,
                 overlap>>

----------------------------------------------------------------------------

Host(t) ==
  \/ Start(t) \/ StartFails(t) \/ StoresPort(t) \/ StoresSender(t)
  \/ Stop(t) \/ TakesSender(t) \/ FindsNoSender(t)

Background(n) ==
  \/ FailsToStart(n) \/ Binds(n) \/ SetsRunning(n) \/ SetsPort(n)
  \/ ShutsDown(n) \/ ServerCompletes(n) \/ Ends(n)

Next ==
  \/ \E t \in Thread : Host(t)
  \/ \E n \in Server : Background(n)
  \/ LoadConfig
  \/ Destroy

(* Threads are scheduled.  The host need not call anything, and a server    *)
(* need not complete by itself.                                             *)
Fairness ==
  /\ \A t \in Thread :
       WF_vars(StartFails(t) \/ StoresPort(t) \/ StoresSender(t)
                 \/ TakesSender(t) \/ FindsNoSender(t))
  /\ \A n \in Server :
       WF_vars(FailsToStart(n) \/ Binds(n) \/ SetsRunning(n) \/ SetsPort(n)
                 \/ ShutsDown(n) \/ Ends(n))

Spec     == Init /\ [][Next]_vars
FairSpec == Spec /\ Fairness

----------------------------------------------------------------------------
(* Properties. *)

Announced(n) == bg[n] \in {"flagged", "serving", "stopping"}

(* However starts, stops and ends interleave, is_running is not set when no *)
(* server of the handle is on: a start is never refused for nothing.        *)
RunningIsTrue == isRunning => \E n \in Server : Announced(n)

(* While the host lets each server end before it starts the next, and one   *)
(* start return before the next, at most one server is on, is_running is    *)
(* set from its announcement until its end, and actual_port is its port.    *)
FlagTracksServer ==
  ~overlap =>
    /\ \A m, n \in Server : Active(m) /\ Active(n) => m = n
    /\ \A n \in Server : Announced(n) => isRunning
    /\ \A n \in Server : bg[n] \in {"serving", "stopping"} => actualPort = port[n]

(* A server that listens has a port, and its reply names it. *)
RepliesPort ==
  \A n \in Server : Listening(n) =>
    /\ port[n] \in Port
    /\ reply[n] \in Port => port[n] = reply[n]

(* Starts that do not overlap: one at a time, and the server that is on is  *)
(* the one it spawned.                                                      *)
StartsAlone ==
  ~overlap =>
    \A t \in Thread : Starting(t) =>
      /\ mine[t] \in Server
      /\ \A u \in Thread : Starting(u) => u = t
      /\ \A n \in Server : Active(n) => n = mine[t]

(* The inductive invariant of FfiServer_proofs. *)
IInv == TypeOK /\ RunningIsTrue /\ FlagTracksServer /\ RepliesPort /\ StartsAlone

(* A server the handle cannot stop any more, because a later start replaced *)
(* its sender, a stop took it or the handle was destroyed, stops by itself. *)
UnreachableServersStop ==
  \A n \in Server :
    Active(n) /\ stored # n ~> stored = n \/ bg[n] = "ended"

(* A start or stop never hangs: the background thread always replies.       *)
CallsReturn == \A t \in Thread : pc[t] # "idle" ~> pc[t] = "idle"

(* mediaflow_ffi.h, is_running: "Returns true if the server is currently    *)
(* accepting connections."  So it does for the server the handle can stop.  *)
ServingIsReported ==
  \A n \in Server : bg[n] = "serving" /\ stored = n => isRunning

=============================================================================
