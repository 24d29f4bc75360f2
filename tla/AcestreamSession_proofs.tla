------------------------ MODULE AcestreamSession_proofs ------------------------
(***************************************************************************)
(* Theorems about AcestreamSession, for every finite set of requests, every *)
(* bound on the pids, every width of the counter and every lifetime.        *)
(*                                                                         *)
(* The invariants CountIsClients and StopIsSafeUndisturbed are not          *)
(* inductive: they rest on PidInv, which says that pids never meet again.   *)
(***************************************************************************)
EXTENDS AcestreamSession, FiniteSetTheorems, TLAPS

(* What a request does with the session get_or_create returned keeps types. *)
LEMMA HandOverType ==
  ASSUME TypeOK, NEW c \in Client, NEW s \in Session, HandOver(c, s)
  PROVE  /\ session' \in Session
         /\ pc' \in [Client -> Pcs]
         /\ pid' \in [Client -> Pid \cup {0}]
<1>1. IncrementClient(s) \in Session
  BY AceAssumption DEF IncrementClient, Session
<1>2. session' \in Session
  BY <1>1 DEF HandOver
<1>3. pid' \in [Client -> Pid \cup {0}]
  BY DEF HandOver, TypeOK, Session
<1>4. pc' \in [Client -> Pcs]
  BY DEF HandOver, TypeOK, Pcs
<1> QED
  BY <1>2, <1>3, <1>4

(* A decremented session is a session: the counter wraps within its range.  *)
LEMMA DecrementType ==
  ASSUME NEW s \in Session PROVE DecrementClient(s) \in Session
  BY AceAssumption DEF DecrementClient, Session

(* release_client keeps types. *)
LEMMA ReleaseType ==
  ASSUME TypeOK, ReleaseClient
  PROVE  session' \in Session \cup {NoSession} /\ timers' \subseteq Timer
<1>1. CASE session = NoSession
  BY <1>1 DEF ReleaseClient, TypeOK
<1>2. CASE session # NoSession
  <2>1. session \in Session
    BY <1>2 DEF TypeOK
  <2>2. DecrementClient(session) \in Session
    BY <2>1, DecrementType
  <2>3. [pid |-> session.pid, cmd |-> session.cmd] \in Timer
    BY <2>1 DEF Session, Timer
  <2> QED
    BY <1>2, <2>1, <2>2, <2>3 DEF ReleaseClient, TypeOK
<1> QED
  BY <1>1, <1>2

(* A new session is a session: the counter can hold at least zero. *)
LEMMA NewSessionType ==
  ASSUME NEW p \in Pid, NEW free \in BOOLEAN, NEW cmd \in BOOLEAN
  PROVE  NewSession(p, free, cmd) \in Session
<1>1. Cardinality(Client) \in Nat
  BY AceAssumption, FS_CardinalityType
<1>2. 0 \in 0 .. CountMod - 1 /\ 0 \in 0 .. Ttl + 1
  BY <1>1, AceAssumption
<1> QED
  BY <1>2 DEF NewSession, Session

(* Time passes for a live entry only, so its age stays bounded. *)
LEMMA TickType ==
  ASSUME TypeOK, Tick
  PROVE  /\ session \in Session /\ session' \in Session
         /\ session'.pid = session.pid /\ session'.count = session.count
<1>1. session \in Session /\ session.age \in 0 .. Ttl
  BY AceAssumption DEF Tick, Live, IsStale, TypeOK, Session
<1>2. [session EXCEPT !.age = session.age + 1] \in Session
  BY <1>1, AceAssumption DEF Session
<1> QED
  BY <1>1, <1>2 DEF Tick, Session

(* The initial state has the right types. *)
LEMMA InitType == Init => TypeOK
<1> SUFFICES ASSUME Init PROVE TypeOK
  OBVIOUS
<1>1. nextPid \in 1 .. MaxPid + 1
  BY AceAssumption DEF Init
<1>2. pc \in [Client -> Pcs]
  BY DEF Init, Pcs
<1>3. pid \in [Client -> Pid \cup {0}]
  BY DEF Init
<1> QED
  BY <1>1, <1>2, <1>3 DEF Init, TypeOK

(* Every step keeps types; Created needs the pid the request waits for. *)
LEMMA NextType == TypeOK /\ PidInv /\ [Next]_vars => TypeOK'
<1> SUFFICES ASSUME TypeOK, PidInv, [Next]_vars PROVE TypeOK'
  OBVIOUS
<1>1. ASSUME NEW c \in Client, Hit(c) PROVE TypeOK'
  <2>1. session \in Session
    BY <1>1 DEF Hit, Live, TypeOK
  <2>2. Touch(session) \in Session
    BY <2>1, AceAssumption DEF Touch, Session
  <2>3. HandOver(c, Touch(session))
    BY <1>1 DEF Hit
  <2> QED
    BY <1>1, <2>2, <2>3, HandOverType DEF Hit, TypeOK
<1>2. ASSUME NEW c \in Client, Miss(c) PROVE TypeOK'
  <2>1. nextPid \in Pid /\ nextPid + 1 \in 1 .. MaxPid + 1
    BY <1>2, AceAssumption DEF Miss, AskEngine, TypeOK, Pid
  <2> QED
    BY <1>2, <2>1 DEF Miss, AskEngine, TypeOK, Pcs
<1>3. ASSUME NEW c \in Client, NEW free \in BOOLEAN, NEW cmd \in BOOLEAN,
             Created(c, free, cmd)
      PROVE  TypeOK'
  <2>1. pid[c] \in Pid
    BY <1>3 DEF Created, PidInv, Waiting
  <2>2. NewSession(pid[c], free, cmd) \in Session
    BY <2>1, NewSessionType
  <2>3. HandOver(c, NewSession(pid[c], free, cmd))
    BY <1>3 DEF Created
  <2> QED
    BY <1>3, <2>2, <2>3, HandOverType DEF Created, TypeOK
<1>4. ASSUME NEW c \in Client,
             CreateFails(c) \/ Fetched(c) \/ Opened(c) \/ StreamEnds(c)
      PROVE  TypeOK'
  BY <1>4 DEF CreateFails, Fetched, Opened, StreamEnds, TypeOK, Pcs
<1>5. ASSUME NEW c \in Client, Forbidden(c) PROVE TypeOK'
  <2>1. nextPid \in Pid /\ nextPid + 1 \in 1 .. MaxPid + 1
    BY <1>5, AceAssumption DEF Forbidden, AskEngine, TypeOK, Pid
  <2> QED
    BY <1>5, <2>1 DEF Forbidden, AskEngine, TypeOK, Pcs
<1>6. ASSUME NEW c \in Client, DropHandler(c) PROVE TypeOK'
  BY <1>6 DEF DropHandler, TypeOK, Pcs
<1>7. ASSUME NEW c \in Client, OpenFails(c) \/ ReleaseTask(c) PROVE TypeOK'
  <2>1. ReleaseClient
    BY <1>7 DEF OpenFails, ReleaseTask
  <2> QED
    BY <1>7, <2>1, ReleaseType DEF OpenFails, ReleaseTask, TypeOK, Pcs
<1>8. ASSUME NEW t \in timers, GraceEnds(t) PROVE TypeOK'
  <2>1. t.pid \in Pid
    BY DEF TypeOK, Timer
  <2> QED
    BY <1>8, <2>1 DEF GraceEnds, TypeOK
<1>9. CASE Tick
  BY <1>9, TickType DEF Tick, TypeOK
<1>10. CASE UNCHANGED vars
  BY <1>10 DEF vars, TypeOK
<1> QED
  BY <1>1, <1>2, <1>3, <1>4, <1>5, <1>6, <1>7, <1>8, <1>9, <1>10 DEF Next

----------------------------------------------------------------------------
(* Pids never meet again. *)

(* No pid is in use at first. *)
LEMMA InitPid == Init => PidInv
  BY DEF Init, PidInv, Retired, Waiting

(* Drawing a fresh pid for a request that was not waiting. *)
LEMMA AskEnginePid ==
  ASSUME TypeOK, PidInv, NEW c \in Client, NEW w \in {"init", "reinit"},
         c \notin Waiting, AskEngine(c, w),
         session' \in {session, NoSession},
         timers' = timers, stopped' = stopped
  PROVE  PidInv'
<1>1. nextPid \in Pid /\ nextPid' = nextPid + 1 /\ nextPid \in Nat
  BY AceAssumption DEF AskEngine, TypeOK, Pid
<1>2. pid'[c] = nextPid /\ \A d \in Client \ {c} : pid'[d] = pid[d]
  BY DEF AskEngine, TypeOK
<1>3. Waiting' = Waiting \cup {c}
  BY DEF AskEngine, TypeOK, Waiting
<1>4. Retired' = Retired /\ Retired \subseteq Nat
  <2>1. (\A t \in timers : t.pid \in Nat) /\ stopped \subseteq Nat
    BY DEF TypeOK, Timer, Pid
  <2> QED
    BY <2>1 DEF Retired
<1>5. session # NoSession => session.pid \in Nat
  BY DEF TypeOK, Session, Pid
<1>6. \A d \in Waiting : d \in Client \ {c} /\ pid[d] \in Nat
  BY DEF Waiting, TypeOK, Pid
<1>7. \A p \in Retired' : p < nextPid'
  BY <1>1, <1>4 DEF PidInv
<1>8. session' # NoSession =>
        session'.pid < nextPid' /\ session'.pid \notin Retired'
  BY <1>1, <1>4, <1>5 DEF PidInv
<1>9. ASSUME NEW d \in Waiting'
      PROVE  /\ pid'[d] \in Pid /\ pid'[d] < nextPid' /\ pid'[d] \notin Retired'
             /\ session' # NoSession => session'.pid # pid'[d]
  <2>1. CASE d = c
    BY <1>1, <1>2, <1>4, <1>5, <2>1 DEF PidInv
  <2>2. CASE d # c
    BY <1>1, <1>2, <1>3, <1>4, <1>6, <2>2 DEF PidInv
  <2> QED
    BY <2>1, <2>2
<1>10. \A d, e \in Waiting' : d # e => pid'[d] # pid'[e]
  BY <1>1, <1>2, <1>3, <1>6 DEF PidInv
<1> QED
  BY <1>7, <1>8, <1>9, <1>10 DEF PidInv

(* Steps that leave the pids of the registry, the waiting requests and the  *)
(* retired sessions as they are, or let some go.                            *)
LEMMA FewerPids ==
  ASSUME PidInv, nextPid' = nextPid, pid' = pid,
         Waiting' \subseteq Waiting, Retired' \subseteq Retired,
         session' # NoSession => session # NoSession /\ session'.pid = session.pid
  PROVE  PidInv'
  BY DEF PidInv

(* release_client moves the registered pid to the retired ones at most. *)
LEMMA ReleasePid ==
  ASSUME TypeOK, PidInv, ReleaseClient, nextPid' = nextPid, pid' = pid,
         stopped' = stopped, Waiting' \subseteq Waiting
  PROVE  PidInv'
<1>1. CASE session = NoSession \/ session.count # 1
  <2>1. timers' = timers /\ Retired' = Retired
    BY <1>1 DEF ReleaseClient, Retired
  <2>2. session' # NoSession => session # NoSession /\ session'.pid = session.pid
    BY <1>1 DEF ReleaseClient, DecrementClient, TypeOK, Session
  <2> QED
    BY <2>1, <2>2, FewerPids
<1>2. CASE session # NoSession /\ session.count = 1
  <2> DEFINE t == [pid |-> session.pid, cmd |-> session.cmd]
  <2>0. session' = NoSession /\ timers' = timers \cup {t} /\ t.pid = session.pid
    BY <1>2 DEF ReleaseClient
  <2>1. session' = NoSession /\ Retired' = Retired \cup {session.pid}
    <3> HIDE DEF t
    <3> QED
      BY <2>0 DEF Retired
  <2> QED
    BY <1>2, <2>1 DEF PidInv
<1> QED
  BY <1>1, <1>2

(* Who waits after a request was handed a session. *)
LEMMA HandOverWaiting ==
  ASSUME TypeOK, NEW c \in Client, NEW s, HandOver(c, s)
  PROVE  Waiting' = Waiting \ {c}
<1>1. pc'[c] \in {"done", "open", "refetch", "fetch"}
  BY DEF HandOver, TypeOK
<1>2. \A d \in Client \ {c} : pc'[d] = pc[d]
  BY DEF HandOver, TypeOK
<1> QED
  BY <1>1, <1>2 DEF Waiting

(* What the registry holds after a request was handed session s. *)
LEMMA HandOverPid ==
  ASSUME TypeOK, NEW c \in Client, NEW s \in Session, HandOver(c, s)
  PROVE  /\ session'.pid = s.pid
         /\ pid'[c] = s.pid
         /\ \A d \in Client \ {c} : pid'[d] = pid[d]
<1>1. session'.pid = s.pid
  BY DEF HandOver, IncrementClient, Session
<1> QED
  BY <1>1 DEF HandOver, TypeOK

(* Every step keeps pids apart: a miss draws a fresh one, an insert          *)
(* registers the one it drew, a release retires the registered one.          *)
LEMMA NextPidInv == TypeOK /\ PidInv /\ [Next]_vars => PidInv'
<1> SUFFICES ASSUME TypeOK, PidInv, [Next]_vars PROVE PidInv'
  OBVIOUS
<1>1. ASSUME NEW c \in Client, Hit(c) PROVE PidInv'
  <2>1. session \in Session /\ session # NoSession
    BY <1>1 DEF Hit, Live, TypeOK
  <2>2. Touch(session) \in Session /\ Touch(session).pid = session.pid
    BY <2>1, AceAssumption DEF Touch, Session
  <2>3. HandOver(c, Touch(session)) /\ c \notin Waiting
    BY <1>1 DEF Hit, Waiting
  <2>4. Waiting' = Waiting
    BY <2>3, HandOverWaiting
  <2>5. /\ session'.pid = session.pid
        /\ \A d \in Waiting : pid'[d] = pid[d]
    BY <2>2, <2>3, HandOverPid DEF Waiting
  <2>6. Retired' = Retired /\ nextPid' = nextPid
    BY <1>1 DEF Hit, Retired
  <2> QED
    BY <2>1, <2>4, <2>5, <2>6 DEF PidInv
<1>2. ASSUME NEW c \in Client, Miss(c) PROVE PidInv'
  BY <1>2, AskEnginePid DEF Miss, Waiting
<1>3. ASSUME NEW c \in Client, NEW free \in BOOLEAN, NEW cmd \in BOOLEAN,
             Created(c, free, cmd)
      PROVE  PidInv'
  <2>1. c \in Waiting /\ pid[c] \in Pid
    BY <1>3 DEF Created, PidInv, Waiting
  <2> DEFINE s == NewSession(pid[c], free, cmd)
  <2>2. s \in Session /\ s.pid = pid[c]
    BY <2>1, NewSessionType DEF NewSession
  <2>3. HandOver(c, s)
    BY <1>3 DEF Created
  <2> HIDE DEF s
  <2>4. Waiting' = Waiting \ {c}
    BY <2>3, HandOverWaiting
  <2>5. /\ session'.pid = pid[c]
        /\ \A d \in Waiting \ {c} : pid'[d] = pid[d]
    BY <2>2, <2>3, HandOverPid DEF Waiting
  <2>6. Retired' = Retired /\ nextPid' = nextPid
    BY <1>3 DEF Created, Retired
  <2> QED
    BY <2>1, <2>4, <2>5, <2>6 DEF PidInv
<1>4. ASSUME NEW c \in Client,
             CreateFails(c) \/ Fetched(c) \/ Opened(c) \/ StreamEnds(c)
               \/ DropHandler(c)
      PROVE  PidInv'
  <2>1. Waiting' \subseteq Waiting
    BY <1>4 DEF CreateFails, Fetched, Opened, StreamEnds, DropHandler,
                Waiting, TypeOK
  <2> QED
    BY <1>4, <2>1, FewerPids
    DEF CreateFails, Fetched, Opened, StreamEnds, DropHandler, Retired
<1>5. ASSUME NEW c \in Client, Forbidden(c) PROVE PidInv'
  BY <1>5, AskEnginePid DEF Forbidden, Waiting
<1>6. ASSUME NEW c \in Client, OpenFails(c) \/ ReleaseTask(c) PROVE PidInv'
  <2>1. Waiting' \subseteq Waiting
    BY <1>6 DEF OpenFails, ReleaseTask, Waiting, TypeOK
  <2> QED
    BY <1>6, <2>1, ReleasePid DEF OpenFails, ReleaseTask
<1>7. ASSUME NEW t \in timers, GraceEnds(t) PROVE PidInv'
  <2>1. Retired' \subseteq Retired
    BY <1>7 DEF GraceEnds, Retired
  <2> QED
    BY <1>7, <2>1, FewerPids DEF GraceEnds, Waiting
<1>8. CASE Tick
  BY <1>8, TickType, AceNoSession, FewerPids DEF Tick, Waiting, Retired
<1>9. CASE UNCHANGED vars
  BY <1>9, FewerPids DEF vars, Waiting, Retired
<1> QED
  BY <1>1, <1>2, <1>3, <1>4, <1>5, <1>6, <1>7, <1>8, <1>9 DEF Next

----------------------------------------------------------------------------
(* The count is the number of clients. *)

(* There are finitely many holders, at most as many as requests. *)
LEMMA HoldersFinite ==
  /\ IsFiniteSet(Holders)
  /\ Cardinality(Holders) \in Nat
  /\ Cardinality(Holders) <= Cardinality(Client)
  /\ Cardinality(Client) \in Nat
<1>1. Holders \subseteq Client
  BY DEF Holders
<1> QED
  BY <1>1, AceAssumption, FS_Subset, FS_CardinalityType

(* Nobody is counted at first. *)
LEMMA InitCount == Init => CountIsClients
  BY DEF Init, CountIsClients, Holders

(* A request that got session s joins it, if it is to stream. *)
LEMMA JoinCounts ==
  ASSUME TypeOK, NEW c \in Client, c \notin Holders,
         NEW s \in Session, HandOver(c, s),
         s.count = Cardinality(Holders),
         \A d \in Holders : pid[d] = s.pid
  PROVE  CountIsClients'
<1>1. /\ session'.pid = s.pid
      /\ pid'[c] = s.pid
      /\ \A d \in Client \ {c} : pid'[d] = pid[d]
  BY HandOverPid
<1>2. session' \in Session /\ session' # NoSession
  BY HandOverType, AceNoSession
<1>3. CASE kind[c] = "stream" /\ ~s.free
  <2>0. pc' = [pc EXCEPT ![c] = "open"]
    BY <1>3 DEF HandOver
  <2>1. Holders' = Holders \cup {c}
    BY <2>0 DEF Holders, TypeOK
  <2>2. Cardinality(Holders') = Cardinality(Holders) + 1
    BY <2>1, HoldersFinite, FS_AddElement
  <2>3. Cardinality(Holders') <= Cardinality(Client)
    <3>1. Holders' \subseteq Client
      BY DEF Holders
    <3> QED
      BY <3>1, AceAssumption, FS_Subset
  <2>4. session'.count = Cardinality(Holders) + 1
    BY <1>3, <2>2, <2>3, HoldersFinite, AceAssumption
    DEF HandOver, IncrementClient, Session
  <2>5. \A d \in Holders' : pid'[d] = session'.pid
    BY <1>1, <2>1 DEF Holders
  <2> QED
    BY <1>2, <2>2, <2>4, <2>5 DEF CountIsClients
<1>4. CASE ~(kind[c] = "stream" /\ ~s.free)
  <2>1. Holders' = Holders
    BY <1>4 DEF HandOver, Holders, TypeOK
  <2>2. session'.count = Cardinality(Holders)
    BY <1>4 DEF HandOver
  <2>3. \A d \in Holders' : pid'[d] = session'.pid
    BY <1>1, <2>1 DEF Holders
  <2> QED
    BY <1>2, <2>1, <2>2, <2>3 DEF CountIsClients
<1> QED
  BY <1>3, <1>4

(* A counted request releases the session it is counted in. *)
LEMMA ReleaseCounts ==
  ASSUME TypeOK, CountIsClients, NEW c \in Holders, ReleaseClient,
         pc' = [pc EXCEPT ![c] = "done"], pid' = pid, disturbed' = disturbed
  PROVE  CountIsClients'
<1> SUFFICES ASSUME ~disturbed PROVE CountIsClients'
  BY DEF CountIsClients
<1>1. /\ session # NoSession /\ session \in Session
      /\ session.count = Cardinality(Holders)
      /\ \A d \in Holders : pid[d] = session.pid
  BY DEF CountIsClients, TypeOK
<1>2. Holders' = Holders \ {c}
  BY DEF Holders, TypeOK
<1>3. Cardinality(Holders') = Cardinality(Holders) - 1 /\ Cardinality(Holders) # 0
  <2>1. Cardinality(Holders') = Cardinality(Holders) - 1
    BY <1>2, HoldersFinite, FS_RemoveElement
  <2>2. Cardinality(Holders) # 0
    BY HoldersFinite, FS_EmptySet
  <2> QED
    BY <2>1, <2>2
<1>4. CASE session.count = 1
  <2>1. session' = NoSession
    BY <1>1, <1>4 DEF ReleaseClient
  <2>2. Holders' = {}
    <3>1. Cardinality(Holders') = 0 /\ IsFiniteSet(Holders')
      BY <1>1, <1>2, <1>3, <1>4, HoldersFinite, FS_RemoveElement
    <3> QED
      BY <3>1, FS_EmptySet
  <2> QED
    BY <2>1, <2>2, AceNoSession DEF CountIsClients
<1>5. CASE session.count # 1
  <2>1. session' = DecrementClient(session)
    BY <1>1, <1>5 DEF ReleaseClient
  <2>2. session'.count = Cardinality(Holders) - 1 /\ session'.pid = session.pid
    BY <1>1, <1>3, <2>1 DEF DecrementClient, Session
  <2>3. session' # NoSession
    BY <1>1, <2>1, DecrementType, AceNoSession
  <2> QED
    BY <1>1, <1>2, <1>3, <2>2, <2>3 DEF CountIsClients
<1> QED
  BY <1>4, <1>5

(* Steps that change neither who is counted nor the count. *)
LEMMA SameCount ==
  ASSUME CountIsClients, Holders' = Holders, pid' = pid, disturbed' = disturbed,
         session' = NoSession <=> session = NoSession,
         session # NoSession => /\ session'.count = session.count
                                /\ session'.pid = session.pid
  PROVE  CountIsClients'
  BY DEF CountIsClients

(* Every step keeps client_count and its holders in agreement, until an      *)
(* entry with clients is overwritten or invalidated.                         *)
LEMMA NextCount ==
  TypeOK /\ PidInv /\ CountIsClients /\ [Next]_vars => CountIsClients'
<1> SUFFICES ASSUME TypeOK, PidInv, CountIsClients, [Next]_vars
             PROVE  CountIsClients'
  OBVIOUS
<1>1. ASSUME NEW c \in Client, Hit(c) PROVE CountIsClients'
  <2> SUFFICES ASSUME ~disturbed PROVE CountIsClients'
    BY <1>1 DEF Hit, CountIsClients
  <2>1. session \in Session /\ session # NoSession
    BY <1>1 DEF Hit, Live, TypeOK
  <2> DEFINE s == Touch(session)
  <2>2. s \in Session /\ s.pid = session.pid /\ s.count = session.count
    BY <2>1, AceAssumption DEF Touch, Session
  <2>3. HandOver(c, s) /\ c \notin Holders
    BY <1>1 DEF Hit, Holders
  <2> HIDE DEF s
  <2>4. /\ s.count = Cardinality(Holders)
        /\ \A d \in Holders : pid[d] = s.pid
    BY <2>1, <2>2 DEF CountIsClients
  <2> QED
    BY <2>2, <2>3, <2>4, JoinCounts
<1>2. ASSUME NEW c \in Client, Miss(c) PROVE CountIsClients'
  <2>1. Holders' = Holders
    BY <1>2 DEF Miss, AskEngine, Holders, TypeOK
  <2>2. \A d \in Holders : pid'[d] = pid[d]
    BY <1>2 DEF Miss, AskEngine, Holders, TypeOK
  <2> QED
    BY <1>2, <2>1, <2>2 DEF Miss, CountIsClients
<1>3. ASSUME NEW c \in Client, NEW free \in BOOLEAN, NEW cmd \in BOOLEAN,
             Created(c, free, cmd)
      PROVE  CountIsClients'
  <2> SUFFICES ASSUME ~disturbed, ~HasClients(session) PROVE CountIsClients'
    BY <1>3 DEF Created, CountIsClients
  <2>1. Cardinality(Holders) = 0 /\ Holders = {}
    BY HoldersFinite, FS_EmptySet DEF CountIsClients, HasClients
  <2>2. pid[c] \in Pid /\ c \notin Holders
    BY <1>3 DEF Created, PidInv, Waiting, Holders
  <2> DEFINE s == NewSession(pid[c], free, cmd)
  <2>3. s \in Session /\ s.count = 0
    BY <2>2, NewSessionType DEF NewSession
  <2>4. HandOver(c, s)
    BY <1>3 DEF Created
  <2> HIDE DEF s
  <2> QED
    BY <2>1, <2>2, <2>3, <2>4, JoinCounts
<1>4. ASSUME NEW c \in Client, CreateFails(c) \/ Fetched(c) \/ DropHandler(c)
      PROVE  CountIsClients'
  <2>1. Holders' = Holders
    BY <1>4 DEF CreateFails, Fetched, DropHandler, Holders, TypeOK
  <2> QED
    BY <1>4, <2>1, SameCount DEF CreateFails, Fetched, DropHandler
<1>5. ASSUME NEW c \in Client, Opened(c) \/ StreamEnds(c) PROVE CountIsClients'
  <2>1. Holders' = Holders
    BY <1>5 DEF Opened, StreamEnds, Holders, TypeOK
  <2> QED
    BY <1>5, <2>1, SameCount DEF Opened, StreamEnds
<1>6. ASSUME NEW c \in Client, Forbidden(c) PROVE CountIsClients'
  <2> SUFFICES ASSUME ~disturbed, ~HasClients(session) PROVE CountIsClients'
    BY <1>6 DEF Forbidden, CountIsClients
  <2>1. Holders = {}
    BY HoldersFinite, FS_EmptySet DEF CountIsClients, HasClients
  <2>2. Holders' = {} /\ session' = NoSession
    BY <1>6, <2>1 DEF Forbidden, AskEngine, Holders, TypeOK
  <2> QED
    BY <2>2 DEF CountIsClients
<1>7. ASSUME NEW c \in Client, OpenFails(c) \/ ReleaseTask(c)
      PROVE  CountIsClients'
  <2>1. c \in Holders
    BY <1>7 DEF OpenFails, ReleaseTask, Holders
  <2> QED
    BY <1>7, <2>1, ReleaseCounts DEF OpenFails, ReleaseTask
<1>8. ASSUME NEW t \in timers, GraceEnds(t) PROVE CountIsClients'
  BY <1>8, SameCount DEF GraceEnds, Holders
<1>9. CASE Tick
  BY <1>9, TickType, AceNoSession, SameCount DEF Tick, Holders
<1>10. CASE UNCHANGED vars
  BY <1>10, SameCount DEF vars, Holders
<1> QED
  BY <1>1, <1>2, <1>3, <1>4, <1>5, <1>6, <1>7, <1>8, <1>9, <1>10 DEF Next

----------------------------------------------------------------------------
(* The theorems. *)

(* Types, pids and counts together are an inductive invariant. *)
LEMMA Inductive == Spec => []IInv
<1>1. Init => IInv
  BY InitType, InitPid, InitCount DEF IInv
<1>2. IInv /\ [Next]_vars => IInv'
  BY NextType, NextPidInv, NextCount DEF IInv
<1> QED
  BY <1>1, <1>2, PTL DEF Spec

(* Types: every state of the registry, its requests and its timers is well  *)
(* formed; in particular client_count stays within the counter's range.     *)
THEOREM TypeCorrect == Spec => []TypeOK
  BY Inductive, PTL DEF IInv

(* client_count is the number of requests increment_client counted and      *)
(* release_client has not released, in every run where no entry with        *)
(* clients is overwritten or invalidated.                                   *)
THEOREM CountCorrect == Spec => []CountIsClients
  BY Inductive, PTL DEF IInv

(* In those runs release_client's grace timer never stops an engine session *)
(* somebody watches.                                                        *)
THEOREM StopSafe == Spec => []StopIsSafeUndisturbed
<1>1. IInv => StopIsSafeUndisturbed
  BY DEF IInv, PidInv, CountIsClients, StopIsSafeUndisturbed,
         StopOnlyAfterLastClient, Viewers, Holders, Retired
<1> QED
  BY <1>1, Inductive, PTL

(* In every run, disturbed or not, no request starts streaming on a pid     *)
(* that release_client retired.                                             *)
THEOREM FreshPid == Spec => ReconnectGetsFreshPid
<1>1. ASSUME IInv, [Next]_vars, NEW c \in Client,
             pc[c] # "open", pc'[c] = "open"
      PROVE  pid'[c] \notin Retired'
  <2> USE <1>1 DEF IInv
  <2>1. ASSUME Hit(c) PROVE pid'[c] \notin Retired'
    <3>1. session \in Session /\ session # NoSession
      BY <2>1 DEF Hit, Live, TypeOK
    <3>2. Touch(session) \in Session /\ Touch(session).pid = session.pid
      BY <3>1, AceAssumption DEF Touch, Session
    <3>3. pid'[c] = session.pid
      BY <2>1, <3>2, HandOverPid DEF Hit
    <3> QED
      BY <2>1, <3>1, <3>3 DEF Hit, PidInv, Retired
  <2>2. ASSUME NEW free \in BOOLEAN, NEW cmd \in BOOLEAN, Created(c, free, cmd)
        PROVE  pid'[c] \notin Retired'
    <3>1. c \in Waiting /\ pid[c] \in Pid
      BY <2>2 DEF Created, PidInv, Waiting
    <3>2. /\ NewSession(pid[c], free, cmd) \in Session
          /\ NewSession(pid[c], free, cmd).pid = pid[c]
      BY <3>1, NewSessionType DEF NewSession
    <3>3. pid'[c] = pid[c]
      BY <2>2, <3>2, HandOverPid DEF Created
    <3> QED
      BY <2>2, <3>1, <3>3 DEF Created, PidInv, Retired
  <2>3. ASSUME NEW d \in Client, d # c,
               \/ Hit(d)
               \/ \E free, cmd \in BOOLEAN : Created(d, free, cmd)
        PROVE  FALSE
    <3>1. pc'[c] = pc[c]
      BY <2>3 DEF Hit, Created, HandOver, TypeOK
    <3> QED
      BY <3>1
  <2>4. ASSUME NEW d \in Client,
               \/ Miss(d) \/ CreateFails(d) \/ Fetched(d) \/ Forbidden(d)
               \/ Opened(d) \/ OpenFails(d) \/ DropHandler(d)
               \/ StreamEnds(d) \/ ReleaseTask(d)
        PROVE  FALSE
    <3>1. pc'[c] # "open"
      BY <2>4 DEF Miss, AskEngine, CreateFails, Fetched, Forbidden, Opened,
                  OpenFails, DropHandler, StreamEnds, ReleaseTask, TypeOK
    <3> QED
      BY <3>1, <1>1
  <2>5. ASSUME (\E t \in timers : GraceEnds(t)) \/ Tick \/ UNCHANGED vars
        PROVE  FALSE
    BY <2>5 DEF GraceEnds, Tick, vars
  <2> QED
    BY <2>1, <2>2, <2>3, <2>4, <2>5 DEF Next
<1>2. IInv /\ [Next]_vars =>
        [\A c \in Client :
           pc[c] # "open" /\ pc'[c] = "open" => pid'[c] \notin Retired']_vars
  BY <1>1
<1> QED
  BY <1>2, Inductive, PTL DEF Spec, ReconnectGetsFreshPid

=============================================================================
