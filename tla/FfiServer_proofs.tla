---------------------------- MODULE FfiServer_proofs ----------------------------
(* TLAPS proofs about FfiServer. *)
EXTENDS FfiServer, TLAPS

(* A new handle runs nothing, and says so. *)
LEMMA InitInv == Init => IInv
<1> SUFFICES ASSUME Init PROVE IInv
  OBVIOUS
<1>1. TypeOK
  BY DEF Init, TypeOK, BgStates
<1>2. RunningIsTrue
  BY DEF Init, RunningIsTrue
<1>3. FlagTracksServer /\ RepliesPort
  BY DEF Init, FlagTracksServer, RepliesPort, Active, Announced, Listening
<1>4. StartsAlone
  BY DEF Init, StartsAlone, Starting
<1> QED
  BY <1>1, <1>2, <1>3, <1>4 DEF IInv

(* Every step keeps the types. *)
LEMMA TypeStep == TypeOK /\ RepliesPort /\ [Next]_vars => TypeOK'
<1> SUFFICES ASSUME TypeOK, RepliesPort, [Next]_vars PROVE TypeOK'
  OBVIOUS
<1> USE FfiAssumption DEF TypeOK, BgStates, Returns, Calls
<1>1. ASSUME NEW t \in Thread, Start(t) PROVE TypeOK'
  BY <1>1 DEF Start, handle
<1>2. ASSUME NEW t \in Thread, StartFails(t) PROVE TypeOK'
  BY <1>2 DEF StartFails, handle
<1>3. ASSUME NEW t \in Thread, StoresPort(t) PROVE TypeOK'
  BY <1>3 DEF StoresPort
<1>4. ASSUME NEW t \in Thread, StoresSender(t) PROVE TypeOK'
  BY <1>4 DEF StoresSender
<1>5. ASSUME NEW t \in Thread, Stop(t) PROVE TypeOK'
  BY <1>5 DEF Stop, handle, servers
<1>6. ASSUME NEW t \in Thread, TakesSender(t) PROVE TypeOK'
  BY <1>6 DEF TakesSender
<1>7. ASSUME NEW t \in Thread, FindsNoSender(t) PROVE TypeOK'
  BY <1>7 DEF FindsNoSender, handle, servers
<1>8. ASSUME NEW n \in Server, FailsToStart(n) PROVE TypeOK'
  BY <1>8 DEF FailsToStart, handle, threads
<1>9. ASSUME NEW n \in Server, Binds(n) PROVE TypeOK'
  BY <1>9 DEF Binds, handle, threads
<1>10. ASSUME NEW n \in Server, SetsRunning(n) PROVE TypeOK'
  BY <1>10 DEF SetsRunning, threads
<1>11. ASSUME NEW n \in Server, SetsPort(n) PROVE TypeOK'
  <2>1. actualPort' \in Port \cup {None}
    BY <1>11 DEF SetsPort, RepliesPort, Listening
  <2> QED
    BY <2>1, <1>11 DEF SetsPort, threads
<1>12. ASSUME NEW n \in Server, ShutsDown(n) \/ ServerCompletes(n) PROVE TypeOK'
  BY <1>12 DEF ShutsDown, ServerCompletes, handle, threads
<1>13. ASSUME NEW n \in Server, Ends(n) PROVE TypeOK'
  BY <1>13 DEF Ends, threads
<1>14. CASE LoadConfig \/ Destroy
  BY <1>14, ZenonT(60) DEF LoadConfig, Destroy, servers, threads
<1>15. CASE UNCHANGED vars
  BY <1>15 DEF vars, handle, servers, threads
<1> QED
  BY <1>1, <1>2, <1>3, <1>4, <1>5, <1>6, <1>7, <1>8, <1>9, <1>10, <1>11, <1>12,
     <1>13, <1>14, <1>15
  DEF Next, Host, Background

(* Steps of the host threads. *)
LEMMA HostStep ==
  ASSUME IInv, NEW t \in Thread, Host(t)
  PROVE  RunningIsTrue' /\ FlagTracksServer' /\ RepliesPort' /\ StartsAlone'
<1> USE FfiAssumption
    DEF IInv, TypeOK, RunningIsTrue, FlagTracksServer, RepliesPort, StartsAlone,
        Active, Announced, Listening, Starting, Returns, Calls, handle, servers
<1>1. CASE Start(t)
  BY <1>1 DEF Start
<1>2. CASE StartFails(t)
  BY <1>2 DEF StartFails
<1>3. CASE StoresPort(t)
  BY <1>3 DEF StoresPort
<1>4. CASE StoresSender(t)
  BY <1>4 DEF StoresSender
<1>5. CASE Stop(t) \/ TakesSender(t) \/ FindsNoSender(t)
  BY <1>5 DEF Stop, TakesSender, FindsNoSender
<1> QED
  BY <1>1, <1>2, <1>3, <1>4, <1>5 DEF Host

(* Steps of a background thread. *)
LEMMA BackgroundStep ==
  ASSUME IInv, NEW n \in Server, Background(n)
  PROVE  RunningIsTrue' /\ FlagTracksServer' /\ RepliesPort' /\ StartsAlone'
<1> USE FfiAssumption
    DEF IInv, TypeOK, RunningIsTrue, FlagTracksServer, RepliesPort, StartsAlone,
        Active, Announced, Listening, Starting, handle, threads
<1>1. CASE FailsToStart(n)
  BY <1>1 DEF FailsToStart
<1>2. CASE Binds(n)
  BY <1>2 DEF Binds
<1>3. CASE SetsRunning(n)
  BY <1>3 DEF SetsRunning
<1>4. CASE SetsPort(n)
  BY <1>4 DEF SetsPort
<1>5. CASE ShutsDown(n) \/ ServerCompletes(n)
  BY <1>5 DEF ShutsDown, ServerCompletes
<1>6. CASE Ends(n)
  BY <1>6 DEF Ends
<1> QED
  BY <1>1, <1>2, <1>3, <1>4, <1>5, <1>6 DEF Background

LEMMA NextInv == IInv /\ [Next]_vars => IInv'
<1> SUFFICES ASSUME IInv, [Next]_vars PROVE IInv'
  OBVIOUS
<1>1. TypeOK'
  BY TypeStep DEF IInv
<1>2. RunningIsTrue' /\ FlagTracksServer' /\ RepliesPort' /\ StartsAlone'
  <2>1. CASE LoadConfig \/ Destroy \/ UNCHANGED vars
    BY <2>1 DEF LoadConfig, Destroy, vars, handle, servers, threads, IInv,
                RunningIsTrue, FlagTracksServer, RepliesPort, StartsAlone,
                Active, Announced, Listening, Starting
  <2> QED
    BY <2>1, HostStep, BackgroundStep DEF Next
<1> QED
  BY <1>1, <1>2 DEF IInv

LEMMA Invariance == Spec => []IInv
BY InitInv, NextInv, PTL DEF Spec

(* The variables keep their types; in particular the port that is_running   *)
(* callers read in actual_port is a port some server really bound.          *)
THEOREM TypeCorrect == Spec => []TypeOK
<1>1. IInv => TypeOK
  BY DEF IInv
<1> QED
  BY Invariance, <1>1, PTL

(* is_running is never set while no server of the handle is on, whatever    *)
(* calls the host's threads make at the same time.                          *)
THEOREM RunningHonest == Spec => []RunningIsTrue
<1>1. IInv => RunningIsTrue
  BY DEF IInv
<1> QED
  BY Invariance, <1>1, PTL

(* When starts do not overlap with each other or with a server that is on,  *)
(* is_running and actual_port describe the one server of the handle.        *)
THEOREM FlagTracks == Spec => []FlagTracksServer
<1>1. IInv => FlagTracksServer
  BY DEF IInv
<1> QED
  BY Invariance, <1>1, PTL

=============================================================================
