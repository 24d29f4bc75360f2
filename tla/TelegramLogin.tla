----------------------------- MODULE TelegramLogin -----------------------------
(***************************************************************************)
(* The login wizard that makes a Telegram session string                    *)
(* (src/telegram/session_gen.rs).  A login is started with a phone number,  *)
(* verified with a code and perhaps a password; between these requests it   *)
(* waits in a map that all requests share.  A step takes the login out of   *)
(* the map, awaits Telegram, and may put it back; other requests for the    *)
(* same session id, a cancel, the removal of expired logins and the loss of *)
(* the request may come in between.                                         *)
(*                                                                         *)
(* Logins with a bot token never enter the map and are left out.            *)
(***************************************************************************)
EXTENDS Absent, Integers, FiniteSets

CONSTANTS
  Login,      \* session ids
  Call,       \* requests to the three steps of the wizard
  Ttl,        \* SESSION_TTL_SECS
  MaxSeconds  \* bound: the last time

ASSUME LoginAssumption == None \notin Login

VARIABLES
  loginNow,   \* the clock
  pending,    \* the map: [code, challenge, created], or None
  call,       \* what each request awaits: [step, id, held], held what it took
  strings     \* history: the logins whose session string was given out

loginVars == <<loginNow, pending, call, strings>>

Idle == [step |-> "idle", id |-> None, held |-> None]

LoginInit ==
  /\ loginNow = 0
  /\ pending = [id \in Login |-> None]
  /\ call = [c \in Call |-> Idle]
  /\ strings = {}

Returns(c) == call' = [call EXCEPT ![c] = Idle]
Awaits(c, step, id, held) == call' = [call EXCEPT ![c] = [step |-> step, id |-> id, held |-> held]]

(* A session id is 16 random bytes: no two logins get the same.             *)
Unused(id) ==
  /\ pending[id] = None
  /\ id \notin strings
  /\ \A c \in Call : call[c].id # id

-----------------------------------------------------------------------------
(* session_start_handler: gc_expired, and then the code is requested. *)
Start(c, id) ==
  /\ call[c] = Idle
  /\ Unused(id)
  /\ pending' = [i \in Login |-> IF pending[i] # None /\ loginNow - pending[i].created >= Ttl
                                 THEN None ELSE pending[i]]
  /\ Awaits(c, "code", id, None)
  /\ UNCHANGED <<loginNow, strings>>

CodeSent(c) ==
  /\ call[c].step = "code"
  /\ pending' = [pending EXCEPT
       ![call[c].id] = [code |-> TRUE, challenge |-> FALSE, created |-> loginNow]]
  /\ Returns(c)
  /\ UNCHANGED <<loginNow, strings>>

(* Mutant: the login stays in the map while its code is checked. *)
VerifyInPlace(c, id) ==
  /\ call[c] = Idle
  /\ pending[id] # None
  /\ pending[id].code
  /\ Awaits(c, "verify", id, pending[id])
  /\ UNCHANGED <<loginNow, pending, strings>>

(* session_verify_handler: a login without a code to verify is put back. *)
Verify(c, id) ==
  /\ call[c] = Idle
  /\ pending[id] # None
  /\ pending[id].code
  /\ Awaits(c, "verify", id, pending[id])
  /\ pending' = [pending EXCEPT ![id] = None]
  /\ UNCHANGED <<loginNow, strings>>

SignedIn(c) ==
  /\ call[c].step \in {"verify", "password"}
  /\ strings' = strings \cup {call[c].id}
  /\ Returns(c)
  /\ UNCHANGED <<loginNow, pending>>

(* SignInError::PasswordRequired: the challenge replaces the code. *)
PasswordRequired(c) ==
  /\ call[c].step = "verify"
  /\ pending' = [pending EXCEPT
       ![call[c].id] = [code |-> FALSE, challenge |-> TRUE, created |-> loginNow]]
  /\ Returns(c)
  /\ UNCHANGED <<loginNow, strings>>

(* SignInError::InvalidCode: the code may be entered again. *)
InvalidCode(c) ==
  /\ call[c].step = "verify"
  /\ pending' = [pending EXCEPT ![call[c].id] = [call[c].held EXCEPT !.created = loginNow]]
  /\ Returns(c)
  /\ UNCHANGED <<loginNow, strings>>

(* session_2fa_handler: a login without a challenge is lost. *)
Submit2fa(c, id) ==
  /\ call[c] = Idle
  /\ pending[id] # None
  /\ pending' = [pending EXCEPT ![id] = None]
  /\ IF pending[id].challenge
     THEN Awaits(c, "password", id, [pending[id] EXCEPT !.challenge = FALSE])
     ELSE UNCHANGED call
  /\ UNCHANGED <<loginNow, strings>>

(* Any other error of a step, a wrong password among them, and the loss of  *)
(* the request while it awaits Telegram: what was taken out is dropped.     *)
StepFails(c) ==
  /\ call[c] # Idle
  /\ Returns(c)
  /\ UNCHANGED <<loginNow, pending, strings>>

(* session_cancel_handler *)
Cancel(id) ==
  /\ pending[id] # None
  /\ pending' = [pending EXCEPT ![id] = None]
  /\ UNCHANGED <<loginNow, call, strings>>

Second ==
  /\ loginNow < MaxSeconds
  /\ loginNow' = loginNow + 1
  /\ UNCHANGED <<pending, call, strings>>

LoginNext ==
  \/ \E c \in Call :
       \/ \E id \in Login : Start(c, id) \/ Verify(c, id) \/ Submit2fa(c, id)
       \/ CodeSent(c) \/ SignedIn(c) \/ PasswordRequired(c) \/ InvalidCode(c) \/ StepFails(c)
  \/ \E id \in Login : Cancel(id)
  \/ Second

LoginSpec == LoginInit /\ [][LoginNext]_loginVars

-----------------------------------------------------------------------------
Holders(id) == {c \in Call : call[c].id = id}

(* "Only one verify can run at a time per id", and no more than one request *)
(* of any kind works on a login: it is in the map, or with one request, or  *)
(* gone, and gone for good once its session string was given out, whatever  *)
(* steps, cancels and lost requests come in between.                        *)
LoginInOnePlace ==
  \A id \in Login :
    /\ \A c, e \in Holders(id) : c = e
    /\ pending[id] # None => Holders(id) = {}
    /\ id \in strings => pending[id] = None /\ Holders(id) = {}

=============================================================================
