--------------------------------- MODULE MCProxy --------------------------------
(* The components that share no state with others, checked in one run: each *)
(* behaviour runs one of them, and the variables of the others keep values  *)
(* of which no property says anything.                                      *)
EXTENDS MCCenc, MCDash, MCGateway, MCXtream, TelegramLogin

VARIABLE component

CencAway ==
  /\ segment = Request(<<>>, <<>>, <<>>, <<>>, {}, FALSE)
  /\ received = 0 /\ taken = 0 /\ cur = None /\ dec = None
  /\ out = <<>> /\ rest = <<>> /\ cencPc = "idle"
DashAway ==
  /\ dashNow = 0 /\ channel = None /\ mpdCache = None /\ job = None
  /\ shown = None /\ numbering = {} /\ answer = None
GatewayAway ==
  server = None /\ gwNow = 0 /\ page = <<>> /\ registered = None /\ deed = None
LoginAway ==
  loginNow = 0 /\ pending = [id \in Login |-> None] /\ call = [c \in Call |-> Idle] /\ strings = {}
XtreamAway ==
  /\ xcPassword = None /\ account = None /\ username = None
  /\ listed = {} /\ opened = FALSE /\ xcDeed = None

ProxyInit ==
  \/ /\ component = "cenc" /\ CencInit
     /\ DashAway /\ GatewayAway /\ XtreamAway /\ LoginAway
  \/ /\ component = "dash" /\ DashInit
     /\ CencAway /\ GatewayAway /\ XtreamAway /\ LoginAway
  \/ /\ component = "gateway" /\ GatewayInit
     /\ CencAway /\ DashAway /\ XtreamAway /\ LoginAway
  \/ /\ component = "xtream" /\ XcInit
     /\ CencAway /\ DashAway /\ GatewayAway /\ LoginAway
  \/ /\ component = "login" /\ LoginInit
     /\ CencAway /\ DashAway /\ GatewayAway /\ XtreamAway

Cenc == component = "cenc"    /\ UNCHANGED <<component, dashVars, gwVars, xcVars, loginVars>>
Dash == component = "dash"    /\ UNCHANGED <<component, cencVars, gwVars, xcVars, loginVars>>
Gate == component = "gateway" /\ UNCHANGED <<component, cencVars, dashVars, xcVars, loginVars>>
Xtre == component = "xtream"  /\ UNCHANGED <<component, cencVars, dashVars, gwVars, loginVars>>
Tele == component = "login"   /\ UNCHANGED <<component, cencVars, dashVars, gwVars, xcVars>>

ProxyNext ==
  \/ Cenc /\ StartStream
  \/ Cenc /\ ReadHeader
  \/ Cenc /\ PassTail
  \/ Cenc /\ NeedHeader
  \/ Cenc /\ TakePart
  \/ Cenc /\ EmitBox
  \/ Cenc /\ \E n \in 1 .. Len(Wire) : Receive(n)
  \/ Cenc /\ UpstreamEnds
  \/ Cenc /\ UpstreamFails
  \/ Dash /\ \E p \in Player : AskFirst(p)
  \/ Dash /\ \E p \in Player : AskLinked(p)
  \/ Dash /\ \E p \in Player : Refresh(p)
  \/ Dash /\ \E p \in Player : UpstreamAnswers(p)
  \/ Dash /\ \E p \in Player : UpstreamDown(p)
  \/ Dash /\ \E p \in Player : FetchEnds(p)
  \/ Dash /\ \E i \in 1 .. MaxLines : Play(i)
  \/ Dash /\ Tick
  \/ Gate /\ Generate
  \/ Gate /\ Type
  \/ Gate /\ \E i \in 1 .. MaxEntries, ip \in Client : Reject(i, ip)
  \/ Gate /\ \E i \in 1 .. MaxEntries, ip \in Client : ServeManifest(i, ip)
  \/ Gate /\ \E i \in 1 .. MaxEntries, ip \in Client : Forward(i, ip)
  \/ Gate /\ \E i \in 1 .. MaxEntries, ip \in Client, range \in Ranges : ServeSegment(i, range, ip)
  \/ Gate /\ \E i \in 1 .. MaxEntries, ip \in Client, range \in Ranges : ServeStream(i, range, ip)
  \/ Gate /\ \E i \in 1 .. MaxEntries, ip \in Client, range \in Ranges : GoDirectly(i, range, ip)
  \/ Gate /\ Leave
  \/ Gate /\ Pass
  \/ Xtre /\ \E with \in BOOLEAN : CallApi(with)
  \/ Xtre /\ \E kind \in Kind, ext \in Ext, with \in BOOLEAN : AskFor(kind, ext, with)
  \/ Xtre /\ \E kind \in Kind, ext \in Ext, with \in BOOLEAN : AskListed(kind, ext, with)
  \/ Tele /\ \E c \in Call, id \in Login : Start(c, id)
  \/ Tele /\ \E c \in Call : CodeSent(c)
  \/ Tele /\ \E c \in Call, id \in Login : Verify(c, id)
  \/ Tele /\ \E c \in Call : SignedIn(c)
  \/ Tele /\ \E c \in Call : PasswordRequired(c)
  \/ Tele /\ \E c \in Call : InvalidCode(c)
  \/ Tele /\ \E c \in Call, id \in Login : Submit2fa(c, id)
  \/ Tele /\ \E c \in Call : StepFails(c)
  \/ Tele /\ \E id \in Login : Cancel(id)
  \/ Tele /\ Second

ProxySpec ==
  ProxyInit /\ [][ProxyNext]_<<component, cencVars, dashVars, gwVars, xcVars, loginVars>>
=============================================================================
