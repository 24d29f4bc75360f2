------------------------------- MODULE XtreamCodes -------------------------------
(***************************************************************************)
(* The Xtream Codes proxy (src/xtream).  It keeps no state: the username a  *)
(* player sends holds the provider's URL, the user and the API password,    *)
(* and API answers are rewritten so that the player goes on with such a     *)
(* username.  Routes and the parameters handlers take from them are those   *)
(* of main.rs; a request with fewer parameters than its handler takes is    *)
(* answered with 404.                                                       *)
(*                                                                         *)
(* Credentials are [host, port, user, password], port None if the URL of    *)
(* the provider has none, password that of the API.  A username is [form,   *)
(* parts]: "packed", with the texts between the colons of what it encodes,  *)
(* or "legacy", with the credentials.                                       *)
(***************************************************************************)
EXTENDS Absent, Integers, Sequences

CONSTANTS
  Account,         \* credentials that players are set up with
  ShortNumber(_),  \* whether a text is up to five digits
  ApiPassword,     \* api_password of configurations, None if empty
  Listed,          \* URLs in API answers, [host, port, kind, ext]
  Kind,            \* forms of stream URLs, and "get" and "xmltv"
  Ext              \* their extensions, None if there is none

VARIABLES
  xcPassword,  \* the configured password
  account,     \* what the player was set up with
  username,    \* what the player sends
  listed,      \* the URLs of the last API answer that lead to the proxy,
               \* [kind, ext, name], name the username in them
  opened,      \* whether an API call was answered
  xcDeed       \* what became of the last request, or None

xcVars == <<xcPassword, account, username, listed, opened, xcDeed>>

Only(x) == IF x = None THEN <<>> ELSE <<x>>

(* encode_username_token *)
EncodeUsername(creds) ==
  [form  |-> "packed",
   parts |-> <<creds.host>> \o Only(creds.port) \o <<creds.user>> \o Only(creds.password)]

Credentials(host, port, user, password) ==
  [host |-> host, port |-> port, user |-> user, password |-> password]

(* Mutant: any second of three parts is a port. *)
UnpackPort(p) ==
  IF Len(p) = 2 THEN Credentials(p[1], None, p[2], None)
  ELSE IF Len(p) = 3 THEN Credentials(p[1], p[2], p[3], None)
  ELSE Credentials(p[1], p[2], p[3], p[4])

(* try_parse_base64_username: what is short and numeric is a port. *)
Unpack(p) ==
  IF Len(p) = 2 THEN Credentials(p[1], None, p[2], None)
  ELSE IF Len(p) = 4 THEN Credentials(p[1], p[2], p[3], p[4])
  ELSE IF ShortNumber(p[2]) THEN Credentials(p[1], p[2], p[3], None)
  ELSE Credentials(p[1], None, p[2], p[3])

(* parse_username_with_upstream *)
Parse(name) == IF name.form = "packed" THEN Unpack(name.parts) ELSE name.parts

XcInit ==
  /\ xcPassword \in ApiPassword
  /\ account \in Account
  /\ \/ username = EncodeUsername(account)
     \/ username = [form |-> "legacy", parts |-> account]
  /\ listed = {}
  /\ opened = FALSE
  /\ xcDeed = None

-----------------------------------------------------------------------------
(* Live streams and movies without an extension, episodes in their short    *)
(* form, and the routes with a token have fewer parameters than their       *)
(* handlers take.                                                           *)
Unserved(kind, ext) ==
  \/ kind \in {"live", "movie", "episode"} /\ ext = None
  \/ kind \in {"series", "hls", "timeshift.php"}

(* The middleware wants the password in the query (with is whether it is),  *)
(* verify_xc_api_password in the username.  A playlist is answered with a   *)
(* redirect to its rewriting.                                               *)
Way(creds, kind, ext, with) ==
  IF xcPassword # None /\ ~with THEN "rejected"
  ELSE IF Unserved(kind, ext) THEN "missing"
  ELSE IF xcPassword # None /\ creds.password # xcPassword THEN "forbidden"
  ELSE IF kind = "get" \/ (kind = "live" /\ ext = "m3u8") THEN "playlist" ELSE "answered"

(* A handler with the credentials of the username. *)
Handle(creds, kind, ext, with) ==
  xcDeed' = [way |-> Way(creds, kind, ext, with), with |-> with, kind |-> kind,
             host |-> creds.host, port |-> creds.port, user |-> creds.user]

(* The player makes a URL of the username it has. *)
AskFor(kind, ext, with) ==
  /\ Handle(Parse(username), kind, ext, with)
  /\ UNCHANGED <<xcPassword, account, username, listed, opened>>

(* Or it follows one of an API answer. *)
AskListed(kind, ext, with) ==
  /\ \E url \in listed :
       /\ url.kind = kind /\ url.ext = ext
       /\ Handle(Parse(url.name), kind, ext, with)
  /\ UNCHANGED <<xcPassword, account, username, listed, opened>>

(* rewrite_urls_for_api: URLs of the provider, with its port or without,    *)
(* come to lead to the proxy and have a packed username.                    *)
RewriteUrls(creds) ==
  {[kind |-> url.kind, ext |-> url.ext, name |-> EncodeUsername(creds)] :
     url \in {url \in Listed : url.host = creds.host /\ url.port \in {None, creds.port}}}

(* player_api_handler and panel_api_handler: the answer tells the user,     *)
(* which is replaced by a packed username, or URLs.                         *)
CallApi(with) ==
  /\ \E creds \in {Parse(username)} :
       /\ Handle(creds, "api", None, with)
       /\ IF Way(creds, "api", None, with) = "answered"
          THEN /\ opened' = TRUE
               /\ \/ username' = EncodeUsername(creds) /\ listed' = {}
                  \/ listed' = RewriteUrls(creds) /\ UNCHANGED username
          ELSE UNCHANGED <<username, listed, opened>>
  /\ UNCHANGED <<xcPassword, account>>

XcNext ==
  \E with \in BOOLEAN :
    \/ CallApi(with)
    \/ \E kind \in Kind, ext \in Ext : AskFor(kind, ext, with) \/ AskListed(kind, ext, with)

XcSpec == XcInit /\ [][XcNext]_xcVars

-----------------------------------------------------------------------------
(* What is mistaken when it is packed: a numeric user for a port, if there  *)
(* is a password and no port; a port with a path behind it for a user, if   *)
(* there is no password.                                                    *)
Mistakable ==
  IF account.port = None THEN account.password # None /\ ShortNumber(account.user)
  ELSE account.password = None /\ ~ShortNumber(account.port)

(* Whatever username a player starts with, it stays with its provider and   *)
(* user through any number of rewritten answers, and a player whose API     *)
(* call was answered is not shut out later.                                 *)
ProviderReached ==
  xcDeed # None /\ ~Mistakable =>
    /\ xcDeed.way \in {"answered", "playlist"} =>
         /\ xcDeed.host = account.host /\ xcDeed.port = account.port
         /\ xcDeed.user = account.user
    /\ opened /\ xcDeed.with => xcDeed.way \notin {"rejected", "forbidden"}

=============================================================================
