------------------------------ MODULE McpAuth ------------------------------
(***************************************************************************)
(* A user's OAuth authorization of one MCP server:                         *)
(*   authorize  GET    /mcp/auth/servers/{s}/authorize  _mcp_auth/authorize *)
(*   callback   GET    /mcp/auth/callback               _mcp_auth/callback  *)
(*   discover   POST   /mcp/auth/servers/{s}/discover   _mcp_auth/discovery *)
(*   revoke     DELETE /mcp/auth/servers/{s}/token      _mcp_auth/revoke    *)
(* An authorize request draws a fresh state and code verifier, so a flow   *)
(* stands for the request, its state, its verifier and the IdP's code.     *)
(*                                                                         *)
(* External: the state store (put, an atomic pop, entries that expire),    *)
(* the registration and token stores, ensure_registration, which may       *)
(* register a new client with the IdP, the IdP, and the session warmer.    *)
(***************************************************************************)
EXTENDS Naturals, FiniteSets

CONSTANTS
  Flows,      \* authorize requests that may arrive
  Callbacks,  \* redirects of a browser back to the callback endpoint
  Servers,    \* MCP servers that require OAuth
  Users,      \* (tenant, user) pairs
  TokenStore, \* the MCP token store is configured
  MaxClients, \* bound: client registrations made with the IdP
  None

ASSUME ConstantsAssumption ==
  /\ TokenStore \in BOOLEAN
  /\ MaxClients \in Nat \ {0}
  /\ None \notin Flows \cup Users \cup Servers

VARIABLES
  registration, \* registration[s]: the client of the stored row, 0 if there is none
  clients,      \* clients registered with the IdP so far
  pending,      \* flows whose state is in the state store
  flow,         \* flow[f]: the authorize request
  callback,     \* callback[k]: the callback request
  spent,        \* flows whose code the IdP has exchanged
  token,        \* token[s][u]: the flow whose token is stored, or None
  sent,         \* history: sent[f], exchanges of f's code that were attempted
  saved,        \* history: flows whose token was stored
  warmed        \* history: flows after which the server's cache was warmed

vars == <<registration, clients, pending, flow, callback, spent, token, sent, saved, warmed>>
histories == <<sent, saved, warmed>>

Client == 1..MaxClients
Flow == [at : {"idle", "discover", "put", "ended"}, server : Servers \cup {None},
         user : Users \cup {None}, client : {0} \cup Client,
         reply : {"none", "url", "failed"}]
Callback == [at : {"idle", "pop", "read", "exchange", "save", "warm", "ended"},
             flow : Flows \cup {None}, client : {0} \cup Client,
             reply : {"none", "success", "error", "invalid", "failed"}]

Init ==
  /\ registration = [s \in Servers |-> 0]
  /\ clients = 0
  /\ pending = {}
  /\ flow = [f \in Flows |-> [at |-> "idle", server |-> None, user |-> None,
                              client |-> 0, reply |-> "none"]]
  /\ callback = [k \in Callbacks |-> [at |-> "idle", flow |-> None, client |-> 0,
                                      reply |-> "none"]]
  /\ spent = {}
  /\ token = [s \in Servers |-> [u \in Users |-> None]]
  /\ sent = [f \in Flows |-> 0]
  /\ saved = {}
  /\ warmed = {}

-----------------------------------------------------------------------------
(* Authorize and discover *)

\* get_authorize_url reads the registration row.
Authorize(f, s, u) ==
  /\ flow[f].at = "idle"
  /\ flow' = [flow EXCEPT ![f] =
       [@ EXCEPT !.at = IF registration[s] = 0 THEN "discover" ELSE "put",
                 !.server = s, !.user = u, !.client = registration[s]]]
  /\ UNCHANGED <<registration, clients, pending, callback, spent, token, histories>>

\* ensure_registration: the row it finds, or a new client whose row replaces
\* whatever was stored while the discovery chain ran.
EnsureRegistration(s, client) ==
  \/ /\ client = registration[s] /\ client # 0
     /\ UNCHANGED <<registration, clients>>
  \/ /\ clients < MaxClients
     /\ client = clients + 1
     /\ clients' = client
     /\ registration' = [registration EXCEPT ![s] = client]

\* Auto-discovery on the first Connect.
AutoDiscover(f) ==
  /\ flow[f].at = "discover"
  /\ \E client \in Client :
       /\ EnsureRegistration(flow[f].server, client)
       /\ flow' = [flow EXCEPT ![f].at = "put", ![f].client = client]
  /\ UNCHANGED <<pending, callback, spent, token, histories>>

\* Discovery raises (502), or the row has no authorization endpoint (500).
AuthorizeFails(f) ==
  /\ flow[f].at \in {"discover", "put"}
  /\ flow' = [flow EXCEPT ![f].at = "ended", ![f].reply = "failed"]
  /\ UNCHANGED <<registration, clients, pending, callback, spent, token, histories>>

\* state_store.put, then the URL is returned.
PutState(f) ==
  /\ flow[f].at = "put"
  /\ pending' = pending \cup {f}
  /\ flow' = [flow EXCEPT ![f].at = "ended", ![f].reply = "url"]
  /\ UNCHANGED <<registration, clients, callback, spent, token, histories>>

\* trigger_discovery; with a row it returns the row.
TriggerDiscovery(s) ==
  /\ registration[s] = 0
  /\ \E client \in Client : EnsureRegistration(s, client)
  /\ UNCHANGED <<pending, flow, callback, spent, token, histories>>

\* "delete the row and re-run discovery"
DeleteRegistration(s) ==
  /\ registration[s] # 0
  /\ registration' = [registration EXCEPT ![s] = 0]
  /\ UNCHANGED <<clients, pending, flow, callback, spent, token, histories>>

\* oauth_state_ttl_seconds
ExpireState(f) ==
  /\ f \in pending
  /\ pending' = pending \ {f}
  /\ UNCHANGED <<registration, clients, flow, callback, spent, token, histories>>

-----------------------------------------------------------------------------
(* Callback *)

Goes(k, at) == callback' = [callback EXCEPT ![k].at = at]
Ends(k, reply) == callback' = [callback EXCEPT ![k].at = "ended", ![k].reply = reply]

\* The IdP redirects a browser that has been sent the URL, with the code or with
\* an error. Reloading the page repeats the request. An error is answered before
\* the state is looked at.
Redirect(k, f) ==
  /\ callback[k].at = "idle"
  /\ flow[f].reply = "url"
  /\ \/ callback' = [callback EXCEPT ![k].at = "pop", ![k].flow = f]
     \/ callback' = [callback EXCEPT ![k].at = "ended", ![k].flow = f, ![k].reply = "error"]
  /\ UNCHANGED <<registration, clients, pending, flow, spent, token, histories>>

\* A plausible slip: the state is looked up, and stays until it expires.
LeftPending(f) == pending

\* state_store.pop takes the state out: it is good for one callback.
Popped(f) == pending \ {f}

PopState(k) ==
  LET f == callback[k].flow IN
  /\ callback[k].at = "pop"
  /\ IF f \in pending
     THEN pending' = Popped(f) /\ Goes(k, "read")
     ELSE UNCHANGED pending /\ Ends(k, "invalid")
  /\ UNCHANGED <<registration, clients, flow, spent, token, histories>>

\* The row is read anew: it need not be the one the URL was built from.
ReadRegistration(k) ==
  LET client == registration[flow[callback[k].flow].server] IN
  /\ callback[k].at = "read"
  /\ callback' = [callback EXCEPT ![k] = IF client = 0
                    THEN [@ EXCEPT !.at = "ended", !.reply = "failed"]
                    ELSE [@ EXCEPT !.at = "exchange", !.client = client]]
  /\ UNCHANGED <<registration, clients, pending, flow, spent, token, histories>>

\* The IdP exchanges a code once, for the client it was issued to. The handler
\* may still fail on the answer: no access_token in it.
ExchangeSucceeds(k) ==
  LET f == callback[k].flow IN
  /\ callback[k].at = "exchange"
  /\ f \notin spent
  /\ callback[k].client = flow[f].client
  /\ spent' = spent \cup {f}
  /\ sent' = [sent EXCEPT ![f] = @ + 1]
  /\ Goes(k, "save") \/ Ends(k, "failed")
  /\ UNCHANGED <<registration, clients, pending, flow, token, saved, warmed>>

\* A plausible slip: the exchange is not given up after a while.
ExchangeHangs(k) == callback[k].at = "exchange" /\ UNCHANGED vars

\* The IdP rejects the code, or is silent for the 15 s the HTTP client waits.
ExchangeFails(k) ==
  LET f == callback[k].flow IN
  /\ callback[k].at = "exchange"
  /\ sent' = [sent EXCEPT ![f] = @ + 1]
  /\ Ends(k, "failed")
  /\ UNCHANGED <<registration, clients, pending, flow, spent, token, saved, warmed>>

\* A plausible slip: the token is stored for everyone who uses the server.
StoredForAll(f) == [u \in Users |-> f]

\* save_token replaces the row of the server and of the user that authorized it.
StoredFor(f) == [token[flow[f].server] EXCEPT ![flow[f].user] = f]

SaveToken(k) ==
  LET f == callback[k].flow IN
  /\ callback[k].at = "save"
  /\ IF TokenStore
     THEN /\ token' = [token EXCEPT ![flow[f].server] = StoredFor(f)]
          /\ saved' = saved \cup {f}
     ELSE UNCHANGED <<token, saved>>
  /\ Goes(k, "warm")
  /\ UNCHANGED <<registration, clients, pending, flow, spent, sent, warmed>>

\* A plausible slip: a failing token store does not stop the callback.
SaveFailsSoftly(k) ==
  /\ callback[k].at = "save"
  /\ Goes(k, "warm")
  /\ UNCHANGED <<registration, clients, pending, flow, spent, token, histories>>

\* save_token raises: a 500, with the code spent.
SaveFails(k) ==
  /\ callback[k].at = "save"
  /\ TokenStore
  /\ Ends(k, "failed")
  /\ UNCHANGED <<registration, clients, pending, flow, spent, token, histories>>

\* warm_one_for_user is advisory: the success page is sent whether it returns or
\* raises, and without a framework there is nothing to warm. The callback awaits
\* it with no timeout of its own.
Warm(k) ==
  /\ callback[k].at = "warm"
  /\ warmed' = warmed \/ warmed' = warmed \cup {callback[k].flow}
  /\ Ends(k, "success")
  /\ UNCHANGED <<registration, clients, pending, flow, spent, token, sent, saved>>

-----------------------------------------------------------------------------
\* revoke_token; without a row it answers 404.
Revoke(s, u) ==
  /\ token[s][u] # None
  /\ token' = [token EXCEPT ![s][u] = None]
  /\ UNCHANGED <<registration, clients, pending, flow, callback, spent, histories>>

\* What a callback does by itself, whatever the IdP answers.
Proceed(k) ==
  PopState(k) \/ ReadRegistration(k) \/ ExchangeFails(k) \/ SaveToken(k)

\* Nothing is left to do: the model, not the server, stops here.
Over ==
  /\ \A f \in Flows : flow[f].at = "ended"
  /\ \A k \in Callbacks : callback[k].at \in {"idle", "ended"}
  /\ UNCHANGED vars

Next ==
  \/ \E f \in Flows, s \in Servers, u \in Users : Authorize(f, s, u)
  \/ \E f \in Flows : AutoDiscover(f) \/ AuthorizeFails(f) \/ PutState(f) \/ ExpireState(f)
  \/ \E s \in Servers : TriggerDiscovery(s) \/ DeleteRegistration(s)
  \/ \E k \in Callbacks, f \in Flows : Redirect(k, f)
  \/ \E k \in Callbacks : Proceed(k) \/ ExchangeSucceeds(k) \/ SaveFails(k) \/ Warm(k)
  \/ \E s \in Servers, u \in Users : Revoke(s, u)
  \/ Over

Spec == Init /\ [][Next]_vars

\* The stores answer or raise, the HTTP client gives up on a silent IdP after its
\* timeout, and the event loop runs what is ready. Nothing is assumed of users, of
\* what the IdP answers, or of the warmer, which dials the MCP server: Warm may
\* never be taken.
FairSpec == Spec /\ \A k \in Callbacks : WF_vars(Proceed(k))

-----------------------------------------------------------------------------
(* Properties *)

TypeOK ==
  /\ registration \in [Servers -> {0} \cup Client]
  /\ clients \in 0..MaxClients
  /\ pending \subseteq Flows
  /\ flow \in [Flows -> Flow]
  /\ callback \in [Callbacks -> Callback]
  /\ spent \subseteq Flows /\ saved \subseteq Flows /\ warmed \subseteq Flows
  /\ token \in [Servers -> [Users -> Flows \cup {None}]]
  /\ \A f \in Flows : flow[f].at = "put" => flow[f].client # 0
  /\ \A k \in Callbacks : callback[k].at \in {"exchange", "save", "warm"} => callback[k].client # 0

\* However often the browser repeats the redirect, and however the callbacks
\* overlap, one state leads to one token exchange at most (callback.py 61).
StateOpensOneExchange == \A f \in Flows : sent[f] <= 1

\* A stored token was obtained by the flow of the user and of the server it is
\* stored for, although the callback itself carries no identity (callback.py 95).
TokensGoToTheirAuthorizer ==
  \A s \in Servers, u \in Users : token[s][u] # None =>
    LET f == token[s][u] IN
    /\ flow[f].server = s
    /\ flow[f].user = u
    /\ f \in spent
    /\ f \notin pending

\* The success page, and the warm-up before it, come after the token has been
\* stored, unless no token store is configured (callback.py 106, 121, 136).
NoSuccessWithoutToken ==
  TokenStore =>
    /\ \A k \in Callbacks : callback[k].reply = "success" => callback[k].flow \in saved
    /\ warmed \subseteq saved

\* The callback waits for the warm-up only, and its token is stored.
Settled(k) == callback[k].at = "warm" /\ (TokenStore => callback[k].flow \in saved)

\* An IdP that never answers holds no callback back: each is answered, or gets as
\* far as the warm-up with its token stored (_helpers.py 139, callback.py 106-128).
CallbackSettles ==
  \A k \in Callbacks : (callback[k].at # "idle") ~> (callback[k].at = "ended" \/ Settled(k))

=============================================================================
