--------------------------- MODULE McpAuthProofs ---------------------------
(***************************************************************************)
(* McpAuth for any flows, callbacks, servers and users: a state opens one  *)
(* exchange, a token goes to whoever asked for it, and no callback reports *)
(* success before the token is stored.                                     *)
(*                                                                         *)
(* The invariant follows a state from the store to the callback that took  *)
(* it out: while it is pending no callback is past its pop and no exchange *)
(* was sent, and at most one callback is between the two.                  *)
(***************************************************************************)
EXTENDS McpAuth, TLAPS

Taken == {"read", "exchange"}
Granted == {"save", "warm"}

\* What is known of an authorize request at each of its points.
FlowInv ==
  \A f \in Flows :
    /\ flow[f].at \in {"discover", "put"} \/ flow[f].reply = "url" =>
         flow[f].server \in Servers /\ flow[f].user \in Users
    /\ flow[f].reply = "url" => flow[f].at = "ended"
    /\ f \in pending => flow[f].reply = "url" /\ sent[f] = 0
    /\ f \in spent => flow[f].reply = "url" /\ f \notin pending
    /\ sent[f] # 0 => flow[f].reply = "url"

SentInv == sent \in [Flows -> Nat] /\ StateOpensOneExchange

\* What is known of a callback at each of its points.
CallbackInv ==
  \A k \in Callbacks :
    /\ callback[k].at # "idle" =>
         callback[k].flow \in Flows /\ flow[callback[k].flow].reply = "url"
    /\ callback[k].at = "idle" => callback[k].reply = "none"
    /\ callback[k].at \in Taken => sent[callback[k].flow] = 0 /\ callback[k].flow \notin pending
    /\ callback[k].at \in Granted => callback[k].flow \in spent
    /\ TokenStore /\ (callback[k].at = "warm" \/ callback[k].reply = "success") =>
         callback[k].flow \in saved

\* No two callbacks hold the same state.
Apart ==
  \A k, j \in Callbacks :
    (k # j /\ callback[k].at \in Taken /\ callback[j].at \in Taken)
      => callback[k].flow # callback[j].flow

\* Where tokens come from; only what was saved is warmed.
TokenInv ==
  /\ TokensGoToTheirAuthorizer
  /\ TokenStore => warmed \subseteq saved

IInv == TypeOK /\ FlowInv /\ SentInv /\ CallbackInv /\ Apart /\ TokenInv

-----------------------------------------------------------------------------
(* Steps of an authorize request *)

\* ensure_registration ends with a client and a row that have their types.
LEMMA EnsuredType ==
  ASSUME TypeOK, NEW s \in Servers, NEW client \in Client, EnsureRegistration(s, client)
  PROVE  registration' \in [Servers -> {0} \cup Client] /\ clients' \in 0..MaxClients
BY ConstantsAssumption DEF EnsureRegistration, TypeOK, Client

\* The authorize request of f goes on as q.
FlowBecomes(f, q) == flow' = [flow EXCEPT ![f] = q]

\* A request that has not sent its URL goes on as q; the state is put when it does.
LEMMA FlowSteps ==
  ASSUME IInv, NEW f \in Flows, NEW q \in Flow, FlowBecomes(f, q),
         flow[f].reply # "url",
         q.at = "put" => q.client # 0,
         q.at \in {"discover", "put"} \/ q.reply = "url" => q.server \in Servers /\ q.user \in Users,
         q.reply = "url" => q.at = "ended",
         registration' \in [Servers -> {0} \cup Client], clients' \in 0..MaxClients,
         pending' = IF q.reply = "url" THEN pending \cup {f} ELSE pending,
         callback' = callback, spent' = spent, token' = token, UNCHANGED histories
  PROVE  IInv'
<1>1. /\ flow' \in [Flows -> Flow] /\ flow'[f] = q
      /\ \A g \in Flows : g # f => flow'[g] = flow[g]
      /\ sent' = sent /\ saved' = saved /\ warmed' = warmed
  BY DEF IInv, TypeOK, FlowBecomes, histories
<1>2. TypeOK'
  BY <1>1 DEF IInv, TypeOK
<1>3. f \notin spent /\ f \notin pending /\ sent[f] = 0
  BY DEF IInv, FlowInv
<1>4. FlowInv' /\ SentInv'
  BY <1>1, <1>3 DEF IInv, FlowInv, SentInv, StateOpensOneExchange
<1>5. \A k \in Callbacks : callback[k].at # "idle" => callback[k].flow # f
  BY DEF IInv, CallbackInv
<1>6. CallbackInv' /\ Apart'
  BY <1>1, <1>5 DEF IInv, CallbackInv, Apart, Taken, Granted
<1>7. TokenInv'
  <2>1. \A s \in Servers, u \in Users : token[s][u] # None => token[s][u] # f
    BY <1>3 DEF IInv, TokenInv, TokensGoToTheirAuthorizer
  <2>2. \A s \in Servers, u \in Users : token[s][u] # None => token[s][u] \in Flows
    BY DEF IInv, TypeOK
  <2> QED BY <1>1, <2>1, <2>2 DEF IInv, TokenInv, TokensGoToTheirAuthorizer
<1> QED BY <1>2, <1>4, <1>6, <1>7 DEF IInv

\* An authorize request finds its server and begins (mcp_auth.py).
LEMMA StepAuthorize ==
  ASSUME IInv, NEW f \in Flows, NEW s \in Servers, NEW u \in Users, Authorize(f, s, u)
  PROVE  IInv'
<1> DEFINE q == [flow[f] EXCEPT !.at = IF registration[s] = 0 THEN "discover" ELSE "put",
                                !.server = s, !.user = u, !.client = registration[s]]
<1>1. FlowBecomes(f, q)
  BY DEF Authorize, FlowBecomes, IInv, TypeOK
<1>2. flow[f] \in Flow /\ flow[f].reply # "url" /\ registration[s] \in {0} \cup Client
  BY DEF Authorize, IInv, TypeOK, FlowInv
<1>3. /\ q \in Flow /\ (q.at = "put" => q.client # 0) /\ q.reply # "url"
      /\ q.server = s /\ q.user = u
  BY <1>2 DEF Flow
<1> HIDE DEF q
<1> QED BY <1>1, <1>2, <1>3, FlowSteps DEF Authorize, IInv, TypeOK

\* Discovery and dynamic registration, with a client at the end or without.
LEMMA StepAutoDiscover ==
  ASSUME IInv, NEW f \in Flows, AutoDiscover(f)
  PROVE  IInv'
<1>1. PICK client \in Client :
        /\ EnsureRegistration(flow[f].server, client)
        /\ FlowBecomes(f, [flow[f] EXCEPT !.at = "put", !.client = client])
  <2>1. flow \in [Flows -> Flow]
    BY DEF IInv, TypeOK
  <2> QED BY <2>1 DEF AutoDiscover, FlowBecomes
<1> DEFINE q == [flow[f] EXCEPT !.at = "put", !.client = client]
<1>2. /\ flow[f] \in Flow /\ flow[f].reply # "url"
      /\ flow[f].server \in Servers /\ flow[f].user \in Users
  BY DEF AutoDiscover, IInv, TypeOK, FlowInv
<1>3. /\ q \in Flow /\ q.client # 0 /\ q.reply # "url" /\ q.at = "put"
      /\ q.server \in Servers /\ q.user \in Users
  <2>1. client # 0
    BY ConstantsAssumption DEF Client
  <2> QED BY <1>2, <2>1 DEF Flow
<1> HIDE DEF q
<1>4. registration' \in [Servers -> {0} \cup Client] /\ clients' \in 0..MaxClients
  BY <1>1, <1>2, EnsuredType DEF IInv
<1>5. FlowBecomes(f, q)
  BY <1>1 DEF q
<1> QED BY <1>2, <1>3, <1>4, <1>5, FlowSteps DEF AutoDiscover

\* An authorize request sends its URL, with a fresh state, or fails.
LEMMA StepFlowEnds ==
  ASSUME IInv, NEW f \in Flows, AuthorizeFails(f) \/ PutState(f)
  PROVE  IInv'
<1>1. PICK reply \in {"failed", "url"} :
        /\ FlowBecomes(f, [flow[f] EXCEPT !.at = "ended", !.reply = reply])
        /\ reply = "url" => flow[f].at = "put" /\ pending' = pending \cup {f}
        /\ reply # "url" => pending' = pending
  <2>1. flow \in [Flows -> Flow]
    BY DEF IInv, TypeOK
  <2> QED BY <2>1 DEF AuthorizeFails, PutState, FlowBecomes
<1> DEFINE q == [flow[f] EXCEPT !.at = "ended", !.reply = reply]
<1>2. /\ flow[f] \in Flow /\ flow[f].reply # "url"
      /\ flow[f].server \in Servers /\ flow[f].user \in Users
  BY DEF AuthorizeFails, PutState, IInv, TypeOK, FlowInv
<1>3. /\ q \in Flow /\ q.reply = reply /\ q.at = "ended"
      /\ q.server \in Servers /\ q.user \in Users
  BY <1>2 DEF Flow
<1>4. FlowBecomes(f, q)
  BY <1>1
<1> HIDE DEF q
<1>5. /\ registration' = registration /\ clients' = clients
      /\ callback' = callback /\ spent' = spent /\ token' = token /\ UNCHANGED histories
  BY DEF AuthorizeFails, PutState
<1> QED BY <1>1, <1>2, <1>3, <1>4, <1>5, FlowSteps DEF IInv, TypeOK

-----------------------------------------------------------------------------
(* Steps of a callback *)

\* The callback k goes on as q.
CallbackBecomes(k, q) == callback' = [callback EXCEPT ![k] = q]

\* Goes and Ends as whole records.
Moved(k, at) == [callback[k] EXCEPT !.at = at]
Answered(k, reply) == [callback[k] EXCEPT !.at = "ended", !.reply = reply]

\* Where a callback may stand after a step of its own.
LEMMA Moves ==
  ASSUME TypeOK, NEW k \in Callbacks
  PROVE  /\ \A at \in {"read", "save", "warm"} :
              /\ Goes(k, at) => CallbackBecomes(k, Moved(k, at))
              /\ Moved(k, at) \in Callback
              /\ Moved(k, at).at = at /\ Moved(k, at).reply = callback[k].reply
              /\ Moved(k, at).flow = callback[k].flow
              /\ Moved(k, at).client = callback[k].client
         /\ \A reply \in {"success", "invalid", "failed"} :
              /\ Ends(k, reply) => CallbackBecomes(k, Answered(k, reply))
              /\ Answered(k, reply) \in Callback
              /\ Answered(k, reply).at = "ended" /\ Answered(k, reply).reply = reply
              /\ Answered(k, reply).flow = callback[k].flow
<1>1. callback[k] \in Callback /\ callback \in [Callbacks -> Callback]
  BY DEF TypeOK
<1>2. ASSUME NEW at \in {"read", "save", "warm"}
      PROVE  /\ Goes(k, at) => CallbackBecomes(k, Moved(k, at))
             /\ Moved(k, at) \in Callback
             /\ Moved(k, at).at = at /\ Moved(k, at).reply = callback[k].reply
             /\ Moved(k, at).flow = callback[k].flow
             /\ Moved(k, at).client = callback[k].client
  BY <1>1 DEF Goes, CallbackBecomes, Moved, Callback
<1>3. ASSUME NEW reply \in {"success", "invalid", "failed"}
      PROVE  /\ Ends(k, reply) => CallbackBecomes(k, Answered(k, reply))
             /\ Answered(k, reply) \in Callback
             /\ Answered(k, reply).at = "ended" /\ Answered(k, reply).reply = reply
             /\ Answered(k, reply).flow = callback[k].flow
  BY <1>1 DEF Ends, CallbackBecomes, Answered, Callback
<1> QED BY <1>2, <1>3

\* A callback goes on as q; authorize requests and registrations stay.
LEMMA CallbackSteps ==
  ASSUME IInv, NEW k \in Callbacks, NEW q \in Callback, CallbackBecomes(k, q),
         q.at # "idle", q.flow \in Flows, flow[q.flow].reply = "url",
         q.at \in {"exchange", "save", "warm"} => q.client # 0,
         \* a state is taken out of the store once, and held until it is sent
         q.at \in Taken =>
           /\ sent'[q.flow] = 0 /\ q.flow \notin pending'
           /\ \/ q.flow \in pending
              \/ callback[k].at \in Taken /\ q.flow = callback[k].flow,
         q.at \in Granted => q.flow \in spent',
         TokenStore /\ (q.at = "warm" \/ q.reply = "success") => q.flow \in saved',
         pending' \subseteq pending,
         spent \subseteq spent', spent' \subseteq spent \cup {q.flow},
         q.flow \in spent' \ spent => q.flow \notin pending,
         \/ sent' = sent
         \/ /\ sent' = [sent EXCEPT ![q.flow] = @ + 1] /\ q.at \notin Taken
            /\ callback[k].at \in Taken /\ callback[k].flow = q.flow,
         saved \subseteq saved', saved' \subseteq Flows,
         warmed' \subseteq Flows, TokenStore => warmed' \subseteq saved',
         token' \in [Servers -> [Users -> Flows \cup {None}]],
         \A s \in Servers, u \in Users :
           \/ token'[s][u] = token[s][u]
           \/ /\ token'[s][u] = q.flow /\ q.flow \in spent'
              /\ flow[q.flow].server = s /\ flow[q.flow].user = u,
         flow' = flow, registration' = registration, clients' = clients
  PROVE  IInv'
<1>1. /\ callback' \in [Callbacks -> Callback] /\ callback'[k] = q
      /\ \A j \in Callbacks : j # k => callback'[j] = callback[j]
  BY DEF IInv, TypeOK, CallbackBecomes
<1>2. TypeOK'
  <2>1. spent' \subseteq Flows /\ pending' \subseteq Flows
    BY DEF IInv, TypeOK
  <2> QED BY <1>1, <2>1 DEF IInv, TypeOK
<1>3. SentInv'
  <2>1. callback[k].at \in Taken => sent[callback[k].flow] = 0
    BY DEF IInv, CallbackInv
  <2> QED BY <2>1 DEF IInv, SentInv, StateOpensOneExchange
<1>4. /\ \A f \in Flows : f # q.flow => sent'[f] = sent[f]
      /\ sent'[q.flow] = sent[q.flow] \/ q.flow \notin pending
  <2>1. callback[k].at \in Taken => callback[k].flow \notin pending
    BY DEF IInv, CallbackInv
  <2> QED BY <2>1 DEF IInv, SentInv
<1>5. FlowInv'
  BY <1>4 DEF IInv, FlowInv
<1>6. CallbackInv'
  <2>1. ASSUME NEW j \in Callbacks, j # k, callback[j].at \in Taken
        PROVE  sent'[callback[j].flow] = sent[callback[j].flow]
    BY <2>1 DEF IInv, Apart, SentInv, CallbackInv, Taken
  <2>2. ASSUME NEW j \in Callbacks, j # k
        PROVE  /\ callback'[j].at # "idle" =>
                    callback'[j].flow \in Flows /\ flow'[callback'[j].flow].reply = "url"
               /\ callback'[j].at = "idle" => callback'[j].reply = "none"
               /\ callback'[j].at \in Taken =>
                    sent'[callback'[j].flow] = 0 /\ callback'[j].flow \notin pending'
               /\ callback'[j].at \in Granted => callback'[j].flow \in spent'
               /\ TokenStore /\ (callback'[j].at = "warm" \/ callback'[j].reply = "success") =>
                    callback'[j].flow \in saved'
    BY <1>1, <2>1, <2>2 DEF IInv, CallbackInv
  <2> QED BY <1>1, <2>2 DEF CallbackInv
<1>7. Apart'
  <2>1. ASSUME NEW j \in Callbacks, j # k, callback[j].at \in Taken, q.at \in Taken
        PROVE  callback[j].flow # q.flow
    BY <2>1 DEF IInv, Apart, CallbackInv
  <2> QED BY <1>1, <2>1 DEF IInv, Apart
<1>8. TokenInv'
  <2>1. ASSUME NEW s \in Servers, NEW u \in Users, token'[s][u] # None
        PROVE  /\ flow[token'[s][u]].server = s /\ flow[token'[s][u]].user = u
               /\ token'[s][u] \in spent' /\ token'[s][u] \notin pending'
    <3>1. CASE token'[s][u] = token[s][u]
      BY <2>1, <3>1 DEF IInv, TokenInv, TokensGoToTheirAuthorizer
    <3>2. CASE token'[s][u] = q.flow /\ q.flow \in spent' /\ flow[q.flow].server = s
               /\ flow[q.flow].user = u
      BY <1>5, <3>2 DEF FlowInv
    <3> QED BY <3>1, <3>2
  <2> QED BY <2>1 DEF TokenInv, TokensGoToTheirAuthorizer
<1> QED BY <1>2, <1>3, <1>5, <1>6, <1>7, <1>8 DEF IInv

\* The redirect arrives, perhaps a second time, with the state it was given.
LEMMA StepRedirect ==
  ASSUME IInv, NEW k \in Callbacks, NEW f \in Flows, Redirect(k, f)
  PROVE  IInv'
<1>0. callback[k] \in Callback /\ callback \in [Callbacks -> Callback]
  BY DEF IInv, TypeOK
<1>1. CASE callback' = [callback EXCEPT ![k].at = "pop", ![k].flow = f]
  <2> DEFINE q == [callback[k] EXCEPT !.at = "pop", !.flow = f]
  <2>1. CallbackBecomes(k, q)
    BY <1>0, <1>1 DEF CallbackBecomes
  <2>2. q \in Callback /\ q.at = "pop" /\ q.flow = f /\ q.reply = callback[k].reply
    BY <1>0 DEF Callback
  <2>3. callback[k].reply = "none" /\ flow[f].reply = "url"
    BY DEF Redirect, IInv, CallbackInv
  <2> HIDE DEF q
  <2> QED BY <2>1, <2>2, <2>3, CallbackSteps DEF Redirect, histories, IInv, TypeOK, TokenInv,
             Taken, Granted
<1>2. CASE callback' = [callback EXCEPT ![k].at = "ended", ![k].flow = f, ![k].reply = "error"]
  <2> DEFINE q == [callback[k] EXCEPT !.at = "ended", !.flow = f, !.reply = "error"]
  <2>1. CallbackBecomes(k, q)
    BY <1>0, <1>2 DEF CallbackBecomes
  <2>2. q \in Callback /\ q.at = "ended" /\ q.flow = f /\ q.reply = "error"
    BY <1>0 DEF Callback
  <2>3. flow[f].reply = "url"
    BY DEF Redirect
  <2> HIDE DEF q
  <2> QED BY <2>1, <2>2, <2>3, CallbackSteps DEF Redirect, histories, IInv, TypeOK, TokenInv,
             Taken, Granted
<1> QED BY <1>1, <1>2 DEF Redirect

\* What holds of a callback that was redirected.
LEMMA Redirected ==
  ASSUME IInv, NEW k \in Callbacks, callback[k].at # "idle"
  PROVE  /\ callback[k] \in Callback
         /\ callback[k].flow \in Flows /\ flow[callback[k].flow].reply = "url"
         /\ callback[k].flow \in spent => callback[k].flow \notin pending
BY DEF IInv, TypeOK, CallbackInv, FlowInv

\* A callback that only answers.
LEMMA StepAnswers ==
  ASSUME IInv, NEW k \in Callbacks, NEW reply \in {"success", "invalid", "failed"},
         callback[k].at # "idle", Ends(k, reply),
         reply = "success" => callback[k].at = "warm",
         warmed' \subseteq warmed \cup {callback[k].flow}, warmed' # warmed => reply = "success",
         UNCHANGED <<registration, clients, pending, flow, spent, token, sent, saved>>
  PROVE  IInv'
<1> DEFINE q == Answered(k, reply)
<1>1. /\ CallbackBecomes(k, q) /\ q \in Callback /\ q.at = "ended" /\ q.reply = reply
      /\ q.flow = callback[k].flow
  BY Moves DEF IInv
<1> HIDE DEF q
<1>2. TokenStore /\ q.reply = "success" => q.flow \in saved
  BY <1>1 DEF IInv, CallbackInv
<1>3. warmed' \subseteq Flows /\ (TokenStore => warmed' \subseteq saved)
  BY <1>1, <1>2, Redirected DEF IInv, TypeOK, TokenInv
<1> QED BY <1>1, <1>2, <1>3, Redirected, CallbackSteps DEF IInv, TypeOK, Taken, Granted

\* The state is popped: the one callback that finds it goes on.
LEMMA StepPopState ==
  ASSUME IInv, NEW k \in Callbacks, PopState(k)
  PROVE  IInv'
<1>1. CASE callback[k].flow \notin pending
  BY <1>1, StepAnswers DEF PopState, histories
<1>2. CASE callback[k].flow \in pending
  <2> DEFINE q == Moved(k, "read")
  <2>1. /\ CallbackBecomes(k, q) /\ q \in Callback /\ q.at = "read"
        /\ q.reply = callback[k].reply /\ q.flow = callback[k].flow
    BY <1>2, Moves DEF IInv, PopState
  <2> HIDE DEF q
  <2>2. sent[q.flow] = 0
    BY <1>2, <2>1 DEF IInv, FlowInv, TypeOK
  <2>3. pending' = pending \ {q.flow} /\ callback[k].at = "pop"
    BY <1>2, <2>1 DEF PopState, Popped
  <2>4. TokenStore /\ q.reply = "success" => q.flow \in saved
    BY <2>1 DEF IInv, CallbackInv
  <2> QED BY <1>2, <2>1, <2>2, <2>3, <2>4, Redirected, CallbackSteps
          DEF PopState, histories, IInv, TypeOK, TokenInv, Taken, Granted
<1> QED BY <1>1, <1>2

\* The registration is read anew before the code is exchanged.
LEMMA StepReadRegistration ==
  ASSUME IInv, NEW k \in Callbacks, ReadRegistration(k)
  PROVE  IInv'
<1> DEFINE f == callback[k].flow
<1> DEFINE client == registration[flow[f].server]
<1>0. /\ callback[k].at = "read" /\ callback \in [Callbacks -> Callback]
      /\ callback[k] \in Callback
  BY DEF ReadRegistration, IInv, TypeOK
<1>1. CASE client = 0
  <2>1. Ends(k, "failed")
    BY <1>0, <1>1 DEF ReadRegistration, Ends
  <2> QED BY <1>0, <2>1, StepAnswers DEF ReadRegistration, histories
<1>2. CASE client # 0
  <2> DEFINE q == [callback[k] EXCEPT !.at = "exchange", !.client = client]
  <2>1. CallbackBecomes(k, q)
    BY <1>0, <1>2 DEF ReadRegistration, CallbackBecomes
  <2>2. f \in Flows /\ flow[f].reply = "url"
    BY <1>0, Redirected
  <2>3. client \in {0} \cup Client
    <3>1. flow[f].server \in Servers
      BY <2>2 DEF IInv, FlowInv
    <3> QED BY <3>1 DEF IInv, TypeOK
  <2> HIDE DEF client
  <2>4. /\ q \in Callback /\ q.at = "exchange" /\ q.flow = f /\ q.client # 0
        /\ q.reply = callback[k].reply
    BY <1>0, <1>2, <2>3 DEF Callback
  <2> HIDE DEF q
  <2>5. /\ sent[f] = 0 /\ f \notin pending
        /\ TokenStore /\ q.reply = "success" => q.flow \in saved
    BY <1>0, <2>4 DEF IInv, CallbackInv, Taken
  <2> QED BY <1>0, <2>1, <2>2, <2>4, <2>5, CallbackSteps
          DEF ReadRegistration, histories, IInv, TypeOK, TokenInv, Taken, Granted
<1> QED BY <1>1, <1>2

\* The code is exchanged, or the exchange fails.
LEMMA StepExchange ==
  ASSUME IInv, NEW k \in Callbacks, ExchangeSucceeds(k) \/ ExchangeFails(k)
  PROVE  IInv'
<1> DEFINE f == callback[k].flow
<1>1. /\ callback[k].at = "exchange" /\ sent' = [sent EXCEPT ![f] = @ + 1]
      /\ UNCHANGED <<registration, clients, pending, flow, token, saved, warmed>>
      /\ spent' = spent \cup {f} \/ (spent' = spent /\ Ends(k, "failed"))
      /\ Goes(k, "save") \/ Ends(k, "failed")
  BY DEF ExchangeSucceeds, ExchangeFails
<1>2. /\ f \in Flows /\ flow[f].reply = "url" /\ f \notin pending /\ callback[k].client # 0
      /\ TokenStore /\ callback[k].reply = "success" => f \in saved
  BY <1>1, Redirected DEF IInv, CallbackInv, TypeOK, Taken
<1> HIDE DEF f
<1>3. ASSUME NEW q \in Callback, CallbackBecomes(k, q), q.flow = f, q.at \in {"save", "ended"},
             q.at = "save" => q.client # 0 /\ f \in spent',
             q.reply = "success" => callback[k].reply = "success",
             spent' \in {spent, spent \cup {f}}
      PROVE  IInv'
  BY <1>1, <1>2, <1>3, CallbackSteps DEF f, IInv, TypeOK, TokenInv, Taken, Granted
<1>4. CASE Goes(k, "save") /\ spent' = spent \cup {f}
  <2> DEFINE q == Moved(k, "save")
  <2>1. /\ CallbackBecomes(k, q) /\ q \in Callback /\ q.at = "save"
        /\ q.reply = callback[k].reply /\ q.flow = f /\ q.client = callback[k].client
    BY <1>4, Moves DEF IInv, f
  <2> HIDE DEF q
  <2> QED BY <1>2, <1>3, <1>4, <2>1
<1>5. CASE Ends(k, "failed")
  <2> DEFINE q == Answered(k, "failed")
  <2>1. /\ CallbackBecomes(k, q) /\ q \in Callback /\ q.at = "ended" /\ q.reply = "failed"
        /\ q.flow = f
    BY <1>5, Moves DEF IInv, f
  <2> HIDE DEF q
  <2> QED BY <1>1, <1>3, <2>1
<1> QED BY <1>1, <1>4, <1>5

\* The token is stored for the user and the server of the state.
LEMMA StepSaveToken ==
  ASSUME IInv, NEW k \in Callbacks, SaveToken(k)
  PROVE  IInv'
<1> DEFINE f == callback[k].flow
<1> DEFINE q == Moved(k, "warm")
<1>1. /\ CallbackBecomes(k, q) /\ q \in Callback /\ q.at = "warm"
      /\ q.reply = callback[k].reply /\ q.flow = f /\ q.client = callback[k].client
  BY Moves DEF IInv, SaveToken
<1>2. /\ f \in Flows /\ flow[f].reply = "url" /\ f \in spent
      /\ flow[f].server \in Servers /\ flow[f].user \in Users /\ callback[k].client # 0
  BY Redirected DEF SaveToken, IInv, CallbackInv, TypeOK, FlowInv, Granted
<1> HIDE DEF q, f
<1>3. /\ token' \in [Servers -> [Users -> Flows \cup {None}]]
      /\ \A s \in Servers, u \in Users :
           \/ token'[s][u] = token[s][u]
           \/ token'[s][u] = f /\ flow[f].server = s /\ flow[f].user = u
  <2>1. token \in [Servers -> [Users -> Flows \cup {None}]]
    BY DEF IInv, TypeOK
  <2>2. StoredFor(f) \in [Users -> Flows \cup {None}]
    BY <1>2, <2>1 DEF StoredFor
  <2>3. token' = token \/ token' = [token EXCEPT ![flow[f].server] = StoredFor(f)]
    BY DEF SaveToken, f
  <2>4. \A u \in Users : \/ StoredFor(f)[u] = token[flow[f].server][u]
                         \/ StoredFor(f)[u] = f /\ flow[f].user = u
    BY <1>2, <2>1 DEF StoredFor
  <2> QED BY <1>2, <2>1, <2>2, <2>3, <2>4
<1>4. /\ saved \subseteq saved' /\ saved' \subseteq Flows
      /\ TokenStore => f \in saved'
      /\ TokenStore \/ saved' = saved
  BY <1>2 DEF SaveToken, f, IInv, TypeOK
<1>5. warmed' = warmed /\ (TokenStore => warmed' \subseteq saved') /\ warmed' \subseteq Flows
  BY <1>4 DEF SaveToken, IInv, TokenInv, TypeOK
<1>6. UNCHANGED <<registration, clients, pending, flow, spent, sent>>
  BY DEF SaveToken
<1>7. q.reply = "success" /\ TokenStore => q.flow \in saved'
  BY <1>1, <1>4
<1> QED BY <1>1, <1>2, <1>3, <1>4, <1>5, <1>6, <1>7, CallbackSteps DEF Taken, Granted

-----------------------------------------------------------------------------
(* The other steps *)

\* Only registrations change, states expire, or tokens are revoked.
LEMMA StepOthers ==
  ASSUME IInv,
         registration' \in [Servers -> {0} \cup Client], clients' \in 0..MaxClients,
         pending' \subseteq pending,
         token' \in [Servers -> [Users -> Flows \cup {None}]],
         \A s \in Servers, u \in Users : token'[s][u] # None => token'[s][u] = token[s][u],
         UNCHANGED <<flow, callback, spent>>, UNCHANGED histories
  PROVE  IInv'
<1>1. sent' = sent /\ saved' = saved /\ warmed' = warmed
  BY DEF histories
<1>2. TypeOK' /\ FlowInv' /\ SentInv'
  BY <1>1 DEF IInv, TypeOK, FlowInv, SentInv, StateOpensOneExchange
<1>3. CallbackInv' /\ Apart'
  BY <1>1 DEF IInv, CallbackInv, Apart
<1>4. TokenInv'
  BY <1>1 DEF IInv, TokenInv, TokensGoToTheirAuthorizer
<1> QED BY <1>2, <1>3, <1>4 DEF IInv

\* The invariant holds before any request.
LEMMA InitInv == Init => IInv
<1> SUFFICES ASSUME Init PROVE IInv
  OBVIOUS
<1>1. TypeOK
  BY ConstantsAssumption DEF Init, TypeOK, Flow, Callback, Client
<1>2. FlowInv /\ SentInv /\ CallbackInv /\ Apart
  BY DEF Init, FlowInv, SentInv, StateOpensOneExchange, CallbackInv, Apart, Taken, Granted
<1>3. TokenInv
  BY DEF Init, TokenInv, TokensGoToTheirAuthorizer
<1> QED BY <1>1, <1>2, <1>3 DEF IInv

\* Every step keeps the invariant: one lemma for each action.
LEMMA StepInv == IInv /\ [Next]_vars => IInv'
<1> SUFFICES ASSUME IInv, [Next]_vars PROVE IInv'
  OBVIOUS
<1> USE DEF IInv
<1>1. ASSUME NEW f \in Flows, ExpireState(f) PROVE IInv'
  <2>1. pending' \subseteq pending
    BY <1>1 DEF ExpireState
  <2> QED BY <1>1, <2>1, StepOthers DEF ExpireState, TypeOK
<1>2. ASSUME NEW s \in Servers, TriggerDiscovery(s) PROVE IInv'
  <2>1. registration' \in [Servers -> {0} \cup Client] /\ clients' \in 0..MaxClients
    BY <1>2, EnsuredType DEF TriggerDiscovery
  <2> QED BY <1>2, <2>1, StepOthers DEF TriggerDiscovery, TypeOK
<1>3. ASSUME NEW s \in Servers, DeleteRegistration(s) PROVE IInv'
  <2>1. registration' \in [Servers -> {0} \cup Client] /\ clients' \in 0..MaxClients
    BY <1>3 DEF DeleteRegistration, TypeOK
  <2> QED BY <1>3, <2>1, StepOthers DEF DeleteRegistration, TypeOK
<1>4. ASSUME NEW s \in Servers, NEW u \in Users, Revoke(s, u) PROVE IInv'
  <2>1. /\ token' \in [Servers -> [Users -> Flows \cup {None}]]
        /\ \A x \in Servers, y \in Users : token'[x][y] # None => token'[x][y] = token[x][y]
    BY <1>4 DEF Revoke, TypeOK
  <2> QED BY <1>4, <2>1, StepOthers DEF Revoke, TypeOK
<1>5. ASSUME NEW k \in Callbacks, Proceed(k) \/ SaveFails(k) \/ Warm(k) PROVE IInv'
  <2>1. CASE Warm(k)
    BY <2>1, StepAnswers DEF Warm
  <2>2. CASE SaveFails(k)
    BY <2>2, StepAnswers DEF SaveFails, histories
  <2> QED BY <1>5, <2>1, <2>2, StepPopState, StepReadRegistration, StepExchange, StepSaveToken
          DEF Proceed
<1>6. CASE UNCHANGED vars
  BY <1>6, StepOthers DEF vars, histories, TypeOK
<1> QED BY <1>1, <1>2, <1>3, <1>4, <1>5, <1>6, StepAuthorize, StepAutoDiscover, StepFlowEnds,
           StepRedirect, StepExchange DEF Next, Over

\* The invariant holds in every reachable state.
LEMMA Invariant == Spec => []IInv
BY InitInv, StepInv, PTL DEF Spec

\* Types are right in every reachable state.
THEOREM TypeCorrect == Spec => []TypeOK
<1>1. IInv => TypeOK
  BY DEF IInv
<1> QED BY <1>1, Invariant, PTL

\* No state leads to a second exchange, however the redirect is repeated.
THEOREM StatesAreSpentOnce == Spec => []StateOpensOneExchange
<1>1. IInv => StateOpensOneExchange
  BY DEF IInv, SentInv
<1> QED BY <1>1, Invariant, PTL

\* Every stored token belongs to the user and the server that asked for it.
THEOREM TokensFindTheirUser == Spec => []TokensGoToTheirAuthorizer
<1>1. IInv => TokensGoToTheirAuthorizer
  BY DEF IInv, TokenInv
<1> QED BY <1>1, Invariant, PTL

\* No success page and no warm-up before the token is stored.
THEOREM SuccessIsStored == Spec => []NoSuccessWithoutToken
<1>1. IInv => NoSuccessWithoutToken
  BY DEF IInv, CallbackInv, TokenInv, NoSuccessWithoutToken
<1> QED BY <1>1, Invariant, PTL

=============================================================================
