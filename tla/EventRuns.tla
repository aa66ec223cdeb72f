----------------------------- MODULE EventRuns -----------------------------
(***************************************************************************)
(* The event surface: signals come in by webhook, a processor turns them   *)
(* into runs, operators replay signals and cancel or retry runs, and a     *)
(* chat's owner watches the runs bound to the chat.                        *)
(*   ingest  POST /signals                  events/producers/http.py       *)
(*   look    GET /signals/{id}              routers/signals.py             *)
(*   replay  POST /signals/{id}/replay      routers/signals.py             *)
(*   cancel  POST /runs/{id}/cancel         routers/runs.py                *)
(*   retry   POST /runs/{id}/retry          routers/runs.py                *)
(*   watch   GET /chats/{id}/events/stream  routers/chat_events.py         *)
(* Every handler may be overtaken between the read of its dependency and   *)
(* the write of its body.                                                  *)
(*                                                                         *)
(* External: the signal store with its UNIQUE (source, dedupe_key) index,  *)
(* the dispatcher, which stores a signal and queues it or does neither,    *)
(* the queue, the run store, the processor, and the in-process channel it  *)
(* publishes to. The processor may make of a queued signal no run, or      *)
(* several, at any time; the channel may lose what is published.           *)
(***************************************************************************)
EXTENDS Naturals, FiniteSets

CONSTANTS
  Signals,        \* signal ids
  Runs,           \* run ids
  Requests,       \* webhook deliveries and operator requests that may arrive
  Feeds,          \* chat event streams a client may open
  Tenants, Users,
  Keys,           \* dedupe keys of the one registered source
  Webhooks,       \* what a webhook may say
  Callers,        \* who may call the other endpoints
  ChatOwner,      \* the one chat: its tenant and user
  ListLimit,      \* how many rows a listing of the run store returns
  None            \* Python's None

Principals == [tenant : Tenants, user : Users, admin : BOOLEAN]

\* The Idempotency-Key header and the dedupe_key of the body; tenant, user_id, and
\* whether chat_binding names the chat. identity_claim: whether its mode is
\* act_as_user or addressed_to_user, and its user_id.
Webhook == [header : Keys \cup {None}, body : Keys \cup {None}, tenant : Tenants,
            user : Users \cup {None}, addressed : BOOLEAN, claimed : Users \cup {None},
            bound : BOOLEAN]

ASSUME ConstantsAssumption ==
  /\ ChatOwner \in [tenant : Tenants, user : Users]
  /\ Webhooks \subseteq Webhook /\ Callers \subseteq Principals
  /\ ListLimit \in Nat
  /\ IsFiniteSet(Runs) /\ IsFiniteSet(Requests)
  /\ None \notin Signals \cup Runs \cup Users \cup Keys \cup Principals

VARIABLES
  dispatcher, \* HTTPIngestionProducer._dispatcher is not None
  signal,     \* signal[s]: the stored row
  queue,      \* queue[s]: how many messages for s were put on the queue
  run,        \* run[r]: the stored row, and whose operator last cancelled it
  work,       \* runs whose graph is being run by the processor
  req,        \* req[q]: the handler coroutine
  feed        \* feed[v]: one chat stream, and the runs its client knows of

vars == <<dispatcher, signal, queue, run, work, req, feed>>

InFlight == {"pending", "running"}
Terminal == {"succeeded", "failed", "cancelled"}

\* The users below admin who may read a run, as spec.visibility and
\* spec.visibility_user_id say: nobody (admin), all of the tenant, or the actor.
Readers == {{}, Users} \cup {{u} : u \in Users}

Envelope == [key : Keys \cup {None}, tenant : Tenants, user : Users \cup {None},
             addressed : BOOLEAN, claimed : Users \cup {None}, bound : BOOLEAN]
Signal == [stored : BOOLEAN, env : Envelope \cup {None}]
Run == [status : InFlight \cup Terminal \cup {"absent"}, sig : Signals \cup {None},
        readers : Readers, by : Tenants \cup {None}]
Request == [kind : {"none", "ingest", "look", "replay", "cancel", "retry"},
            at : {"idle", "checked", "ended"},
            key : Keys \cup {None}, env : Envelope \cup {None}, who : Principals \cup {None},
            sig : Signals \cup {None}, run : Runs \cup {None},
            read : InFlight \cup Terminal \cup {None},
            reply : {"none", "ok", "deduplicated", "refused", "failed"}]

\* late: runs whose attached event was published between the discovery query
\* and the subscription. lost: runs left out of a listing that was full, or whose
\* event the channel lost. Both are histories.
Feed == [at : {"closed", "checked", "listed", "live"}, who : Principals \cup {None},
         known : SUBSET Runs, late : SUBSET Runs, lost : SUBSET Runs]

Idle == [kind |-> "none", at |-> "idle", key |-> None, env |-> None, who |-> None, sig |-> None,
         run |-> None, read |-> None, reply |-> "none"]
\* A request that ended and whose effect, if any, is not looked at again.
Closed(reply) == [Idle EXCEPT !.at = "ended", !.reply = reply]
ClosedFeed == [at |-> "closed", who |-> None, known |-> {}, late |-> {}, lost |-> {}]

Init ==
  /\ dispatcher = FALSE
  /\ signal = [s \in Signals |-> [stored |-> FALSE, env |-> None]]
  /\ queue = [s \in Signals |-> 0]
  /\ run = [r \in Runs |-> [status |-> "absent", sig |-> None,
                            readers |-> {}, by |-> None]]
  /\ work = {}
  /\ req = [q \in Requests |-> Idle]
  /\ feed = [v \in Feeds |-> ClosedFeed]

Becomes(q, new) == req' = [req EXCEPT ![q] = new]

Source(r) == signal[run[r].sig].env
Bound(r) == run[r].status # "absent" /\ Source(r).bound

-----------------------------------------------------------------------------
(* Visibility *)

\* run_is_visible: never across tenants, everything to an admin, else as the
\* run's own visibility says, which need not concern the user of the signal.
RunIsVisible(r, p) ==
  /\ run[r].status # "absent"
  /\ Source(r).tenant = p.tenant
  /\ p.admin \/ p.user \in run[r].readers

\* A plausible slip: admins are let through before the tenants are compared.
AdminsReplayAll(s, p) == signal[s].stored /\ p.admin

\* replay_signal: admins of the signal's own tenant.
MayReplay(s, p) ==
  /\ signal[s].stored
  /\ p.admin
  /\ signal[s].env.tenant = p.tenant

\* A plausible slip: user ids are compared across tenants.
SameUserOrAdmin(p) == ChatOwner.user = p.user \/ p.admin

\* require_chat_owner_or_admin
OwnerOrAdmin(p) ==
  /\ ChatOwner.tenant = p.tenant
  /\ ChatOwner.user = p.user \/ p.admin

-----------------------------------------------------------------------------
(* Webhook ingestion *)

\* start and stop of the producer, by the lifespan.
StartProducer == dispatcher' = TRUE  /\ UNCHANGED <<signal, queue, run, work, req, feed>>
StopProducer  == dispatcher' = FALSE /\ UNCHANGED <<signal, queue, run, work, req, feed>>

\* A plausible slip: the body's key goes before the header's.
BodyKeyFirst(w) ==
  [key |-> IF w.body # None THEN w.body ELSE w.header, tenant |-> w.tenant,
   user |-> w.user, addressed |-> w.addressed, claimed |-> w.claimed, bound |-> w.bound]

\* The header overrides the key of the body.
EnvelopeOf(w) ==
  [key |-> IF w.header # None THEN w.header ELSE w.body, tenant |-> w.tenant,
   user |-> w.user, addressed |-> w.addressed, claimed |-> w.claimed, bound |-> w.bound]

\* The checks up to the await of the body and of the validator, and the envelope that
\* is made after it. A rejected delivery (unknown source, bad signature, bad body)
\* changes nothing.
Deliver(q, w) ==
  /\ req[q].at = "idle"
  /\ \/ /\ dispatcher
        /\ Becomes(q, [Idle EXCEPT !.kind = "ingest", !.at = "checked", !.key = w.header,
                                   !.env = EnvelopeOf(w)])
     \/ Becomes(q, Closed("refused"))
  /\ UNCHANGED <<dispatcher, signal, queue, run, work, feed>>

\* The row that UNIQUE (source, dedupe_key) protects.
Duplicate(env, s) == signal[s].stored /\ env.key # None /\ signal[s].env.key = env.key

\* The delivery is answered with the id of its signal.
Answered(q, s, reply) ==
  Becomes(q, [Idle EXCEPT !.kind = "ingest", !.at = "ended", !.key = req[q].key, !.sig = s,
                          !.reply = reply])

\* A plausible slip: a delivery that is known already is queued again.
StoreRequeues(q) ==
  LET env == req[q].env IN
  \E s \in Signals :
    /\ \/ Duplicate(env, s) /\ Answered(q, s, "deduplicated") /\ UNCHANGED signal
       \/ /\ ~signal[s].stored /\ \A other \in Signals : ~Duplicate(env, other)
          /\ signal' = [signal EXCEPT ![s] = [stored |-> TRUE, env |-> env]]
          /\ Answered(q, s, "ok")
    /\ queue' = [queue EXCEPT ![s] = @ + 1]

\* dispatcher.ingest: the row and its queue message, unless the key is known.
Store(q) ==
  LET env == req[q].env IN
  \/ \E s \in Signals :
       /\ Duplicate(env, s)
       /\ Answered(q, s, "deduplicated")
       /\ UNCHANGED <<signal, queue>>
  \/ \E s \in Signals :
       /\ ~signal[s].stored
       /\ \A other \in Signals : ~Duplicate(env, other)
       /\ signal' = [signal EXCEPT ![s] = [stored |-> TRUE, env |-> env]]
       /\ queue' = [queue EXCEPT ![s] = @ + 1]
       /\ Answered(q, s, "ok")

\* self._dispatcher is read again after the awaits: None raises.
Ingest(q) ==
  /\ req[q].kind = "ingest" /\ req[q].at = "checked"
  /\ IF dispatcher THEN Store(q)
     ELSE /\ Becomes(q, Closed("failed"))
          /\ UNCHANGED <<signal, queue>>
  /\ UNCHANGED <<dispatcher, run, work, feed>>

-----------------------------------------------------------------------------
(* Operators *)

AskReplay(q, p, s) ==
  /\ req[q].at = "idle"
  /\ Becomes(q, IF MayReplay(s, p)
                THEN [Idle EXCEPT !.kind = "replay", !.at = "checked", !.who = p, !.sig = s]
                ELSE Closed("refused"))
  /\ UNCHANGED <<dispatcher, signal, queue, run, work, feed>>

\* require_visible_run: the run is read here and handed to the handler.
AskRun(q, kind, p, r) ==
  /\ req[q].at = "idle"
  /\ Becomes(q, IF RunIsVisible(r, p)
                THEN [Idle EXCEPT !.kind = kind, !.at = "checked", !.who = p, !.run = r,
                                  !.read = run[r].status]
                ELSE Closed("refused"))
  /\ UNCHANGED <<dispatcher, signal, queue, run, work, feed>>

\* require_visible_signal up to its look at the runs: an admin needs no more.
AskSignal(q, p, s) ==
  /\ req[q].at = "idle"
  /\ Becomes(q, IF ~signal[s].stored \/ signal[s].env.tenant # p.tenant
                THEN Closed("refused")
                ELSE IF p.admin THEN Closed("ok")
                ELSE [Idle EXCEPT !.kind = "look", !.at = "checked", !.who = p, !.sig = s])
  /\ UNCHANGED <<dispatcher, signal, queue, run, work, feed>>

Existing == {r \in Runs : run[r].status # "absent"}

\* job_store.list(limit): as many of the rows as the limit lets through.
Listings(rows) ==
  {listed \in SUBSET rows :
     Cardinality(listed) = IF Cardinality(rows) < ListLimit THEN Cardinality(rows)
                                                            ELSE ListLimit}

\* The claim names p: as the user of the signal or, if it has none, of the claim.
AddressedTo(s, p) ==
  LET env == signal[s].env IN
  env.addressed /\ p.user = IF env.user # None THEN env.user ELSE env.claimed

\* A plausible slip: the mode of the claim is not looked at.
SignalShownToItsUser(s, p, listed) ==
  \/ \E r \in listed : run[r].sig = s /\ RunIsVisible(r, p)
  \/ signal[s].env.user = p.user

\* One of the listed runs of s is visible, or the claim names p. The runs of all
\* tenants are listed.
SignalShown(s, p, listed) ==
  \/ \E r \in listed : run[r].sig = s /\ RunIsVisible(r, p)
  \/ AddressedTo(s, p)

LookAtRuns(q) ==
  /\ req[q].kind = "look" /\ req[q].at = "checked"
  /\ \E listed \in Listings(Existing) :
       Becomes(q, Closed(IF SignalShown(req[q].sig, req[q].who, listed)
                         THEN "ok" ELSE "refused"))
  /\ UNCHANGED <<dispatcher, signal, queue, run, work, feed>>

\* signal_queue.enqueue, for a replay and for a retry.
Enqueue(q) ==
  LET s == IF req[q].kind = "replay" THEN req[q].sig ELSE run[req[q].run].sig IN
  /\ req[q].kind \in {"replay", "retry"} /\ req[q].at = "checked"
  /\ queue' = [queue EXCEPT ![s] = @ + 1]
  /\ Becomes(q, [req[q] EXCEPT !.at = "ended", !.sig = s, !.run = None, !.read = None,
                               !.reply = "ok"])
  /\ UNCHANGED <<dispatcher, signal, run, work, feed>>

\* A plausible slip: the status is not looked at.
CancelsAny(status) == TRUE

\* cancel_run leaves a run alone that was finished when it was read.
Cancels(status) == status \in InFlight

CancelledRow(row, p) == [row EXCEPT !.status = "cancelled", !.by = p.tenant]

\* update(run) stores the row as it was read, with the status replaced.
CancelRun(q) ==
  /\ req[q].kind = "cancel" /\ req[q].at = "checked"
  /\ run' = IF Cancels(req[q].read)
            THEN [run EXCEPT ![req[q].run] = CancelledRow(@, req[q].who)]
            ELSE run
  /\ Becomes(q, Closed("ok"))
  /\ UNCHANGED <<dispatcher, signal, queue, work, feed>>

\* The client disconnects, or the store raises: the handler stops at its await.
Abandon(q) ==
  /\ req[q].at = "checked"
  /\ Becomes(q, Closed("failed"))
  /\ UNCHANGED <<dispatcher, signal, queue, run, work, feed>>

-----------------------------------------------------------------------------
(* The processor *)

\* A PENDING row for a signal that was queued: one for each trigger it matches, one
\* more for each attempt that is retried. Which and when is the processor's.
TakeSignal(s, r, readers) ==
  /\ queue[s] > 0
  /\ run[r].status = "absent"
  /\ run' = [run EXCEPT ![r] = [status |-> "pending", sig |-> s,
                                readers |-> readers, by |-> None]]
  /\ UNCHANGED <<dispatcher, signal, queue, work, req, feed>>

\* Publishing chat.bloom.attached: the live clients in heard get it. The others do
\* not, because the publish failed or their buffer dropped it, and one between its
\* discovery query and its subscription never does.
Published(r, heard) ==
  [v \in Feeds |->
    IF ~Bound(r) THEN feed[v]
    ELSE IF feed[v].at = "live" /\ v \in heard THEN [feed[v] EXCEPT !.known = @ \cup {r}]
    ELSE IF feed[v].at = "live" THEN [feed[v] EXCEPT !.lost = @ \cup {r}]
    ELSE IF feed[v].at = "listed" THEN [feed[v] EXCEPT !.late = @ \cup {r}]
    ELSE feed[v]]

StartRun(r, heard) ==
  /\ run[r].status = "pending"
  /\ run' = [run EXCEPT ![r].status = "running"]
  /\ work' = work \cup {r}
  /\ feed' = Published(r, heard)
  /\ UNCHANGED <<dispatcher, signal, queue, req>>

\* A run in flight finishes whether or not its row has been cancelled; whether
\* the processor then writes over a cancelled row is left open. A failed attempt may
\* be set back to pending, to be tried again.
FinishRun(r, status) ==
  /\ r \in work
  /\ work' = work \ {r}
  /\ \/ run' = [run EXCEPT ![r].status = status]
     \/ run[r].status = "cancelled" /\ run' = run
  /\ UNCHANGED <<dispatcher, signal, queue, req, feed>>

-----------------------------------------------------------------------------
(* The chat event stream *)

Open(v, p) ==
  /\ feed[v].at = "closed"
  /\ OwnerOrAdmin(p)
  /\ feed' = [feed EXCEPT ![v] = [ClosedFeed EXCEPT !.at = "checked", !.who = p]]
  /\ UNCHANGED <<dispatcher, signal, queue, run, work, req>>

\* A plausible slip: only pending runs are listed.
DiscoveredPending == {r \in Runs : Bound(r) /\ run[r].status = "pending"}

Discovered == {r \in Runs : Bound(r) /\ run[r].status \in InFlight}

\* job_store.list; the attached events made from it are then sent one by one.
Discover(v) ==
  /\ feed[v].at = "checked"
  /\ \E listed \in Listings(Discovered) :
       feed' = [feed EXCEPT ![v].at = "listed", ![v].known = listed,
                            ![v].lost = Discovered \ listed]
  /\ UNCHANGED <<dispatcher, signal, queue, run, work, req>>

Subscribe(v) ==
  /\ feed[v].at = "listed"
  /\ feed' = [feed EXCEPT ![v].at = "live"]
  /\ UNCHANGED <<dispatcher, signal, queue, run, work, req>>

\* Idle timeout or disconnect; the client may connect anew.
Close(v) ==
  /\ feed[v].at # "closed"
  /\ feed' = [feed EXCEPT ![v] = ClosedFeed]
  /\ UNCHANGED <<dispatcher, signal, queue, run, work, req>>

-----------------------------------------------------------------------------
Handle(q) == Ingest(q) \/ LookAtRuns(q) \/ Enqueue(q) \/ CancelRun(q) \/ Abandon(q)

Process ==
  \/ \E s \in Signals, r \in Runs, readers \in Readers : TakeSignal(s, r, readers)
  \/ \E r \in Runs, heard \in SUBSET Feeds : StartRun(r, heard)
  \/ \E r \in Runs, status \in {"succeeded", "failed", "pending"} : FinishRun(r, status)

Next ==
  \/ StartProducer \/ StopProducer
  \/ \E q \in Requests, w \in Webhooks : Deliver(q, w)
  \/ \E q \in Requests, p \in Callers, s \in Signals :
       AskSignal(q, p, s) \/ AskReplay(q, p, s)
  \/ \E q \in Requests, p \in Callers, r \in Runs, kind \in {"cancel", "retry"} :
       AskRun(q, kind, p, r)
  \/ \E q \in Requests : Handle(q)
  \/ Process
  \/ \E v \in Feeds, p \in Callers : Open(v, p)
  \/ \E v \in Feeds : Discover(v) \/ Subscribe(v) \/ Close(v)

Spec == Init /\ [][Next]_vars

-----------------------------------------------------------------------------
(* Properties *)

TypeOK ==
  /\ dispatcher \in BOOLEAN
  /\ signal \in [Signals -> Signal]
  /\ queue \in [Signals -> Nat]
  /\ run \in [Runs -> Run]
  /\ work \subseteq Runs
  /\ req \in [Requests -> Request]
  /\ feed \in [Feeds -> Feed]
  /\ \A r \in work : run[r].status # "absent"

\* The delivery of q was answered with 202 and the id of a signal.
Accepted(q) == req[q].kind = "ingest" /\ req[q].reply \in {"ok", "deduplicated"}

\* Webhooks that carry one Idempotency-Key, whatever their bodies say, are answered
\* with one signal_id, and one of them at most as a new signal (http.py 199-227), also
\* when the deliveries overlap.
SameKeySameSignal ==
  \A q, other \in Requests :
    /\ q # other /\ Accepted(q) /\ Accepted(other)
    /\ req[q].key # None /\ req[q].key = req[other].key
    => /\ req[q].sig = req[other].sig
       /\ "deduplicated" \in {req[q].reply, req[other].reply}

\* The replays and retries of s that were acknowledged.
Asked(s) == {q \in Requests : /\ req[q].kind \in {"replay", "retry"}
                              /\ req[q].reply = "ok"
                              /\ req[q].sig = s}

\* What is queued is what was acknowledged: a signal is stored only by a delivery that
\* was told so, and is queued once for it and once for each acknowledged replay and
\* retry (http.py 215, signals.py 97, runs.py 134). A redelivery queues nothing, and
\* one that fails because the producer was stopped meanwhile may safely be repeated.
QueuedAsAcknowledged ==
  \A s \in Signals :
    /\ signal[s].stored
         <=> \E q \in Requests : req[q].kind = "ingest" /\ req[q].reply = "ok" /\ req[q].sig = s
    /\ queue[s] = IF signal[s].stored THEN 1 + Cardinality(Asked(s)) ELSE 0

\* Whatever an operator request did, it did in its own tenant, admins included,
\* and a replay is an admin's (_visibility.py 13, signals.py 33). A chat is watched
\* by its owner or an admin of the tenant, who is told of runs only whose signal names
\* the chat; of which tenant that signal is, chat_events.py 82 does not ask.
OperatorsStayAtHome ==
  /\ \A q \in Requests, s \in Signals :
       (req[q].kind \in {"replay", "retry"} /\ req[q].reply = "ok" /\ req[q].sig = s) =>
         /\ req[q].who.tenant = signal[s].env.tenant
         /\ req[q].kind = "replay" => req[q].who.admin
  /\ \A r \in Runs : run[r].by # None => run[r].by = Source(r).tenant
  /\ \A v \in Feeds : feed[v].at # "closed" =>
       /\ feed[v].who.tenant = ChatOwner.tenant
       /\ feed[v].who.user = ChatOwner.user \/ feed[v].who.admin
       /\ \A r \in feed[v].known : Source(r).bound

\* Only a cancel that read the run while it was in flight changes a run that has
\* succeeded or failed (runs.py 108).
OnlyStaleCancelsUndoAResult ==
  [][\A r \in Runs :
       (run[r].status \in {"succeeded", "failed"} /\ run'[r] # run[r]) =>
         \E q \in Requests : /\ req[q].kind = "cancel" /\ req[q].run = r
                             /\ req[q].read \in InFlight
                             /\ req[q].at = "checked" /\ req'[q].at = "ended"]_vars

\* A live chat stream has told its client of every run of the chat that is running,
\* except those that a full listing or the channel lost, and those that started
\* between its query and its subscription (chat_events.py 82-92).
LiveFeedKnowsItsRuns ==
  \A v \in Feeds, r \in Runs :
    (feed[v].at = "live" /\ Bound(r) /\ run[r].status = "running")
      => r \in feed[v].known \cup feed[v].lost \cup feed[v].late

\* A reader below admin is shown a signal only if its claim names them or it has a run
\* they may see, whoever its user is; and is refused one they may see only when there
\* are more runs than are listed. So whatever the processor makes of the signal between
\* the two reads (_visibility.py 112-141).
SeesARun(s, p) == \E r \in Runs : run[r].sig = s /\ RunIsVisible(r, p)

SignalsShownToTheirReaders ==
  [][\A q \in Requests :
       LET s == req[q].sig  p == req[q].who IN
       (req[q].kind = "look" /\ req'[q].at = "ended") =>
         /\ req'[q].reply = "ok" => SeesARun(s, p) \/ AddressedTo(s, p)
         /\ req'[q].reply = "refused" => /\ ~SeesARun(s, p) \/ Cardinality(Existing) > ListLimit
                                         /\ ~AddressedTo(s, p)]_vars

(* A statement of the code's comments that does not hold; see the README. *)

\* "This guarantees that a user reconnecting mid-Bloom sees the same attached
\* event the original connection saw" (chat_events.py 22). What a full listing or the
\* channel loses is not held against it.
ReconnectingUserSeesTheRun ==
  \A v \in Feeds, r \in Runs :
    (feed[v].at = "live" /\ Bound(r) /\ run[r].status = "running")
      => r \in feed[v].known \cup feed[v].lost

=============================================================================
