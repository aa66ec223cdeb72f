-------------------------- MODULE EventRunsProofs --------------------------
(***************************************************************************)
(* EventRuns for every number of signals, runs, requests, feeds, tenants   *)
(* and users: one key is answered with one signal, what is queued is what  *)
(* was acknowledged, operators stay in their tenant, readers are shown     *)
(* what is theirs, and a live feed knows its runs but for three causes.    *)
(*                                                                         *)
(* All rests on two facts: a stored signal never changes, and a run keeps  *)
(* its signal (Kept). So what a handler has read of either stays true      *)
(* while it waits, whatever overtakes it.                                  *)
(***************************************************************************)
EXTENDS EventRuns, FiniteSetTheorems, TLAPS

-----------------------------------------------------------------------------
(* The invariant *)

Envelopes == \A s \in Signals : signal[s].stored => signal[s].env \in Envelope

\* A run has the signal it was made from; only its status and its last canceller change.
RunInv ==
  \A r \in Runs :
    /\ run[r].status = "absent" => run[r].sig = None /\ run[r].by = None
    /\ run[r].status # "absent" => run[r].sig \in Signals /\ signal[run[r].sig].stored
    /\ run[r].by # None => run[r].by = Source(r).tenant
    /\ r \in work => run[r].status \in {"running", "cancelled"}

QueueInv == \A s \in Signals : queue[s] > 0 => signal[s].stored

\* The UNIQUE index of the signal store.
KeysUnique ==
  \A s, other \in Signals :
    (s # other /\ signal[s].stored /\ signal[other].stored)
      => signal[s].env.key = None \/ signal[s].env.key # signal[other].env.key

\* A stored signal was acknowledged as new to one delivery.
First(q, s) == q.kind = "ingest" /\ q.reply = "ok" /\ q.sig = s

FirstInv ==
  \A s \in Signals :
    /\ signal[s].stored <=> \E q \in Requests : First(req[q], s)
    /\ \A q, other \in Requests : First(req[q], s) /\ First(req[other], s) => q = other

\* What a handler knows between its checks and its end, and after it.
Sound(q) ==
  /\ q.at = "idle" => q = Idle
  /\ q.at = "checked" => q.reply = "none"
  /\ q.kind = "look" => q.at = "checked"
  /\ q.at = "checked" /\ q.kind = "ingest" =>
       q.env \in Envelope /\ (q.key # None => q.env.key = q.key)
  /\ q.kind = "ingest" /\ q.reply \in {"ok", "deduplicated"} =>
       /\ q.sig \in Signals /\ signal[q.sig].stored
       /\ q.key # None => signal[q.sig].env.key = q.key
  /\ q.at = "checked" /\ q.kind = "look" =>
       q.sig \in Signals /\ q.who \in Principals /\ signal[q.sig].stored
  /\ q.at = "checked" /\ q.kind \in {"cancel", "retry"} =>
       /\ q.who \in Principals /\ q.run \in Runs /\ run[q.run].status # "absent"
       /\ q.who.tenant = Source(q.run).tenant
  /\ q.kind = "replay" \/ (q.kind = "retry" /\ q.reply = "ok") =>
       /\ q.who \in Principals /\ q.sig \in Signals /\ signal[q.sig].stored
       /\ q.who.tenant = signal[q.sig].env.tenant
       /\ q.kind = "replay" => q.who.admin

RequestsSound == \A q \in Requests : Sound(req[q])

\* What a feed knows, and who may have opened it.
FeedSound(v) ==
  /\ v.at # "closed" =>
       /\ v.who \in Principals
       /\ v.who.tenant = ChatOwner.tenant
       /\ v.who.user = ChatOwner.user \/ v.who.admin
  /\ \A r \in v.known : Bound(r)
  /\ v.at \in {"listed", "live"} =>
       \A r \in Runs : Bound(r) /\ run[r].status = "running" =>
                          r \in v.known \cup v.lost \cup v.late

FeedsSound == \A v \in Feeds : FeedSound(feed[v])

IInv == /\ TypeOK /\ Envelopes /\ KeysUnique /\ RunInv /\ QueueInv
        /\ RequestsSound /\ FirstInv /\ FeedsSound

-----------------------------------------------------------------------------
(* What every step keeps *)

Kept ==
  /\ \A s \in Signals : signal[s].stored => signal'[s] = signal[s]
  /\ \A r \in Runs : run[r].status # "absent" =>
       run'[r].status # "absent" /\ run'[r].sig = run[r].sig

\* No run starts to run.
NoneStarts ==
  \A r \in Runs : run'[r].status = "running" => run[r].status = "running"

\* A request stays sound while the runs and signals it was told of stay what they are.
LEMMA SoundStays ==
  ASSUME IInv, Kept, NEW q \in Request, Sound(q)
  PROVE  Sound(q)'
<1>1. \A r \in Runs : run[r].status # "absent" => Source(r)' = Source(r)
  BY DEF Kept, IInv, RunInv, Source
<1> QED BY <1>1 DEF Kept, Sound

\* A feed stays sound while the runs keep their signals and none starts running.
LEMMA FeedStays ==
  ASSUME IInv, Kept, NoneStarts, NEW v \in Feed, FeedSound(v)
  PROVE  FeedSound(v)'
<1>1. \A r \in Runs : run[r].status # "absent" => Source(r)' = Source(r) /\ Bound(r)' = Bound(r)
  BY DEF Kept, IInv, RunInv, Source, Bound
<1>2. v.known \subseteq Runs
  BY DEF Feed
<1>3. \A r \in v.known : Bound(r)'
  BY <1>1, <1>2 DEF FeedSound, Bound
<1>4. \A r \in Runs : Bound(r)' /\ run'[r].status = "running" =>
                        Bound(r) /\ run[r].status = "running"
  BY <1>1 DEF NoneStarts
<1> QED BY <1>3, <1>4 DEF FeedSound

\* The other handlers stay as they are.
LEMMA BecomesOnly ==
  ASSUME req \in [Requests -> Request], NEW q \in Requests, NEW new \in Request, Becomes(q, new)
  PROVE  /\ req' \in [Requests -> Request]
         /\ req'[q] = new
         /\ \A x \in Requests : x # q => req'[x] = req[x]
BY DEF Becomes

\* The handlers keep their part of the invariant when one of them becomes a sound one.
LEMMA RequestsStay ==
  ASSUME IInv, Kept, NEW q \in Requests, NEW new \in Request, Becomes(q, new), Sound(new)
  PROVE  req' \in [Requests -> Request] /\ RequestsSound'
<1>1. /\ req' \in [Requests -> Request]
      /\ req'[q] = new
      /\ \A x \in Requests : x # q => req'[x] = req[x]
  BY BecomesOnly DEF IInv, TypeOK
<1>2. ASSUME NEW x \in Requests PROVE Sound(req[x])'
  <2>1. PICK y \in Request : y = req'[x] /\ Sound(y)
    BY <1>1 DEF IInv, RequestsSound
  <2>2. Sound(y)'
    BY <2>1, SoundStays
  <2> QED BY <2>1, <2>2 DEF Sound
<1> QED BY <1>1, <1>2 DEF RequestsSound

\* A handler that is not over has been told nothing, so its signal is not its own.
LEMMA NoneYet ==
  ASSUME IInv, NEW q \in Requests, req[q].at # "ended"
  PROVE  req[q].reply # "ok" /\ \A s : ~First(req[q], s)
<1>1. Sound(req[q]) /\ req[q] \in Request
  BY DEF IInv, TypeOK, RequestsSound
<1>2. CASE req[q].at = "idle"
  BY <1>1, <1>2 DEF Sound, Idle, First
<1>3. CASE req[q].at = "checked"
  BY <1>1, <1>3 DEF Sound, First
<1> QED BY <1>1, <1>2, <1>3 DEF Request

\* Signals stay acknowledged when a handler becomes one that was not told of a new one.
LEMMA FirstsStay ==
  ASSUME IInv, NEW q \in Requests, NEW new \in Request, Becomes(q, new), signal' = signal,
         req[q].at # "ended", new.kind # "ingest" \/ new.reply # "ok"
  PROVE  FirstInv'
<1>1. req'[q] = new /\ \A x \in Requests : x # q => req'[x] = req[x]
  BY BecomesOnly DEF IInv, TypeOK
<1>2. \A s : ~First(req[q], s) /\ ~First(new, s)
  BY NoneYet DEF First
<1>3. \A s : \A x \in Requests : First(req'[x], s) <=> First(req[x], s)
  BY <1>1, <1>2
<1>4. ASSUME NEW s \in Signals
      PROVE  /\ signal[s].stored <=> \E x \in Requests : First(req'[x], s)
             /\ \A x, other \in Requests : First(req'[x], s) /\ First(req'[other], s) => x = other
  BY <1>3 DEF IInv, FirstInv
<1> QED BY <1>4 DEF FirstInv, First

\* The feeds keep their part of the invariant while none of the runs starts.
LEMMA FeedsStay ==
  ASSUME IInv, Kept, NoneStarts, feed' = feed
  PROVE  feed' \in [Feeds -> Feed] /\ FeedsSound'
<1>1. feed \in [Feeds -> Feed]
  BY DEF IInv, TypeOK
<1>2. ASSUME NEW v \in Feeds PROVE FeedSound(feed[v])'
  <2>1. PICK y \in Feed : y = feed[v] /\ FeedSound(y)
    BY <1>1 DEF IInv, FeedsSound
  <2>2. FeedSound(y)'
    BY <2>1, FeedStays
  <2> QED BY <2>1, <2>2 DEF FeedSound
<1> QED BY <1>1, <1>2 DEF FeedsSound

\* The signals keep their part of the invariant while the signal store is left alone.
LEMMA SignalsStay ==
  ASSUME IInv, signal' = signal
  PROVE  signal' \in [Signals -> Signal] /\ Envelopes' /\ KeysUnique'
BY DEF IInv, TypeOK, Envelopes, KeysUnique

\* The runs keep their part of the invariant while the run store is left alone.
LEMMA RunsStay ==
  ASSUME IInv, Kept, run' = run, work' = work
  PROVE  run' \in [Runs -> Run] /\ RunInv' /\ NoneStarts
<1>1. \A r \in Runs : run[r].status # "absent" => Source(r)' = Source(r)
  BY DEF Kept, IInv, RunInv, Source
<1> QED BY <1>1 DEF IInv, TypeOK, RunInv, Kept, NoneStarts

\* A step of a handler that changes nothing but itself.
LEMMA QuietSteps ==
  ASSUME IInv, NEW q \in Requests, NEW new \in Request, Becomes(q, new), Sound(new),
         req[q].at # "ended", new.kind # "ingest" \/ new.reply # "ok",
         UNCHANGED <<dispatcher, signal, queue, run, work, feed>>
  PROVE  IInv'
<1>1. Kept
  BY DEF Kept
<1> QED BY <1>1, RequestsStay, FirstsStay, FeedsStay, SignalsStay, RunsStay
        DEF IInv, TypeOK, QueueInv

\* A handler that has not begun is sound.
LEMMA IdleFacts ==
  Idle \in Request /\ Idle.at = "idle" /\ Idle.kind = "none" /\ Idle.reply = "none"
BY DEF Idle, Request

\* A request that is over is sound.
LEMMA ClosedFacts ==
  ASSUME NEW reply \in {"ok", "refused", "failed"}
  PROVE  /\ Closed(reply) \in Request /\ Sound(Closed(reply))
         /\ Closed(reply).kind = "none" /\ Closed(reply).reply = reply
         /\ Closed(reply).at = "ended"
<1>1. Closed(reply) \in Request /\ Closed(reply).kind = "none" /\ Closed(reply).reply = reply
      /\ Closed(reply).at = "ended"
  BY DEF Closed, Idle, Request
<1> QED BY <1>1 DEF Sound

-----------------------------------------------------------------------------
(* Handlers *)

\* The envelope of a webhook has the key of its header, if it has one (http.py 199).
LEMMA EnvelopeFacts ==
  ASSUME NEW w \in Webhooks
  PROVE  /\ EnvelopeOf(w) \in Envelope /\ w.header \in Keys \cup {None}
         /\ w.header # None => EnvelopeOf(w).key = w.header
<1>1. w \in Webhook
  BY ConstantsAssumption
<1> QED BY <1>1 DEF Webhook, EnvelopeOf, Envelope

\* A webhook is delivered: taken up to its awaits, or refused (http.py).
LEMMA StepDeliver ==
  ASSUME IInv, NEW q \in Requests, NEW w \in Webhooks, Deliver(q, w)
  PROVE  IInv'
<1>1. CASE Becomes(q, Closed("refused"))
  BY <1>1, ClosedFacts, QuietSteps DEF Deliver
<1>2. CASE Becomes(q, [Idle EXCEPT !.kind = "ingest", !.at = "checked", !.key = w.header,
                                   !.env = EnvelopeOf(w)])
  <2> DEFINE env == EnvelopeOf(w)
  <2> DEFINE new == [Idle EXCEPT !.kind = "ingest", !.at = "checked", !.key = w.header,
                                 !.env = env]
  <2>1. env \in Envelope /\ w.header \in Keys \cup {None} /\ (w.header # None => env.key = w.header)
    BY EnvelopeFacts
  <2>2. Becomes(q, new)
    BY <1>2
  <2> HIDE DEF env
  <2>3. /\ new \in Request /\ new.kind = "ingest" /\ new.at = "checked" /\ new.env = env
        /\ new.key = w.header /\ new.reply = "none"
    BY <2>1, IdleFacts DEF Request
  <2> HIDE DEF new
  <2>4. Sound(new)
    BY <2>1, <2>3 DEF Sound
  <2> QED BY <2>2, <2>3, <2>4, QuietSteps DEF Deliver
<1> QED BY <1>1, <1>2 DEF Deliver

\* The replay of a signal is asked for (signals.py).
LEMMA StepAskReplay ==
  ASSUME IInv, NEW q \in Requests, NEW p \in Principals, NEW s \in Signals, AskReplay(q, p, s)
  PROVE  IInv'
<1>1. CASE ~MayReplay(s, p)
  BY <1>1, ClosedFacts, QuietSteps DEF AskReplay
<1>2. CASE MayReplay(s, p)
  <2> DEFINE new == [Idle EXCEPT !.kind = "replay", !.at = "checked", !.who = p, !.sig = s]
  <2>1. /\ new \in Request /\ new.kind = "replay" /\ new.at = "checked" /\ new.who = p
        /\ new.sig = s /\ new.reply = "none"
    BY IdleFacts DEF Request
  <2>2. Becomes(q, new)
    BY <1>2 DEF AskReplay
  <2> HIDE DEF new
  <2>3. Sound(new)
    BY <1>2, <2>1 DEF Sound, MayReplay
  <2> QED BY <2>1, <2>2, <2>3, QuietSteps DEF AskReplay
<1> QED BY <1>1, <1>2

\* The runs of a signal are asked for, to decide who may read it.
LEMMA StepAskSignal ==
  ASSUME IInv, NEW q \in Requests, NEW p \in Principals, NEW s \in Signals, AskSignal(q, p, s)
  PROVE  IInv'
<1> DEFINE new == [Idle EXCEPT !.kind = "look", !.at = "checked", !.who = p, !.sig = s]
<1>1. CASE Becomes(q, Closed("refused")) \/ Becomes(q, Closed("ok"))
  BY <1>1, ClosedFacts, QuietSteps DEF AskSignal
<1>2. CASE signal[s].stored /\ Becomes(q, new)
  <2>1. /\ new \in Request /\ new.kind = "look" /\ new.at = "checked" /\ new.who = p
        /\ new.sig = s /\ new.reply = "none"
    BY IdleFacts DEF Request
  <2> HIDE DEF new
  <2>2. Sound(new)
    BY <1>2, <2>1 DEF Sound
  <2> QED BY <1>2, <2>1, <2>2, QuietSteps DEF AskSignal
<1> QED BY <1>1, <1>2 DEF AskSignal

\* A run is asked for, to be cancelled or retried (runs.py).
LEMMA StepAskRun ==
  ASSUME IInv, NEW q \in Requests, NEW p \in Principals, NEW r \in Runs,
         NEW kind \in {"cancel", "retry"}, AskRun(q, kind, p, r)
  PROVE  IInv'
<1>1. CASE ~RunIsVisible(r, p)
  BY <1>1, ClosedFacts, QuietSteps DEF AskRun
<1>2. CASE RunIsVisible(r, p)
  <2>0. PICK read \in InFlight \cup Terminal : read = run[r].status /\ read # "absent"
    BY <1>2 DEF RunIsVisible, IInv, TypeOK, Run
  <2> DEFINE new == [Idle EXCEPT !.kind = kind, !.at = "checked", !.who = p, !.run = r,
                                 !.read = read]
  <2>1. /\ new \in Request /\ new.kind = kind /\ new.at = "checked" /\ new.who = p
        /\ new.run = r /\ new.reply = "none"
    <3>1. kind \in {"none", "ingest", "look", "replay", "cancel", "retry"}
      OBVIOUS
    <3>2. read \in InFlight \cup Terminal \cup {None}
      OBVIOUS
    <3> QED BY <3>1, <3>2 DEF Idle, Request
  <2>2. Becomes(q, new)
    BY <1>2, <2>0 DEF AskRun
  <2> HIDE DEF new
  <2>3. Sound(new)
    BY <1>2, <2>0, <2>1 DEF Sound, RunIsVisible
  <2> QED BY <2>1, <2>2, <2>3, QuietSteps DEF AskRun
<1> QED BY <1>1, <1>2

\* The steps that answer a request and change nothing else.
LEMMA StepQuietEnds ==
  ASSUME IInv, NEW q \in Requests, LookAtRuns(q) \/ Abandon(q)
  PROVE  IInv'
<1>1. PICK reply \in {"ok", "refused", "failed"} : Becomes(q, Closed(reply))
  BY DEF LookAtRuns, Abandon
<1>2. req[q].at # "ended" /\ UNCHANGED <<dispatcher, signal, queue, run, work, feed>>
  BY DEF LookAtRuns, Abandon
<1> QED BY <1>1, <1>2, ClosedFacts, QuietSteps

\* A replay or a retry queues its signal once more.
LEMMA StepEnqueue ==
  ASSUME IInv, NEW q \in Requests, Enqueue(q)
  PROVE  IInv'
<1> DEFINE s == IF req[q].kind = "replay" THEN req[q].sig ELSE run[req[q].run].sig
<1> DEFINE new == [req[q] EXCEPT !.at = "ended", !.sig = s, !.run = None, !.read = None,
                                 !.reply = "ok"]
<1>1. /\ req[q].kind \in {"replay", "retry"} /\ req[q].at = "checked"
      /\ queue' = [queue EXCEPT ![s] = @ + 1] /\ Becomes(q, new)
      /\ UNCHANGED <<dispatcher, signal, run, work, feed>>
  BY DEF Enqueue
<1>2. req[q] \in Request /\ Sound(req[q])
  BY DEF IInv, TypeOK, RequestsSound
<1>3. /\ s \in Signals /\ signal[s].stored /\ req[q].who \in Principals
      /\ req[q].who.tenant = signal[s].env.tenant
      /\ req[q].kind = "replay" => req[q].who.admin
  <2>1. CASE req[q].kind = "replay"
    BY <1>2, <2>1 DEF Sound
  <2>2. CASE req[q].kind = "retry"
    BY <1>1, <1>2, <2>2 DEF Sound, Source, IInv, RunInv
  <2> QED BY <1>1, <2>1, <2>2
<1> HIDE DEF s
<1>4. /\ new \in Request /\ new.kind = req[q].kind /\ new.at = "ended" /\ new.sig = s
      /\ new.who = req[q].who /\ new.reply = "ok"
  BY <1>2, <1>3 DEF Request
<1> HIDE DEF new
<1>5. Sound(new)
  BY <1>1, <1>3, <1>4 DEF Sound
<1>6. queue' \in [Signals -> Nat] /\ QueueInv'
  BY <1>1, <1>3 DEF IInv, TypeOK, QueueInv
<1>7. Kept
  BY <1>1 DEF Kept
<1>8. FirstInv'
  BY <1>1, <1>4, FirstsStay
<1> QED BY <1>1, <1>4, <1>5, <1>6, <1>7, <1>8, RequestsStay, FeedsStay, SignalsStay, RunsStay
        DEF IInv, TypeOK

\* The dispatcher stores the signal, unless its key is known or the producer has been stopped.
LEMMA StepIngest ==
  ASSUME IInv, NEW q \in Requests, Ingest(q)
  PROVE  IInv'
<1> DEFINE env == req[q].env
<1>1. /\ env \in Envelope /\ req[q] \in Request /\ req[q].at = "checked"
      /\ req[q].key # None => env.key = req[q].key
  BY DEF Ingest, IInv, TypeOK, RequestsSound, Sound
<1>2. CASE ~dispatcher
  BY <1>2, ClosedFacts, QuietSteps DEF Ingest
<1> DEFINE answer(s, reply) == [Idle EXCEPT !.kind = "ingest", !.at = "ended",
                                            !.key = req[q].key, !.sig = s, !.reply = reply]
<1>3. ASSUME NEW s \in Signals, NEW reply \in {"ok", "deduplicated"}
      PROVE  /\ answer(s, reply) \in Request /\ answer(s, reply).kind = "ingest"
             /\ answer(s, reply).at = "ended" /\ answer(s, reply).sig = s
             /\ answer(s, reply).key = req[q].key /\ answer(s, reply).reply = reply
  <2>1. PICK k \in Keys \cup {None} : k = req[q].key
    BY <1>1 DEF Request
  <2> DEFINE new == [Idle EXCEPT !.kind = "ingest", !.at = "ended", !.key = k, !.sig = s,
                                 !.reply = reply]
  <2>2. /\ new \in Request /\ new.kind = "ingest" /\ new.at = "ended" /\ new.sig = s
        /\ new.key = k /\ new.reply = reply
    BY IdleFacts DEF Request
  <2>3. answer(s, reply) = new
    BY <2>1
  <2> QED BY <2>1, <2>2, <2>3
<1> HIDE DEF env, answer
<1>4. ASSUME NEW s \in Signals, Duplicate(env, s), Becomes(q, answer(s, "deduplicated")),
             UNCHANGED <<signal, queue>>
      PROVE  IInv'
  <2>1. Sound(answer(s, "deduplicated"))
    BY <1>1, <1>3, <1>4 DEF Sound, Duplicate
  <2> QED BY <1>1, <1>3, <1>4, <2>1, QuietSteps DEF Ingest
<1>5. ASSUME NEW s \in Signals, ~signal[s].stored,
             \A other \in Signals : ~Duplicate(env, other),
             signal' = [signal EXCEPT ![s] = [stored |-> TRUE, env |-> env]],
             queue' = [queue EXCEPT ![s] = @ + 1],
             Becomes(q, answer(s, "ok"))
      PROVE  IInv'
  <2> DEFINE new == answer(s, "ok")
  <2>1. UNCHANGED <<dispatcher, run, work, feed>>
    BY DEF Ingest
  <2>2. /\ signal' \in [Signals -> Signal] /\ signal'[s].stored /\ signal'[s].env = env
        /\ \A t \in Signals : t # s => signal'[t] = signal[t]
    BY <1>1, <1>5 DEF IInv, TypeOK, Signal
  <2>3. Kept
    BY <1>5, <2>1, <2>2 DEF Kept
  <2>4. Envelopes'
    BY <1>1, <2>2 DEF IInv, Envelopes
  <2>5. KeysUnique'
    BY <1>5, <2>2 DEF IInv, KeysUnique, Duplicate
  <2>6. queue' \in [Signals -> Nat] /\ QueueInv'
    BY <1>5, <2>2 DEF IInv, TypeOK, QueueInv
  <2>7. /\ new \in Request /\ new.kind = "ingest" /\ new.at = "ended" /\ new.sig = s
        /\ new.key = req[q].key /\ new.reply = "ok" /\ Becomes(q, new)
    BY <1>3, <1>5
  <2> HIDE DEF new
  <2>8. req' \in [Requests -> Request] /\ RequestsSound'
    <3>1. /\ req' \in [Requests -> Request] /\ req'[q] = new
          /\ \A x \in Requests : x # q => req'[x] = req[x]
      BY <2>7, BecomesOnly DEF IInv, TypeOK
    <3>2. Sound(req[q])'
      BY <1>1, <2>2, <2>7, <3>1 DEF Sound
    <3>3. ASSUME NEW x \in Requests, x # q PROVE Sound(req[x])'
      <4>1. PICK y \in Request : y = req'[x] /\ Sound(y)
        BY <3>1, <3>3 DEF IInv, TypeOK, RequestsSound
      <4>2. Sound(y)'
        BY <2>3, <4>1, SoundStays
      <4> QED BY <4>1, <4>2 DEF Sound
    <3> QED BY <3>1, <3>2, <3>3 DEF RequestsSound
  <2>9. FirstInv'
    <3>1. req'[q] = new /\ \A x \in Requests : x # q => req'[x] = req[x]
      BY <2>7, BecomesOnly DEF IInv, TypeOK
    <3>2. First(req'[q], s) /\ \A t : First(req'[q], t) => t = s
      BY <2>7, <3>1 DEF First
    <3>3. \A x \in Requests : ~First(req[x], s)
      BY <1>5 DEF IInv, FirstInv
    <3>4. \A t : ~First(req[q], t)
      BY <1>1, NoneYet
    <3> QED BY <2>2, <3>1, <3>2, <3>3, <3>4 DEF IInv, FirstInv, First
  <2> QED BY <2>1, <2>2, <2>3, <2>4, <2>5, <2>6, <2>8, <2>9, FeedsStay, RunsStay
          DEF IInv, TypeOK
<1> QED BY <1>2, <1>4, <1>5 DEF Ingest, Store, Answered, answer, env

-----------------------------------------------------------------------------
(* Runs *)

\* The row of r becomes row.
LEMMA RowSteps ==
  ASSUME IInv, NEW r \in Runs, NEW row \in Run, run' = [run EXCEPT ![r] = row],
         signal' = signal,
         row.status # "absent", row.sig \in Signals, signal[row.sig].stored,
         run[r].status # "absent" => row.sig = run[r].sig,
         row.by # None => row.by = signal[row.sig].env.tenant,
         work' \subseteq work \cup {r},
         r \in work' => row.status \in {"running", "cancelled"}
  PROVE  /\ Kept /\ run' \in [Runs -> Run] /\ RunInv'
         /\ \A x \in work' : run'[x].status # "absent"
         /\ (row.status = "running" /\ run[r].status # "running") \/ NoneStarts
<1>1. /\ run' \in [Runs -> Run] /\ run'[r] = row
      /\ \A x \in Runs : x # r => run'[x] = run[x]
  BY DEF IInv, TypeOK
<1>2. Kept
  BY <1>1 DEF Kept
<1>3. \A x \in Runs : x # r => Source(x)' = Source(x)
  BY <1>1 DEF Source
<1>4. Source(r)' = signal[row.sig].env
  BY <1>1 DEF Source
<1>5. RunInv'
  <2>1. ASSUME NEW x \in Runs, x # r
        PROVE  /\ run'[x].status = "absent" => run'[x].sig = None /\ run'[x].by = None
               /\ run'[x].status # "absent" => run'[x].sig \in Signals /\ signal'[run'[x].sig].stored
               /\ run'[x].by # None => run'[x].by = Source(x)'.tenant
               /\ x \in work' => run'[x].status \in {"running", "cancelled"}
    BY <1>1, <1>3, <2>1 DEF IInv, RunInv
  <2> QED BY <1>1, <1>4, <2>1 DEF RunInv
<1>6. \A x \in work' : run'[x].status # "absent"
  BY <1>1 DEF IInv, TypeOK
<1> QED BY <1>1, <1>2, <1>5, <1>6 DEF NoneStarts

\* A cancel writes the row it read, unless that one was finished.
LEMMA StepCancelRun ==
  ASSUME IInv, NEW q \in Requests, CancelRun(q)
  PROVE  IInv'
<1> DEFINE r == req[q].run
           new == Closed("ok")
<1>1. /\ req[q].kind = "cancel" /\ req[q].at = "checked" /\ Becomes(q, new)
      /\ UNCHANGED <<dispatcher, signal, queue, work, feed>>
      /\ run' = run \/ run' = [run EXCEPT ![r] = CancelledRow(run[r], req[q].who)]
  BY DEF CancelRun
<1>2. req[q] \in Request /\ Sound(req[q])
  BY DEF IInv, TypeOK, RequestsSound
<1>3. new \in Request /\ new.kind = "none" /\ Sound(new)
  BY ClosedFacts
<1> HIDE DEF new
<1>5. /\ r \in Runs /\ run[r].status # "absent" /\ req[q].who \in Principals
      /\ req[q].who.tenant = Source(r).tenant
  BY <1>1, <1>2 DEF Sound
<1> HIDE DEF r
<1>6. CASE run' = run
  BY <1>1, <1>3, <1>6, QuietSteps
<1>7. CASE run' = [run EXCEPT ![r] = CancelledRow(run[r], req[q].who)]
  <2> DEFINE row == CancelledRow(run[r], req[q].who)
  <2>1. /\ row \in Run /\ row.status = "cancelled" /\ row.sig = run[r].sig
        /\ row.by = req[q].who.tenant
    BY <1>5 DEF CancelledRow, IInv, TypeOK, Run, Terminal, Principals
  <2>2. run' = [run EXCEPT ![r] = row]
    BY <1>7
  <2> HIDE DEF row
  <2>3. row.sig \in Signals /\ signal[row.sig].stored
    BY <1>5, <2>1 DEF IInv, RunInv
  <2>4. row.by = signal[row.sig].env.tenant
    BY <1>5, <2>1 DEF Source
  <2>5. /\ Kept /\ run' \in [Runs -> Run] /\ RunInv' /\ NoneStarts
        /\ \A x \in work' : run'[x].status # "absent"
    BY <1>1, <1>5, <2>1, <2>2, <2>3, <2>4, RowSteps
  <2> QED BY <1>1, <1>3, <2>5, RequestsStay, FirstsStay, FeedsStay, SignalsStay
          DEF IInv, TypeOK, QueueInv
<1> QED BY <1>1, <1>6, <1>7

\* The handlers are not concerned by a step of the processor.
LEMMA RequestsRemain ==
  ASSUME IInv, Kept, req' = req, signal' = signal
  PROVE  req' \in [Requests -> Request] /\ RequestsSound' /\ FirstInv'
<1>1. req \in [Requests -> Request]
  BY DEF IInv, TypeOK
<1>2. ASSUME NEW x \in Requests PROVE Sound(req[x])'
  <2>1. PICK y \in Request : y = req[x] /\ Sound(y)
    BY <1>1 DEF IInv, RequestsSound
  <2>2. Sound(y)'
    BY <2>1, SoundStays
  <2> QED BY <2>1, <2>2 DEF Sound
<1>3. FirstInv'
  BY DEF IInv, FirstInv, First
<1> QED BY <1>1, <1>2, <1>3 DEF RequestsSound

\* The processor makes a pending run for a signal that was queued.
LEMMA StepTakeSignal ==
  ASSUME IInv, NEW s \in Signals, NEW r \in Runs, NEW readers \in Readers,
         TakeSignal(s, r, readers)
  PROVE  IInv'
<1> DEFINE row == [status |-> "pending", sig |-> s, readers |-> readers, by |-> None]
<1>1. /\ queue[s] > 0 /\ run[r].status = "absent"
      /\ run' = [run EXCEPT ![r] = row]
      /\ UNCHANGED <<dispatcher, signal, queue, work, req, feed>>
  BY DEF TakeSignal
<1>2. row \in Run /\ row.status = "pending" /\ row.sig = s /\ row.by = None
  BY DEF Run, InFlight
<1> HIDE DEF row
<1>3. signal[s].stored
  BY <1>1 DEF IInv, QueueInv
<1>4. r \notin work
  BY <1>1 DEF IInv, TypeOK
<1>5. /\ Kept /\ run' \in [Runs -> Run] /\ RunInv' /\ NoneStarts
      /\ \A x \in work' : run'[x].status # "absent"
  BY <1>1, <1>2, <1>3, <1>4, RowSteps
<1> QED BY <1>1, <1>5, RequestsRemain, FeedsStay, SignalsStay DEF IInv, TypeOK, QueueInv

\* A run ends, whether or not its row has been cancelled.
LEMMA StepFinishRun ==
  ASSUME IInv, NEW r \in Runs, NEW status \in {"succeeded", "failed", "pending"},
         FinishRun(r, status)
  PROVE  IInv'
<1>1. /\ r \in work /\ work' = work \ {r}
      /\ UNCHANGED <<dispatcher, signal, queue, req, feed>>
      /\ run' = run \/ run' = [run EXCEPT ![r].status = status]
  BY DEF FinishRun
<1>2. run[r] \in Run /\ run[r].status # "absent" /\ run \in [Runs -> Run]
  BY <1>1 DEF IInv, TypeOK
<1>3. /\ Kept /\ run' \in [Runs -> Run] /\ RunInv' /\ NoneStarts
      /\ \A x \in work' : run'[x].status # "absent"
  <2> DEFINE row == [run[r] EXCEPT !.status = status]
  <2>1. CASE run' = run
    <3>1. \A x \in Runs : Source(x)' = Source(x)
      BY <1>1, <2>1 DEF Source
    <3> QED BY <1>1, <2>1, <3>1 DEF Kept, NoneStarts, IInv, TypeOK, RunInv
  <2>2. CASE run' = [run EXCEPT ![r].status = status]
    <3>1. /\ row \in Run /\ row.status = status /\ row.sig = run[r].sig /\ row.by = run[r].by
      BY <1>2 DEF Run, Terminal, InFlight
    <3>2. run' = [run EXCEPT ![r] = row]
      BY <1>2, <2>2
    <3> HIDE DEF row
    <3>3. row.sig \in Signals /\ signal[row.sig].stored
      BY <1>2, <3>1 DEF IInv, RunInv
    <3>4. row.by # None => row.by = signal[row.sig].env.tenant
      BY <3>1 DEF IInv, RunInv, Source
    <3>5. r \notin work' /\ work' \subseteq work \cup {r}
      BY <1>1
    <3> QED BY <1>1, <1>2, <3>1, <3>2, <3>3, <3>4, <3>5, RowSteps
  <2> QED BY <1>1, <2>1, <2>2
<1> QED BY <1>1, <1>3, RequestsRemain, FeedsStay, SignalsStay DEF IInv, TypeOK, QueueInv

\* The processor begins a run, and the feeds of its chat are told.
LEMMA StepStartRun ==
  ASSUME IInv, NEW r \in Runs, NEW heard \in SUBSET Feeds, StartRun(r, heard)
  PROVE  IInv'
<1> DEFINE row == [run[r] EXCEPT !.status = "running"]
<1>1. /\ run[r].status = "pending" /\ run' = [run EXCEPT ![r].status = "running"]
      /\ work' = work \cup {r} /\ feed' = Published(r, heard)
      /\ UNCHANGED <<dispatcher, signal, queue, req>>
  BY DEF StartRun
<1>2. run[r] \in Run /\ run \in [Runs -> Run] /\ feed \in [Feeds -> Feed]
  BY DEF IInv, TypeOK
<1>3. row \in Run /\ row.status = "running" /\ row.sig = run[r].sig /\ row.by = run[r].by
  BY <1>2 DEF Run, InFlight
<1>4. run' = [run EXCEPT ![r] = row]
  BY <1>1, <1>2
<1> HIDE DEF row
<1>5. row.sig \in Signals /\ signal[row.sig].stored
  BY <1>1, <1>3 DEF IInv, RunInv
<1>6. row.by # None => row.by = signal[row.sig].env.tenant
  BY <1>3 DEF IInv, RunInv, Source
<1>7. /\ Kept /\ run' \in [Runs -> Run] /\ RunInv'
      /\ \A x \in work' : run'[x].status # "absent"
  BY <1>1, <1>3, <1>4, <1>5, <1>6, RowSteps
<1>8. /\ \A x \in Runs : x # r => run'[x] = run[x]
      /\ \A x \in Runs : run[x].status # "absent" => Bound(x)' = Bound(x)
  <2>1. \A x \in Runs : run[x].status # "absent" => Source(x)' = Source(x)
    BY <1>1, <1>7 DEF Kept, Source
  <2> QED BY <1>1, <1>2, <1>7, <2>1 DEF Bound, Kept
<1>9. ASSUME NEW v \in Feeds PROVE feed'[v] \in Feed /\ FeedSound(feed[v])'
  <2> DEFINE y == feed'[v]
  <2>1. feed[v] \in Feed /\ FeedSound(feed[v])
    BY <1>2 DEF IInv, FeedsSound
  <2>2. /\ y \in Feed /\ y.at = feed[v].at /\ y.who = feed[v].who
        /\ y.known \subseteq IF Bound(r) THEN feed[v].known \cup {r} ELSE feed[v].known
        /\ feed[v].known \subseteq y.known /\ feed[v].lost \subseteq y.lost
        /\ feed[v].late \subseteq y.late
        /\ Bound(r) /\ y.at \in {"listed", "live"} => r \in y.known \cup y.lost \cup y.late
    <3>1. y = IF ~Bound(r) THEN feed[v]
              ELSE IF feed[v].at = "live" /\ v \in heard
                   THEN [feed[v] EXCEPT !.known = feed[v].known \cup {r}]
              ELSE IF feed[v].at = "live" THEN [feed[v] EXCEPT !.lost = feed[v].lost \cup {r}]
              ELSE IF feed[v].at = "listed" THEN [feed[v] EXCEPT !.late = feed[v].late \cup {r}]
              ELSE feed[v]
      BY <1>1 DEF Published
    <3>2. CASE y = feed[v] /\ (~Bound(r) \/ feed[v].at \notin {"listed", "live"})
      BY <2>1, <3>2
    <3>3. CASE Bound(r) /\ feed[v].at = "live" /\ y = [feed[v] EXCEPT !.known = feed[v].known \cup {r}]
      BY <2>1, <3>3 DEF Feed
    <3>4. CASE Bound(r) /\ feed[v].at = "live" /\ y = [feed[v] EXCEPT !.lost = feed[v].lost \cup {r}]
      BY <2>1, <3>4 DEF Feed
    <3>5. CASE Bound(r) /\ feed[v].at = "listed" /\ y = [feed[v] EXCEPT !.late = feed[v].late \cup {r}]
      BY <2>1, <3>5 DEF Feed
    <3> QED BY <3>1, <3>2, <3>3, <3>4, <3>5
  <2> HIDE DEF y
  <2>3. \A x \in y.known : x \in Runs /\ Bound(x)
    BY <2>1, <2>2 DEF FeedSound, Feed
  <2>4. \A x \in y.known : Bound(x)'
    BY <1>8, <2>3 DEF Bound
  <2>5. ASSUME y.at \in {"listed", "live"}, NEW x \in Runs, Bound(x)', run'[x].status = "running"
        PROVE  x \in y.known \cup y.lost \cup y.late
    <3>1. CASE x = r
      BY <1>1, <1>8, <2>2, <2>5, <3>1
    <3>2. CASE x # r
      BY <1>8, <2>1, <2>2, <2>5, <3>2 DEF FeedSound
    <3> QED BY <3>1, <3>2
  <2> QED BY <2>1, <2>2, <2>4, <2>5 DEF y, FeedSound
<1>10. feed' \in [Feeds -> Feed] /\ FeedsSound'
  <2>1. feed' = [v \in Feeds |-> feed'[v]]
    BY <1>1 DEF Published
  <2> QED BY <1>9, <2>1 DEF FeedsSound
<1> QED BY <1>1, <1>7, <1>10, RequestsRemain, SignalsStay, <1>2 DEF IInv, TypeOK, QueueInv

-----------------------------------------------------------------------------
(* Feeds, and the rest *)

\* A step of one feed keeps the invariant if that feed is left sound.
LEMMA FeedSteps ==
  ASSUME IInv, NEW v \in Feeds, NEW new \in Feed, feed' = [feed EXCEPT ![v] = new],
         FeedSound(new), UNCHANGED <<dispatcher, signal, queue, run, work, req>>
  PROVE  IInv'
<1>1. /\ feed' \in [Feeds -> Feed] /\ feed'[v] = new
      /\ \A x \in Feeds : x # v => feed'[x] = feed[x]
  BY DEF IInv, TypeOK
<1>2. Kept /\ NoneStarts
  BY DEF Kept, NoneStarts
<1>3. ASSUME NEW x \in Feeds PROVE FeedSound(feed[x])'
  <2>1. PICK y \in Feed : y = feed'[x] /\ FeedSound(y)
    BY <1>1 DEF IInv, FeedsSound, TypeOK
  <2>2. FeedSound(y)'
    BY <1>2, <2>1, FeedStays
  <2> QED BY <2>1, <2>2 DEF FeedSound
<1> QED BY <1>1, <1>2, <1>3, RequestsRemain, SignalsStay, RunsStay
        DEF IInv, TypeOK, FeedsSound, QueueInv

\* The steps of a feed: open, discover, subscribe, close (chat_events.py).
LEMMA StepFeeds ==
  ASSUME IInv, NEW v \in Feeds, NEW p \in Principals,
         Open(v, p) \/ Discover(v) \/ Subscribe(v) \/ Close(v)
  PROVE  IInv'
<1>1. feed[v] \in Feed /\ FeedSound(feed[v]) /\ feed \in [Feeds -> Feed]
  BY DEF IInv, TypeOK, FeedsSound
<1>2. ClosedFeed \in Feed /\ ClosedFeed.at = "closed" /\ ClosedFeed.known = {}
  BY DEF ClosedFeed, Feed
<1>3. CASE Open(v, p)
  <2> DEFINE new == [ClosedFeed EXCEPT !.at = "checked", !.who = p]
  <2>1. new \in Feed /\ new.at = "checked" /\ new.who = p /\ new.known = {}
    BY <1>2 DEF Feed
  <2>2. feed' = [feed EXCEPT ![v] = new]
    BY <1>3 DEF Open
  <2> HIDE DEF new
  <2>3. FeedSound(new)
    BY <1>3, <2>1 DEF Open, OwnerOrAdmin, FeedSound
  <2> QED BY <1>3, <2>1, <2>2, <2>3, FeedSteps DEF Open
<1>4. CASE Discover(v)
  <2>1. PICK listed \in Listings(Discovered) :
          feed' = [feed EXCEPT ![v].at = "listed", ![v].known = listed,
                               ![v].lost = Discovered \ listed]
    BY <1>4 DEF Discover
  <2>2. listed \subseteq Discovered /\ Discovered \subseteq Runs
    BY DEF Listings, Discovered
  <2> DEFINE new == [feed[v] EXCEPT !.at = "listed", !.known = listed,
                                    !.lost = Discovered \ listed]
  <2>3. /\ new \in Feed /\ new.at = "listed" /\ new.who = feed[v].who
        /\ new.known = listed /\ new.lost = Discovered \ listed
    BY <1>1, <2>2 DEF Feed
  <2>4. feed' = [feed EXCEPT ![v] = new]
    BY <1>1, <2>1
  <2> HIDE DEF new
  <2>5. FeedSound(new)
    BY <1>1, <1>4, <2>2, <2>3 DEF Discover, Discovered, FeedSound, InFlight
  <2> QED BY <1>4, <2>3, <2>4, <2>5, FeedSteps DEF Discover
<1>5. CASE Subscribe(v)
  <2> DEFINE new == [feed[v] EXCEPT !.at = "live"]
  <2>1. /\ new \in Feed /\ new.at = "live" /\ new.who = feed[v].who
        /\ new.known = feed[v].known /\ new.lost = feed[v].lost /\ new.late = feed[v].late
    BY <1>1 DEF Feed
  <2>2. feed' = [feed EXCEPT ![v] = new]
    BY <1>1, <1>5 DEF Subscribe
  <2> HIDE DEF new
  <2>3. FeedSound(new)
    BY <1>1, <1>5, <2>1 DEF Subscribe, FeedSound
  <2> QED BY <1>5, <2>1, <2>2, <2>3, FeedSteps DEF Subscribe
<1>6. CASE Close(v)
  <2>1. FeedSound(ClosedFeed)
    BY <1>2 DEF FeedSound
  <2> QED BY <1>2, <1>6, <2>1, FeedSteps DEF Close
<1> QED BY <1>3, <1>4, <1>5, <1>6

\* The invariant holds before anything is ingested.
LEMMA InitInv == Init => IInv
<1> SUFFICES ASSUME Init PROVE IInv
  OBVIOUS
<1>1. Idle \in Request /\ ClosedFeed \in Feed
  BY IdleFacts DEF ClosedFeed, Feed
<1>2. TypeOK /\ Envelopes /\ KeysUnique
  BY <1>1 DEF Init, TypeOK, Envelopes, KeysUnique, Signal, Run, Readers
<1>3. RunInv /\ QueueInv /\ FirstInv
  BY IdleFacts DEF Init, RunInv, QueueInv, FirstInv, First
<1>4. RequestsSound
  BY IdleFacts DEF Init, RequestsSound, Sound
<1>5. FeedsSound
  BY DEF Init, FeedsSound, FeedSound, ClosedFeed
<1> QED BY <1>2, <1>3, <1>4, <1>5 DEF IInv

\* Every step keeps the invariant: one lemma for each action.
LEMMA StepInv == IInv /\ [Next]_vars => IInv'
<1> SUFFICES ASSUME IInv, [Next]_vars PROVE IInv'
  OBVIOUS
<1>1. ASSUME UNCHANGED <<signal, queue, run, work, req, feed>>, dispatcher' \in BOOLEAN
      PROVE  IInv'
  <2>1. Kept /\ NoneStarts
    BY <1>1 DEF Kept, NoneStarts
  <2> QED BY <1>1, <2>1, RequestsRemain, FeedsStay, SignalsStay, RunsStay
          DEF IInv, TypeOK, QueueInv
<1>2. CASE StartProducer \/ StopProducer
  BY <1>1, <1>2 DEF StartProducer, StopProducer
<1>3. CASE UNCHANGED vars
  BY <1>1, <1>3 DEF vars, IInv, TypeOK
<1>4. ASSUME NEW q \in Requests, Handle(q) PROVE IInv'
  BY <1>4, StepIngest, StepQuietEnds, StepEnqueue, StepCancelRun DEF Handle
<1>5. CASE Process
  BY <1>5, StepTakeSignal, StepStartRun, StepFinishRun DEF Process
<1>6. ASSUME NEW v \in Feeds, Discover(v) \/ Subscribe(v) \/ Close(v) PROVE IInv'
  <2>1. \E p : p \in Principals
    <3>1. [tenant |-> ChatOwner.tenant, user |-> ChatOwner.user, admin |-> TRUE] \in Principals
      BY ConstantsAssumption DEF Principals
    <3> QED BY <3>1
  <2> QED BY <1>6, <2>1, StepFeeds
<1>7. ASSUME NEW p \in Callers PROVE p \in Principals
  BY ConstantsAssumption
<1> QED BY <1>2, <1>3, <1>4, <1>5, <1>6, <1>7, StepDeliver, StepAskReplay, StepAskSignal,
           StepAskRun, StepFeeds DEF Next

\* The invariant holds in every reachable state.
LEMMA Invariant == Spec => []IInv
BY InitInv, StepInv, PTL DEF Spec

\* Types are right in every reachable state.
THEOREM TypeCorrect == Spec => []TypeOK
<1>1. IInv => TypeOK
  BY DEF IInv
<1> QED BY <1>1, Invariant, PTL

\* Two deliveries under one Idempotency-Key are answered with one signal.
THEOREM KeysMeanOneSignal == Spec => []SameKeySameSignal
<1>1. IInv => SameKeySameSignal
  <2> SUFFICES ASSUME IInv, NEW q \in Requests, NEW other \in Requests, q # other,
                      Accepted(q), Accepted(other), req[q].key # None, req[q].key = req[other].key
               PROVE  /\ req[q].sig = req[other].sig
                      /\ "deduplicated" \in {req[q].reply, req[other].reply}
    BY DEF SameKeySameSignal
  <2>1. /\ req[q].sig \in Signals /\ signal[req[q].sig].stored
        /\ signal[req[q].sig].env.key = req[q].key
    BY DEF Accepted, IInv, RequestsSound, Sound
  <2>2. /\ req[other].sig \in Signals /\ signal[req[other].sig].stored
        /\ signal[req[other].sig].env.key = req[q].key
    BY DEF Accepted, IInv, RequestsSound, Sound
  <2>3. req[q].sig = req[other].sig
    BY <2>1, <2>2 DEF IInv, KeysUnique
  <2>4. ~(First(req[q], req[q].sig) /\ First(req[other], req[q].sig))
    BY <2>1 DEF IInv, FirstInv
  <2> QED BY <2>3, <2>4 DEF Accepted, First
<1> QED BY <1>1, Invariant, PTL

\* Operators act in their own tenant, admins included, and a chat stream is its owner's
\* or an admin's and tells only of runs that are bound to the chat.
THEOREM OperatorsActAtHome == Spec => []OperatorsStayAtHome
<1>1. IInv => OperatorsStayAtHome
  <2> SUFFICES ASSUME IInv PROVE OperatorsStayAtHome
    OBVIOUS
  <2>1. ASSUME NEW q \in Requests, NEW s \in Signals, req[q].kind \in {"replay", "retry"},
               req[q].reply = "ok", req[q].sig = s
        PROVE  /\ req[q].who.tenant = signal[s].env.tenant
               /\ req[q].kind = "replay" => req[q].who.admin
    BY <2>1 DEF IInv, RequestsSound, Sound
  <2>2. \A r \in Runs : run[r].by # None => run[r].by = Source(r).tenant
    BY DEF IInv, RunInv
  <2>3. \A v \in Feeds : feed[v].at # "closed" =>
          /\ feed[v].who.tenant = ChatOwner.tenant
          /\ feed[v].who.user = ChatOwner.user \/ feed[v].who.admin
          /\ \A r \in feed[v].known : Source(r).bound
    BY DEF IInv, FeedsSound, FeedSound, Bound
  <2> QED BY <2>1, <2>2, <2>3 DEF OperatorsStayAtHome
<1> QED BY <1>1, Invariant, PTL

\* A live feed knows what runs, but for what started before it subscribed and what a
\* full listing or the channel lost.
THEOREM FeedsKnowTheirRuns == Spec => []LiveFeedKnowsItsRuns
<1>1. IInv => LiveFeedKnowsItsRuns
  BY DEF IInv, FeedsSound, FeedSound, LiveFeedKnowsItsRuns
<1> QED BY <1>1, Invariant, PTL

-----------------------------------------------------------------------------
(* Results are undone by stale cancels only. *)

\* A run that has succeeded or failed is changed only by a cancel that read it while
\* it was in flight (runs.py 108).
THEOREM ResultsStand == Spec => OnlyStaleCancelsUndoAResult
<1> DEFINE Undone(r) == run[r].status \in {"succeeded", "failed"} /\ run'[r] # run[r]
           Stale(r) == \E q \in Requests : /\ req[q].kind = "cancel" /\ req[q].run = r
                                           /\ req[q].read \in InFlight
                                           /\ req[q].at = "checked" /\ req'[q].at = "ended"
<1>1. IInv /\ [Next]_vars => [\A r \in Runs : Undone(r) => Stale(r)]_vars
  <2> SUFFICES ASSUME IInv, [Next]_vars, NEW r \in Runs, Undone(r) PROVE Stale(r)
    OBVIOUS
  <2>0. run \in [Runs -> Run] /\ req \in [Requests -> Request]
    BY DEF IInv, TypeOK
  <2>1. ASSUME NEW q \in Requests, CancelRun(q) PROVE Stale(r)
    <3>1. req[q].run = r /\ Cancels(req[q].read)
      BY <2>0, <2>1 DEF CancelRun
    <3>2. req'[q].at = "ended"
      <4>1. req'[q] = Closed("ok")
        BY <2>0, <2>1 DEF CancelRun, Becomes
      <4> QED BY <4>1, ClosedFacts
    <3> QED BY <2>1, <3>1, <3>2 DEF CancelRun, Cancels
  <2>2. ASSUME NEW s \in Signals, NEW x \in Runs, NEW readers \in Readers,
               TakeSignal(s, x, readers)
        PROVE  FALSE
    BY <2>0, <2>2 DEF TakeSignal
  <2>3. ASSUME NEW x \in Runs, NEW heard \in SUBSET Feeds, StartRun(x, heard) PROVE FALSE
    BY <2>0, <2>3 DEF StartRun
  <2>4. ASSUME NEW x \in Runs, NEW status \in {"succeeded", "failed", "pending"},
               FinishRun(x, status)
        PROVE  FALSE
    BY <2>0, <2>4 DEF FinishRun, IInv, RunInv
  <2>5. ASSUME NEW q \in Requests, Handle(q) PROVE CancelRun(q) \/ run' = run
    BY <2>5 DEF Handle, Ingest, LookAtRuns, Enqueue, Abandon
  <2>6. CASE run' # run
    BY <2>1, <2>2, <2>3, <2>4, <2>5, <2>6 DEF Next, StartProducer, StopProducer, Deliver, AskSignal,
       AskReplay, AskRun, Process, Open, Discover, Subscribe, Close, vars
  <2> QED BY <2>6
<1> QED BY <1>1, Invariant, PTL DEF Spec, OnlyStaleCancelsUndoAResult

-----------------------------------------------------------------------------
(* A reader is shown what they may see. *)

\* A reader below admin is shown what names them or has a run they may see, and is
\* refused that only when there are more runs than are listed (_visibility.py 112-141).
THEOREM ReadersAreServed == Spec => SignalsShownToTheirReaders
<1> DEFINE Served(q) ==
       LET s == req[q].sig  p == req[q].who IN
       (req[q].kind = "look" /\ req'[q].at = "ended") =>
         /\ req'[q].reply = "ok" => SeesARun(s, p) \/ AddressedTo(s, p)
         /\ req'[q].reply = "refused" => /\ ~SeesARun(s, p) \/ Cardinality(Existing) > ListLimit
                                         /\ ~AddressedTo(s, p)
<1>1. IInv /\ [Next]_vars => [\A q \in Requests : Served(q)]_vars
  <2> SUFFICES ASSUME IInv, [Next]_vars, NEW q \in Requests, req[q].kind = "look",
                      req'[q].at = "ended", vars' # vars
               PROVE  Served(q)
    BY DEF vars
  <2>0. req \in [Requests -> Request] /\ Sound(req[q]) /\ req[q].at = "checked"
    BY DEF IInv, TypeOK, RequestsSound, Sound
  <2>1. ASSUME NEW x \in Requests, NEW new, Becomes(x, new), x # q PROVE FALSE
    BY <2>0, <2>1 DEF Becomes
  <2>2. LookAtRuns(q) \/ Abandon(q)
    <3>1. req' # req
      BY <2>0
    <3>2. ASSUME NEW x \in Requests, Handle(x) PROVE x = q
      BY <2>1, <3>2 DEF Handle, Ingest, Store, Answered, LookAtRuns, Enqueue, CancelRun, Abandon
    <3>3. ASSUME NEW x \in Requests, req[x].at = "idle", NEW new, Becomes(x, new) PROVE FALSE
      BY <2>0, <2>1, <3>3
    <3>4. Handle(q)
      BY <3>1, <3>2, <3>3 DEF Next, Deliver, AskSignal, AskReplay, AskRun, StartProducer,
         StopProducer, Process, TakeSignal, StartRun, FinishRun, Open, Discover, Subscribe, Close,
         vars
    <3> QED BY <3>4 DEF Handle, Ingest, Enqueue, CancelRun
  <2>3. CASE Abandon(q)
    <3>1. req'[q].reply = "failed"
      BY <2>0, <2>3, ClosedFacts DEF Abandon, Becomes
    <3> QED BY <3>1
  <2>4. CASE LookAtRuns(q)
    <3>1. PICK listed \in Listings(Existing) :
            Becomes(q, Closed(IF SignalShown(req[q].sig, req[q].who, listed)
                              THEN "ok" ELSE "refused"))
      BY <2>4 DEF LookAtRuns
    <3> DEFINE shown == SignalShown(req[q].sig, req[q].who, listed)
    <3>2. req'[q].reply = IF shown THEN "ok" ELSE "refused"
      <4> HIDE DEF shown
      <4>1. req'[q] = Closed(IF shown THEN "ok" ELSE "refused")
        BY <2>0, <3>1 DEF Becomes, shown
      <4> QED BY <4>1, ClosedFacts
    <3>3. listed \subseteq Existing /\ Existing \subseteq Runs
      BY DEF Listings, Existing
    <3>4. shown => SeesARun(req[q].sig, req[q].who) \/ AddressedTo(req[q].sig, req[q].who)
      BY <3>3 DEF SignalShown, SeesARun
    <3>5. ~shown => ~AddressedTo(req[q].sig, req[q].who)
      BY DEF SignalShown
    <3>6. CASE listed = Existing
      <4>1. ~shown => ~SeesARun(req[q].sig, req[q].who)
        BY <3>6 DEF SignalShown, SeesARun, Existing, RunIsVisible
      <4> QED BY <3>2, <3>4, <3>5, <4>1
    <3>7. CASE listed # Existing
      <4>1. IsFiniteSet(Existing)
        BY <3>3, FS_Subset, ConstantsAssumption
      <4>2. Cardinality(listed) # Cardinality(Existing)
        BY <3>3, <3>7, <4>1, FS_Subset
      <4>3. Cardinality(listed) <= Cardinality(Existing)
        BY <3>3, <4>1, FS_Subset
      <4>4. Cardinality(Existing) > ListLimit
        <5>1. Cardinality(listed) \in Nat /\ Cardinality(Existing) \in Nat
          BY <3>3, <4>1, FS_Subset, FS_CardinalityType
        <5>2. Cardinality(listed) = IF Cardinality(Existing) < ListLimit
                                    THEN Cardinality(Existing) ELSE ListLimit
          BY DEF Listings
        <5> QED BY <4>2, <4>3, <5>1, <5>2, ConstantsAssumption
      <4> QED BY <3>2, <3>4, <3>5, <4>4
    <3> QED BY <3>6, <3>7
  <2> QED BY <2>2, <2>3, <2>4
<1> QED BY <1>1, Invariant, PTL DEF Spec, SignalsShownToTheirReaders

-----------------------------------------------------------------------------
(* A signal is queued once, and once more for each acknowledged request. *)

\* Sets of requests are counted by naturals.
LEMMA Counts ==
  ASSUME NEW s
  PROVE  IsFiniteSet(Asked(s)) /\ Cardinality(Asked(s)) \in Nat
<1>1. Asked(s) \subseteq Requests
  BY DEF Asked
<1> QED BY <1>1, FS_Subset, FS_CardinalityType, ConstantsAssumption

\* A request that is not over becomes one that asks for nothing.
LEMMA AskedStays ==
  ASSUME IInv, NEW q \in Requests, NEW new, Becomes(q, new), req[q].at # "ended",
         new.kind \notin {"replay", "retry"} \/ new.reply # "ok"
  PROVE  \A s : Asked(s)' = Asked(s)
<1>1. req'[q] = new /\ \A x \in Requests : x # q => req'[x] = req[x]
  BY DEF Becomes, IInv, TypeOK
<1>2. req[q].reply # "ok"
  BY NoneYet
<1> QED BY <1>1, <1>2 DEF Asked

\* What arrives asks for nothing yet, and what is over or cancels asks for nothing more.
LEMMA AskedOnlyByEnqueue ==
  ASSUME IInv, NEW q \in Requests,
         \/ \E w \in Webhooks : Deliver(q, w)
         \/ \E p \in Principals, s \in Signals : AskSignal(q, p, s) \/ AskReplay(q, p, s)
         \/ \E p \in Principals, r \in Runs, kind \in {"cancel", "retry"} : AskRun(q, kind, p, r)
         \/ Ingest(q) \/ LookAtRuns(q) \/ CancelRun(q) \/ Abandon(q)
  PROVE  \A s : Asked(s)' = Asked(s)
<1>1. req[q] \in Request
  BY DEF IInv, TypeOK
<1>2. req[q].at # "ended"
  BY DEF Deliver, AskSignal, AskReplay, AskRun, Ingest, LookAtRuns, CancelRun, Abandon
<1>3. \E new : Becomes(q, new) /\ (new.kind \notin {"replay", "retry"} \/ new.reply # "ok")
  <2>1. ASSUME NEW reply \in {"ok", "refused", "failed"}, Becomes(q, Closed(reply))
        PROVE  \E new : Becomes(q, new) /\ (new.kind \notin {"replay", "retry"} \/ new.reply # "ok")
    BY <2>1, ClosedFacts
  <2>2. ASSUME NEW w \in Webhooks, Deliver(q, w)
        PROVE  \E new : Becomes(q, new) /\ (new.kind \notin {"replay", "retry"} \/ new.reply # "ok")
    <3>1. [Idle EXCEPT !.kind = "ingest", !.at = "checked", !.key = w.header,
                       !.env = EnvelopeOf(w)].kind = "ingest"
      BY IdleFacts DEF Request
    <3> QED BY <2>1, <2>2, <3>1 DEF Deliver
  <2>3. ASSUME NEW p \in Principals, NEW s \in Signals, AskSignal(q, p, s) \/ AskReplay(q, p, s)
        PROVE  \E new : Becomes(q, new) /\ (new.kind \notin {"replay", "retry"} \/ new.reply # "ok")
    <3>1. [Idle EXCEPT !.kind = "look", !.at = "checked", !.who = p, !.sig = s].reply = "none"
      BY IdleFacts DEF Request
    <3>2. [Idle EXCEPT !.kind = "replay", !.at = "checked", !.who = p, !.sig = s].reply = "none"
      BY IdleFacts DEF Request
    <3> QED BY <2>1, <2>3, <3>1, <3>2 DEF AskSignal, AskReplay
  <2>4. ASSUME NEW p \in Principals, NEW r \in Runs, NEW kind \in {"cancel", "retry"},
               AskRun(q, kind, p, r)
        PROVE  \E new : Becomes(q, new) /\ (new.kind \notin {"replay", "retry"} \/ new.reply # "ok")
    <3>1. [Idle EXCEPT !.kind = kind, !.at = "checked", !.who = p, !.run = r,
                       !.read = run[r].status].reply = "none"
      BY IdleFacts DEF Request
    <3> QED BY <2>1, <2>4, <3>1 DEF AskRun
  <2>5. ASSUME Ingest(q)
        PROVE  \E new : Becomes(q, new) /\ (new.kind \notin {"replay", "retry"} \/ new.reply # "ok")
    <3>1. \A s, reply : [Idle EXCEPT !.kind = "ingest", !.at = "ended", !.key = req[q].key,
                                     !.sig = s, !.reply = reply].kind = "ingest"
      BY IdleFacts DEF Request
    <3> QED BY <2>1, <2>5, <3>1 DEF Ingest, Store, Answered
  <2>6. ASSUME CancelRun(q)
        PROVE  \E new : Becomes(q, new) /\ (new.kind \notin {"replay", "retry"} \/ new.reply # "ok")
    BY <2>1, <2>6 DEF CancelRun
  <2>7. ASSUME LookAtRuns(q) \/ Abandon(q)
        PROVE  \E new : Becomes(q, new) /\ (new.kind \notin {"replay", "retry"} \/ new.reply # "ok")
    BY <2>1, <2>7 DEF LookAtRuns, Abandon
  <2> QED BY <2>2, <2>3, <2>4, <2>5, <2>6, <2>7
<1> QED BY <1>2, <1>3, AskedStays

\* How often a signal was queued.
QueuedOnce(s) == queue[s] = IF signal[s].stored THEN 1 + Cardinality(Asked(s)) ELSE 0

LEMMA QueuedStep ==
  IInv /\ (\A s \in Signals : QueuedOnce(s)) /\ [Next]_vars => (\A s \in Signals : QueuedOnce(s))'
<1> SUFFICES ASSUME IInv, \A s \in Signals : QueuedOnce(s), [Next]_vars, NEW s \in Signals
             PROVE  queue'[s] = IF signal'[s].stored THEN 1 + Cardinality(Asked(s)') ELSE 0
  BY DEF QueuedOnce
<1>0. /\ queue[s] = IF signal[s].stored THEN 1 + Cardinality(Asked(s)) ELSE 0
      /\ queue \in [Signals -> Nat] /\ signal \in [Signals -> Signal]
      /\ req \in [Requests -> Request]
  BY DEF QueuedOnce, IInv, TypeOK
<1> DEFINE Balanced == queue'[s] = IF signal'[s].stored THEN 1 + Cardinality(Asked(s)') ELSE 0
<1>1. ASSUME queue'[s] = queue[s], signal'[s].stored = signal[s].stored, Asked(s)' = Asked(s)
      PROVE  Balanced
  BY <1>0, <1>1
<1>2. ASSUME NEW q \in Requests, UNCHANGED <<signal, queue>>,
             \/ \E w \in Webhooks : Deliver(q, w)
             \/ \E p \in Principals, x \in Signals : AskSignal(q, p, x) \/ AskReplay(q, p, x)
             \/ \E p \in Principals, r \in Runs, kind \in {"cancel", "retry"} :
                  AskRun(q, kind, p, r)
             \/ LookAtRuns(q) \/ CancelRun(q) \/ Abandon(q)
      PROVE  Balanced
  <2>1. Asked(s)' = Asked(s)
    BY <1>2, AskedOnlyByEnqueue
  <2> QED BY <1>1, <1>2, <2>1
<1>3. ASSUME NEW q \in Requests, Ingest(q) PROVE Balanced
  <2>1. Asked(s)' = Asked(s)
    BY <1>3, AskedOnlyByEnqueue
  <2>2. \/ UNCHANGED <<signal, queue>>
        \/ \E x \in Signals : \E env :
             /\ ~signal[x].stored
             /\ signal' = [signal EXCEPT ![x] = [stored |-> TRUE, env |-> env]]
             /\ queue' = [queue EXCEPT ![x] = @ + 1]
    BY <1>3 DEF Ingest, Store
  <2>3. CASE UNCHANGED <<signal, queue>>
    BY <1>1, <2>1, <2>3
  <2>4. ASSUME NEW x \in Signals, NEW env, ~signal[x].stored,
               signal' = [signal EXCEPT ![x] = [stored |-> TRUE, env |-> env]],
               queue' = [queue EXCEPT ![x] = @ + 1]
        PROVE  Balanced
    <3>1. CASE x = s
      <4>1. Asked(s) = {}
        <5>1. ASSUME NEW q2 \in Asked(s) PROVE FALSE
          BY <2>4, <3>1, <5>1 DEF Asked, IInv, RequestsSound, Sound
        <5> QED BY <5>1
      <4>2. Cardinality(Asked(s)) = 0
        BY <4>1, FS_EmptySet
      <4>3. queue'[s] = 1 /\ signal'[s].stored
        BY <1>0, <2>4, <3>1
      <4> QED BY <2>1, <4>2, <4>3
    <3>2. CASE x # s
      <4>1. queue'[s] = queue[s] /\ signal'[s] = signal[s]
        BY <1>0, <2>4, <3>2
      <4> QED BY <1>1, <2>1, <4>1
    <3> QED BY <3>1, <3>2
  <2> QED BY <2>2, <2>3, <2>4
<1>4. ASSUME NEW q \in Requests, Enqueue(q) PROVE Balanced
  <2> DEFINE x == IF req[q].kind = "replay" THEN req[q].sig ELSE run[req[q].run].sig
             new == [req[q] EXCEPT !.at = "ended", !.sig = x, !.run = None, !.read = None,
                                   !.reply = "ok"]
  <2>1. /\ req[q].kind \in {"replay", "retry"} /\ req[q].at = "checked"
        /\ queue' = [queue EXCEPT ![x] = @ + 1] /\ Becomes(q, new)
        /\ signal' = signal
    BY <1>4 DEF Enqueue
  <2>2. req[q] \in Request /\ Sound(req[q])
    BY DEF IInv, TypeOK, RequestsSound
  <2>3. x \in Signals /\ signal[x].stored
    <3>1. CASE req[q].kind = "replay"
      BY <2>2, <3>1 DEF Sound
    <3>2. CASE req[q].kind = "retry"
      BY <2>1, <2>2, <3>2 DEF Sound, IInv, RunInv
    <3> QED BY <2>1, <3>1, <3>2
  <2> HIDE DEF x
  <2>4. new.kind \in {"replay", "retry"} /\ new.sig = x /\ new.reply = "ok"
    BY <2>1, <2>2 DEF Request
  <2> HIDE DEF new
  <2>5. req'[q] = new /\ \A y \in Requests : y # q => req'[y] = req[y]
    BY <1>0, <2>1 DEF Becomes
  <2>6. q \notin Asked(s)
    BY <2>1, <2>2 DEF Sound, Asked
  <2>7. CASE x = s
    <3>1. Asked(s)' = Asked(s) \cup {q}
      BY <2>4, <2>5, <2>7 DEF Asked
    <3>2. Cardinality(Asked(s)') = Cardinality(Asked(s)) + 1
      BY <2>6, <3>1, Counts, FS_AddElement
    <3>3. queue'[s] = queue[s] + 1
      BY <1>0, <2>1, <2>7
    <3> QED BY <1>0, <2>1, <2>3, <2>7, <3>2, <3>3, Counts
  <2>8. CASE x # s
    <3>1. Asked(s)' = Asked(s)
      BY <2>4, <2>5, <2>6, <2>8 DEF Asked
    <3>2. queue'[s] = queue[s]
      BY <1>0, <2>1, <2>8
    <3> QED BY <1>1, <2>1, <3>1, <3>2
  <2> QED BY <2>7, <2>8
<1>5. ASSUME UNCHANGED <<signal, queue, req>> PROVE Balanced
  <2>1. Asked(s)' = Asked(s)
    BY <1>5 DEF Asked
  <2> QED BY <1>1, <1>5, <2>1
<1>6. CASE Process
  BY <1>5, <1>6 DEF Process, TakeSignal, StartRun, FinishRun
<1>7. CASE \E v \in Feeds : \/ \E p \in Callers : Open(v, p)
                          \/ Discover(v) \/ Subscribe(v) \/ Close(v)
  BY <1>5, <1>7 DEF Open, Discover, Subscribe, Close
<1>8. CASE StartProducer \/ StopProducer \/ UNCHANGED vars
  BY <1>5, <1>8 DEF StartProducer, StopProducer, vars
<1>9. ASSUME NEW q \in Requests, Handle(q) PROVE Balanced
  <2>1. CASE LookAtRuns(q) \/ CancelRun(q) \/ Abandon(q)
    BY <1>2, <2>1 DEF LookAtRuns, CancelRun, Abandon
  <2> QED BY <1>3, <1>4, <1>9, <2>1 DEF Handle
<1>10. ASSUME NEW q \in Requests, NEW w \in Webhooks, Deliver(q, w) PROVE Balanced
  BY <1>2, <1>10 DEF Deliver
<1>11. ASSUME NEW q \in Requests, NEW p \in Callers, NEW x \in Signals,
              AskSignal(q, p, x) \/ AskReplay(q, p, x)
       PROVE  Balanced
  <2>1. p \in Principals /\ UNCHANGED <<signal, queue>>
    BY <1>11, ConstantsAssumption DEF AskSignal, AskReplay
  <2> QED BY <1>2, <1>11, <2>1
<1>12. ASSUME NEW q \in Requests, NEW p \in Callers, NEW r \in Runs,
              NEW kind \in {"cancel", "retry"}, AskRun(q, kind, p, r)
       PROVE  Balanced
  <2>1. p \in Principals /\ UNCHANGED <<signal, queue>>
    BY <1>12, ConstantsAssumption DEF AskRun
  <2> QED BY <1>2, <1>12, <2>1
<1> QED BY <1>6, <1>7, <1>8, <1>9, <1>10, <1>11, <1>12 DEF Next

\* However deliveries, replays and retries overlap, a signal is stored by an acknowledged
\* delivery and queued as often as it was acknowledged.
THEOREM QueuedIsAcknowledged == Spec => []QueuedAsAcknowledged
<1>1. Init => \A s \in Signals : QueuedOnce(s)
  BY DEF Init, QueuedOnce
<1>2. IInv /\ (\A s \in Signals : QueuedOnce(s)) => QueuedAsAcknowledged
  BY DEF IInv, FirstInv, First, QueuedOnce, QueuedAsAcknowledged
<1> QED BY <1>1, <1>2, QueuedStep, Invariant, PTL DEF Spec

=============================================================================
