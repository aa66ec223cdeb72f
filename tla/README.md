# orchid-api in TLA+

TLA+ models of `orchid_api`, the FastAPI service in front of the `orchid_ai`
agent framework: what its handlers do at each `await`, how concurrent requests
meet in shared state, and what goes wrong or must not when a step fails, a client
leaves or a message comes twice. TLC checks the models on small instances; TLAPS
proves for every instance each safety property the passing runs check, and that the
chat handlers implement an abstract conversation.

Paths below are relative to `src/orchid_api/`. `PROJECT.json` lists components,
runs, mutants, hazards, theorems, and for each definition the lines it models.

## 1. The system

One process, one asyncio event loop. Every endpoint is a coroutine: it runs
undisturbed up to an `await` and any other coroutine may run there. State lives in
stores behind `orchid_ai` interfaces (chat storage, checkpointer, token,
registration and signal stores, job store, queue), in a few in-process objects
(`app_ctx`, rate-limit buckets, stream buffers, the reload middleware), and in the
events runtime, whose processor works by itself in the same process.

| Component | State it keeps | Operations | What is hard | What makes it correct |
|---|---|---|---|---|
| Chat turns: `routers/messages.py`, `_helpers.py`, `resume.py`, `chats.py` | chat rows, messages, title; the checkpointer's thread and pause | create, send, stream, resume, delete | overlapping turns, a delete under a running turn, a failure or cancellation between two rows, a pause for approval | an answer follows its question, nothing stored twice, a stored answer is honest, a send's 200 means a stored turn unless its run failed, only owners write |
| Streaming: `routers/_streaming.py`, `streaming.py`, `_stream_buffer.py` | token buffer, seen agents and handoffs, parts | the loop over the graph's messages, flush, timeout, stop, persist | a chunk is a handoff or a token depending on what comes next; echoes of the assembled text; timeout and stop at any point | the client gets the answer exactly once, statuses once, and what is stored is what was shown |
| Rate limit: `rate_limit.py` | one bucket per key and limiter, in LRU order | acquire | fractional refill, rounding, eviction | the rate holds over every span; a `Retry-After` suffices |
| Events: `events/producers/http.py`, `routers/signals.py`, `runs.py`, `chat_events.py`, `_visibility.py` | signals, queue, runs, subscriptions | ingest, replay, cancel, retry, watch | redelivered webhooks, cancel against the processor, discovery against subscription, events that get lost, roles, tenants and claims | one signal per key, queued once per acknowledgement, no operator acts across tenants, readers see what names them |
| MCP OAuth: `routers/_mcp_auth/` | pending states, client registrations, tokens | authorize, callback, discover, revoke | repeated redirects, rows replaced between the two halves of a flow, a provider or a warm-up that does not answer | one exchange per state, tokens go to who authorized them, no success page without a token |
| Lifecycle: `lifecycle.py`, `context.py`, `main.py`, `middleware.py` | `app_ctx`, `_last_check` | setup, teardown, reload check | any step may raise; requests arrive during a reload | dependencies outlive users, teardown releases everything, reloads are spaced |
| Documents: `routers/messages.py`, `_helpers.py`, `sharing.py`, `chats.py` | vectors, system rows, shared flag | upload, attach to a message, share, delete | one of several files or namespaces fails, half an ingestion, a share while others write | every file accounted for and truly reported, no document changes hands, the prompt knows what the retriever finds unless it is blank, a failed promotion keeps no other back |
| Schedules: `routers/schedules.py` | schedule rows, the cadence each producer runs | patch | read, then write of the whole row; a refresh that raises | one cadence, a patch changes what it names, producers run what is stored or are owed a refresh |
| Session warm-up: `auth.py`, `routers/session.py` | none of its own | resolve caller, warm | idempotency is the external warmer's | - |
| Gateway state: `routers/mcp_gateway_state.py` | none of its own | put, patch, consume, issue, revoke | atomicity is the external store's | - |

Components that interact: `_streaming.py` drives the buffer and ends in the same
chat rows as `messages.py`; a message may carry files, which are indexed before its
graph runs and found by its retriever; the rate limiter stands before both; the
events processor attaches runs to chats, which `chat_events.py` shows, and so decides
who is shown a signal; a patch of a schedule is refreshed into the producers; the
OAuth callback warms the session; `lifecycle.py` starts and stops all of it.

## 2. Modules

| Module | Models | State and code |
|---|---|---|
| `Conversation` | abstract: what the chat endpoints promise | `log`: the messages of a chat; `phase`, `home`: what a request may still add, and to which chat |
| `ChatTurns` | the conversation under concurrent requests | `chat`, `rows`: chat storage; `thread`, `paused`: the checkpointer; `req[r]`: the local state of the handler of request `r`, whose `at` is the await it stands at. One action per await. Implements `Conversation` (`KeepsItsPromise`) |
| `ChatTurnsProofs` | theorems about `ChatTurns`, and that it implements `Conversation` | - |
| `ChatDocuments` | uploads, files attached to a message, sharing, deleting | `reader`: what the configured vector store can do; `chat`, `notes`: chat storage with its system messages; `vectors`: the vector store; `req[r]`: the handler, with the file or namespace in hand and those to come |
| `ChatDocumentsProofs` | theorems about `ChatDocuments` | - |
| `TokenStream`, `TokenStreamProofs` | one SSE response | `chunks`, `emitted`, `handoffs`: the fields of `SupervisorTokenBuffer`; `seen`, `results`, `final`, `parts`: the locals of `stream_supervisor_tokens`; `frames`: what was yielded |
| `RateLimit`, `RateLimitProofs` | `TokenBucketLimiter` and `_enforce` | `lru`, `bucket`: `_buckets`, whose order `Touched` changes as `move_to_end` and `popitem` do; tokens counted in units of 1/period, so that no fractions arise |
| `EventRuns`, `EventRunsProofs` | webhooks, operators, processor, chat event stream, visibility | `dispatcher`: whether the producer has one; `signal`, `run`: two stores; `queue`: how often a signal was put on the queue; `work`: runs the processor holds; `req`, `feed`: handlers |
| `McpAuth`, `McpAuthProofs` | a user's authorization of an MCP server | `pending`: the state store; `registration`, `token`: the other two stores; `flow`, `callback`: the two handlers; `spent`: what the IdP remembers |
| `Schedules`, `SchedulesProofs` | one schedule under concurrent patches | `row`: the stored record; `live`: the cadence each producer runs; `req[p]`: the handler of patch `p`, with the row it has read |
| `AppLifecycle`, `AppLifecycleProofs` | startup, shutdown, hot reload | `open`: the fields of `app_ctx` that hold something; `phase`, `step`: the await of setup or teardown; `lastCheck`: the middleware's stamp |

`MC*` modules hold the constants TLC cannot read from a `.cfg`, and symmetry sets.
Operators introduced as "a plausible slip" are used nowhere in the
specifications: each is a mistake a change of the code could make, and the mutant
list says which property notices it.

What is external is in each module's header. An external store's call is one
atomic step and may raise; the graph, the identity provider, the processor and
the clients do anything their interface allows, in any order.

Abstractions worth knowing:

- A message is the request that wrote it; `Row.cut` stands for
  `metadata.cancelled`. Text exists only in `TokenStream`, where it is compared.
- `ChatTurns` lets a stream's graph run finish, fail, be interrupted or time out as
  a whole; `TokenStream` opens it up. The two meet in one fact: a stream that is
  stopped while its graph runs has no token to store (`FramesFollowTheRun`), which
  is why `Abandon` leaves no row.
- `ChatDocuments` and `ChatTurns` share the chat and its owner. What one adds, system
  rows and vectors, is not read by the other, with one exception kept out of both: a
  system row counts as history when a turn decides whether it is the first.
- An ingestion stores all chunks of a file, or some of them and raises; which ones is
  not told apart (`whole`).
- A file is a named part of a request; of its content only two things are kept, whether
  its extracted text is blank (`BlankFiles`) and whether all its chunks are stored.
- `ListLimit` stands for the 200 runs that `_visibility.py` lists before it judges a
  signal and `chat_events.py` before it subscribes. Which rows a full listing has is the
  store's choice.
- The processor of `EventRuns` may make no run of a queued signal, or one for each
  trigger and attempt, at any time; a run's readers are its own (`readers`: nobody but
  admins, all of the tenant, or one user), whoever the signal's user is. A published
  event reaches any subset of the live streams (`Published`): a slow consumer's buffer
  drops events and a failed publish is swallowed.
- `HistoryLimit` stands for the 50 messages that are loaded as history. Which end of a
  longer chat `get_messages` returns is the store's choice, and either is allowed.
- `AppLifecycle` keeps of a resource whether `app_ctx` holds it.
- `queue` counts the messages ever put for a signal: that a message is taken, or taken
  again after a lease has run out, does not change it.
- Histories that no action reads as a guard: `answered` in `ChatTurns`; `origin`,
  `before` and `raised` in `ChatDocuments`; `said` in `TokenStream`; `admitted` and
  `promise` in `RateLimit`; `late` and `lost` in `EventRuns`; `sent`, `saved` and
  `warmed` in `McpAuth`; `raised` in `Schedules`; `reloaded`, `tooSoon` and `skipped` in
  `AppLifecycle`.

## 3. Runs

Passing runs:

| Run | Instance | Shows |
|---|---|---|
| `chat_concurrency` | 3 requests of any of the four kinds, 1 chat, checkpointer | What overlap, failures, cancellations, interrupts and deletes cannot do: `AnswerFollowsItsQuestion`, `AnswersAreHonest`, `PausedTurnLeavesNoRow`, `AckedSendIsStored`, `TitleIsFromAnOpeningTurn`, `NoTurnSentTwice`; and `KeepsItsPromise`, that `ChatTurns` implements `Conversation` |
| `chat_tenants` | 2 requests, 2 chats, 2 tenants with 2 users, no checkpointer, fairness | `ContextKeepsAnsweredTurns`: without a checkpointer the history carries every answered turn, if the chat fits one page; `OnlyTheOwnerWrites`; `StreamEnds`, though the graph may never answer |
| `chat_documents` | 2 requests of any of the four kinds, 2 chats, 1 tenant with 2 users, 2 files of which one is blank, 2 namespaces | Uploads, attachments, shares and deletes over stores that only read, write or also promote, with every ingestion, system row and promotion failing where it can: `DataStaysWithItsOwner`, `ReportsAreTrue`, `EveryFileIsAccountedFor`, `AttachedIsPrompted`, `SharePromotes` |
| `token_stream` | 4 graph messages, 2 agents, 7 texts | Every order of handoffs, chunks, echoes and agent messages with a timeout, an error or a stop anywhere: `FramesFollowTheRun` (no token before the graph has ended, handoffs and statuses once, tokens after an agent or alone), `TokensAreNotHandoffs`, `StoredIsWhatWasShown` (the done frame last and true too), `AnswerIsShownOnce` |
| `rate_limit` | 3 keys on 2 buckets, 2 calls per 3 s, 5 s | `RateIsKept` over every span of a bucket's life, `RetryAfterSuffices`, `LeastRecentlyUsedGoes` |
| `event_runs` | 2 signals, 2 runs, 2 requests, 1 chat stream, 2 tenants, 2 users, 4 callers, 4 webhooks, listings of 1 run | Redelivery, replay, retry, cancel, look and discovery against a processor and a channel that may do anything: `SameKeySameSignal`, `QueuedAsAcknowledged`, `OperatorsStayAtHome`, `LiveFeedKnowsItsRuns`, `OnlyStaleCancelsUndoAResult`, `SignalsShownToTheirReaders` |
| `mcp_auth` | 2 flows, 2 callbacks, 2 users, 2 servers, 2 registrations, fairness | Overlapping authorizations, repeated redirects, expiry, a replaced registration: `StateOpensOneExchange`, `TokensGoToTheirAuthorizer`, `NoSuccessWithoutToken`; `CallbackSettles`: a callback ends, or waits for the warm-up with its token stored |
| `schedules` | 2 patches, 2 producers, one cron, one interval, 1 firing | `OneCadence`, `ProducersFollow`, `PatchesOnlyWhatItNames`, with stores and refreshes that raise and clients that leave |
| `app_lifecycle` | 2 lives, 2 requests at a time, 3 reload intervals | Every step of setup and teardown may raise; reloads under concurrent requests: `EventsRunOnOpenResources`, `TornDownIsEmpty`, `ReloadsAreSpaced` |

The bounds: three requests are the fewest in which two turns and a delete (or a
pause, its resume and a new turn) overlap on one chat; two of everything else make
the pairs (two tenants, two flows of one server, two redirects of one flow, a
signal and its redelivery, an upload and a share, two patches) that the properties
relate. Two files and two namespaces are the fewest in which one fails and another
must not suffer from it. With one run listed of two, a signal's visibility is judged
both by a listed run and by one that is left out, and a discovery is cut short. The four
webhooks are one `Idempotency-Key` with two bodies, claims that name the signal's user
or one of their own, and a service account of the other tenant that names the chat; the
four callers are the chat's owner, another user and an admin of the tenant, and an admin
of the other tenant with the owner's user id. With a page of two messages
the third turn of `chat_concurrency` loads a part of its history. Three keys on two buckets
are the fewest that evict. Four graph messages cover a handoff, a chunk, its
assembled echo and an agent message in one response. `MaxEvents`, `MaxTime`,
`MaxCalls`, `MaxClients`, `MaxFires` and `MaxLives` bound counters the code does not
bound. The rate is checked at 2 calls per 3 seconds, where refills do not divide
evenly, and the two-character deduplication key stands for the code's 100. What is
proved (section 5) needs none of these bounds.

Runs that find a violation of what the repository says of itself:

| Run | The code says | TLC finds |
|---|---|---|
| `stream_stop` | "user-initiated stops (where content was generated) persist the partial response" (`routers/_streaming.py:57`) | The parts are filled only after the graph has ended, so a stop during generation stores nothing: the branch at line 188 cannot be taken |
| `event_feed_gap` | "This guarantees that a user reconnecting mid-Bloom sees the same attached event" (`routers/chat_events.py:22`) | A run that starts between the query and the subscription is neither listed nor forwarded |
| `reload_never` | "resolved lazily at each dispatch" (`main.py:156`) | The reference is evaluated at import, when it is `None`: the middleware never checks |

Observations without a run:

- The question of a turn that pauses for approval is not stored, and `resume_chat`
  stores only the answer: the history shows an answer without its question.
- The error path of send answers 200 with an error text in a `ChatResponse`
  (`routers/messages.py:210`), whether it could store the question or not: the client
  tells it from an answer by the text only. `AckedSendIsStored` says what the 200 means
  in both cases. If the question is stored, the chat is not titled and the next turn no
  longer counts as the first. The stream's error path does title.
- Without a checkpointer the graph is not told what does not fit the 50 messages that
  are loaded (`routers/_helpers.py:189`); `ContextKeepsAnsweredTurns` ends there.
- Two overlapping first turns both title the chat; the later one wins.
- An upload whose system row cannot be stored reports the file twice, as indexed and
  as failed (`routers/messages.py:351`), each result with one of the two fields that
  `UploadFileResult` calls exclusive (`models.py:84`).
- An attached file with a blank text is indexed without joining the prompt
  (`routers/_helpers.py:159`); it is the one exception in `AttachedIsPrompted`.
- Two resumes of one pause both run the graph, and both may store an answer; nothing in
  `routers/resume.py` keeps them apart.
- Deleting a chat leaves its vectors, also those a share has promoted to user scope.
- A file uploaded while a share is going through the namespaces may miss the
  promotion, and the chat is marked shared even if every namespace failed.
- A body that names a cron and an interval keeps both, next to a comment on their
  exclusivity (`routers/schedules.py:79`). The last of two overlapping patches takes
  the other's fields back, and a firing's `last_fire_at` with them. A patch that is
  given up after its upsert leaves the producers on the old cadence.
- `cancel_run` writes back the row it has read (`routers/runs.py:118`): a run that
  succeeds in between becomes cancelled and loses its result. `EventRuns` has it so,
  and `OnlyStaleCancelsUndoAResult` says that nothing else undoes a result.
- A signal's visibility falls back to its claim also when it has runs, listed or not, of
  which none is visible to the caller (`routers/_visibility.py:127-139`), where the
  docstring speaks of signals without runs. The claim's user and the user a run is shown
  to need not be the same, so `SignalsShownToTheirReaders` names both.
- A run is bound to a chat by its signal's `chat_binding` alone: the discovery query does
  not compare tenants (`routers/chat_events.py:82`), so a chat's stream may tell of a run
  whose signal is another tenant's. The properties claim nothing to the contrary.
- A live stream can miss a run because the discovery query stops at 200 rows
  (`routers/chat_events.py:85`), because a slow consumer's oldest event is dropped, or
  because a publish failed. `LiveFeedKnowsItsRuns` excepts exactly these and the gap of
  `event_feed_gap`.
- The OAuth callback awaits the warm-up of the session with no timeout
  (`routers/_mcp_auth/callback.py:128`): while the MCP server does not answer, the
  success page does not come, although the token is stored.
- Each `rate_limit(...)` call builds a limiter of its own (`rate_limit.py:107`), so
  equal limit names do not share buckets as the module's docstring says (line 11).
- A token that repeats the previous one exactly, or the beginning of what is
  buffered, is taken for an echo and dropped (`_stream_buffer.py:127`).
  `AnswerIsShownOnce` only catches a duplicate test that is too narrow.
- The timeout frame speaks of what there is so far, and there is nothing: the
  buffer is not flushed on that path (`_streaming.py:236`).
- A key that is evicted and returns starts with a full bucket.

## 4. Fairness

Only in `chat_tenants` and `mcp_auth`. Weak fairness of `Proceed(r)` (a handler's
own steps once what it awaits has come back): the event loop runs every ready
coroutine, a storage call answers or raises, `asyncio.timeout` ends a stream's graph
run (`_streaming.py:92`), and the HTTP client of the token exchange gives up on a
provider that is silent for 15 seconds (`_mcp_auth/_helpers.py:139`; an answer that
trickles in for ever is left out). Nothing is assumed of the graph, of clients, of
users, of what the identity provider answers, or of the session warmer, which dials an
MCP server and is awaited without a timeout: `Warm` is not a fair action, and
`CallbackSettles` promises the stored token, not the page. Send and resume await the
graph without a timeout, so nothing is claimed of their end.

## 5. Proofs

Each module's theorems hold for every value of its constants that its `ASSUME` allows,
and assume nothing else. What the assumptions ask is that `None` is none of the ids,
that bounds are natural numbers, that rate, period, page and deduplication key are at
least one, that texts are sequences of characters, that blank files are files, and that
the runs and requests of `EventRuns` are finite: its proof counts requests, and a
listing counts runs.

| Theorem | States, for every instance |
|---|---|
| `ChatTurnsProofs!TypeCorrect` | `TypeOK`; a handler stands only at awaits of its own endpoint |
| `HandlersSafe`, `AnswersSafe` | the two inductive invariants, `HandlerInv` and `AnswerInv` |
| `AnswersFollowQuestions`, `NoRowTwice`, `StoredAnswersAreHonest`, `InterruptsLeaveNoRow`, `OwnersWrite` | `AnswerFollowsItsQuestion`, `OneRowPerRole`, `AnswersAreHonest`, `PausedTurnLeavesNoRow`, `OnlyTheOwnerWrites` |
| `AckedSendsAreStored`, `TitlesAreFromOpeningTurns`, `TurnsAreSentOnce`, `ContextIsComplete` | `AckedSendIsStored`, `TitleIsFromAnOpeningTurn`, `NoTurnSentTwice`, `ContextKeepsAnsweredTurns` |
| `ImplementsConversation` | `Spec => KeepsItsPromise` |
| `ChatDocumentsProofs!TypeCorrect`, `DocumentsKeepTheirOwner`, `UploadsReportTheTruth`, `IndexedIsPrompted`, `SharesReachEveryNamespace`, `UploadsAccountForTheirFiles` | `TypeOK`, `DataStaysWithItsOwner`, `ReportsAreTrue`, `AttachedIsPrompted`, `SharePromotes`, `EveryFileIsAccountedFor` |
| `EventRunsProofs!TypeCorrect`, `KeysMeanOneSignal`, `QueuedIsAcknowledged`, `OperatorsActAtHome`, `FeedsKnowTheirRuns`, `ResultsStand`, `ReadersAreServed` | `TypeOK`, `SameKeySameSignal`, `QueuedAsAcknowledged`, `OperatorsStayAtHome`, `LiveFeedKnowsItsRuns`, `OnlyStaleCancelsUndoAResult`, `SignalsShownToTheirReaders` |
| `McpAuthProofs!TypeCorrect`, `StatesAreSpentOnce`, `TokensFindTheirUser`, `SuccessIsStored` | `TypeOK`, `StateOpensOneExchange`, `TokensGoToTheirAuthorizer`, `NoSuccessWithoutToken` |
| `TokenStreamProofs!TypeCorrect`, `FramesInOrder`, `HandoffsStayHandoffs`, `WhatIsStoredWasShown`, `AnswerOnce` | `TypeOK`, `FramesFollowTheRun`, `TokensAreNotHandoffs`, `StoredIsWhatWasShown`, `AnswerIsShownOnce` |
| `RateLimitProofs!TypeCorrect`, `RateHolds`, `WaitingSuffices`, `OldestGoes` | `TypeOK`, `RateIsKept`, `RetryAfterSuffices`, `LeastRecentlyUsedGoes` |
| `SchedulesProofs!TypeCorrect`, `ProducersAreRefreshed`, `PatchesChangeWhatTheyName`, `CadenceIsExclusive` | `TypeOK`, `ProducersFollow`, `PatchesOnlyWhatItNames`, `OneCadence` |
| `AppLifecycleProofs!ResourcesSafe`, `EventsLast`, `TeardownReleases`, `ReloadsSpaced` | `ResourceInv`, `EventsRunOnOpenResources`, `TornDownIsEmpty`, `ReloadsAreSpaced` |

Hardly any of the properties is inductive: each speaks of what the stores hold, and
what the next step stores is decided by what a handler has read some awaits before.
The invariants therefore say of each handler, at each await, what it knows and what
it has left behind, and of the stores, what never changes under a waiting handler.

**Chat.** `HandlerInv` bounds what is stored by the position of its writer.
`RowsBehindHandlers`: a row's writer has passed the await that stores it, was not
answered with an interrupt, and belongs to the chat and its owner, so the row about
to be stored cannot be there already. `OutcomeKnown`: which outcomes the graph run
can have had at each await, so an answer is stored only by a run that has one.
`QuestionFirst`: a handler about to store its answer has its question in the chat,
unless the chat was deleted. `AdmittedByOwner` and `LiveChatsAreOwned`: owners never
change, so a handler that passed the check keeps naming a chat of its principal.
The step lemma has one case per action; actions that store nothing go through
`QuietStep` and `MovingOn`, the two that append a row through `StoringStep`.
`AnswerInv` is the converse, that what a handler has passed is really there:
at the title the turn is stored (`StoredBeforeTitle`, `StoredOnceAcked`), a turn that
found no history arrived before any answer (`FreshIsFirst`), and a turn past its run
is in the thread, or in what others load (`ThreadHasRun`, `HistoryIsGiven`). All of
it says "unless the chat was deleted", which is where a delete under a running turn
is accounted for. The failed runs need one fact more, `ErrorsAreTheRuns`: a send says
"error" only at its end and only after a failed run, so with `AnswersAreHonest` the 200
of such a send comes with no answer.

**Refinement.** `ImplementsConversation` maps the stored rows to the log and each
handler's await to what it may still add (`PhaseOf`): the question and the answer
before the user row, the answer before the assistant row, nothing from the title on.
One step per action: an abstract step, or a stutter. Only types are needed of the
state.

**Documents.** `IInv` has one part for chats (`ChatsOwned`), one for handlers
(`HandlersSound`), and one for each property: `DataInv`, `AttachInv`, `ReportInv`
(what is about to be reported is already whole), `ShareInv` (what a share had to
promote is still to come, promoted, or has raised). Every step past the arrival
satisfies one predicate, `Step`: owners stay, the store only grows, and only by
points of the handler's own chat and principal. That one predicate preserves all
parts, so the parts and the actions are proved apart. `AccountInv` is a second
invariant: at each point a file is waiting, indexed and about to be noted, or settled
one way (`Balanced`).

**Events.** A stored signal never changes and a run keeps its signal (`Kept`), so
what a handler has read of either stays true however it is overtaken (`Sound`).
An accepted delivery names a stored signal of its own key, and no two stored signals
share one (`KeysUnique`); together with `FirstInv`, that no two deliveries were told a
signal is new, this gives `SameKeySameSignal`: what the code adds to the external index
is that the key which reaches it is the header's, whatever the body says.
`QueuedIsAcknowledged` counts: `QueuedOnce` says that a stored signal has been queued
once, for the delivery that stored it, and once for each acknowledged replay and retry
(`Asked`). Only `Store` and `Enqueue` change either side, and they change both; a request
that was acknowledged stays so. `FeedSound` says of each listed or live stream which
running runs of the chat it knows, lost or missed.

**OAuth.** The invariant follows a state from the store to the callback that took it
out: while it is pending no exchange was sent and no callback is past its pop, and no
two callbacks hold it (`Apart`).

**Streaming.** `IInv` of `TokenStreamProofs` has five parts. `Follows` relates the
frames to the sets of the loop: what was told as a handoff is in `handoffs`, who was
announced is in `seen`, who was reported done is in `results`, so a frame that is
about to go out again is skipped. `SourceInv`: the key of every handoff told is in
`emitted`, which no chunk in the buffer is (`BufferInv`), so a token cannot be a
handoff unless it is the fallback. `ShownInv` places the tokens, `parts`, at the end of
the frames, and the done frame behind them. `BufferInv` is the heart of
`AnswerOnce`: as long as no increment looked like an echo, what has been shown followed
by what is buffered is the text the graph streamed, so the assembled message is a
prefix of what is buffered, `would_duplicate` keeps it out, and the flush moves texts
from the buffer to the parts without changing what they are together.
`FlattenAppend`, which says what `"".join` does with one more chunk, needs an
induction. The library's induction theorems take an operator as a parameter, which the
provers cannot instantiate; `WFMin`, that a well-founded relation has a minimal
element in every set, takes none. `LeastNumber` is its instance for the numbers, and
the proofs by induction look at the least counterexample.

**Rate.** `LimitInv` says that every admission is paid for (`PaidFor`): the admissions
from any one on, plus the tokens left, never exceed a full bucket plus the refill
since. So the next admission, which takes a token that is there, keeps every span that
ends with it within the rate. The Retry-After
is exactly when the bucket has refilled to one token (`KeepsPromise`), by the
definition of the rounded quotient, whatever the period. `OrderInv`: the keys of a
limiter are distinct, no more than the cap, and in the order of their last use; a use
keeps the order of the others (`TouchedKeeps`), so what is cut off at the front is what
was unused for longest.

**Schedules.** `OneInv` extends the property from the row to every copy of it that a
waiting patch has read.

**Lifecycle.** `ResourceInv`: the step at which setup or teardown stands bounds from
both sides what is held. Neither property is inductive by itself, because a teardown
that had reached the framework with the events runtime still open would break it with
the next step. `StampInv`: the stamp the middleware compares with is the time of the
last reload, because dispatch sets both before its first await. Nothing is assumed
about where the reference comes from.

Only model-checked: liveness, that is `StreamEnds` and `CallbackSettles`, which under
fairness is outside the prover's reach. Every other property of a passing run is
stated by one of the theorems above.

## 6. Not modelled, and the plan

Not modelled, for good, with the reasons per component in `PROJECT.json`:

- The gateway state endpoints, the identity, exchange and OAuth proxies, the
  authentication and the session warm-up make one call of an external service and keep
  nothing. Their atomicity, expiry and idempotency are the service's; a model of them
  would be a model of our assumptions about it.
- The gateway's configuration merge, settings, models, tracing and the development
  identity have no behaviour over time.
- Listings and diagnostics read only. Where what they read decides about a right
  (`_visibility.py`) they are part of `EventRuns`.

What could still be added:

1. `ChatDocuments` and `ChatTurns` over one chat: a system row makes the next turn a
   later one, so a chat that begins with an upload is never titled.
2. Abstract lives of a run and of a schedule, refined as `Conversation` is; the stale
   cancel and the lost update are the steps such a specification would have to allow.
