----------------------------- MODULE ChatTurns -----------------------------
(***************************************************************************)
(* The chat conversation shared by concurrent HTTP requests:               *)
(*   send    POST /chats/{id}/messages          routers/messages.py        *)
(*   stream  POST /chats/{id}/messages/stream   routers/_streaming.py      *)
(*   resume  POST /chats/{id}/resume            routers/resume.py          *)
(*   delete  DELETE /chats/{id}                 routers/chats.py           *)
(* Each handler is a coroutine: it may be overtaken by another request at  *)
(* every await, so every storage or graph call is a step of its own.       *)
(*                                                                         *)
(* External: the chat storage (get_chat, get_messages, add_message,        *)
(* update_title, delete_chat: one atomic step each, which may raise) and   *)
(* the agent graph with its checkpointer (a run takes the messages it is   *)
(* given, then finishes, interrupts for approval, fails or never answers). *)
(* Message text is abstracted to the request that wrote it.                *)
(***************************************************************************)
EXTENDS Naturals, Sequences, FiniteSets

CONSTANTS
  Requests,       \* message-changing HTTP requests that may ever arrive
  Chats,          \* chat identifiers (uuids: never reused)
  Tenants, Users, \* a principal is one user of one tenant
  Kinds,          \* the endpoints that receive requests
  Checkpointing,  \* runtime.checkpointer is not None
  HistoryLimit,   \* how many messages are loaded as history
  None            \* Python's None: no owner, no title, no paused turn

Principals == [tenant : Tenants, user : Users]

ASSUME ConstantsAssumption ==
  /\ Kinds \subseteq {"send", "stream", "resume", "delete"}
  /\ Checkpointing \in BOOLEAN
  /\ HistoryLimit \in Nat \ {0}
  /\ None \notin Requests
  /\ None \notin Principals

VARIABLES
  chat,    \* chat[c]: the stored session
  rows,    \* rows[c]: the stored messages of c, oldest first
  thread,  \* thread[c]: turns whose question the checkpointer of c holds
  paused,  \* paused[c]: the turn waiting for a tool approval in the checkpointer
  req      \* req[r]: the handler coroutine of request r

vars == <<chat, rows, thread, paused, req>>

Outcomes == {"none", "final", "cancelled", "timeout", "error", "interrupt"}
Points   == {"idle", "verified", "loaded", "graph", "ack", "user", "assistant",
             "title", "delete", "ended"}

\* What the client is told. A send whose run failed says so in a ChatResponse with
\* status 200 ("error"), as a stream does in an error frame after its 200.
Replies  == {"none", "ok", "interrupt", "error", "notfound", "badrequest", "failed"}

\* A stored message: the request that wrote it, metadata.cancelled.
Row == [role : {"user", "assistant"}, by : Requests, cut : BOOLEAN]

Session == [status : {"unborn", "live", "deleted"},
            owner : Principals \cup {None}, title : Requests \cup {None}]

\* answered is a history variable: the sends on the same chat that had been
\* answered from their run when the request arrived. Nothing in the model reads it.
Request == [kind : Kinds \cup {"none"}, who : Principals \cup {None},
            chat : Chats \cup {None}, at : Points, turn : Requests \cup {None},
            fresh : BOOLEAN, input : SUBSET Requests, outcome : Outcomes,
            reply : Replies, answered : SUBSET Requests]

IdleRequest == [kind |-> "none", who |-> None, chat |-> None, at |-> "idle",
                turn |-> None, fresh |-> FALSE, input |-> {}, outcome |-> "none",
                reply |-> "none", answered |-> {}]

Init ==
  /\ chat = [c \in Chats |-> [status |-> "unborn", owner |-> None, title |-> None]]
  /\ rows = [c \in Chats |-> <<>>]
  /\ thread = [c \in Chats |-> {}]
  /\ paused = [c \in Chats |-> None]
  /\ req = [r \in Requests |-> IdleRequest]

Live(c) == chat[c].status = "live"

\* The endpoints that take a user message: both prepare the graph state, run the
\* graph and store the turn.
TurnKinds == {"send", "stream"}

\* Handler r goes on as q.
Becomes(r, q) == req' = [req EXCEPT ![r] = q]

-----------------------------------------------------------------------------
(* Arrival: create_chat and verify_chat_ownership *)

CreateChat(p, c) ==
  /\ chat[c].status = "unborn"
  /\ chat' = [chat EXCEPT ![c] = [status |-> "live", owner |-> p, title |-> None]]
  /\ UNCHANGED <<rows, thread, paused, req>>

\* A plausible slip: the tenant is compared, the user is not.
OwnsTenantOnly(p, c) == Live(c) /\ chat[c].owner.tenant = p.tenant

Owns(p, c) ==
  /\ Live(c)
  /\ chat[c].owner.tenant = p.tenant
  /\ chat[c].owner.user = p.user

\* Where a handler stands once the ownership check has let it through.
AfterVerify(k) ==
  CASE k \in TurnKinds -> "verified"
    [] k = "resume"    -> "loaded"
    [] k = "delete"    -> "delete"

\* resume_chat needs the checkpointer; the check follows the ownership check.
Refused(k) == k = "resume" /\ ~Checkpointing

Arrive(r, k, p, c) ==
  /\ req[r].at = "idle"
  /\ LET arrived == [IdleRequest EXCEPT
           !.kind = k, !.who = p, !.chat = c,
           !.turn = IF k \in TurnKinds THEN r ELSE None,
           !.answered = {q \in Requests : /\ req[q].chat = c
                                          /\ req[q].kind = "send"
                                          /\ req[q].reply = "ok"}]
     IN Becomes(r,
          IF ~Owns(p, c)
          THEN [arrived EXCEPT !.at = "ended", !.reply = "notfound"]
          ELSE IF Refused(k)
          THEN [arrived EXCEPT !.at = "ended", !.reply = "badrequest"]
          ELSE [arrived EXCEPT !.at = AfterVerify(k)])
  /\ UNCHANGED <<chat, rows, thread, paused>>

-----------------------------------------------------------------------------
(* prepare_graph_state and the graph run *)

\* The whole history of c is loaded.
OnOnePage(c) == DOMAIN rows[c] \subseteq 1..HistoryLimit

\* The messages get_messages may return, by position. External: a longer chat has
\* its first ones or its last ones returned.
Pages(c) ==
  IF OnOnePage(c) THEN {DOMAIN rows[c]}
  ELSE {1..HistoryLimit, (Len(rows[c]) - HistoryLimit + 1)..Len(rows[c])}

\* The turns whose question is on a page of c.
AskedIn(c, page) == {rows[c][i].by : i \in {j \in page : rows[c][j].role = "user"}}

\* A plausible slip: the history is sent whether or not there is a checkpointer.
GraphInputAlways(r, history) == history \cup {r}

\* A plausible slip: the history is never sent.
GraphInputNever(r, history) == {r}

\* With a checkpointer only the new message is sent: the graph holds the rest.
GraphInput(r, history) == IF Checkpointing THEN {r} ELSE history \cup {r}

\* get_messages; prepared.history_rows is kept for auto-titling.
LoadHistory(r) ==
  LET c == req[r].chat IN
  /\ req[r].at = "verified"
  /\ \E page \in Pages(c) :
       Becomes(r, [req[r] EXCEPT !.at = "loaded", !.fresh = (page = {}),
                                 !.input = GraphInput(r, AskedIn(c, page))])
  /\ UNCHANGED <<chat, rows, thread, paused>>

\* graph.astream(initial_state) or graph.ainvoke(Command(resume)). A new message
\* on a paused thread supersedes the pending approval; a resume takes it up.
StartGraph(r) ==
  LET c == req[r].chat IN
  /\ req[r].at = "loaded"
  /\ IF req[r].kind = "resume"
     THEN /\ Becomes(r, [req[r] EXCEPT !.at = "graph", !.turn = paused[c]])
          /\ UNCHANGED <<thread, paused>>
     ELSE /\ Becomes(r, [req[r] EXCEPT !.at = "graph"])
          /\ thread' = [thread EXCEPT ![c] = IF Checkpointing
                                             THEN @ \cup req[r].input ELSE @]
          /\ paused' = [paused EXCEPT ![c] = None]
  /\ UNCHANGED <<chat, rows>>

\* A plausible slip: a send stores the answer ahead of the question.
AfterResultSwapped(k) ==
  CASE k = "send"   -> "assistant"
    [] k = "stream" -> "ack"
    [] k = "resume" -> "assistant"

\* The next step of each handler after a run that produced a result.
AfterResult(k) ==
  CASE k = "send"   -> "user"
    [] k = "stream" -> "ack"
    [] k = "resume" -> "assistant"

GraphFinishes(r) ==
  LET c == req[r].chat IN
  /\ req[r].at = "graph"
  /\ Becomes(r, [req[r] EXCEPT !.at = AfterResult(req[r].kind), !.outcome = "final"])
  /\ paused' = [paused EXCEPT ![c] = IF @ = req[r].turn THEN None ELSE @]
  /\ UNCHANGED <<chat, rows, thread>>

\* A plausible slip: the turn is persisted in a finally clause.
InterruptedFallsThrough(q) ==
  IF q.kind = "stream" THEN [q EXCEPT !.at = "ack", !.outcome = "error"]
  ELSE [q EXCEPT !.at = AfterResult(q.kind), !.outcome = "interrupt", !.reply = "interrupt"]

\* GraphInterrupt: send and resume answer with an InterruptResponse and store
\* nothing; the stream's only handler for it is "except Exception".
Interrupted(q) ==
  IF q.kind = "stream" THEN [q EXCEPT !.at = "ack", !.outcome = "error"]
  ELSE [q EXCEPT !.at = "ended", !.outcome = "interrupt", !.reply = "interrupt"]

GraphInterrupts(r) ==
  LET c == req[r].chat IN
  /\ req[r].at = "graph"
  /\ req[r].turn # None
  /\ Becomes(r, Interrupted(req[r]))
  /\ paused' = [paused EXCEPT ![c] = IF Checkpointing THEN req[r].turn ELSE @]
  /\ UNCHANGED <<chat, rows, thread>>

\* Any other exception. resume_chat does not catch it.
Failed(q) ==
  IF q.kind = "resume"
  THEN [q EXCEPT !.at = "ended", !.outcome = "error", !.reply = "failed"]
  ELSE [q EXCEPT !.at = AfterResult(q.kind), !.outcome = "error"]

GraphFails(r) ==
  /\ req[r].at = "graph"
  /\ Becomes(r, Failed(req[r]))
  /\ UNCHANGED <<chat, rows, thread, paused>>

\* CancelledError while a send awaits the graph: swallowed, the turn is stored
\* with metadata.cancelled.
CancelSend(r) ==
  /\ req[r].at = "graph"
  /\ req[r].kind = "send"
  /\ Becomes(r, [req[r] EXCEPT !.at = "user", !.outcome = "cancelled"])
  /\ UNCHANGED <<chat, rows, thread, paused>>

\* A plausible slip: the timeout is logged and the run is awaited further.
StreamTimeoutLogged(r) ==
  req[r].at = "graph" /\ req[r].kind = "stream" /\ UNCHANGED vars

\* asyncio.timeout(stream_max_seconds): only the stream bounds its graph run.
StreamTimesOut(r) ==
  /\ req[r].at = "graph"
  /\ req[r].kind = "stream"
  /\ Becomes(r, [req[r] EXCEPT !.at = "ack", !.outcome = "timeout"])
  /\ UNCHANGED <<chat, rows, thread, paused>>

-----------------------------------------------------------------------------
(* Persistence *)

\* add_message
AddMessage(c, row) == rows' = [rows EXCEPT ![c] = Append(@, row)]

\* The stream tells the client it is done before it stores anything.
Acknowledge(r) ==
  /\ req[r].at = "ack"
  /\ Becomes(r, [req[r] EXCEPT !.at = "user",
                                !.reply = IF req[r].outcome = "error" THEN "error" ELSE "ok"])
  /\ UNCHANGED <<chat, rows, thread, paused>>

\* A plausible slip: the error outcome is not told apart when storing.
AfterUserIgnoringErrors(q) == [q EXCEPT !.at = "assistant"]

\* A plausible slip: a slow add_message is retried although it went through.
AfterUserRetried(q) == q

\* After the user row: a failed send returns its error ChatResponse at once, a
\* failed stream goes on to the title, every other turn stores its answer.
AfterUser(q) ==
  CASE q.outcome = "error" /\ q.kind = "send" ->
         [q EXCEPT !.at = "ended", !.reply = "error"]
    [] q.outcome = "error" /\ q.kind # "send" -> [q EXCEPT !.at = "title"]
    [] OTHER -> [q EXCEPT !.at = "assistant"]

\* add_message(chat_id, "user", prepared.message). A deleted chat may still
\* take the row: the handler verified the chat long before.
StoreUser(r) ==
  LET c == req[r].chat IN
  /\ req[r].at = "user"
  /\ AddMessage(c, [role |-> "user", by |-> r, cut |-> FALSE])
  /\ Becomes(r, AfterUser(req[r]))
  /\ UNCHANGED <<chat, thread, paused>>

\* resume_chat returns; the other two go on to auto_title_if_first_message.
AfterAssistant(q) ==
  IF q.kind = "resume" THEN [q EXCEPT !.at = "ended", !.reply = "ok"]
  ELSE [q EXCEPT !.at = "title"]

StoreAssistant(r) ==
  LET c == req[r].chat IN
  /\ req[r].at = "assistant"
  /\ AddMessage(c, [role |-> "assistant", by |-> r,
                    cut |-> (req[r].outcome = "cancelled")])
  /\ Becomes(r, AfterAssistant(req[r]))
  /\ UNCHANGED <<chat, thread, paused>>

\* A plausible slip: the title follows every message.
TitlesAlways(q) == TRUE

\* history_rows was empty when the handler loaded it.
Titles(q) == q.fresh

\* auto_title_if_first_message, then the handler returns. update_title on a
\* chat deleted meanwhile changes nothing.
SetTitle(r) ==
  LET c == req[r].chat IN
  /\ req[r].at = "title"
  /\ chat' = [chat EXCEPT ![c].title = IF Titles(req[r]) /\ Live(c) THEN r ELSE @]
  /\ Becomes(r, [req[r] EXCEPT !.at = "ended",
                                !.reply = IF @ = "none" THEN "ok" ELSE @])
  /\ UNCHANGED <<rows, thread, paused>>

\* A plausible slip: a send, too, treats its persistence as best effort.
ReplyAfterRaiseBestEffort(q) ==
  CASE q.reply # "none" -> q.reply
    [] q.reply = "none" /\ q.outcome = "error" -> "error"
    [] OTHER -> "ok"

\* The stream, which has answered already, and the error path of a send log the
\* failure: that send still returns its error ChatResponse, without even its
\* question stored. The others fail with a 500.
ReplyAfterRaise(q) ==
  CASE q.reply # "none" -> q.reply
    [] q.reply = "none" /\ q.outcome = "error" /\ q.kind = "send" -> "error"
    [] OTHER -> "failed"

\* add_message or update_title raises.
StorageRaises(r) ==
  /\ req[r].at \in {"user", "assistant", "title"}
  /\ Becomes(r, [req[r] EXCEPT !.at = "ended", !.reply = ReplyAfterRaise(req[r])])
  /\ UNCHANGED <<chat, rows, thread, paused>>

\* delete_chat: the session goes with all its messages.
DeleteChat(r) ==
  LET c == req[r].chat IN
  /\ req[r].at = "delete"
  /\ chat' = [chat EXCEPT ![c].status = "deleted"]
  /\ rows' = [rows EXCEPT ![c] = <<>>]
  /\ Becomes(r, [req[r] EXCEPT !.at = "ended", !.reply = "ok"])
  /\ UNCHANGED <<thread, paused>>

\* The coroutine stops at an await that no except clause covers: the client
\* disconnects, the worker dies, or a storage read raises. A stream abandoned
\* in its graph run takes this step too: its CancelledError handler stores
\* nothing while no token has been flushed (TokenStream shows there is none).
Abandon(r) ==
  /\ req[r].at \notin {"idle", "ended"}
  /\ Becomes(r, [req[r] EXCEPT !.at = "ended",
                                !.reply = IF @ = "none" THEN "failed" ELSE @])
  /\ UNCHANGED <<chat, rows, thread, paused>>

\* All requests have been served: the model, not the server, stops here.
AllServed == (\A r \in Requests : req[r].at = "ended") /\ UNCHANGED vars

-----------------------------------------------------------------------------
GraphReturns(r) ==
  GraphFinishes(r) \/ GraphInterrupts(r) \/ GraphFails(r) \/ CancelSend(r)

\* What the event loop runs by itself once the awaited storage call returns.
Proceed(r) ==
  \/ LoadHistory(r) \/ StartGraph(r) \/ StreamTimesOut(r) \/ Acknowledge(r)
  \/ StoreUser(r) \/ StoreAssistant(r) \/ SetTitle(r) \/ DeleteChat(r)

Next ==
  \/ \E p \in Principals, c \in Chats : CreateChat(p, c)
  \/ \E r \in Requests, k \in Kinds, p \in Principals, c \in Chats : Arrive(r, k, p, c)
  \/ \E r \in Requests : Proceed(r)
  \/ \E r \in Requests : GraphReturns(r)
  \/ \E r \in Requests : StorageRaises(r)
  \/ \E r \in Requests : Abandon(r)
  \/ AllServed

Spec == Init /\ [][Next]_vars

\* The event loop keeps running ready coroutines and the storage answers (or
\* raises); nothing is assumed of the graph or of clients.
FairSpec == Spec /\ \A r \in Requests : WF_vars(Proceed(r))

-----------------------------------------------------------------------------
(* Properties *)

\* The awaits each handler has.
PointsOf(k) ==
  CASE k = "none"   -> {"idle"}
    [] k = "send"   -> {"verified", "loaded", "graph", "user", "assistant", "title", "ended"}
    [] k = "stream" -> {"verified", "loaded", "graph", "ack", "user", "assistant",
                        "title", "ended"}
    [] k = "resume" -> {"loaded", "graph", "assistant", "ended"}
    [] k = "delete" -> {"delete", "ended"}

AtOwnPoint(q) ==
  /\ q.at \in PointsOf(q.kind)
  /\ q.kind # "none" => q.chat \in Chats /\ q.who \in Principals

\* Types, and every handler stands at one of its own awaits and knows its chat.
TypeOK ==
  /\ chat \in [Chats -> Session]
  /\ rows \in [Chats -> Seq(Row)]
  /\ thread \in [Chats -> SUBSET Requests]
  /\ paused \in [Chats -> Requests \cup {None}]
  /\ req \in [Requests -> Request]
  /\ \A r \in Requests : AtOwnPoint(req[r])

IsRow(c, i, role, r) == rows[c][i].role = role /\ rows[c][i].by = r

HasRow(c, role, r) == \E i \in DOMAIN rows[c] : IsRow(c, i, role, r)

\* In a live chat the answer of a send or a stream stands after the question of
\* the same request, whatever other requests store in between and wherever one
\* of them is abandoned (messages.py 227-228, _streaming.py 279-281).
AnswerFollowsItsQuestion ==
  \A c \in Chats : Live(c) =>
    \A i \in DOMAIN rows[c], r \in Requests :
      IsRow(c, i, "assistant", r) /\ req[r].kind \in TurnKinds
        => \E j \in 1..(i - 1) : IsRow(c, j, "user", r)

\* One request stores at most one question and one answer, in one chat: none of
\* the error, cancellation and interrupt paths stores a message a second time.
OneRowPerRole ==
  \A c, d \in Chats : \A i \in DOMAIN rows[c], j \in DOMAIN rows[d] :
    /\ rows[c][i].by = rows[d][j].by
    /\ rows[c][i].role = rows[d][j].role
    => c = d /\ i = j

\* A stored answer is what it says it is: it comes from a run that neither failed
\* nor was interrupted, and is marked cancelled exactly if the run was.
AnswersAreHonest ==
  \A c \in Chats : \A i \in DOMAIN rows[c] :
    LET writer == req[rows[c][i].by] IN
    rows[c][i].role = "assistant" =>
      /\ writer.outcome \in {"final", "timeout", "cancelled"}
      /\ rows[c][i].cut <=> writer.outcome = "cancelled"

\* A request answered with an InterruptResponse has stored nothing
\* (messages.py 170-180, resume.py 64-65).
PausedTurnLeavesNoRow ==
  \A c \in Chats, r \in Requests :
    req[r].reply = "interrupt" => \A role \in {"user", "assistant"} : ~HasRow(c, role, r)

\* Every stored message was written by a request of the chat's owner, tenant and
\* user alike (verify_chat_ownership), also when the chat is gone by then.
OnlyTheOwnerWrites ==
  \A c \in Chats : \A i \in DOMAIN rows[c] :
    /\ req[rows[c][i].by].chat = c
    /\ req[rows[c][i].by].who = chat[c].owner

\* A send answered with a ChatResponse and status 200, the error text included
\* (messages.py 210-217, 269).
AnsweredWithChat(q) == q.kind = "send" /\ q.reply \in {"ok", "error"}

\* The 200 of a send means a stored turn exactly when its run did not fail: then
\* the chat, unless it has been deleted, holds the question and the answer, and
\* a title if it was empty. After a failed run the same 200 comes with no answer
\* stored, and the question only if storing it worked too.
AckedSendIsStored ==
  \A r \in Requests :
    LET c == req[r].chat IN
    AnsweredWithChat(req[r]) /\ Live(c) =>
      /\ HasRow(c, "assistant", r) <=> req[r].outcome # "error"
      /\ req[r].outcome # "error" => /\ HasRow(c, "user", r)
                                     /\ req[r].fresh => chat[c].title # None

\* The title comes from a stored message, and from a turn that arrived before any
\* send on the chat had been answered from its run (auto_title_if_first_message).
TitleIsFromAnOpeningTurn ==
  \A c \in Chats : Live(c) /\ chat[c].title # None =>
    LET r == chat[c].title IN HasRow(c, "user", r) /\ req[r].answered = {}

\* The graph run of a turn knows every send whose run had answered before the turn
\* arrived (a failed one may have left no trace): from the checkpointer, or, as
\* long as the chat fits one page, from the history given (_helpers.py 189, 247).
ContextKeepsAnsweredTurns ==
  \A r \in Requests :
    LET c == req[r].chat IN
    (req[r].at = "graph" /\ req[r].kind \in TurnKinds /\ Live(c)
       /\ (Checkpointing \/ OnOnePage(c)))
      => req[r].answered \subseteq thread[c] \cup req[r].input

\* With a checkpointer no run is given a message the checkpointer already holds
\* ("sending full history would duplicate messages", _helpers.py 238-240).
NoTurnSentTwice ==
  \A r \in Requests :
    (req[r].at = "loaded" /\ Checkpointing) => req[r].input \cap thread[req[r].chat] = {}

\* What a handler may still add to its chat, read off the await it stands at.
PhaseOf(q) ==
  CASE q.at = "idle" -> "new"
    [] q.at \in {"verified", "loaded", "graph", "ack", "user", "assistant"} ->
         IF q.kind = "resume" THEN "reply"
         ELSE IF q.at = "assistant" THEN "asked" ELSE "turn"
    [] q.at = "delete" -> "clear"
    [] q.at \in {"title", "ended"} -> "closed"

Promise == INSTANCE Conversation WITH
  log   <- rows,
  phase <- [r \in Requests |-> PhaseOf(req[r])],
  home  <- [r \in Requests |-> req[r].chat]

\* The handlers keep the promise of Conversation, in every overlap: a request
\* stores at most one question and then at most one answer, on its own chat, a
\* resume at most one answer, and only a deletion takes messages away.
KeepsItsPromise == Promise!Spec

\* A stream always comes to its end, even if the graph never answers: the
\* timeout bounds the run (_streaming.py 92).
StreamEnds ==
  \A r \in Requests : (req[r].kind = "stream") ~> (req[r].at = "ended")

\* The inductive invariant behind the safety properties: how far a handler has
\* come bounds what it has stored and what it knows.
Underway(q) == q.at \notin {"idle", "ended"}

\* Only a chat that was never created has no owner.
LiveChatsAreOwned ==
  \A c \in Chats : chat[c].status # "unborn" => chat[c].owner \in Principals

\* An admitted request names an existing chat of its own principal.
AdmittedByOwner ==
  \A r \in Requests : Underway(req[r]) =>
    /\ req[r].chat \in Chats
    /\ chat[req[r].chat].status # "unborn"
    /\ chat[req[r].chat].owner = req[r].who

\* A stored message belongs to a handler that has passed the storing await.
RowsBehindHandlers ==
  \A c \in Chats : \A i \in DOMAIN rows[c] :
    LET q == req[rows[c][i].by] IN
    /\ q.at \in IF rows[c][i].role = "user" THEN {"assistant", "title", "ended"}
                                            ELSE {"title", "ended"}
    /\ q.reply # "interrupt"
    /\ q.chat = c /\ q.who = chat[c].owner
    /\ chat[c].status # "unborn"

\* What a handler knows of its graph run by the time it stores.
OutcomeFits(q) ==
  /\ q.at \in {"verified", "loaded", "graph"} => q.outcome = "none"
  /\ q.at \in {"ack", "user"} => q.outcome \in {"final", "timeout", "cancelled", "error"}
  /\ q.at = "assistant" => q.outcome \in {"final", "timeout", "cancelled"}
  /\ q.reply = "interrupt" => q.at = "ended"

\* A send says "error" only at its end, and only after a failed run.
ErrorsAreTheRuns ==
  \A r \in Requests : req[r].kind = "send" /\ req[r].reply = "error" =>
    req[r].at = "ended" /\ req[r].outcome = "error"

OutcomeKnown == \A r \in Requests : OutcomeFits(req[r])

\* A turn about to store its answer has stored its question, unless the chat has
\* been deleted in between.
QuestionFirst ==
  \A r \in Requests :
    (req[r].at = "assistant" /\ req[r].kind \in TurnKinds
      /\ chat[req[r].chat].status # "deleted") => HasRow(req[r].chat, "user", r)

\* AnswerFollowsItsQuestion, for chats that are yet to be created too.
AnswersAfterQuestions ==
  \A c \in Chats : chat[c].status # "deleted" =>
    \A i \in DOMAIN rows[c], r \in Requests :
      IsRow(c, i, "assistant", r) /\ req[r].kind \in TurnKinds
        => \E j \in 1..(i - 1) : IsRow(c, j, "user", r)

HandlerInv ==
  /\ TypeOK
  /\ LiveChatsAreOwned
  /\ AdmittedByOwner
  /\ RowsBehindHandlers
  /\ OutcomeKnown
  /\ QuestionFirst
  /\ AnswersAfterQuestions
  /\ OneRowPerRole
  /\ AnswersAreHonest

=============================================================================
