--------------------------- MODULE ChatDocuments ---------------------------
(***************************************************************************)
(* The documents of a chat and the vectors made from them:                 *)
(*   upload  POST /chats/{id}/upload      routers/messages.py              *)
(*   attach  the files of POST /chats/{id}/messages: what the turn does    *)
(*           before its graph runs         routers/_helpers.py             *)
(*   share   POST /chats/{id}/share       routers/sharing.py               *)
(*   delete  DELETE /chats/{id}           routers/chats.py                 *)
(* Each handler is a coroutine that works through its files or namespaces  *)
(* one await at a time; the other requests run in between.                 *)
(*                                                                         *)
(* External: the vector store. An ingestion writes its chunks one after    *)
(* the other, and it or a promotion may raise half way; agents index what  *)
(* they learn in a chat in their own namespaces. A file is one part of one *)
(* request; its content is abstracted to whether all its chunks are there, *)
(* however many or few, and whether the text extracted from it is blank.   *)
(***************************************************************************)
EXTENDS Naturals, FiniteSets

CONSTANTS
  Requests,         \* requests that may ever arrive
  Chats,
  Tenants, Users,   \* a principal is one user of one tenant
  Files,            \* the named files a request may carry; unnamed parts are passed over
  BlankFiles,       \* those whose extracted text is blank
  UploadNamespace,  \* settings.upload_namespace
  AgentNamespaces,  \* the RAG namespaces of the agents configuration
  None

Principals == [tenant : Tenants, user : Users]

\* all_namespaces
Namespaces == {UploadNamespace} \cup AgentNamespaces

ASSUME DocumentsAssumption ==
  /\ None \notin Requests \cup Chats \cup Files
  /\ None \notin Principals
  /\ BlankFiles \subseteq Files

VARIABLES
  reader,   \* what the configured vector store can do; never changes
  chat,     \* chat[c]: the stored session
  notes,    \* notes[c]: the system messages "Uploaded f" of chat c
  vectors,  \* the points of the vector store
  req       \* req[r]: the handler coroutine of request r

vars == <<reader, chat, notes, vectors, req>>

DocumentKinds == {"upload", "attach", "share", "delete"}
Points == {"idle", "files", "ingest", "note", "promote", "delete", "ended"}

\* The points made from one document, some of its chunks or all of them. origin
\* is a history variable: the chat the document was given in. by and file are
\* None for what an agent has indexed.
Vector == [ns : Namespaces, scope : {"chat_shared", "chat_agent", "user"},
           chat : Chats \cup {None}, who : Principals,
           origin : Chats, by : Requests \cup {None}, file : Files \cup {None},
           whole : BOOLEAN]

\* before and tried are history variables: the points of the chat when a share
\* arrived, and the namespaces whose promotion raised.
Request == [kind : DocumentKinds \cup {"none"}, who : Principals \cup {None},
            chat : Chats \cup {None}, at : Points, files : SUBSET Files,
            todo : SUBSET (Files \cup Namespaces), now : Files \cup {None},
            parts : SUBSET Files, results : SUBSET [file : Files, ok : BOOLEAN],
            before : SUBSET Vector, raised : SUBSET Namespaces,
            reply : {"none", "ok", "notfound", "unsupported", "failed"}]

IdleRequest == [kind |-> "none", who |-> None, chat |-> None, at |-> "idle",
                files |-> {}, todo |-> {}, now |-> None, parts |-> {}, results |-> {},
                before |-> {}, raised |-> {}, reply |-> "none"]

Init ==
  /\ reader \in {"reads", "writes", "promotes"}
  /\ chat = [c \in Chats |-> [status |-> "unborn", owner |-> None, shared |-> FALSE]]
  /\ notes = [c \in Chats |-> {}]
  /\ vectors = {}
  /\ req = [r \in Requests |-> IdleRequest]

\* isinstance(reader, OrchidVectorWriter); supports_scope_promotion
CanWrite == reader \in {"writes", "promotes"}
CanPromote == reader = "promotes"

Live(c) == chat[c].status = "live"

Becomes(r, q) == req' = [req EXCEPT ![r] = q]

-----------------------------------------------------------------------------
(* Arrival *)

CreateChat(p, c) ==
  /\ chat[c].status = "unborn"
  /\ chat' = [chat EXCEPT ![c] = [status |-> "live", owner |-> p, shared |-> FALSE]]
  /\ UNCHANGED <<reader, notes, vectors, req>>

\* verify_chat_ownership
Owns(p, c) == Live(c) /\ chat[c].owner.tenant = p.tenant /\ chat[c].owner.user = p.user

\* The capability checks, made before the ownership check.
Unsupported(k) == (k = "upload" /\ ~CanWrite) \/ (k = "share" /\ ~CanPromote)

\* A plausible slip: the points of every chat pass the filter.
FromAnyChat(c, v) == v.scope \in {"chat_shared", "chat_agent"}

\* source_filter
OfChat(c, v) == v.chat = c /\ v.scope \in {"chat_shared", "chat_agent"}

Enter(q) ==
  CASE q.kind \in {"upload", "attach"} -> [q EXCEPT !.at = "files", !.todo = q.files]
    [] q.kind = "share" -> [q EXCEPT !.at = "promote", !.todo = Namespaces,
                                     !.before = {v \in vectors : OfChat(q.chat, v)}]
    [] q.kind = "delete" -> [q EXCEPT !.at = "delete"]

Arrive(r, k, p, c, files) ==
  /\ req[r].at = "idle"
  /\ k \in {"upload", "attach"} \/ files = {}
  /\ LET arrived == [IdleRequest EXCEPT !.kind = k, !.who = p, !.chat = c, !.files = files]
     IN Becomes(r,
          IF Unsupported(k)
          THEN [arrived EXCEPT !.at = "ended", !.reply = "unsupported"]
          ELSE IF ~Owns(p, c)
          THEN [arrived EXCEPT !.at = "ended", !.reply = "notfound"]
          ELSE Enter(arrived))
  /\ UNCHANGED <<reader, chat, notes, vectors>>

-----------------------------------------------------------------------------
(* The files of an upload or of a turn *)

\* The points of file f as request r writes them.
ChunksOf(r, f, whole) ==
  [ns |-> UploadNamespace, scope |-> "chat_shared", chat |-> req[r].chat,
   who |-> req[r].who, origin |-> req[r].chat, by |-> r, file |-> f, whole |-> whole]

Result(f, ok) == [file |-> f, ok |-> ok]

\* The handler is done with file f; an upload reports how it went.
Reported(q, f, ok) ==
  [q EXCEPT !.at = "files", !.todo = @ \ {f}, !.now = None,
            !.results = IF q.kind = "upload" THEN @ \cup {Result(f, ok)} ELSE @]

\* Too large, or not an accepted document (upload), or extract_text raises (attach).
RefuseFile(r, f) ==
  /\ req[r].at = "files"
  /\ f \in req[r].todo
  /\ Becomes(r, Reported(req[r], f, FALSE))
  /\ UNCHANGED <<reader, chat, notes, vectors>>

\* A plausible slip: the text joins the prompt once it is indexed.
PromptedWhenIndexed(q, f) == q.parts

\* The text of an attached file joins the prompt as soon as it is extracted, unless
\* it is blank.
Prompted(q, f) ==
  IF q.kind = "attach" /\ f \notin BlankFiles THEN q.parts \cup {f} ELSE q.parts

\* Without a writer an attached file is only parsed.
ParseOnly(r, f) ==
  /\ req[r].at = "files"
  /\ f \in req[r].todo
  /\ ~CanWrite
  /\ Becomes(r, [Reported(req[r], f, TRUE) EXCEPT !.parts = Prompted(req[r], f)])
  /\ UNCHANGED <<reader, chat, notes, vectors>>

\* ingest_document is awaited, for a blank text too, and its first chunks are written.
BeginIngest(r, f) ==
  /\ req[r].at = "files"
  /\ f \in req[r].todo
  /\ CanWrite
  /\ Becomes(r, [req[r] EXCEPT !.at = "ingest", !.now = f, !.parts = Prompted(req[r], f)])
  /\ vectors' = vectors \cup {ChunksOf(r, f, FALSE)}
  /\ UNCHANGED <<reader, chat, notes>>

\* An upload appends its result and goes on to the system message.
AfterIngest(q) ==
  IF q.kind = "upload"
  THEN [q EXCEPT !.at = "note", !.results = @ \cup {Result(q.now, TRUE)}]
  ELSE Reported(q, q.now, TRUE)

FinishIngest(r) ==
  /\ req[r].at = "ingest"
  /\ vectors' = vectors \cup {ChunksOf(r, req[r].now, TRUE)}
  /\ Becomes(r, AfterIngest(req[r]))
  /\ UNCHANGED <<reader, chat, notes>>

\* A plausible slip: what was written counts as indexed.
AfterIngestRaisesKept(q) == AfterIngest(q)

\* ingest_document raises: the file is reported as failed (upload) or the failure
\* is logged (attach); the chunks written so far stay.
AfterIngestRaises(q) == Reported(q, q.now, FALSE)

IngestRaises(r) ==
  /\ req[r].at = "ingest"
  /\ Becomes(r, AfterIngestRaises(req[r]))
  /\ UNCHANGED <<reader, chat, notes, vectors>>

\* add_message(chat_id, "system", "Uploaded ..."), also on a chat deleted meanwhile.
StoreNote(r) ==
  LET q == req[r] IN
  /\ q.at = "note"
  /\ notes' = [notes EXCEPT ![q.chat] = @ \cup {[by |-> r, file |-> q.now]}]
  /\ Becomes(r, [q EXCEPT !.at = "files", !.todo = @ \ {q.now}, !.now = None])
  /\ UNCHANGED <<reader, chat, vectors>>

\* A plausible slip: storing the system message is best effort.
AfterNoteRaisesQuiet(q) == [q EXCEPT !.at = "files", !.todo = @ \ {q.now}, !.now = None]

\* add_message raises inside the same try: the file, reported as indexed already,
\* is reported again as failed.
AfterNoteRaises(q) == Reported(q, q.now, FALSE)

NoteRaises(r) ==
  /\ req[r].at = "note"
  /\ Becomes(r, AfterNoteRaises(req[r]))
  /\ UNCHANGED <<reader, chat, notes, vectors>>

\* All files are through: the upload answers, the turn goes on with its prompt.
FilesDone(r) ==
  /\ req[r].at = "files"
  /\ req[r].todo = {}
  /\ Becomes(r, [req[r] EXCEPT !.at = "ended", !.reply = "ok"])
  /\ UNCHANGED <<reader, chat, notes, vectors>>

-----------------------------------------------------------------------------
(* Sharing and deleting *)

\* new_scope_fields
Promoted(q, v) == [v EXCEPT !.scope = "user", !.chat = None, !.who = q.who]

Copies(q, ns) == {Promoted(q, v) : v \in {w \in vectors : w.ns = ns /\ OfChat(q.chat, w)}}

PromoteNamespace(r, ns) ==
  /\ req[r].at = "promote"
  /\ ns \in req[r].todo
  /\ vectors' = vectors \cup Copies(req[r], ns)
  /\ Becomes(r, [req[r] EXCEPT !.todo = @ \ {ns}])
  /\ UNCHANGED <<reader, chat, notes>>

\* A plausible slip: the first failure ends the loop.
AfterPromotionRaisesStops(q, ns) == [q EXCEPT !.todo = {}, !.raised = @ \cup {ns}]

\* The failure is logged and the next namespace follows.
AfterPromotionRaises(q, ns) == [q EXCEPT !.todo = @ \ {ns}, !.raised = @ \cup {ns}]

\* promote_scope raises, perhaps after copying some of the points.
PromotionRaises(r, ns) ==
  /\ req[r].at = "promote"
  /\ ns \in req[r].todo
  /\ \E copied \in SUBSET Copies(req[r], ns) : vectors' = vectors \cup copied
  /\ Becomes(r, AfterPromotionRaises(req[r], ns))
  /\ UNCHANGED <<reader, chat, notes>>

\* mark_shared, whatever became of the namespaces; it finds no deleted chat.
MarkShared(r) ==
  LET c == req[r].chat IN
  /\ req[r].at = "promote"
  /\ req[r].todo = {}
  /\ chat' = [chat EXCEPT ![c].shared = IF Live(c) THEN TRUE ELSE @]
  /\ Becomes(r, [req[r] EXCEPT !.at = "ended", !.reply = "ok"])
  /\ UNCHANGED <<reader, notes, vectors>>

\* delete_chat: the session and its messages. The vectors stay.
DeleteChat(r) ==
  LET c == req[r].chat IN
  /\ req[r].at = "delete"
  /\ chat' = [chat EXCEPT ![c].status = "deleted"]
  /\ notes' = [notes EXCEPT ![c] = {}]
  /\ Becomes(r, [req[r] EXCEPT !.at = "ended", !.reply = "ok"])
  /\ UNCHANGED <<reader, vectors>>

\* The handler stops at an await no except clause covers: reading a file, marking
\* the chat, deleting it, or the client goes away.
Abandon(r) ==
  /\ req[r].at \notin {"idle", "ended"}
  /\ Becomes(r, [req[r] EXCEPT !.at = "ended", !.reply = "failed"])
  /\ UNCHANGED <<reader, chat, notes, vectors>>

\* External: an agent of a chat indexes what it has learnt for its principal.
AgentIndexes(c, ns) ==
  /\ Live(c)
  /\ CanWrite
  /\ vectors' = vectors \cup
       {[ns |-> ns, scope |-> "chat_agent", chat |-> c, who |-> chat[c].owner,
         origin |-> c, by |-> None, file |-> None, whole |-> TRUE]}
  /\ UNCHANGED <<reader, chat, notes, req>>

AllServed == (\A r \in Requests : req[r].at = "ended") /\ UNCHANGED vars

HandleFile(r, f) == RefuseFile(r, f) \/ ParseOnly(r, f) \/ BeginIngest(r, f)

Proceed(r) ==
  \/ FinishIngest(r) \/ IngestRaises(r) \/ StoreNote(r) \/ NoteRaises(r) \/ FilesDone(r)
  \/ MarkShared(r) \/ DeleteChat(r) \/ Abandon(r)

Next ==
  \/ \E p \in Principals, c \in Chats : CreateChat(p, c)
  \/ \E r \in Requests, k \in DocumentKinds, p \in Principals, c \in Chats,
        files \in SUBSET Files : Arrive(r, k, p, c, files)
  \/ \E r \in Requests, f \in Files : HandleFile(r, f)
  \/ \E r \in Requests, ns \in Namespaces : PromoteNamespace(r, ns) \/ PromotionRaises(r, ns)
  \/ \E r \in Requests : Proceed(r)
  \/ \E c \in Chats, ns \in AgentNamespaces : AgentIndexes(c, ns)
  \/ AllServed

Spec == Init /\ [][Next]_vars

-----------------------------------------------------------------------------
(* Properties *)

TypeOK ==
  /\ reader \in {"reads", "writes", "promotes"}
  /\ chat \in [Chats -> [status : {"unborn", "live", "deleted"},
                         owner : Principals \cup {None}, shared : BOOLEAN]]
  /\ notes \in [Chats -> SUBSET [by : Requests, file : Files]]
  /\ vectors \subseteq Vector
  /\ req \in [Requests -> Request]

\* Every point of the store, promoted or not, carries the tenant and the user who
\* own the chat its document was given in (verify_chat_ownership, source_filter
\* and new_scope_fields in sharing.py 58-82), and so does what points to it.
DataStaysWithItsOwner ==
  \A v \in vectors : v.who = chat[v.origin].owner /\ v.chat \in {v.origin, None}

\* What an upload says of a file is true: a file reported as indexed, or named in
\* a system message of the chat, has all its chunks in the store, also when the
\* file, the message or another file of the request failed (messages.py 341-362).
ReportsAreTrue ==
  \A r \in Requests, f \in Files :
    (Result(f, TRUE) \in req[r].results \/ \E c \in Chats : [by |-> r, file |-> f] \in notes[c])
      => ChunksOf(r, f, TRUE) \in vectors

\* An upload answered with 200 accounts for every one of its files. A file without
\* a system message in the live chat is reported as failed, and one that has its
\* message is reported as indexed only.
EveryFileIsAccountedFor ==
  \A r \in Requests :
    (req[r].kind = "upload" /\ req[r].reply = "ok" /\ Live(req[r].chat)) =>
      \A f \in req[r].files :
        IF [by |-> r, file |-> f] \in notes[req[r].chat]
        THEN {x.ok : x \in {y \in req[r].results : y.file = f}} = {TRUE}
        ELSE Result(f, FALSE) \in req[r].results

\* Whatever a turn has put in the store of an attached file, its graph run is
\* shown the text too, also when the ingestion failed half way. Only a file with a
\* blank text is indexed and shown nowhere (_helpers.py 153-173).
AttachedIsPrompted ==
  \A v \in vectors :
    (v.by # None /\ req[v.by].kind = "attach") => v.file \in req[v.by].parts \cup BlankFiles

\* A chat reported as shared has, for every point it had when the request arrived,
\* the copy in user scope, or else the promotion of that namespace has raised:
\* one failing namespace keeps none of the others back (sharing.py 70-87).
SharePromotes ==
  \A r \in Requests :
    (req[r].kind = "share" /\ req[r].reply = "ok") =>
      \A v \in req[r].before : v.ns \in req[r].raised \/ Promoted(req[r], v) \in vectors

=============================================================================
