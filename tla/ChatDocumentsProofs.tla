------------------------ MODULE ChatDocumentsProofs ------------------------
(***************************************************************************)
(* ChatDocuments for every number of requests, chats, files, namespaces    *)
(* and principals: no document changes hands, reports are true, what is    *)
(* indexed of an attached file is prompted, and a share promotes all that  *)
(* did not raise.                                                          *)
(*                                                                         *)
(* The invariant is a conjunction of one part for each of these and of two *)
(* parts on chats and handlers. Every step of a handler past its arrival   *)
(* satisfies Step, and Step preserves them all (HandlerSteps).             *)
(***************************************************************************)
EXTENDS ChatDocuments, TLAPS

-----------------------------------------------------------------------------
(* The invariant *)

Session == [status : {"unborn", "live", "deleted"},
            owner : Principals \cup {None}, shared : BOOLEAN]

Note == [by : Requests, file : Files]

\* A chat that was created has an owner.
ChatsOwned == \A c \in Chats : chat[c].status # "unborn" => chat[c].owner \in Principals

\* What a handler knows at each of its points.
Sound(q) ==
  /\ q.at = "idle" => q = IdleRequest
  /\ q.at \notin {"idle", "ended"} =>
       /\ q.chat \in Chats /\ q.who \in Principals
       /\ chat[q.chat].status # "unborn" /\ chat[q.chat].owner = q.who
       /\ q.kind = "upload" => CanWrite
  /\ q.at \in {"files", "ingest", "note"} => q.kind \in {"upload", "attach"}
  /\ q.at = "note" => q.kind = "upload"
  /\ q.at = "promote" => q.kind = "share"
  /\ q.at = "delete" => q.kind = "delete"
  /\ q.at \in {"ingest", "note"} => q.now \in Files
  /\ q.at = "ingest" /\ q.kind = "attach" => q.now \in q.parts \cup BlankFiles
  /\ q.kind = "share" /\ q.reply = "ok" => q.todo = {}

HandlersSound == \A r \in Requests : Sound(req[r])

\* DataStaysWithItsOwner, of documents of chats that were created.
DataInv ==
  \A v \in vectors : /\ chat[v.origin].status # "unborn"
                     /\ v.who = chat[v.origin].owner
                     /\ v.chat \in {v.origin, None}

\* AttachedIsPrompted, of requests that have arrived.
AttachInv ==
  \A v \in vectors : v.by # None =>
    req[v.by].at # "idle" /\ (req[v.by].kind = "attach" => v.file \in req[v.by].parts \cup BlankFiles)

Whole(r, f) == ChunksOf(r, f, TRUE) \in vectors

\* ReportsAreTrue, of what a handler is about to note too.
ReportInv ==
  \A r \in Requests :
    /\ \A f \in Files : Result(f, TRUE) \in req[r].results => Whole(r, f)
    /\ req[r].at = "note" => Whole(r, req[r].now)
    /\ \A c \in Chats, f \in Files :
         [by |-> r, file |-> f] \in notes[c] => req[r].at # "idle" /\ Whole(r, f)

\* SharePromotes, while the namespaces are being promoted.
ShareInv ==
  \A r \in Requests : req[r].kind = "share" =>
    \A v \in req[r].before :
      /\ v \in vectors /\ OfChat(req[r].chat, v)
      /\ v.ns \in req[r].todo \cup req[r].raised \/ Promoted(req[r], v) \in vectors

IInv == TypeOK /\ ChatsOwned /\ HandlersSound /\ DataInv /\ AttachInv /\ ReportInv /\ ShareInv

-----------------------------------------------------------------------------
(* Steps of a handler *)

\* A handler goes on as q: the request stays the same one.
Same(p, q) == /\ q.kind = p.kind /\ q.who = p.who /\ q.chat = p.chat
              /\ q.files = p.files /\ q.before = p.before

\* Chats keep their owner.
ChatsKept ==
  /\ chat' \in [Chats -> Session]
  /\ \A c \in Chats : /\ chat'[c].owner = chat[c].owner
                      /\ chat'[c].status = "unborn" <=> chat[c].status = "unborn"

\* The store only grows, by points of the handler's chat and principal.
Grows(q) ==
  /\ vectors \subseteq vectors'
  /\ vectors' \subseteq Vector
  /\ \A v \in vectors' \ vectors :
       v.origin = q.chat /\ v.who = q.who /\ v.chat \in {q.chat, None}

\* New points are made from a prompted file of the handler, or copies.
PromptsKept(r, q) ==
  /\ req[r].parts \subseteq q.parts
  /\ \A v \in vectors' \ vectors :
       \/ v.by = r /\ (q.kind = "attach" => v.file \in q.parts \cup BlankFiles)
       \/ \E w \in vectors : w.by = v.by /\ w.file = v.file

\* New reports and notes are about whole files.
ReportsKept(r, q) ==
  /\ notes' \in [Chats -> SUBSET Note]
  /\ \A f \in Files : Result(f, TRUE) \in q.results =>
                        Result(f, TRUE) \in req[r].results \/ ChunksOf(r, f, TRUE) \in vectors'
  /\ q.at = "note" => ChunksOf(r, q.now, TRUE) \in vectors'
  /\ \A c \in Chats, n \in Note : n \in notes'[c] =>
       n \in notes[c] \/ (n.by = r /\ ChunksOf(r, n.file, TRUE) \in vectors')

\* A share leaves no namespace out.
SharesKept(r, q) ==
  q.kind = "share" =>
    \A v \in q.before : v.ns \in req[r].todo \cup req[r].raised =>
      v.ns \in q.todo \cup q.raised \/ Promoted(q, v) \in vectors'

Step(r, q) ==
  /\ req[r].at \notin {"idle", "ended"}
  /\ q.at # "idle"
  /\ Becomes(r, q) /\ Same(req[r], q) /\ Sound(q)
  /\ reader' = reader
  /\ ChatsKept
  /\ Grows(q) /\ PromptsKept(r, q) /\ ReportsKept(r, q) /\ SharesKept(r, q)

\* The other handlers stay as they are.
LEMMA BecomesOnly ==
  ASSUME req \in [Requests -> Request], NEW r \in Requests, NEW q \in Request, Becomes(r, q)
  PROVE  /\ req' \in [Requests -> Request]
         /\ req'[r] = q
         /\ \A x \in Requests : x # r => req'[x] = req[x]
BY DEF Becomes

\* Being sound is about chats that keep their owner.
LEMMA SoundStays ==
  ASSUME ChatsKept, reader' = reader, NEW q, Sound(q)
  PROVE  Sound(q)'
BY DEF ChatsKept, Sound, CanWrite

\* A step of one handler r to q keeps the invariant, if q is sound in itself and the store it leaves behind suits everyone.
LEMMA HandlerSteps ==
  ASSUME IInv, NEW r \in Requests, NEW q \in Request, Step(r, q)
  PROVE  IInv'
<1>1. /\ req' \in [Requests -> Request]
      /\ req'[r] = q
      /\ \A x \in Requests : x # r => req'[x] = req[x]
  BY BecomesOnly DEF Step, IInv, TypeOK
<1>2. req[r] \in Request /\ req[r].at # "idle" /\ q.at # "idle" /\ Same(req[r], q)
  BY DEF Step, IInv, TypeOK
<1>3. TypeOK'
  BY <1>1 DEF Step, IInv, TypeOK, ChatsKept, Grows, ReportsKept, Session, Note
<1>4. ChatsOwned'
  BY DEF IInv, ChatsOwned, Step, ChatsKept
<1>5. HandlersSound'
  <2>1. \A x \in Requests : Sound(req'[x])
    BY <1>1 DEF IInv, HandlersSound, Step
  <2>2. ASSUME NEW x \in Requests PROVE Sound(req[x])'
    <3>1. PICK y : y = req'[x] /\ Sound(y)
      BY <2>1
    <3>2. Sound(y)'
      BY <3>1, SoundStays DEF Step
    <3> QED BY <3>1, <3>2 DEF Sound
  <2> QED BY <2>2 DEF HandlersSound
<1>6. DataInv'
  <2>1. ASSUME NEW v \in vectors'
        PROVE  /\ v.origin \in Chats
               /\ chat[v.origin].status # "unborn"
               /\ v.who = chat[v.origin].owner
               /\ v.chat \in {v.origin, None}
    <3>1. CASE v \in vectors
      BY <3>1 DEF IInv, DataInv, TypeOK, Vector
    <3>2. CASE v \notin vectors
      <4>1. v.origin = q.chat /\ v.who = q.who /\ v.chat \in {q.chat, None}
        BY <2>1, <3>2 DEF Step, Grows
      <4>2. /\ q.chat \in Chats /\ chat[q.chat].status # "unborn"
            /\ chat[q.chat].owner = q.who
        BY <1>2 DEF Step, Same, IInv, HandlersSound, Sound
      <4> QED BY <4>1, <4>2
    <3> QED BY <3>1, <3>2
  <2> QED BY <2>1 DEF DataInv, Step, ChatsKept
<1>7. AttachInv'
  <2>1. ASSUME NEW x \in Requests
        PROVE  /\ req[x].at # "idle" => req'[x].at # "idle"
               /\ req'[x].kind = req[x].kind
               /\ req[x].parts \subseteq req'[x].parts
    BY <1>1, <1>2 DEF Step, PromptsKept, Same
  <2>2. ASSUME NEW v \in vectors', v.by # None
        PROVE  req'[v.by].at # "idle" /\ (req'[v.by].kind = "attach" => v.file \in req'[v.by].parts \cup BlankFiles)
    <3>1. v.by \in Requests
      BY <1>3, <2>2 DEF TypeOK, Vector
    <3>2. CASE \E w \in vectors : w.by = v.by /\ w.file = v.file
      BY <2>1, <2>2, <3>1, <3>2 DEF IInv, AttachInv
    <3>3. CASE v.by = r /\ (q.kind = "attach" => v.file \in q.parts \cup BlankFiles)
      BY <1>1, <1>2, <3>3
    <3> QED BY <2>2, <3>2, <3>3 DEF Step, PromptsKept
  <2> QED BY <2>2 DEF AttachInv
<1>8. ReportInv'
  <2>1. ASSUME NEW x \in Requests, NEW f
        PROVE  /\ ChunksOf(x, f, TRUE)' = ChunksOf(x, f, TRUE)
               /\ Whole(x, f) => Whole(x, f)'
    <3>1. req'[x].chat = req[x].chat /\ req'[x].who = req[x].who
      BY <1>1, <1>2 DEF Same
    <3> QED BY <3>1 DEF ChunksOf, Whole, Step, Grows
  <2>2. ASSUME NEW x \in Requests, NEW f \in Files, Result(f, TRUE) \in req'[x].results
        PROVE  Whole(x, f)'
    <3>1. CASE Result(f, TRUE) \in req[x].results
      BY <2>1, <3>1 DEF IInv, ReportInv
    <3>2. CASE x = r /\ ChunksOf(r, f, TRUE) \in vectors'
      BY <2>1, <3>2 DEF Whole
    <3> QED BY <1>1, <2>2, <3>1, <3>2 DEF Step, ReportsKept
  <2>4. ASSUME NEW x \in Requests, req'[x].at = "note" PROVE Whole(x, req[x].now)'
    <3>1. PICK f : f = req'[x].now
      OBVIOUS
    <3>2. CASE x # r
      <4>1. Whole(x, f)
        BY <1>1, <2>4, <3>1, <3>2 DEF IInv, ReportInv
      <4> QED BY <2>1, <3>1, <4>1 DEF Whole, ChunksOf
    <3>3. CASE x = r
      <4>1. ChunksOf(r, f, TRUE) \in vectors'
        BY <1>1, <2>4, <3>1, <3>3 DEF Step, ReportsKept
      <4> QED BY <1>1, <2>1, <3>1, <3>3, <4>1 DEF Whole, ChunksOf
    <3> QED BY <3>2, <3>3
  <2>5. ASSUME NEW x \in Requests, NEW c \in Chats, NEW f \in Files,
               [by |-> x, file |-> f] \in notes'[c]
        PROVE  req'[x].at # "idle" /\ Whole(x, f)'
    <3>1. CASE [by |-> x, file |-> f] \in notes[c]
      BY <1>1, <1>2, <2>1, <3>1 DEF IInv, ReportInv
    <3>2. CASE x = r /\ ChunksOf(r, f, TRUE) \in vectors'
      BY <1>1, <1>2, <2>1, <3>2 DEF Whole
    <3>3. [by |-> x, file |-> f] \in Note
      BY DEF Note
    <3> QED BY <2>5, <3>1, <3>2, <3>3 DEF Step, ReportsKept
  <2> QED BY <2>2, <2>4, <2>5 DEF ReportInv, Result, Whole
<1>9. ShareInv'
  <2> SUFFICES ASSUME NEW x \in Requests, req'[x].kind = "share", NEW v \in req'[x].before
               PROVE  /\ v \in vectors' /\ OfChat(req'[x].chat, v)
                      /\ \/ v.ns \in req'[x].todo \cup req'[x].raised
                         \/ Promoted(req'[x], v) \in vectors'
    BY DEF ShareInv, OfChat
  <2>1. /\ req[x].kind = "share" /\ v \in req[x].before
        /\ req'[x].chat = req[x].chat /\ req'[x].who = req[x].who
    BY <1>1, <1>2 DEF Same
  <2>2. Promoted(req'[x], v) = Promoted(req[x], v)
    BY <2>1 DEF Promoted
  <2>3. /\ v \in vectors /\ OfChat(req[x].chat, v)
        /\ v.ns \in req[x].todo \cup req[x].raised \/ Promoted(req[x], v) \in vectors
    BY <2>1 DEF IInv, ShareInv
  <2>4. vectors \subseteq vectors'
    BY DEF Step, Grows
  <2>5. CASE x # r
    BY <1>1, <2>1, <2>2, <2>3, <2>4, <2>5
  <2>6. CASE x = r
    <3>1. SharesKept(r, q) /\ q.kind = "share" /\ v \in q.before
      BY <1>1, <2>6 DEF Step
    <3> QED BY <1>1, <2>1, <2>2, <2>3, <2>4, <2>6, <3>1 DEF SharesKept
  <2> QED BY <2>5, <2>6
<1> QED BY <1>3, <1>4, <1>5, <1>6, <1>7, <1>8, <1>9 DEF IInv

-----------------------------------------------------------------------------
(* The steps of a handler that touch neither the store nor a chat's owner. *)

\* What is asked of a step that leaves the store as it is.
LEMMA QuietSteps ==
  ASSUME IInv, NEW r \in Requests, NEW q \in Request,
         req[r].at \notin {"idle", "ended"}, q.at # "idle", q.at # "note",
         Becomes(r, q), Same(req[r], q), Sound(q),
         reader' = reader, vectors' = vectors, ChatsKept,
         notes' \in [Chats -> SUBSET Note],
         \A c \in Chats : notes'[c] \subseteq notes[c],
         req[r].parts \subseteq q.parts,
         \A f \in Files : Result(f, TRUE) \in q.results => Result(f, TRUE) \in req[r].results,
         q.kind = "share" => req[r].todo \subseteq q.todo /\ req[r].raised \subseteq q.raised
  PROVE  IInv'
<1>1. Grows(q)
  BY DEF Grows, IInv, TypeOK
<1>2. PromptsKept(r, q) /\ SharesKept(r, q) /\ ReportsKept(r, q)
  BY DEF PromptsKept, SharesKept, ReportsKept
<1> QED BY <1>1, <1>2, HandlerSteps DEF Step

\* A step that leaves the chats alone leaves their owners alone.
LEMMA ChatsStay ==
  ASSUME IInv, chat' = chat
  PROVE  ChatsKept
BY DEF IInv, TypeOK, ChatsKept, Session

\* What holds of a handler that is under way.
LEMMA Underway ==
  ASSUME IInv, NEW r \in Requests, req[r].at \notin {"idle", "ended"}
  PROVE  /\ req[r] \in Request /\ Sound(req[r])
         /\ req[r].chat \in Chats /\ req[r].who \in Principals
         /\ chat[req[r].chat].status # "unborn" /\ chat[req[r].chat].owner = req[r].who
         /\ notes \in [Chats -> SUBSET Note]
BY DEF IInv, TypeOK, HandlersSound, Sound, Note

\* The handler is done with a file.
LEMMA ReportedFacts ==
  ASSUME NEW p \in Request, NEW f \in Files, NEW ok \in BOOLEAN
  PROVE  /\ Reported(p, f, ok) \in Request /\ Same(p, Reported(p, f, ok))
         /\ Reported(p, f, ok).at = "files" /\ Reported(p, f, ok).reply = p.reply
         /\ Reported(p, f, ok).parts = p.parts
         /\ Reported(p, f, ok).todo = p.todo \ {f}
         /\ Reported(p, f, ok).results =
              IF p.kind = "upload" THEN p.results \cup {Result(f, ok)} ELSE p.results
<1>1. Result(f, ok) \in [file : Files, ok : BOOLEAN]
  BY DEF Result
<1> DEFINE said == IF p.kind = "upload" THEN p.results \cup {Result(f, ok)} ELSE p.results
<1>2. said \in SUBSET [file : Files, ok : BOOLEAN]
  BY <1>1 DEF Request
<1>3. Reported(p, f, ok) = [p EXCEPT !.at = "files", !.todo = p.todo \ {f}, !.now = None,
                                     !.results = said]
  BY DEF Reported, Request
<1> HIDE DEF said
<1>4. p.todo \ {f} \in SUBSET (Files \cup Namespaces)
  BY DEF Request
<1>5. Reported(p, f, ok) \in Request
  BY <1>2, <1>3, <1>4 DEF Request, Points
<1>6. /\ Same(p, Reported(p, f, ok))
      /\ Reported(p, f, ok).at = "files" /\ Reported(p, f, ok).reply = p.reply
      /\ Reported(p, f, ok).parts = p.parts
      /\ Reported(p, f, ok).todo = p.todo \ {f}
      /\ Reported(p, f, ok).results = said
  BY <1>3 DEF Request, Same
<1> QED BY <1>5, <1>6 DEF said

\* A file reported as failed is no news of a whole file.
LEMMA FailuresAreNoSuccess ==
  ASSUME NEW p \in Request, NEW f \in Files, NEW g \in Files,
         Result(g, TRUE) \in Reported(p, f, FALSE).results
  PROVE  Result(g, TRUE) \in p.results
<1>1. Result(g, TRUE) # Result(f, FALSE)
  BY DEF Result
<1>2. Reported(p, f, FALSE).results \subseteq p.results \cup {Result(f, FALSE)}
  <2>1. Reported(p, f, FALSE).results =
          IF p.kind = "upload" THEN p.results \cup {Result(f, FALSE)} ELSE p.results
    BY ReportedFacts
  <2> QED BY <2>1
<1> QED BY <1>1, <1>2

\* A file that is too large or of an unknown type (messages.py 327-339).
LEMMA StepRefuseFile ==
  ASSUME IInv, NEW r \in Requests, NEW f \in Files, RefuseFile(r, f)
  PROVE  IInv'
<1> DEFINE q == Reported(req[r], f, FALSE)
<1>1. /\ req[r].at = "files" /\ Becomes(r, q)
      /\ reader' = reader /\ vectors' = vectors /\ chat' = chat /\ notes' = notes
  BY DEF RefuseFile
<1>2. req[r] \in Request /\ Sound(req[r]) /\ notes \in [Chats -> SUBSET Note]
  BY <1>1, Underway
<1>3. /\ q \in Request /\ Same(req[r], q) /\ q.at = "files" /\ q.parts = req[r].parts
      /\ \A g \in Files : Result(g, TRUE) \in q.results => Result(g, TRUE) \in req[r].results
  BY <1>2, ReportedFacts, FailuresAreNoSuccess
<1>4. Sound(q) /\ q.kind # "share"
  BY <1>1, <1>2, <1>3 DEF Sound, Same
<1> HIDE DEF q
<1> QED BY <1>1, <1>2, <1>3, <1>4, ChatsStay, QuietSteps

\* A file of a chat whose agents keep no namespace: parsed, never indexed.
LEMMA StepParseOnly ==
  ASSUME IInv, NEW r \in Requests, NEW f \in Files, ParseOnly(r, f)
  PROVE  IInv'
<1> DEFINE q == [Reported(req[r], f, TRUE) EXCEPT !.parts = Prompted(req[r], f)]
<1>1. /\ req[r].at = "files" /\ Becomes(r, q) /\ ~CanWrite
      /\ reader' = reader /\ vectors' = vectors /\ chat' = chat /\ notes' = notes
  BY DEF ParseOnly
<1>2. req[r] \in Request /\ Sound(req[r]) /\ notes \in [Chats -> SUBSET Note]
  BY <1>1, Underway
<1>3. req[r].kind = "attach"
  BY <1>1, <1>2 DEF Sound
<1>4. /\ q \in Request /\ Same(req[r], q) /\ q.at = "files" /\ req[r].parts \subseteq q.parts
      /\ q.results = req[r].results
  BY <1>2, <1>3 DEF Request, Reported, Prompted, Same, Points
<1>5. Sound(q) /\ q.kind # "share"
  BY <1>1, <1>2, <1>3, <1>4 DEF Sound, Same
<1> HIDE DEF q
<1> QED BY <1>1, <1>2, <1>4, <1>5, ChatsStay, QuietSteps

\* An upload whose ingestion raises, with some chunks written or none.
LEMMA StepIngestRaises ==
  ASSUME IInv, NEW r \in Requests, IngestRaises(r)
  PROVE  IInv'
<1> DEFINE q == Reported(req[r], req[r].now, FALSE)
<1>1. /\ req[r].at = "ingest" /\ Becomes(r, q)
      /\ reader' = reader /\ vectors' = vectors /\ chat' = chat /\ notes' = notes
  BY DEF IngestRaises, AfterIngestRaises
<1>2. req[r] \in Request /\ Sound(req[r]) /\ notes \in [Chats -> SUBSET Note]
  BY <1>1, Underway
<1>3. req[r].now \in Files /\ req[r].kind \in {"upload", "attach"}
  BY <1>1, <1>2 DEF Sound
<1>4. /\ q \in Request /\ Same(req[r], q) /\ q.at = "files" /\ q.parts = req[r].parts
      /\ \A g \in Files : Result(g, TRUE) \in q.results => Result(g, TRUE) \in req[r].results
  BY <1>2, <1>3, ReportedFacts, FailuresAreNoSuccess
<1>5. Sound(q) /\ q.kind # "share"
  BY <1>1, <1>2, <1>3, <1>4 DEF Sound, Same
<1> HIDE DEF q
<1> QED BY <1>1, <1>2, <1>4, <1>5, ChatsStay, QuietSteps

\* An upload whose system row cannot be stored after its file was indexed.
LEMMA StepNoteRaises ==
  ASSUME IInv, NEW r \in Requests, NoteRaises(r)
  PROVE  IInv'
<1> DEFINE q == Reported(req[r], req[r].now, FALSE)
<1>1. /\ req[r].at = "note" /\ Becomes(r, q)
      /\ reader' = reader /\ vectors' = vectors /\ chat' = chat /\ notes' = notes
  BY DEF NoteRaises, AfterNoteRaises
<1>2. req[r] \in Request /\ Sound(req[r]) /\ notes \in [Chats -> SUBSET Note]
  BY <1>1, Underway
<1>3. req[r].now \in Files /\ req[r].kind = "upload"
  BY <1>1, <1>2 DEF Sound
<1>4. /\ q \in Request /\ Same(req[r], q) /\ q.at = "files" /\ q.parts = req[r].parts
      /\ \A g \in Files : Result(g, TRUE) \in q.results => Result(g, TRUE) \in req[r].results
  BY <1>2, <1>3, ReportedFacts, FailuresAreNoSuccess
<1>5. Sound(q) /\ q.kind # "share"
  BY <1>1, <1>2, <1>3, <1>4 DEF Sound, Same
<1> HIDE DEF q
<1> QED BY <1>1, <1>2, <1>4, <1>5, ChatsStay, QuietSteps

\* A handler that ends leaves its lists as they are.
Ended(p, reply) == [p EXCEPT !.at = "ended", !.reply = reply]

\* A handler that has answered is sound, whatever it answers.
LEMMA EndedFacts ==
  ASSUME NEW p \in Request, NEW reply \in {"ok", "failed"}, Sound(p),
         p.at \notin {"idle", "ended"},
         p.kind = "share" /\ reply = "ok" => p.todo = {}
  PROVE  /\ Ended(p, reply) \in Request /\ Same(p, Ended(p, reply)) /\ Sound(Ended(p, reply))
         /\ Ended(p, reply).at = "ended" /\ Ended(p, reply).parts = p.parts
         /\ Ended(p, reply).results = p.results
         /\ Ended(p, reply).todo = p.todo /\ Ended(p, reply).raised = p.raised
<1>1. /\ Ended(p, reply) \in Request /\ Same(p, Ended(p, reply))
      /\ Ended(p, reply).at = "ended" /\ Ended(p, reply).parts = p.parts
      /\ Ended(p, reply).results = p.results /\ Ended(p, reply).reply = reply
      /\ Ended(p, reply).todo = p.todo /\ Ended(p, reply).raised = p.raised
  BY DEF Ended, Request, Same, Points
<1> QED BY <1>1 DEF Sound, Same

\* The steps that answer a request and change nothing else.
LEMMA StepEnds ==
  ASSUME IInv, NEW r \in Requests, NEW reply \in {"ok", "failed"},
         req[r].at \notin {"idle", "ended"},
         req[r].kind = "share" /\ reply = "ok" => req[r].todo = {},
         Becomes(r, Ended(req[r], reply)),
         reader' = reader, vectors' = vectors, ChatsKept,
         notes' \in [Chats -> SUBSET Note],
         \A c \in Chats : notes'[c] \subseteq notes[c]
  PROVE  IInv'
<1> DEFINE q == Ended(req[r], reply)
<1>1. req[r] \in Request /\ Sound(req[r])
  BY Underway
<1>2. /\ q \in Request /\ Same(req[r], q) /\ Sound(q) /\ q.at = "ended"
      /\ q.parts = req[r].parts /\ q.results = req[r].results
      /\ q.todo = req[r].todo /\ q.raised = req[r].raised
  BY <1>1, EndedFacts
<1>3. Becomes(r, q)
  OBVIOUS
<1> HIDE DEF q
<1> QED BY <1>2, <1>3, QuietSteps

\* The files are all dealt with, or the handler is abandoned.
LEMMA StepOthersEnd ==
  ASSUME IInv, NEW r \in Requests, FilesDone(r) \/ Abandon(r)
  PROVE  IInv'
<1>1. PICK reply \in {"ok", "failed"} :
        /\ req[r].at \notin {"idle", "ended"} /\ Becomes(r, Ended(req[r], reply))
        /\ reply = "ok" => req[r].at = "files"
  BY DEF FilesDone, Abandon, Ended
<1>2. reader' = reader /\ vectors' = vectors /\ chat' = chat /\ notes' = notes
  BY DEF FilesDone, Abandon
<1>3. notes \in [Chats -> SUBSET Note] /\ Sound(req[r])
  BY <1>1, Underway
<1>4. reply = "ok" => req[r].kind # "share"
  BY <1>1, <1>3 DEF Sound
<1> QED BY <1>1, <1>2, <1>3, <1>4, ChatsStay, StepEnds

\* The chat is marked shared after its namespaces were dealt with.
LEMMA StepMarkShared ==
  ASSUME IInv, NEW r \in Requests, MarkShared(r)
  PROVE  IInv'
<1>1. /\ req[r].at = "promote" /\ req[r].todo = {} /\ Becomes(r, Ended(req[r], "ok"))
      /\ reader' = reader /\ vectors' = vectors /\ notes' = notes
  BY DEF MarkShared, Ended
<1>2. notes \in [Chats -> SUBSET Note]
  BY <1>1, Underway
<1>3. ChatsKept
  <2> DEFINE c == req[r].chat
             shared == IF Live(c) THEN TRUE ELSE chat[c].shared
  <2>1. chat \in [Chats -> Session]
    BY DEF IInv, TypeOK, Session
  <2>2. chat' = [chat EXCEPT ![c] = [chat[c] EXCEPT !.shared = shared]]
    BY DEF MarkShared
  <2> HIDE DEF c
  <2>3. c \in Chats => chat[c] \in Session /\ shared \in BOOLEAN
    BY <2>1 DEF Session
  <2> HIDE DEF shared
  <2>4. c \in Chats => LET s == [chat[c] EXCEPT !.shared = shared]
                       IN  s \in Session /\ s.owner = chat[c].owner /\ s.status = chat[c].status
    BY <2>3 DEF Session
  <2> QED BY <2>1, <2>2, <2>4 DEF ChatsKept
<1> QED BY <1>1, <1>2, <1>3, StepEnds

\* A deleted chat keeps its owner and its points.
LEMMA StepDeleteChat ==
  ASSUME IInv, NEW r \in Requests, DeleteChat(r)
  PROVE  IInv'
<1>1. /\ req[r].at = "delete" /\ Becomes(r, Ended(req[r], "ok"))
      /\ reader' = reader /\ vectors' = vectors
      /\ notes' = [notes EXCEPT ![req[r].chat] = {}]
  BY DEF DeleteChat, Ended
<1>2. /\ notes \in [Chats -> SUBSET Note] /\ req[r].chat \in Chats
      /\ chat[req[r].chat].status # "unborn"
  BY <1>1, Underway
<1>3. ChatsKept
  <2> DEFINE c == req[r].chat
  <2>1. chat \in [Chats -> Session] /\ chat' = [chat EXCEPT ![c] = [chat[c] EXCEPT !.status = "deleted"]]
    BY DEF DeleteChat, IInv, TypeOK, Session
  <2> HIDE DEF c
  <2>2. c \in Chats => LET s == [chat[c] EXCEPT !.status = "deleted"]
                       IN  s \in Session /\ s.owner = chat[c].owner /\ s.status = "deleted"
    BY <2>1 DEF Session
  <2> QED BY <1>2, <2>1, <2>2 DEF ChatsKept, c
<1>4. req[r].kind # "share" \/ req[r].todo = {}
  BY <1>1 DEF IInv, HandlersSound, Sound
<1>5. /\ notes' \in [Chats -> SUBSET Note]
      /\ \A c \in Chats : notes'[c] \subseteq notes[c]
  BY <1>1, <1>2
<1> QED BY <1>1, <1>3, <1>4, <1>5, StepEnds

-----------------------------------------------------------------------------
(* The steps that write points or notes. *)

\* The chunks of a file of a request are points.
LEMMA ChunksType ==
  ASSUME NEW r \in Requests, NEW f \in Files, NEW whole \in BOOLEAN,
         req[r].chat \in Chats, req[r].who \in Principals
  PROVE  /\ ChunksOf(r, f, whole) \in Vector
         /\ ChunksOf(r, f, whole).origin = req[r].chat
         /\ ChunksOf(r, f, whole).who = req[r].who
         /\ ChunksOf(r, f, whole).chat = req[r].chat
         /\ ChunksOf(r, f, whole).by = r /\ ChunksOf(r, f, whole).file = f
BY DEF ChunksOf, Vector, Namespaces

\* A handler writes points of one file.
LEMMA ChunksGrow ==
  ASSUME IInv, NEW r \in Requests, NEW f \in Files, NEW whole \in BOOLEAN, NEW q \in Request,
         req[r].at \notin {"idle", "ended"}, Same(req[r], q),
         req[r].parts \subseteq q.parts, q.kind = "attach" => f \in q.parts \cup BlankFiles,
         vectors' = vectors \cup {ChunksOf(r, f, whole)}
  PROVE  Grows(q) /\ PromptsKept(r, q)
<1>1. req[r].chat \in Chats /\ req[r].who \in Principals
  BY Underway
<1>2. /\ ChunksOf(r, f, whole) \in Vector
      /\ ChunksOf(r, f, whole).origin = q.chat
      /\ ChunksOf(r, f, whole).who = q.who
      /\ ChunksOf(r, f, whole).chat = q.chat
      /\ ChunksOf(r, f, whole).by = r /\ ChunksOf(r, f, whole).file = f
  BY <1>1, ChunksType DEF Same
<1>3. vectors \subseteq Vector
  BY DEF IInv, TypeOK
<1> QED BY <1>2, <1>3 DEF Grows, PromptsKept

\* Ingestion writes some of the chunks before it is done or raises.
LEMMA StepBeginIngest ==
  ASSUME IInv, NEW r \in Requests, NEW f \in Files, BeginIngest(r, f)
  PROVE  IInv'
<1> DEFINE q == [req[r] EXCEPT !.at = "ingest", !.now = f, !.parts = Prompted(req[r], f)]
<1>1. /\ req[r].at = "files" /\ Becomes(r, q)
      /\ reader' = reader /\ chat' = chat /\ notes' = notes
      /\ vectors' = vectors \cup {ChunksOf(r, f, FALSE)}
  BY DEF BeginIngest
<1>2. req[r] \in Request /\ Sound(req[r]) /\ notes \in [Chats -> SUBSET Note]
  BY <1>1, Underway
<1>3. Prompted(req[r], f) \in SUBSET Files
  BY <1>2 DEF Prompted, Request
<1>4. /\ q \in Request /\ Same(req[r], q) /\ q.at = "ingest" /\ q.now = f
      /\ q.results = req[r].results /\ q.reply = req[r].reply /\ q.todo = req[r].todo
      /\ q.parts = Prompted(req[r], f)
  BY <1>2, <1>3 DEF Request, Same, Points
<1>5. req[r].parts \subseteq q.parts /\ (q.kind = "attach" => f \in q.parts \cup BlankFiles)
  BY <1>4 DEF Prompted, Same
<1>6. Sound(q) /\ q.kind # "share"
  BY <1>1, <1>2, <1>4, <1>5 DEF Sound, Same
<1> HIDE DEF q
<1>7. Grows(q) /\ PromptsKept(r, q)
  BY <1>1, <1>4, <1>5, ChunksGrow
<1>8. ReportsKept(r, q) /\ SharesKept(r, q)
  BY <1>1, <1>2, <1>4, <1>6 DEF ReportsKept, SharesKept
<1> QED BY <1>1, <1>4, <1>6, <1>7, <1>8, ChatsStay, HandlerSteps DEF Step

\* Ingestion writes the rest of the chunks, and the file is indexed.
LEMMA StepFinishIngest ==
  ASSUME IInv, NEW r \in Requests, FinishIngest(r)
  PROVE  IInv'
<1>1. PICK f \in Files : f = req[r].now
  BY DEF FinishIngest, IInv, HandlersSound, Sound
<1> DEFINE q == AfterIngest(req[r])
<1>2. /\ req[r].at = "ingest" /\ Becomes(r, q)
      /\ reader' = reader /\ chat' = chat /\ notes' = notes
      /\ vectors' = vectors \cup {ChunksOf(r, f, TRUE)}
  BY <1>1 DEF FinishIngest
<1>3. req[r] \in Request /\ Sound(req[r]) /\ notes \in [Chats -> SUBSET Note]
  BY <1>2, Underway
<1>4. /\ q \in Request /\ Same(req[r], q) /\ q.parts = req[r].parts /\ q.reply = req[r].reply
      /\ q.at = IF req[r].kind = "upload" THEN "note" ELSE "files"
      /\ q.at = "note" => q.now = f
      /\ q.results \subseteq req[r].results \cup {Result(f, TRUE)}
  <2>1. CASE req[r].kind = "upload"
    <3>1. req[r].results \cup {Result(f, TRUE)} \in SUBSET [file : Files, ok : BOOLEAN]
      <4>1. Result(f, TRUE) \in [file : Files, ok : BOOLEAN]
        BY DEF Result
      <4>2. req[r].results \in SUBSET [file : Files, ok : BOOLEAN]
        BY <1>3 DEF Request
      <4> QED BY <4>1, <4>2
    <3>2. q = [req[r] EXCEPT !.at = "note", !.results = req[r].results \cup {Result(f, TRUE)}]
      BY <1>1, <2>1 DEF AfterIngest
    <3> QED BY <1>1, <1>3, <2>1, <3>1, <3>2 DEF Request, Same, Points
  <2>2. CASE req[r].kind # "upload"
    <3>1. q = Reported(req[r], f, TRUE)
      BY <1>1, <2>2 DEF AfterIngest
    <3> HIDE DEF q
    <3>2. /\ q \in Request /\ Same(req[r], q) /\ q.at = "files" /\ q.reply = req[r].reply
          /\ q.parts = req[r].parts /\ q.results = req[r].results
      BY <1>3, <2>2, <3>1, ReportedFacts
    <3> QED BY <2>2, <3>2
  <2> QED BY <2>1, <2>2
<1> HIDE DEF q
<1>5. req[r].kind \in {"upload", "attach"} /\ (q.kind = "attach" => f \in q.parts \cup BlankFiles)
  BY <1>1, <1>2, <1>3, <1>4 DEF Sound, Same
<1>6. Sound(q) /\ q.kind # "share"
  BY <1>2, <1>3, <1>4, <1>5 DEF Sound, Same
<1>7. Grows(q) /\ PromptsKept(r, q)
  BY <1>2, <1>4, <1>5, ChunksGrow
<1>8. \A g : Result(g, TRUE) = Result(f, TRUE) => g = f
  BY DEF Result
<1>9. ReportsKept(r, q) /\ SharesKept(r, q)
  BY <1>2, <1>3, <1>4, <1>6, <1>8 DEF ReportsKept, SharesKept
<1> QED BY <1>2, <1>4, <1>6, <1>7, <1>9, ChatsStay, HandlerSteps DEF Step

\* The system row that names an indexed file is stored.
LEMMA StepStoreNote ==
  ASSUME IInv, NEW r \in Requests, StoreNote(r)
  PROVE  IInv'
<1>1. PICK f \in Files : f = req[r].now
  BY DEF StoreNote, IInv, HandlersSound, Sound
<1> DEFINE q == [req[r] EXCEPT !.at = "files", !.todo = req[r].todo \ {f}, !.now = None]
<1> DEFINE note == [by |-> r, file |-> f]
<1>2. /\ req[r].at = "note" /\ Becomes(r, q)
      /\ reader' = reader /\ chat' = chat /\ vectors' = vectors
      /\ notes' = [notes EXCEPT ![req[r].chat] = notes[req[r].chat] \cup {note}]
  BY <1>1 DEF StoreNote
<1>3. req[r] \in Request /\ Sound(req[r]) /\ notes \in [Chats -> SUBSET Note]
  BY <1>2, Underway
<1>4. /\ q \in Request /\ Same(req[r], q) /\ q.parts = req[r].parts /\ q.reply = req[r].reply
      /\ q.at = "files" /\ q.results = req[r].results
  BY <1>3 DEF Request, Same, Points
<1>5. note \in Note /\ note.by = r /\ note.file = f
  BY DEF Note
<1> HIDE DEF q, note
<1>6. Sound(q) /\ q.kind # "share"
  BY <1>2, <1>3, <1>4 DEF Sound, Same
<1>7. Grows(q) /\ PromptsKept(r, q) /\ SharesKept(r, q)
  BY <1>2, <1>4, <1>6 DEF Grows, PromptsKept, SharesKept, IInv, TypeOK
<1>8. ChunksOf(r, f, TRUE) \in vectors'
  BY <1>1, <1>2 DEF IInv, ReportInv, Whole
<1>9. /\ notes' \in [Chats -> SUBSET Note]
      /\ \A c \in Chats, n \in Note : n \in notes'[c] => n \in notes[c] \/ n = note
  BY <1>2, <1>3, <1>5
<1>10. ReportsKept(r, q)
  BY <1>4, <1>5, <1>8, <1>9 DEF ReportsKept
<1> QED BY <1>2, <1>4, <1>6, <1>7, <1>10, ChatsStay, HandlerSteps DEF Step

\* What a promotion copies is the chat's own.
LEMMA CopiesFacts ==
  ASSUME IInv, NEW r \in Requests, NEW ns, req[r].at = "promote", NEW v \in Copies(req[r], ns)
  PROVE  /\ v \in Vector /\ v.origin = req[r].chat /\ v.who = req[r].who /\ v.chat = None
         /\ \E w \in vectors : w.by = v.by /\ w.file = v.file
<1>1. PICK w \in vectors : w.ns = ns /\ OfChat(req[r].chat, w) /\ v = Promoted(req[r], w)
  BY DEF Copies
<1>2. req[r].who \in Principals /\ req[r].chat \in Chats
  BY Underway
<1>3. w \in Vector /\ w.chat = req[r].chat
  BY <1>1 DEF IInv, TypeOK, OfChat
<1>4. w.chat \in {w.origin, None}
  BY <1>1 DEF IInv, DataInv
<1>5. w.origin = req[r].chat
  BY <1>2, <1>3, <1>4, DocumentsAssumption
<1> QED BY <1>1, <1>2, <1>3, <1>5 DEF Promoted, Vector

\* One namespace of a share is dealt with: copied in full, or its promotion raised.
LEMMA PromotionSteps ==
  ASSUME IInv, NEW r \in Requests, NEW ns \in Namespaces, NEW copied \in SUBSET Copies(req[r], ns),
         NEW raised \in {{}, {ns}}, raised = {} => copied = Copies(req[r], ns),
         req[r].at = "promote", reader' = reader, chat' = chat, notes' = notes,
         vectors' = vectors \cup copied,
         Becomes(r, [req[r] EXCEPT !.todo = req[r].todo \ {ns},
                                   !.raised = req[r].raised \cup raised])
  PROVE  IInv'
<1> DEFINE q == [req[r] EXCEPT !.todo = req[r].todo \ {ns},
                               !.raised = req[r].raised \cup raised]
<1>1. req[r] \in Request /\ Sound(req[r]) /\ notes \in [Chats -> SUBSET Note] /\ Becomes(r, q)
  BY Underway
<1>2. /\ q \in Request /\ Same(req[r], q) /\ q.at = "promote" /\ q.parts = req[r].parts
      /\ q.results = req[r].results /\ q.reply = req[r].reply
      /\ q.todo = req[r].todo \ {ns} /\ q.raised = req[r].raised \cup raised
  BY <1>1 DEF Request, Same
<1> HIDE DEF q
<1>3. Sound(q) /\ q.kind = "share"
  BY <1>1, <1>2 DEF Sound, Same
<1>4. Grows(q) /\ PromptsKept(r, q)
  <2>1. vectors \subseteq Vector
    BY DEF IInv, TypeOK
  <2>2. \A v \in copied : /\ v \in Vector /\ v.origin = q.chat /\ v.who = q.who /\ v.chat = None
                          /\ \E w \in vectors : w.by = v.by /\ w.file = v.file
    BY <1>2, CopiesFacts DEF Same
  <2> QED BY <1>2, <2>1, <2>2 DEF Grows, PromptsKept
<1>5. ReportsKept(r, q)
  BY <1>1, <1>2 DEF ReportsKept
<1>6. SharesKept(r, q)
  <2> SUFFICES ASSUME NEW v \in q.before, v.ns \in req[r].todo \cup req[r].raised,
                      v.ns \notin q.todo \cup q.raised
               PROVE  Promoted(q, v) \in vectors'
    BY DEF SharesKept
  <2>1. v.ns = ns /\ raised = {}
    BY <1>2
  <2>2. v \in vectors /\ OfChat(req[r].chat, v)
    BY <1>2, <1>3 DEF IInv, ShareInv, Same
  <2>3. Promoted(q, v) = Promoted(req[r], v)
    BY <1>2 DEF Same, Promoted
  <2> QED BY <2>1, <2>2, <2>3 DEF Copies
<1> QED BY <1>1, <1>2, <1>3, <1>4, <1>5, <1>6, ChatsStay, HandlerSteps DEF Step

\* Promotion of a namespace: in full, or in part and then an error that is caught.
LEMMA StepPromotes ==
  ASSUME IInv, NEW r \in Requests, NEW ns \in Namespaces,
         PromoteNamespace(r, ns) \/ PromotionRaises(r, ns)
  PROVE  IInv'
<1>1. req[r] \in Request
  BY DEF IInv, TypeOK
<1>2. CASE PromoteNamespace(r, ns)
  <2>1. [req[r] EXCEPT !.todo = req[r].todo \ {ns}] =
          [req[r] EXCEPT !.todo = req[r].todo \ {ns}, !.raised = req[r].raised \cup {}]
    BY <1>1 DEF Request
  <2> QED BY <1>2, <2>1, PromotionSteps DEF PromoteNamespace
<1>3. CASE PromotionRaises(r, ns)
  BY <1>3, PromotionSteps DEF PromotionRaises, AfterPromotionRaises
<1> QED BY <1>2, <1>3

-----------------------------------------------------------------------------
(* Arrivals and the steps of others *)

\* A blank handler becomes q.
LEMMA ArrivalSteps ==
  ASSUME IInv, NEW r \in Requests, NEW q \in Request,
         req[r].at = "idle", q.at \notin {"idle", "note"}, Becomes(r, q), Sound(q),
         q.results = {},
         \A v \in q.before : v \in vectors /\ OfChat(q.chat, v) /\ v.ns \in q.todo,
         reader' = reader, chat' = chat, notes' = notes, vectors' = vectors
  PROVE  IInv'
<1>1. /\ req' \in [Requests -> Request]
      /\ req'[r] = q
      /\ \A x \in Requests : x # r => req'[x] = req[x]
  BY BecomesOnly DEF IInv, TypeOK
<1>2. TypeOK' /\ ChatsOwned' /\ DataInv'
  BY <1>1 DEF IInv, TypeOK, ChatsOwned, DataInv
<1>3. HandlersSound'
  <2>1. \A x \in Requests : Sound(req'[x])
    BY <1>1 DEF IInv, HandlersSound
  <2> QED BY <2>1 DEF HandlersSound, Sound, CanWrite
<1>4. AttachInv'
  <2>1. \A v \in vectors : v.by # None => v.by \in Requests /\ req[v.by].at # "idle"
    BY DEF IInv, AttachInv, TypeOK, Vector
  <2> QED BY <1>1, <2>1 DEF IInv, AttachInv
<1>5. ReportInv'
  <2>1. \A x \in Requests : \A f : x # r => Whole(x, f)' = Whole(x, f)
    BY <1>1 DEF Whole, ChunksOf
  <2>2. ASSUME NEW x \in Requests, x # r
        PROVE  /\ \A f \in Files : Result(f, TRUE) \in req'[x].results => Whole(x, f)'
               /\ req'[x].at = "note" => Whole(x, req[x].now)'
               /\ \A c \in Chats, f \in Files :
                    [by |-> x, file |-> f] \in notes'[c] => req'[x].at # "idle" /\ Whole(x, f)'
    <3>1. req'[x] = req[x]
      BY <1>1, <2>2
    <3>2. req'[x].at = "note" => Whole(x, req[x].now)'
      <4>1. PICK f : f = req[x].now
        OBVIOUS
      <4>2. req[x].at = "note" => Whole(x, f)
        BY <4>1 DEF IInv, ReportInv
      <4> QED BY <2>1, <2>2, <3>1, <4>1, <4>2 DEF Whole, ChunksOf
    <3> QED BY <2>1, <2>2, <3>1, <3>2 DEF IInv, ReportInv
  <2>3. \A c \in Chats, f \in Files : [by |-> r, file |-> f] \notin notes'[c]
    BY DEF IInv, ReportInv
  <2> QED BY <1>1, <2>2, <2>3 DEF ReportInv, Result, Whole
<1>6. ShareInv'
  <2> SUFFICES ASSUME NEW x \in Requests, req'[x].kind = "share", NEW v \in req'[x].before
               PROVE  /\ v \in vectors' /\ OfChat(req'[x].chat, v)
                      /\ \/ v.ns \in req'[x].todo \cup req'[x].raised
                         \/ Promoted(req'[x], v) \in vectors'
    BY DEF ShareInv, OfChat
  <2> QED BY <1>1 DEF IInv, ShareInv
<1> QED BY <1>2, <1>3, <1>4, <1>5, <1>6 DEF IInv

\* A request that arrives has indexed, reported and promoted nothing.
LEMMA StepArrive ==
  ASSUME IInv, NEW r \in Requests, NEW k \in DocumentKinds, NEW p \in Principals,
         NEW c \in Chats, NEW files \in SUBSET Files, Arrive(r, k, p, c, files)
  PROVE  IInv'
<1> DEFINE arrived == [IdleRequest EXCEPT !.kind = k, !.who = p, !.chat = c, !.files = files]
<1>1. /\ req[r].at = "idle"
      /\ reader' = reader /\ chat' = chat /\ notes' = notes /\ vectors' = vectors
      /\ Becomes(r, IF Unsupported(k)
                    THEN [arrived EXCEPT !.at = "ended", !.reply = "unsupported"]
                    ELSE IF ~Owns(p, c)
                    THEN [arrived EXCEPT !.at = "ended", !.reply = "notfound"]
                    ELSE Enter(arrived))
  BY DEF Arrive
<1>2. arrived = [kind |-> k, who |-> p, chat |-> c, at |-> "idle",
                 files |-> files, todo |-> {}, now |-> None, parts |-> {}, results |-> {},
                 before |-> {}, raised |-> {}, reply |-> "none"]
  <2> DEFINE empty(kk, w, cc, fs) ==
        [kind |-> kk, who |-> w, chat |-> cc, at |-> "idle",
         files |-> fs, todo |-> {}, now |-> None, parts |-> {}, results |-> {},
         before |-> {}, raised |-> {}, reply |-> "none"]
  <2>1. [IdleRequest EXCEPT !.kind = k] = empty(k, None, None, {})
    BY DEF IdleRequest
  <2>2. [empty(k, None, None, {}) EXCEPT !.who = p] = empty(k, p, None, {})
    OBVIOUS
  <2>3. [empty(k, p, None, {}) EXCEPT !.chat = c] = empty(k, p, c, {})
    OBVIOUS
  <2>4. [empty(k, p, c, {}) EXCEPT !.files = files] = empty(k, p, c, files)
    OBVIOUS
  <2> QED BY <2>1, <2>2, <2>3, <2>4
<1>3. arrived \in Request
  BY <1>2 DEF Request, Points
<1> HIDE DEF arrived
\* What is common to all that a new handler may be.
<1>4. ASSUME NEW q \in Request, q.at \notin {"idle", "note"}, Becomes(r, q), Sound(q),
             q.results = {},
             \A v \in q.before : v \in vectors /\ OfChat(q.chat, v) /\ v.ns \in q.todo
      PROVE  IInv'
  BY <1>1, <1>4, ArrivalSteps
<1>5. ASSUME NEW reply \in {"unsupported", "notfound"},
             Becomes(r, [arrived EXCEPT !.at = "ended", !.reply = reply])
      PROVE  IInv'
  <2> DEFINE q == [arrived EXCEPT !.at = "ended", !.reply = reply]
  <2>1. q \in Request /\ q.at = "ended" /\ q.results = {} /\ q.before = {} /\ q.reply # "ok"
    BY <1>2, <1>3 DEF Request, Points
  <2> HIDE DEF q
  <2>2. Sound(q)
    BY <2>1 DEF Sound
  <2> QED BY <1>4, <1>5, <2>1, <2>2 DEF q
<1>6. ASSUME ~Unsupported(k), Owns(p, c), Becomes(r, Enter(arrived)) PROVE IInv'
  <2>1. /\ chat[c].status # "unborn" /\ chat[c].owner = p
        /\ k = "upload" => CanWrite
    <3>1. chat[c].status # "unborn" /\ chat[c].owner \in Principals
      BY <1>6 DEF Owns, Live, IInv, ChatsOwned
    <3> QED BY <1>6, <3>1 DEF Owns, Principals, Unsupported
  <2>2. CASE k \in {"upload", "attach"}
    <3> DEFINE q == [arrived EXCEPT !.at = "files", !.todo = files]
    <3>1. Becomes(r, q)
      BY <1>2, <1>6, <2>2 DEF Enter
    <3>2. /\ q \in Request /\ q.at = "files" /\ q.results = {} /\ q.before = {}
          /\ q.kind = k /\ q.chat = c /\ q.who = p
      <4>1. /\ arrived.results = {} /\ arrived.before = {}
            /\ arrived.kind = k /\ arrived.chat = c /\ arrived.who = p
        BY <1>2
      <4>2. files \in SUBSET (Files \cup Namespaces)
        OBVIOUS
      <4> QED BY <1>3, <4>1, <4>2 DEF Request, Points
    <3> HIDE DEF q
    <3>3. Sound(q)
      BY <2>1, <2>2, <3>2 DEF Sound
    <3> QED BY <1>4, <3>1, <3>2, <3>3
  <2>3. CASE k = "share"
    <3> DEFINE mine == {v \in vectors : OfChat(c, v)}
    <3> DEFINE q == [arrived EXCEPT !.at = "promote", !.todo = Namespaces, !.before = mine]
    <3>1. Becomes(r, q)
      BY <1>2, <1>6, <2>3 DEF Enter
    <3>2. mine \in SUBSET Vector
      BY DEF IInv, TypeOK
    <3> HIDE DEF mine
    <3>3. /\ q \in Request /\ q.at = "promote" /\ q.results = {} /\ q.before = mine
          /\ q.kind = k /\ q.chat = c /\ q.who = p /\ q.todo = Namespaces /\ q.reply = "none"
      BY <1>2, <1>3, <3>2 DEF Request, Points
    <3> HIDE DEF q
    <3>4. Sound(q)
      BY <2>1, <2>3, <3>3 DEF Sound
    <3>5. \A v \in q.before : v \in vectors /\ OfChat(q.chat, v) /\ v.ns \in q.todo
      BY <3>3 DEF mine, IInv, TypeOK, Vector
    <3> QED BY <1>4, <3>1, <3>3, <3>4, <3>5
  <2>4. CASE k = "delete"
    <3> DEFINE q == [arrived EXCEPT !.at = "delete"]
    <3>1. Becomes(r, q)
      BY <1>2, <1>6, <2>4 DEF Enter
    <3>2. /\ q \in Request /\ q.at = "delete" /\ q.results = {} /\ q.before = {}
          /\ q.kind = k /\ q.chat = c /\ q.who = p
      BY <1>2, <1>3 DEF Request, Points
    <3> HIDE DEF q
    <3>3. Sound(q)
      BY <2>1, <2>4, <3>2 DEF Sound
    <3> QED BY <1>4, <3>1, <3>2, <3>3
  <2> QED BY <2>2, <2>3, <2>4 DEF DocumentKinds
<1> QED BY <1>1, <1>5, <1>6

\* A chat that is created has an owner from then on, and no points.
LEMMA StepCreateChat ==
  ASSUME IInv, NEW p \in Principals, NEW c \in Chats, CreateChat(p, c)
  PROVE  IInv'
<1>1. /\ reader' = reader /\ notes' = notes /\ vectors' = vectors /\ req' = req
      /\ chat[c].status = "unborn"
      /\ chat' \in [Chats -> Session]
      /\ chat'[c].status = "live" /\ chat'[c].owner = p
      /\ \A d \in Chats : d # c => chat'[d] = chat[d]
  BY DEF CreateChat, IInv, TypeOK, Session
<1>2. TypeOK' /\ ChatsOwned'
  BY <1>1 DEF IInv, TypeOK, ChatsOwned, Session
<1>3. HandlersSound'
  <2>1. ASSUME NEW x \in Requests PROVE Sound(req[x])'
    <3>1. Sound(req[x])
      BY DEF IInv, HandlersSound
    <3>2. req[x].at \notin {"idle", "ended"} => chat'[req[x].chat] = chat[req[x].chat]
      BY <1>1, <3>1 DEF Sound
    <3> QED BY <1>1, <3>1, <3>2 DEF Sound, CanWrite
  <2> QED BY <2>1 DEF HandlersSound
<1>4. DataInv'
  <2>1. \A v \in vectors : chat'[v.origin] = chat[v.origin]
    BY <1>1 DEF IInv, DataInv, TypeOK, Vector
  <2> QED BY <1>1, <2>1 DEF IInv, DataInv
<1>5. AttachInv' /\ ReportInv' /\ ShareInv'
  BY <1>1 DEF IInv, AttachInv, ReportInv, ShareInv, Whole, ChunksOf, OfChat, Promoted
<1> QED BY <1>2, <1>3, <1>4, <1>5 DEF IInv

\* An agent of the graph indexes for the chat of its own turn.
LEMMA StepAgentIndexes ==
  ASSUME IInv, NEW c \in Chats, NEW ns \in AgentNamespaces, AgentIndexes(c, ns)
  PROVE  IInv'
<1> DEFINE learnt == [ns |-> ns, scope |-> "chat_agent", chat |-> c, who |-> chat[c].owner,
                      origin |-> c, by |-> None, file |-> None, whole |-> TRUE]
<1>1. /\ reader' = reader /\ notes' = notes /\ req' = req /\ chat' = chat
      /\ vectors' = vectors \cup {learnt}
      /\ chat[c].status # "unborn" /\ chat[c].owner \in Principals
  BY DEF AgentIndexes, Live, IInv, ChatsOwned
<1>2. /\ learnt \in Vector /\ learnt.by = None /\ learnt.origin = c /\ learnt.chat = c
      /\ learnt.who = chat[c].owner
  BY <1>1 DEF Vector, Namespaces
<1> HIDE DEF learnt
<1>3. TypeOK' /\ ChatsOwned' /\ DataInv'
  BY <1>1, <1>2 DEF IInv, TypeOK, ChatsOwned, DataInv
<1>4. HandlersSound'
  BY <1>1 DEF IInv, HandlersSound, Sound, CanWrite
<1>5. AttachInv' /\ ReportInv' /\ ShareInv'
  BY <1>1, <1>2 DEF IInv, AttachInv, ReportInv, ShareInv, Whole, ChunksOf, OfChat, Promoted
<1> QED BY <1>3, <1>4, <1>5 DEF IInv

-----------------------------------------------------------------------------
(* The theorems *)

\* The invariant holds while nothing is stored.
LEMMA InitInv == Init => IInv
<1> SUFFICES ASSUME Init PROVE IInv
  OBVIOUS
<1>1. IdleRequest \in Request
  BY DEF IdleRequest, Request, Points
<1>2. TypeOK /\ ChatsOwned /\ DataInv /\ AttachInv
  BY <1>1 DEF Init, TypeOK, ChatsOwned, DataInv, AttachInv
<1>3. HandlersSound
  BY DEF Init, HandlersSound, Sound, IdleRequest
<1>4. ReportInv /\ ShareInv
  BY DEF Init, ReportInv, ShareInv, IdleRequest
<1> QED BY <1>2, <1>3, <1>4 DEF IInv

\* Every step keeps the invariant: one lemma for each action.
LEMMA StepInv == IInv /\ [Next]_vars => IInv'
<1> SUFFICES ASSUME IInv, [Next]_vars PROVE IInv'
  OBVIOUS
<1>1. ASSUME NEW r \in Requests, NEW f \in Files, HandleFile(r, f) PROVE IInv'
  BY <1>1, StepRefuseFile, StepParseOnly, StepBeginIngest DEF HandleFile
<1>2. ASSUME NEW r \in Requests, Proceed(r) PROVE IInv'
  BY <1>2, StepFinishIngest, StepIngestRaises, StepStoreNote, StepNoteRaises, StepOthersEnd,
     StepMarkShared, StepDeleteChat DEF Proceed
<1>3. CASE UNCHANGED vars
  <2>1. TypeOK' /\ ChatsOwned' /\ DataInv'
    BY <1>3 DEF vars, IInv, TypeOK, ChatsOwned, DataInv
  <2>2. HandlersSound'
    BY <1>3 DEF vars, IInv, HandlersSound, Sound, CanWrite
  <2>3. AttachInv' /\ ReportInv'
    BY <1>3 DEF vars, IInv, AttachInv, ReportInv, Whole, ChunksOf
  <2>4. ShareInv'
    BY <1>3 DEF vars, IInv, ShareInv, OfChat, Promoted
  <2> QED BY <2>1, <2>2, <2>3, <2>4 DEF IInv
<1> QED BY <1>1, <1>2, <1>3, StepCreateChat, StepArrive, StepPromotes, StepAgentIndexes
        DEF Next, AllServed

\* The invariant holds in every reachable state.
LEMMA Invariant == Spec => []IInv
BY InitInv, StepInv, PTL DEF Spec

\* Types are right in every reachable state.
THEOREM TypeCorrect == Spec => []TypeOK
<1>1. IInv => TypeOK
  BY DEF IInv
<1> QED BY <1>1, Invariant, PTL

\* No document, indexed or promoted, ever belongs to another principal than the
\* owner of the chat it was given in.
THEOREM DocumentsKeepTheirOwner == Spec => []DataStaysWithItsOwner
<1>1. IInv => DataStaysWithItsOwner
  BY DEF IInv, DataInv, DataStaysWithItsOwner
<1> QED BY <1>1, Invariant, PTL

\* What is reported as indexed, or named in the chat, is in the store in full.
THEOREM UploadsReportTheTruth == Spec => []ReportsAreTrue
<1>1. IInv => ReportsAreTrue
  BY DEF IInv, ReportInv, ReportsAreTrue, Whole
<1> QED BY <1>1, Invariant, PTL

\* A turn's graph run sees whatever was indexed of the turn's files, blank ones apart.
THEOREM IndexedIsPrompted == Spec => []AttachedIsPrompted
<1>1. IInv => AttachedIsPrompted
  BY DEF IInv, AttachInv, AttachedIsPrompted
<1> QED BY <1>1, Invariant, PTL

\* A share that answers ok has promoted every namespace that did not raise.
THEOREM SharesReachEveryNamespace == Spec => []SharePromotes
<1>1. IInv => SharePromotes
  BY DEF IInv, ShareInv, HandlersSound, Sound, SharePromotes
<1> QED BY <1>1, Invariant, PTL

-----------------------------------------------------------------------------
(* The account of an upload: noted are the files that have their system       *)
(* message, gone is whether the chat was deleted.                             *)

\* While and after the files are gone through, a file is waiting, indexed and
\* about to be noted, or settled one way or the other.
Balanced(q, noted, gone) ==
  q.kind = "upload" /\ (q.at \in {"files", "ingest", "note"} \/ q.reply = "ok") =>
    /\ q.chat \in Chats
    /\ q.at \in {"ingest", "note"} => q.now \in q.todo
    /\ q.reply = "ok" => q.at = "ended" /\ q.todo = {}
    /\ \A f \in Files :
         /\ f \in q.files \ q.todo /\ ~gone =>
              IF f \in noted
              THEN Result(f, TRUE) \in q.results /\ Result(f, FALSE) \notin q.results
              ELSE Result(f, FALSE) \in q.results
         /\ f \in q.todo =>
              /\ f \notin noted /\ Result(f, FALSE) \notin q.results
              /\ Result(f, TRUE) \in q.results <=> q.at = "note" /\ q.now = f

NotedBy(r) == {f \in Files : [by |-> r, file |-> f] \in notes[req[r].chat]}

Gone(r) == chat[req[r].chat].status = "deleted"

AccountInv == \A r \in Requests : Balanced(req[r], NotedBy(r), Gone(r))

\* No two results are the same.
LEMMA ResultsDiffer ==
  ASSUME NEW f, NEW g, NEW a \in BOOLEAN, NEW b \in BOOLEAN, Result(f, a) = Result(g, b)
  PROVE  f = g /\ a = b
BY DEF Result

\* A deletion takes the messages away, and nothing else does.
LEMMA BalanceStays ==
  ASSUME NEW q, NEW noted, NEW gone \in BOOLEAN, Balanced(q, noted, gone),
         NEW noted2, NEW gone2 \in BOOLEAN,
         noted2 \subseteq noted, gone2 \/ (noted2 = noted /\ ~gone)
  PROVE  Balanced(q, noted2, gone2)
BY DEF Balanced

\* A file that fails is settled as failed, also if it was said to be indexed.
LEMMA BalanceReported ==
  ASSUME NEW p \in Request, NEW noted, NEW gone \in BOOLEAN, Balanced(p, noted, gone),
         NEW f \in Files, f \in p.todo, p.at \in {"files", "ingest", "note"},
         p.at # "files" => p.now = f
  PROVE  Balanced(Reported(p, f, FALSE), noted, gone)
<1> DEFINE q == Reported(p, f, FALSE)
<1>1. /\ q.kind = p.kind /\ q.chat = p.chat /\ q.files = p.files
      /\ q.at = "files" /\ q.reply = p.reply /\ q.todo = p.todo \ {f}
      /\ q.results = IF p.kind = "upload" THEN p.results \cup {Result(f, FALSE)} ELSE p.results
  BY ReportedFacts DEF Same
<1> HIDE DEF q
<1> SUFFICES ASSUME p.kind = "upload" PROVE Balanced(q, noted, gone)
  BY <1>1 DEF Balanced, q
<1>2. p.reply # "ok" /\ f \notin noted
  BY DEF Balanced
<1>3. \A g \in Files, ok \in BOOLEAN :
        Result(g, ok) \in q.results <=> Result(g, ok) \in p.results \/ (g = f /\ ok = FALSE)
  <2>1. q.results = p.results \cup {Result(f, FALSE)}
    BY <1>1
  <2>2. \A g \in Files, ok \in BOOLEAN :
          Result(g, ok) = Result(f, FALSE) <=> g = f /\ ok = FALSE
    BY ResultsDiffer
  <2> QED BY <2>1, <2>2
<1>4. ASSUME NEW g \in Files, g \in q.files \ q.todo, ~gone
      PROVE  IF g \in noted
             THEN Result(g, TRUE) \in q.results /\ Result(g, FALSE) \notin q.results
             ELSE Result(g, FALSE) \in q.results
  <2>1. CASE g = f
    BY <1>2, <1>3, <2>1
  <2>2. CASE g # f
    BY <1>1, <1>3, <1>4, <2>2 DEF Balanced
  <2> QED BY <2>1, <2>2
<1>5. ASSUME NEW g \in Files, g \in q.todo
      PROVE  /\ g \notin noted /\ Result(g, FALSE) \notin q.results
             /\ Result(g, TRUE) \notin q.results
  <2>1. g \in p.todo /\ g # f
    BY <1>1, <1>5
  <2>2. /\ g \notin noted /\ Result(g, FALSE) \notin p.results
        /\ Result(g, TRUE) \in p.results <=> p.at = "note" /\ p.now = g
    BY <2>1 DEF Balanced
  <2>3. Result(g, TRUE) \notin p.results
    BY <2>1, <2>2
  <2> QED BY <1>3, <2>1, <2>2, <2>3
<1>6. q.chat \in Chats
  BY <1>1 DEF Balanced
<1> QED BY <1>1, <1>2, <1>4, <1>5, <1>6 DEF Balanced

\* An upload begins with everything to do and nothing said or noted.
LEMMA BalanceEntered ==
  ASSUME NEW q, q.at = "files", q.reply = "none", q.todo = q.files, q.results = {},
         q.chat \in Chats, NEW gone
  PROVE  Balanced(q, {}, gone)
BY DEF Balanced

\* The account of one handler after a step, from its account before it.
LEMMA AccountSteps ==
  ASSUME IInv, AccountInv, NEW r \in Requests, NEW q \in Request, Becomes(r, q),
         \A c \in Chats, x \in Requests, f \in Files :
           [by |-> x, file |-> f] \in notes'[c] =>
             [by |-> x, file |-> f] \in notes[c] \/ x = r,
         \A c \in Chats : chat'[c].status # "deleted" =>
           chat[c].status # "deleted" /\ notes[c] \subseteq notes'[c],
         Balanced(q, NotedBy(r)', Gone(r)')
  PROVE  AccountInv'
<1>1. /\ req'[r] = q
      /\ \A x \in Requests : x # r => req'[x] = req[x]
  BY BecomesOnly DEF IInv, TypeOK
<1>2. ASSUME NEW x \in Requests PROVE Balanced(req'[x], NotedBy(x)', Gone(x)')
  <2>1. CASE x = r
    BY <1>1, <2>1
  <2>2. CASE x # r
    <3>1. req'[x] = req[x] /\ Balanced(req[x], NotedBy(x), Gone(x))
      BY <1>1, <2>2 DEF AccountInv
    <3>2. CASE req[x].chat \in Chats
      <4>1. NotedBy(x)' \subseteq NotedBy(x)
        BY <2>2, <3>1, <3>2 DEF NotedBy
      <4>2. Gone(x)' \/ (NotedBy(x)' = NotedBy(x) /\ ~Gone(x))
        BY <3>1, <3>2, <4>1 DEF NotedBy, Gone
      <4>3. Gone(x) \in BOOLEAN /\ Gone(x)' \in BOOLEAN
        BY DEF Gone
      <4> QED BY <3>1, <4>1, <4>2, <4>3, BalanceStays
    <3>3. CASE req[x].chat \notin Chats
      BY <3>1, <3>3 DEF Balanced
    <3> QED BY <3>2, <3>3
  <2> QED BY <2>1, <2>2
<1> QED BY <1>2 DEF AccountInv, Balanced

\* A step of a handler that leaves the messages and the chats alone.
LEMMA AccountQuiet ==
  ASSUME IInv, AccountInv, NEW r \in Requests, NEW q \in Request, Becomes(r, q),
         notes' = notes, chat' = chat, q.chat = req[r].chat,
         Balanced(q, NotedBy(r), Gone(r))
  PROVE  AccountInv'
<1>1. req'[r] = q
  BY BecomesOnly DEF IInv, TypeOK
<1>2. NotedBy(r)' = NotedBy(r) /\ Gone(r)' = Gone(r)
  BY <1>1 DEF NotedBy, Gone
<1> QED BY <1>2, AccountSteps

\* A handler of another kind, or one that ends without an "ok", owes no account.
LEMMA NothingOwed ==
  ASSUME NEW q, NEW noted, NEW gone,
         q.kind # "upload" \/ (q.at = "ended" /\ q.reply # "ok")
  PROVE  Balanced(q, noted, gone)
BY DEF Balanced

\* A file that is refused, and one whose ingestion or whose message raises.
LEMMA AccountReported ==
  ASSUME IInv, AccountInv, NEW r \in Requests, NEW f \in Files, f \in req[r].todo,
         req[r].at \in {"files", "ingest", "note"}, req[r].at # "files" => req[r].now = f,
         Becomes(r, Reported(req[r], f, FALSE)), notes' = notes, chat' = chat
  PROVE  AccountInv'
<1>1. req[r] \in Request
  BY DEF IInv, TypeOK
<1>2. /\ Reported(req[r], f, FALSE) \in Request
      /\ Reported(req[r], f, FALSE).chat = req[r].chat
  BY <1>1, ReportedFacts DEF Same
<1>3. Balanced(req[r], NotedBy(r), Gone(r)) /\ Gone(r) \in BOOLEAN
  BY DEF AccountInv, Gone
<1>4. Balanced(Reported(req[r], f, FALSE), NotedBy(r), Gone(r))
  BY <1>1, <1>3, BalanceReported
<1> QED BY <1>2, <1>4, AccountQuiet

\* The steps that end with a reported failure.
LEMMA AccountFailures ==
  ASSUME IInv, AccountInv, NEW r \in Requests,
         (\E f \in Files : RefuseFile(r, f)) \/ IngestRaises(r) \/ NoteRaises(r)
  PROVE  AccountInv'
<1>1. ASSUME NEW f \in Files, RefuseFile(r, f) PROVE AccountInv'
  BY <1>1, AccountReported DEF RefuseFile
<1>2. CASE IngestRaises(r) \/ NoteRaises(r)
  <2>1. /\ req[r].at \in {"ingest", "note"} /\ notes' = notes /\ chat' = chat
        /\ Becomes(r, Reported(req[r], req[r].now, FALSE))
    BY <1>2 DEF IngestRaises, NoteRaises, AfterIngestRaises, AfterNoteRaises
  <2>2. Sound(req[r]) /\ req[r] \in Request
    BY <2>1, Underway
  <2>3. req[r].now \in Files
    BY <2>1, <2>2 DEF Sound
  <2>4. CASE req[r].kind = "upload"
    <3>1. req[r].now \in req[r].todo
      BY <2>1, <2>4 DEF AccountInv, Balanced
    <3> QED BY <2>1, <2>3, <3>1, AccountReported
  <2>5. CASE req[r].kind # "upload"
    <3>1. /\ Reported(req[r], req[r].now, FALSE) \in Request
          /\ Reported(req[r], req[r].now, FALSE).chat = req[r].chat
          /\ Reported(req[r], req[r].now, FALSE).kind # "upload"
      BY <2>2, <2>3, <2>5, ReportedFacts DEF Same
    <3> QED BY <2>1, <3>1, NothingOwed, AccountQuiet
  <2> QED BY <2>4, <2>5
<1> QED BY <1>1, <1>2

\* A file whose ingestion begins waits as before; once it is in the store it is
\* said to be indexed, and not noted yet.
LEMMA AccountIngest ==
  ASSUME IInv, AccountInv, NEW r \in Requests,
         (\E f \in Files : BeginIngest(r, f) \/ ParseOnly(r, f)) \/ FinishIngest(r)
  PROVE  AccountInv'
<1>1. ASSUME NEW f \in Files, BeginIngest(r, f) PROVE AccountInv'
  <2> DEFINE q == [req[r] EXCEPT !.at = "ingest", !.now = f, !.parts = Prompted(req[r], f)]
  <2>1. /\ req[r].at = "files" /\ f \in req[r].todo /\ Becomes(r, q)
        /\ notes' = notes /\ chat' = chat
    BY <1>1 DEF BeginIngest
  <2>2. req[r] \in Request
    BY DEF IInv, TypeOK
  <2>3. /\ q \in Request /\ q.kind = req[r].kind /\ q.chat = req[r].chat
        /\ q.files = req[r].files /\ q.todo = req[r].todo /\ q.results = req[r].results
        /\ q.at = "ingest" /\ q.now = f /\ q.reply = req[r].reply
    <3>1. Prompted(req[r], f) \in SUBSET Files
      BY <2>2 DEF Request, Prompted
    <3> QED BY <2>2, <3>1 DEF Request, Points
  <2> HIDE DEF q
  <2>4. Balanced(req[r], NotedBy(r), Gone(r))
    BY DEF AccountInv
  <2>5. Balanced(q, NotedBy(r), Gone(r))
    BY <2>1, <2>3, <2>4 DEF Balanced
  <2> QED BY <2>1, <2>3, <2>5, AccountQuiet
<1>2. ASSUME NEW f \in Files, ParseOnly(r, f) PROVE AccountInv'
  <2> DEFINE q == [Reported(req[r], f, TRUE) EXCEPT !.parts = Prompted(req[r], f)]
  <2>1. /\ req[r].at = "files" /\ ~CanWrite /\ Becomes(r, q) /\ notes' = notes /\ chat' = chat
    BY <1>2 DEF ParseOnly
  <2>2. req[r] \in Request /\ req[r].kind = "attach"
    BY <2>1, Underway DEF Sound
  <2>3. q \in Request /\ q.kind # "upload" /\ q.chat = req[r].chat
    BY <2>2 DEF Request, Reported, Prompted, Points
  <2> HIDE DEF q
  <2> QED BY <2>1, <2>3, NothingOwed, AccountQuiet
<1>3. ASSUME FinishIngest(r) PROVE AccountInv'
  <2>1. /\ req[r].at = "ingest" /\ Becomes(r, AfterIngest(req[r]))
        /\ notes' = notes /\ chat' = chat
    BY <1>3 DEF FinishIngest
  <2>2. req[r] \in Request /\ req[r].now \in Files
    BY <2>1, Underway DEF Sound
  <2>3. CASE req[r].kind = "upload"
    <3> DEFINE q == [req[r] EXCEPT !.at = "note",
                                   !.results = req[r].results \cup {Result(req[r].now, TRUE)}]
    <3>1. Becomes(r, q)
      BY <2>1, <2>3 DEF AfterIngest
    <3>2. Result(req[r].now, TRUE) \in [file : Files, ok : BOOLEAN]
      BY <2>2 DEF Result
    <3>3. /\ q \in Request /\ q.kind = req[r].kind /\ q.chat = req[r].chat
          /\ q.files = req[r].files /\ q.todo = req[r].todo /\ q.reply = req[r].reply
          /\ q.results = req[r].results \cup {Result(req[r].now, TRUE)}
          /\ q.at = "note" /\ q.now = req[r].now
      BY <2>2, <3>2 DEF Request, Points
    <3> HIDE DEF q
    <3>4. Balanced(req[r], NotedBy(r), Gone(r)) /\ req[r].now \in req[r].todo
      BY <2>1, <2>3 DEF AccountInv, Balanced
    <3>5. \A g \in Files :
            /\ Result(g, FALSE) \in q.results <=> Result(g, FALSE) \in req[r].results
            /\ Result(g, TRUE) \in q.results <=>
                 Result(g, TRUE) \in req[r].results \/ g = req[r].now
      <4>1. \A g \in Files, ok \in BOOLEAN :
              Result(g, ok) = Result(req[r].now, TRUE) <=> g = req[r].now /\ ok = TRUE
        BY <2>2, ResultsDiffer
      <4> QED BY <3>3, <4>1
    <3>6. Balanced(q, NotedBy(r), Gone(r))
      BY <2>1, <2>3, <3>3, <3>4, <3>5 DEF Balanced
    <3> QED BY <2>1, <3>1, <3>3, <3>6, AccountQuiet
  <2>4. CASE req[r].kind # "upload"
    <3>1. /\ Reported(req[r], req[r].now, TRUE) \in Request
          /\ Reported(req[r], req[r].now, TRUE).chat = req[r].chat
          /\ Reported(req[r], req[r].now, TRUE).kind # "upload"
      BY <2>2, <2>4, ReportedFacts DEF Same
    <3> QED BY <2>1, <2>4, <3>1, NothingOwed, AccountQuiet DEF AfterIngest
  <2> QED BY <2>3, <2>4
<1> QED BY <1>1, <1>2, <1>3

\* The message is stored: the file is settled as indexed.
LEMMA AccountStoreNote ==
  ASSUME IInv, AccountInv, NEW r \in Requests, StoreNote(r)
  PROVE  AccountInv'
<1>1. PICK f \in Files : f = req[r].now
  BY DEF StoreNote, IInv, HandlersSound, Sound
<1> DEFINE q == [req[r] EXCEPT !.at = "files", !.todo = req[r].todo \ {f}, !.now = None]
           note == [by |-> r, file |-> f]
<1>2. /\ req[r].at = "note" /\ Becomes(r, q) /\ chat' = chat
      /\ notes' = [notes EXCEPT ![req[r].chat] = notes[req[r].chat] \cup {note}]
  BY <1>1 DEF StoreNote
<1>3. /\ req[r] \in Request /\ Sound(req[r]) /\ notes \in [Chats -> SUBSET Note]
      /\ req[r].chat \in Chats
  BY <1>2, Underway
<1>4. /\ q \in Request /\ q.kind = req[r].kind /\ q.chat = req[r].chat
      /\ q.files = req[r].files /\ q.todo = req[r].todo \ {f} /\ q.reply = req[r].reply
      /\ q.results = req[r].results /\ q.at = "files"
  BY <1>3 DEF Request, Points
<1> HIDE DEF q
<1>5. \A c \in Chats : \A x \in Requests, g \in Files :
        [by |-> x, file |-> g] \in notes'[c] <=>
          \/ [by |-> x, file |-> g] \in notes[c]
          \/ c = req[r].chat /\ x = r /\ g = f
  <2>1. \A x \in Requests, g \in Files : [by |-> x, file |-> g] = note <=> x = r /\ g = f
    OBVIOUS
  <2> HIDE DEF note
  <2>2. \A c \in Chats : notes'[c] =
          IF c = req[r].chat THEN notes[c] \cup {note} ELSE notes[c]
    BY <1>2, <1>3
  <2>3. \A c \in Chats : \A n : n \in notes'[c] <=>
          n \in notes[c] \/ (c = req[r].chat /\ n = note)
    BY <2>2
  <2> QED BY <2>1, <2>3
<1>6. req'[r].chat = req[r].chat
  BY <1>2, <1>4, BecomesOnly DEF IInv, TypeOK
<1>7. NotedBy(r)' = NotedBy(r) \cup {f} /\ Gone(r)' = Gone(r)
  BY <1>2, <1>3, <1>5, <1>6 DEF NotedBy, Gone
<1>8. Balanced(req[r], NotedBy(r), Gone(r)) /\ req[r].kind = "upload"
  BY <1>2, <1>3 DEF AccountInv, Sound
<1>9. Balanced(q, NotedBy(r) \cup {f}, Gone(r))
  BY <1>1, <1>2, <1>4, <1>8 DEF Balanced
<1>10. \A c \in Chats : chat'[c].status # "deleted" =>
         chat[c].status # "deleted" /\ notes[c] \subseteq notes'[c]
  BY <1>2, <1>3
<1>11. \A c \in Chats, x \in Requests, g \in Files :
         [by |-> x, file |-> g] \in notes'[c] =>
           [by |-> x, file |-> g] \in notes[c] \/ x = r
  BY <1>5
<1> QED BY <1>2, <1>4, <1>7, <1>9, <1>10, <1>11, AccountSteps

\* An upload answers when nothing is left to do; the other ways to end are no "ok"
\* of an upload. A deletion takes the messages of everyone.
LEMMA AccountEnds ==
  ASSUME IInv, AccountInv, NEW r \in Requests,
         FilesDone(r) \/ Abandon(r) \/ MarkShared(r) \/ DeleteChat(r)
  PROVE  AccountInv'
<1>1. /\ req[r].at \notin {"idle", "ended"}
      /\ notes \in [Chats -> SUBSET Note] /\ req[r].chat \in Chats
      /\ req[r] \in Request /\ Sound(req[r])
  BY Underway DEF FilesDone, Abandon, MarkShared, DeleteChat
<1>2. ASSUME NEW reply \in {"ok", "failed"}
      PROVE  /\ Ended(req[r], reply) \in Request
             /\ Ended(req[r], reply).kind = req[r].kind
             /\ Ended(req[r], reply).chat = req[r].chat
             /\ Ended(req[r], reply).files = req[r].files
             /\ Ended(req[r], reply).todo = req[r].todo
             /\ Ended(req[r], reply).results = req[r].results
             /\ Ended(req[r], reply).at = "ended"
             /\ Ended(req[r], reply).reply = reply
  BY <1>1 DEF Ended, Request, Points
<1>3. CASE FilesDone(r)
  <2>1. /\ req[r].at = "files" /\ req[r].todo = {} /\ Becomes(r, Ended(req[r], "ok"))
        /\ notes' = notes /\ chat' = chat
    BY <1>3 DEF FilesDone, Ended
  <2>2. Balanced(req[r], NotedBy(r), Gone(r))
    BY DEF AccountInv
  <2>3. Balanced(Ended(req[r], "ok"), NotedBy(r), Gone(r))
    BY <1>2, <2>1, <2>2 DEF Balanced
  <2> QED BY <1>2, <2>1, <2>3, AccountQuiet
<1>4. CASE Abandon(r)
  <2>1. Becomes(r, Ended(req[r], "failed")) /\ notes' = notes /\ chat' = chat
    BY <1>4 DEF Abandon, Ended
  <2> QED BY <1>2, <2>1, NothingOwed, AccountQuiet
<1>5. CASE MarkShared(r) \/ DeleteChat(r)
  <2>1. Becomes(r, Ended(req[r], "ok")) /\ req[r].kind # "upload"
    BY <1>1, <1>5 DEF MarkShared, DeleteChat, Ended, Sound
  <2>2. /\ \A c \in Chats : notes'[c] \subseteq notes[c]
        /\ \A c \in Chats : chat'[c].status # "deleted" =>
             chat[c].status # "deleted" /\ notes[c] \subseteq notes'[c]
    <3>1. chat \in [Chats -> Session]
      BY DEF IInv, TypeOK, Session
    <3>2. CASE MarkShared(r)
      BY <3>1, <3>2 DEF MarkShared, Session
    <3>3. CASE DeleteChat(r)
      BY <1>1, <3>1, <3>3 DEF DeleteChat, Session
    <3> QED BY <1>5, <3>2, <3>3
  <2>3. Balanced(Ended(req[r], "ok"), NotedBy(r)', Gone(r)')
    BY <1>2, <2>1, NothingOwed
  <2> QED BY <1>2, <2>1, <2>2, <2>3, AccountSteps
<1> QED BY <1>3, <1>4, <1>5

\* A request that arrives has noted nothing; a share has no files to account for.
LEMMA AccountOthers ==
  ASSUME IInv, AccountInv, NEW r \in Requests,
         \/ \E k \in DocumentKinds, p \in Principals, c \in Chats, files \in SUBSET Files :
              Arrive(r, k, p, c, files)
         \/ \E ns \in Namespaces : PromoteNamespace(r, ns) \/ PromotionRaises(r, ns)
  PROVE  AccountInv'
<1>0. req[r] \in Request
  BY DEF IInv, TypeOK
<1>1. ASSUME NEW k \in DocumentKinds, NEW p \in Principals, NEW c \in Chats,
             NEW files \in SUBSET Files, Arrive(r, k, p, c, files)
      PROVE  AccountInv'
  <2> DEFINE arrived == [IdleRequest EXCEPT !.kind = k, !.who = p, !.chat = c, !.files = files]
             q == IF Unsupported(k)
                  THEN [arrived EXCEPT !.at = "ended", !.reply = "unsupported"]
                  ELSE IF ~Owns(p, c)
                  THEN [arrived EXCEPT !.at = "ended", !.reply = "notfound"]
                  ELSE Enter(arrived)
  <2>1. req[r].at = "idle" /\ Becomes(r, q) /\ notes' = notes /\ chat' = chat
    BY <1>1 DEF Arrive
  <2>2. \/ q.at = "ended" /\ q.reply # "ok"
        \/ q.kind # "upload"
        \/ /\ q.at = "files" /\ q.todo = q.files /\ q.results = {} /\ q.reply = "none"
           /\ q.chat \in Chats
    BY DEF IdleRequest, Enter, DocumentKinds
  <2> HIDE DEF q
  <2>3. req'[r] = q /\ q \in Request
    <3>1. IInv'
      BY <1>1, StepArrive
    <3>2. req'[r] = q
      BY <2>1 DEF Becomes, IInv, TypeOK
    <3> QED BY <3>1, <3>2 DEF IInv, TypeOK
  <2>4. \A d \in Chats, f \in Files : [by |-> r, file |-> f] \notin notes'[d]
    BY <2>1 DEF IInv, ReportInv
  <2>5. q.chat \in Chats => NotedBy(r)' = {}
    BY <2>3, <2>4 DEF NotedBy
  <2>6. Balanced(q, NotedBy(r)', Gone(r)')
    BY <2>2, <2>5, NothingOwed, BalanceEntered
  <2> QED BY <2>1, <2>3, <2>6, AccountSteps
<1>2. ASSUME NEW ns \in Namespaces, PromoteNamespace(r, ns) \/ PromotionRaises(r, ns)
      PROVE  AccountInv'
  <2>1. PICK q : /\ Becomes(r, q) /\ q.kind = req[r].kind /\ q.chat = req[r].chat
                 /\ notes' = notes /\ chat' = chat /\ req[r].at = "promote"
    BY <1>0, <1>2 DEF PromoteNamespace, PromotionRaises, AfterPromotionRaises, Request
  <2>2. req[r].kind = "share"
    BY <2>1 DEF IInv, HandlersSound, Sound
  <2>3. q \in Request
    <3>1. IInv'
      BY <1>2, StepPromotes
    <3>2. req'[r] = q
      BY <2>1 DEF Becomes, IInv, TypeOK
    <3> QED BY <3>1, <3>2 DEF IInv, TypeOK
  <2> QED BY <2>1, <2>2, <2>3, NothingOwed, AccountQuiet
<1> QED BY <1>1, <1>2

\* Every step keeps the accounts.
LEMMA StepAccount == IInv /\ AccountInv /\ [Next]_vars => AccountInv'
<1> SUFFICES ASSUME IInv, AccountInv, [Next]_vars PROVE AccountInv'
  OBVIOUS
<1>1. ASSUME NEW p \in Principals, NEW c \in Chats, CreateChat(p, c) PROVE AccountInv'
  <2>1. /\ req' = req /\ notes' = notes
        /\ \A d \in Chats : chat'[d].status = "deleted" <=> chat[d].status = "deleted"
    BY <1>1 DEF CreateChat, IInv, TypeOK
  <2>2. ASSUME NEW x \in Requests PROVE Balanced(req'[x], NotedBy(x)', Gone(x)')
    <3>1. Balanced(req[x], NotedBy(x), Gone(x)) /\ NotedBy(x)' = NotedBy(x)
      BY <2>1 DEF AccountInv, NotedBy
    <3>2. req[x].chat \in Chats => Gone(x)' = Gone(x)
      BY <2>1 DEF Gone
    <3> QED BY <2>1, <3>1, <3>2 DEF Balanced
  <2> QED BY <2>2 DEF AccountInv, Balanced
<1>2. ASSUME req' = req, notes' = notes, chat' = chat PROVE AccountInv'
  <2>1. ASSUME NEW x \in Requests
        PROVE  req'[x] = req[x] /\ NotedBy(x)' = NotedBy(x) /\ Gone(x)' = Gone(x)
    BY <1>2 DEF NotedBy, Gone
  <2> QED BY <2>1 DEF AccountInv
<1>3. ASSUME NEW c \in Chats, NEW ns \in AgentNamespaces, AgentIndexes(c, ns) PROVE AccountInv'
  BY <1>2, <1>3 DEF AgentIndexes
<1>4. CASE UNCHANGED vars
  BY <1>2, <1>4 DEF vars
<1>5. ASSUME NEW r \in Requests, Proceed(r) PROVE AccountInv'
  BY <1>5, AccountFailures, AccountIngest, AccountStoreNote, AccountEnds DEF Proceed
<1>6. ASSUME NEW r \in Requests, NEW f \in Files, HandleFile(r, f) PROVE AccountInv'
  BY <1>6, AccountFailures, AccountIngest DEF HandleFile
<1> QED BY <1>1, <1>3, <1>4, <1>5, <1>6, AccountOthers DEF Next, AllServed

\* An upload answered with "ok" accounts for each of its files: one with a message
\* is reported as indexed only, any other as failed.
THEOREM UploadsAccountForTheirFiles == Spec => []EveryFileIsAccountedFor
<1>1. Init => AccountInv
  BY DEF Init, AccountInv, Balanced, IdleRequest
<1>2. IInv /\ AccountInv /\ [Next]_vars => (IInv /\ AccountInv)'
  BY StepInv, StepAccount
<1>3. IInv /\ AccountInv => EveryFileIsAccountedFor
  <2> SUFFICES ASSUME IInv, AccountInv, NEW r \in Requests, NEW f \in req[r].files,
                      req[r].kind = "upload", req[r].reply = "ok", Live(req[r].chat)
               PROVE  IF [by |-> r, file |-> f] \in notes[req[r].chat]
                      THEN {x.ok : x \in {y \in req[r].results : y.file = f}} = {TRUE}
                      ELSE Result(f, FALSE) \in req[r].results
    BY DEF EveryFileIsAccountedFor
  <2>1. f \in Files /\ req[r].results \subseteq [file : Files, ok : BOOLEAN]
    BY DEF IInv, TypeOK, Request
  <2>2. ~Gone(r) /\ Balanced(req[r], NotedBy(r), Gone(r))
    BY DEF Gone, Live, AccountInv
  <2>3. IF f \in NotedBy(r)
        THEN Result(f, TRUE) \in req[r].results /\ Result(f, FALSE) \notin req[r].results
        ELSE Result(f, FALSE) \in req[r].results
    BY <2>1, <2>2 DEF Balanced
  <2>4. ASSUME Result(f, TRUE) \in req[r].results, Result(f, FALSE) \notin req[r].results
        PROVE  {x.ok : x \in {y \in req[r].results : y.file = f}} = {TRUE}
    <3>1. \A y \in req[r].results : y.file = f => y.ok = TRUE
      <4> SUFFICES ASSUME NEW y \in req[r].results, y.file = f, y.ok = FALSE PROVE FALSE
        BY <2>1
      <4>1. y = [file |-> f, ok |-> FALSE]
        BY <2>1
      <4> QED BY <2>4, <4>1 DEF Result
    <3>2. Result(f, TRUE).file = f /\ Result(f, TRUE).ok = TRUE
      BY DEF Result
    <3> QED BY <2>4, <3>1, <3>2
  <2> QED BY <2>1, <2>3, <2>4 DEF NotedBy
<1> QED BY <1>1, <1>2, <1>3, InitInv, PTL DEF Spec

=============================================================================
