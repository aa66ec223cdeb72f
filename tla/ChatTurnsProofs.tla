-------------------------- MODULE ChatTurnsProofs --------------------------
(***************************************************************************)
(* Safety of ChatTurns for every set of requests, chats and principals,    *)
(* with or without a checkpointer: the inductive invariant HandlerInv,     *)
(* the properties that follow from it, and the promise of Conversation.    *)
(***************************************************************************)
EXTENDS ChatTurns, TLAPS

(* Every continuation of a handler is again a handler at one of its awaits. *)

\* A handler whose graph run was interrupted is a handler still.
LEMMA InterruptedType ==
  ASSUME NEW q \in Request, AtOwnPoint(q), q.at = "graph"
  PROVE  Interrupted(q) \in Request /\ AtOwnPoint(Interrupted(q))
BY ConstantsAssumption
   DEF Interrupted, Request, Points, Outcomes, Replies, PointsOf, AtOwnPoint

\* A handler whose graph run failed is a handler still.
LEMMA FailedType ==
  ASSUME NEW q \in Request, AtOwnPoint(q), q.at = "graph"
  PROVE  Failed(q) \in Request /\ AtOwnPoint(Failed(q))
<1>1. CASE q.kind = "resume"
  BY <1>1, ConstantsAssumption
     DEF Failed, Request, Points, Outcomes, Replies, PointsOf, AtOwnPoint
<1>2. CASE q.kind # "resume"
  <2>1. q.kind \in {"send", "stream"}
    BY <1>2, ConstantsAssumption DEF Request, PointsOf, AtOwnPoint
  <2> DEFINE to == AfterResult(q.kind)
  <2>2. to \in Points /\ to \in PointsOf(q.kind)
    BY <2>1 DEF AfterResult, Points, PointsOf
  <2>3. Failed(q) = [q EXCEPT !.at = to, !.outcome = "error"]
    BY <1>2 DEF Failed
  <2> HIDE DEF to
  <2> QED BY <2>2, <2>3 DEF Request, Outcomes, AtOwnPoint
<1> QED BY <1>1, <1>2

\* A handler whose graph run finished is a handler still.
LEMMA FinishedType ==
  ASSUME NEW q \in Request, AtOwnPoint(q), q.at = "graph"
  PROVE  LET n == [q EXCEPT !.at = AfterResult(q.kind), !.outcome = "final"]
         IN  n \in Request /\ AtOwnPoint(n)
BY ConstantsAssumption DEF AfterResult, Request, Points, Outcomes, PointsOf, AtOwnPoint

\* A handler whose graph run was cancelled is a handler still.
LEMMA CancelledType ==
  ASSUME NEW q \in Request, AtOwnPoint(q), q.at = "graph", q.kind = "send"
  PROVE  LET n == [q EXCEPT !.at = "user", !.outcome = "cancelled"]
         IN  n \in Request /\ AtOwnPoint(n)
BY ConstantsAssumption DEF Request, Points, Outcomes, PointsOf, AtOwnPoint

\* A handler whose graph run timed out is a handler still.
LEMMA TimedOutType ==
  ASSUME NEW q \in Request, AtOwnPoint(q), q.at = "graph", q.kind = "stream"
  PROVE  LET n == [q EXCEPT !.at = "ack", !.outcome = "timeout"]
         IN  n \in Request /\ AtOwnPoint(n)
BY ConstantsAssumption DEF Request, Points, Outcomes, PointsOf, AtOwnPoint

\* A handler that has sent its done event is a handler still.
LEMMA AcknowledgedType ==
  ASSUME NEW q \in Request, AtOwnPoint(q), q.at = "ack"
  PROVE  LET n == [q EXCEPT !.at = "user",
                            !.reply = IF q.outcome = "error" THEN "error" ELSE "ok"]
         IN  n \in Request /\ AtOwnPoint(n)
BY ConstantsAssumption DEF Request, Points, Replies, PointsOf, AtOwnPoint

\* A handler that has loaded the history is a handler still.
LEMMA LoadedType ==
  ASSUME NEW q \in Request, AtOwnPoint(q), q.at = "verified",
         NEW fresh \in BOOLEAN, NEW input \in SUBSET Requests
  PROVE  LET n == [q EXCEPT !.at = "loaded", !.fresh = fresh, !.input = input]
         IN  n \in Request /\ AtOwnPoint(n)
BY ConstantsAssumption DEF Request, Points, PointsOf, AtOwnPoint

\* A handler that has started its graph run is a handler still.
LEMMA StartedType ==
  ASSUME NEW q \in Request, AtOwnPoint(q), q.at = "loaded",
         NEW turn \in Requests \cup {None}
  PROVE  /\ LET n == [q EXCEPT !.at = "graph", !.turn = turn]
            IN  n \in Request /\ AtOwnPoint(n)
         /\ LET n == [q EXCEPT !.at = "graph"]
            IN  n \in Request /\ AtOwnPoint(n)
BY ConstantsAssumption DEF Request, Points, PointsOf, AtOwnPoint

\* A handler that has dealt with its question is a handler still.
LEMMA AfterUserType ==
  ASSUME NEW q \in Request, AtOwnPoint(q), q.at = "user"
  PROVE  AfterUser(q) \in Request /\ AtOwnPoint(AfterUser(q))
BY ConstantsAssumption DEF AfterUser, Request, Points, Replies, PointsOf, AtOwnPoint

\* A handler that has dealt with its answer is a handler still.
LEMMA AfterAssistantType ==
  ASSUME NEW q \in Request, AtOwnPoint(q), q.at = "assistant"
  PROVE  AfterAssistant(q) \in Request /\ AtOwnPoint(AfterAssistant(q))
BY ConstantsAssumption DEF AfterAssistant, Request, Points, Replies, PointsOf, AtOwnPoint

\* A handler that has ended is a handler still.
LEMMA EndedType ==
  ASSUME NEW q \in Request, AtOwnPoint(q), q.at # "idle", NEW reply \in Replies
  PROVE  LET n == [q EXCEPT !.at = "ended", !.reply = reply]
         IN  n \in Request /\ AtOwnPoint(n)
BY ConstantsAssumption DEF Request, Points, PointsOf, AtOwnPoint

\* A handler that begins, and stands where AfterVerify puts it, is well typed.
LEMMA ArrivedType ==
  ASSUME NEW r \in Requests, NEW k \in Kinds, NEW p \in Principals, NEW c \in Chats,
         NEW turn \in Requests \cup {None}, NEW answered \in SUBSET Requests,
         NEW reply \in {"notfound", "badrequest"}
  PROVE  LET q == [IdleRequest EXCEPT !.kind = k, !.who = p, !.chat = c,
                                      !.turn = turn, !.answered = answered]
             n == [q EXCEPT !.at = "ended", !.reply = reply]
             m == [q EXCEPT !.at = AfterVerify(k)]
         IN  n \in Request /\ AtOwnPoint(n) /\ m \in Request /\ AtOwnPoint(m)
BY ConstantsAssumption
   DEF IdleRequest, AfterVerify, TurnKinds, Request, Points, Outcomes, Replies,
       PointsOf, AtOwnPoint

-----------------------------------------------------------------------------
(* Type correctness. *)

\* Types are right at first.
LEMMA TypeInit == Init => TypeOK
BY ConstantsAssumption
   DEF Init, TypeOK, Session, Row, Request, IdleRequest, Points, Outcomes, Replies,
       PointsOf, AtOwnPoint

\* Types stay right when one handler becomes another well-typed one.
LEMMA TypeOfBecomes ==
  ASSUME TypeOK, NEW r \in Requests, NEW q \in Request, AtOwnPoint(q), Becomes(r, q)
  PROVE  /\ req' \in [Requests -> Request]
         /\ \A x \in Requests : AtOwnPoint(req'[x])
BY DEF TypeOK, AtOwnPoint, Becomes

\* add_message keeps the rows sequences of rows.
LEMMA TypeOfAddMessage ==
  ASSUME TypeOK, NEW c \in Chats, NEW row \in Row, AddMessage(c, row)
  PROVE  rows' \in [Chats -> Seq(Row)]
BY DEF TypeOK, AddMessage

\* A page holds messages of the chat, and some if there are any.
LEMMA PageFacts ==
  ASSUME TypeOK, NEW c \in Chats, NEW page \in Pages(c)
  PROVE  /\ page \subseteq DOMAIN rows[c]
         /\ page = {} => rows[c] = <<>>
         /\ OnOnePage(c) => page = DOMAIN rows[c]
<1>1. rows[c] \in Seq(Row) /\ Len(rows[c]) \in Nat /\ DOMAIN rows[c] = 1..Len(rows[c])
  BY DEF TypeOK
<1>2. HistoryLimit \in Nat /\ HistoryLimit >= 1
  BY ConstantsAssumption
<1>3. CASE OnOnePage(c)
  <2>1. page = 1..Len(rows[c])
    BY <1>1, <1>3 DEF Pages
  <2>2. page = {} => Len(rows[c]) = 0
    BY <1>1, <2>1
  <2> QED BY <1>1, <2>1, <2>2
<1>4. CASE ~OnOnePage(c)
  <2>1. HistoryLimit < Len(rows[c])
    BY <1>1, <1>2, <1>4 DEF OnOnePage
  <2>2. \/ page = 1..HistoryLimit
        \/ page = (Len(rows[c]) - HistoryLimit + 1)..Len(rows[c])
    BY <1>4 DEF Pages
  <2>3. page \subseteq 1..Len(rows[c]) /\ page # {}
    <3>1. 1..HistoryLimit \subseteq 1..Len(rows[c]) /\ 1 \in 1..HistoryLimit
      BY <1>1, <1>2, <2>1
    <3>2. /\ (Len(rows[c]) - HistoryLimit + 1)..Len(rows[c]) \subseteq 1..Len(rows[c])
          /\ Len(rows[c]) \in (Len(rows[c]) - HistoryLimit + 1)..Len(rows[c])
      BY <1>1, <1>2, <2>1
    <3> QED BY <2>2, <3>1, <3>2
  <2> QED BY <1>1, <1>4, <2>3
<1> QED BY <1>3, <1>4

\* The history that is loaded names requests only.
LEMMA TypeOfAskedIn ==
  ASSUME TypeOK, NEW c \in Chats, NEW page \in Pages(c)
  PROVE  AskedIn(c, page) \in SUBSET Requests
<1>1. \A i \in DOMAIN rows[c] : rows[c][i] \in Row
  BY DEF TypeOK
<1>2. \A i \in page : rows[c][i].by \in Requests
  BY <1>1, PageFacts DEF Row
<1> QED BY <1>2 DEF AskedIn

\* What TypeOK says of one handler.
LEMMA HandlerType ==
  ASSUME TypeOK, NEW r \in Requests
  PROVE  /\ req[r] \in Request
         /\ AtOwnPoint(req[r])
         /\ req[r].at # "idle" => req[r].chat \in Chats
<1>1. req[r] \in Request /\ AtOwnPoint(req[r])
  BY DEF TypeOK
<1>2. req[r].at # "idle" => req[r].chat \in Chats
  BY <1>1 DEF AtOwnPoint, PointsOf
<1> QED BY <1>1, <1>2

\* Every step keeps the types and leaves each handler at an await of its own.
LEMMA TypeStep == TypeOK /\ [Next]_vars => TypeOK'
<1> SUFFICES ASSUME TypeOK, [Next]_vars PROVE TypeOK'
  OBVIOUS
<1>1. ASSUME NEW p \in Principals, NEW c \in Chats, CreateChat(p, c) PROVE TypeOK'
  BY <1>1 DEF CreateChat, TypeOK, Session
<1>2. ASSUME NEW r \in Requests, NEW k \in Kinds, NEW p \in Principals, NEW c \in Chats,
             Arrive(r, k, p, c)
      PROVE  TypeOK'
  <2> DEFINE answered == {q \in Requests : /\ req[q].chat = c
                                           /\ req[q].kind = "send"
                                           /\ req[q].reply = "ok"}
             turn == IF k \in TurnKinds THEN r ELSE None
             arrived == [IdleRequest EXCEPT !.kind = k, !.who = p, !.chat = c,
                                            !.turn = turn, !.answered = answered]
             q == IF ~Owns(p, c)
                  THEN [arrived EXCEPT !.at = "ended", !.reply = "notfound"]
                  ELSE IF Refused(k)
                  THEN [arrived EXCEPT !.at = "ended", !.reply = "badrequest"]
                  ELSE [arrived EXCEPT !.at = AfterVerify(k)]
  <2>1. Becomes(r, q)
    BY <1>2 DEF Arrive
  <2>2. answered \in SUBSET Requests /\ turn \in Requests \cup {None}
    OBVIOUS
  <2> HIDE DEF answered, turn
  <2>3. q \in Request /\ AtOwnPoint(q)
    BY <2>2, ArrivedType
  <2> HIDE DEF q
  <2> QED BY <1>2, <2>1, <2>3, TypeOfBecomes DEF Arrive, TypeOK
<1>3. ASSUME NEW r \in Requests, LoadHistory(r) PROVE TypeOK'
  <2>1. req[r].at = "verified" /\ req[r].chat \in Chats
    BY <1>3, HandlerType DEF LoadHistory
  <2>2. PICK page \in Pages(req[r].chat) :
          Becomes(r, [req[r] EXCEPT !.at = "loaded", !.fresh = (page = {}),
                                    !.input = GraphInput(r, AskedIn(req[r].chat, page))])
    BY <1>3 DEF LoadHistory
  <2>3. GraphInput(r, AskedIn(req[r].chat, page)) \in SUBSET Requests
    BY <2>1, TypeOfAskedIn DEF GraphInput
  <2> QED BY <1>3, <2>1, <2>2, <2>3, HandlerType, LoadedType, TypeOfBecomes
          DEF LoadHistory, TypeOK
<1>4. ASSUME NEW r \in Requests, StartGraph(r) PROVE TypeOK'
  <2>1. req[r].at = "loaded" /\ req[r].chat \in Chats /\ req[r].input \in SUBSET Requests
    BY <1>4, HandlerType DEF StartGraph, Request
  <2>2. paused[req[r].chat] \in Requests \cup {None}
    BY <2>1 DEF TypeOK
  <2>3. /\ req' \in [Requests -> Request]
        /\ \A x \in Requests : AtOwnPoint(req'[x])
    BY <1>4, <2>1, <2>2, HandlerType, StartedType, TypeOfBecomes DEF StartGraph
  <2>4. /\ thread' \in [Chats -> SUBSET Requests]
        /\ paused' \in [Chats -> Requests \cup {None}]
    <3>1. thread[req[r].chat] \cup req[r].input \in SUBSET Requests
      BY <2>1 DEF TypeOK
    <3> QED BY <1>4, <2>1, <3>1 DEF StartGraph, TypeOK
  <2> QED BY <1>4, <2>3, <2>4 DEF StartGraph, TypeOK
<1>5. ASSUME NEW r \in Requests, GraphFinishes(r) PROVE TypeOK'
  BY <1>5, HandlerType, FinishedType, TypeOfBecomes DEF GraphFinishes, TypeOK
<1>6. ASSUME NEW r \in Requests, GraphInterrupts(r) PROVE TypeOK'
  <2>1. req[r].turn \in Requests \cup {None}
    BY HandlerType DEF Request
  <2> QED BY <1>6, <2>1, HandlerType, InterruptedType, TypeOfBecomes
          DEF GraphInterrupts, TypeOK
<1>7. ASSUME NEW r \in Requests, GraphFails(r) PROVE TypeOK'
  BY <1>7, HandlerType, FailedType, TypeOfBecomes DEF GraphFails, TypeOK
<1>8. ASSUME NEW r \in Requests, CancelSend(r) PROVE TypeOK'
  BY <1>8, HandlerType, CancelledType, TypeOfBecomes DEF CancelSend, TypeOK
<1>9. ASSUME NEW r \in Requests, StreamTimesOut(r) PROVE TypeOK'
  BY <1>9, HandlerType, TimedOutType, TypeOfBecomes DEF StreamTimesOut, TypeOK
<1>10. ASSUME NEW r \in Requests, Acknowledge(r) PROVE TypeOK'
  BY <1>10, HandlerType, AcknowledgedType, TypeOfBecomes DEF Acknowledge, TypeOK
<1>11. ASSUME NEW r \in Requests, StoreUser(r) PROVE TypeOK'
  <2>1. req[r].chat \in Chats
    BY <1>11, HandlerType DEF StoreUser
  <2>2. [role |-> "user", by |-> r, cut |-> FALSE] \in Row
    BY DEF Row
  <2>3. rows' \in [Chats -> Seq(Row)]
    BY <1>11, <2>1, <2>2, TypeOfAddMessage DEF StoreUser
  <2> QED BY <1>11, <2>3, HandlerType, AfterUserType, TypeOfBecomes DEF StoreUser, TypeOK
<1>12. ASSUME NEW r \in Requests, StoreAssistant(r) PROVE TypeOK'
  <2>1. req[r].chat \in Chats
    BY <1>12, HandlerType DEF StoreAssistant, Request
  <2>2. [role |-> "assistant", by |-> r,
         cut |-> (req[r].outcome = "cancelled")] \in Row
    BY DEF Row
  <2>3. rows' \in [Chats -> Seq(Row)]
    BY <1>12, <2>1, <2>2, TypeOfAddMessage DEF StoreAssistant
  <2> QED BY <1>12, <2>3, HandlerType, AfterAssistantType, TypeOfBecomes
          DEF StoreAssistant, TypeOK
<1>13. ASSUME NEW r \in Requests, SetTitle(r) PROVE TypeOK'
  <2> DEFINE reply == IF req[r].reply = "none" THEN "ok" ELSE req[r].reply
  <2>1. req[r].chat \in Chats /\ reply \in Replies
    BY <1>13, HandlerType DEF SetTitle, Request, Replies
  <2>2. chat' \in [Chats -> Session]
    <3>1. chat[req[r].chat] \in Session
      BY <2>1 DEF TypeOK
    <3>2. \A t \in Requests \cup {None} : [chat[req[r].chat] EXCEPT !.title = t] \in Session
      BY <3>1 DEF Session
    <3>3. chat[req[r].chat].title \in Requests \cup {None}
      BY <3>1 DEF Session
    <3> DEFINE t == IF Titles(req[r]) /\ Live(req[r].chat) THEN r ELSE chat[req[r].chat].title
    <3>4. t \in Requests \cup {None}
      BY <3>3
    <3>5. chat' = [chat EXCEPT ![req[r].chat] = [chat[req[r].chat] EXCEPT !.title = t]]
      BY <1>13 DEF SetTitle
    <3> HIDE DEF t
    <3> QED BY <2>1, <3>2, <3>4, <3>5 DEF TypeOK
  <2>3. Becomes(r, [req[r] EXCEPT !.at = "ended", !.reply = reply])
    BY <1>13, HandlerType DEF SetTitle, Request
  <2> HIDE DEF reply
  <2> QED BY <1>13, <2>1, <2>2, <2>3, HandlerType, EndedType, TypeOfBecomes
          DEF SetTitle, TypeOK
<1>14. ASSUME NEW r \in Requests, DeleteChat(r) PROVE TypeOK'
  <2>1. req[r].chat \in Chats
    BY <1>14, HandlerType DEF DeleteChat
  <2>2. chat' \in [Chats -> Session] /\ rows' \in [Chats -> Seq(Row)]
    <3>1. [chat[req[r].chat] EXCEPT !.status = "deleted"] \in Session
      <4>1. chat[req[r].chat] \in Session
        BY <2>1 DEF TypeOK
      <4> QED BY <4>1 DEF Session
    <3>2. <<>> \in Seq(Row)
      OBVIOUS
    <3> QED BY <1>14, <2>1, <3>1, <3>2 DEF DeleteChat, TypeOK
  <2>3. "ok" \in Replies
    BY DEF Replies
  <2> QED BY <1>14, <2>2, <2>3, HandlerType, EndedType, TypeOfBecomes
          DEF DeleteChat, TypeOK
<1>15. ASSUME NEW r \in Requests, StorageRaises(r) PROVE TypeOK'
  <2>1. ReplyAfterRaise(req[r]) \in Replies
    BY HandlerType DEF ReplyAfterRaise, Request, Replies
  <2> QED BY <1>15, <2>1, HandlerType, EndedType, TypeOfBecomes DEF StorageRaises, TypeOK
<1>16. ASSUME NEW r \in Requests, Abandon(r) PROVE TypeOK'
  <2> DEFINE reply == IF req[r].reply = "none" THEN "failed" ELSE req[r].reply
  <2>1. reply \in Replies
    BY HandlerType DEF Request, Replies
  <2>2. Becomes(r, [req[r] EXCEPT !.at = "ended", !.reply = reply])
    BY <1>16, HandlerType DEF Abandon, Request
  <2> HIDE DEF reply
  <2> QED BY <1>16, <2>1, <2>2, HandlerType, EndedType, TypeOfBecomes DEF Abandon, TypeOK
<1>17. CASE UNCHANGED vars
  BY <1>17 DEF vars, TypeOK
<1> QED
  BY <1>1, <1>2, <1>3, <1>4, <1>5, <1>6, <1>7, <1>8, <1>9, <1>10, <1>11, <1>12,
     <1>13, <1>14, <1>15, <1>16, <1>17
  DEF Next, Proceed, GraphReturns, AllServed

\* Types are right in every reachable state, and every handler stands at an await
\* of its own code.
THEOREM TypeCorrect == Spec => []TypeOK
BY TypeInit, TypeStep, PTL DEF Spec

-----------------------------------------------------------------------------
(* The handler invariant. *)

\* A handler that has not stored anything yet.
Unstored(q) == q.at \notin {"assistant", "title", "ended"}

\* A chat without rows has the row of no request.
LEMMA NoRowsYet ==
  ASSUME HandlerInv, NEW r \in Requests, Unstored(req[r]),
         NEW c \in Chats, NEW i \in DOMAIN rows[c]
  PROVE  rows[c][i].by # r
BY DEF HandlerInv, RowsBehindHandlers, Unstored

\* A row that is found in a chat is a row.
LEMMA RowType ==
  ASSUME TypeOK, NEW c \in Chats, NEW i \in DOMAIN rows[c]
  PROVE  rows[c][i] \in Row /\ rows[c][i].by \in Requests
<1>1. rows[c] \in Seq(Row)
  BY DEF TypeOK
<1>2. rows[c][i] \in Row
  BY <1>1
<1> QED BY <1>2 DEF Row

\* The invariant holds before any request arrives.
LEMMA InvInit == Init => HandlerInv
<1> SUFFICES ASSUME Init PROVE HandlerInv
  OBVIOUS
<1>1. TypeOK
  BY TypeInit
<1>2. \A c \in Chats : rows[c] = <<>> /\ DOMAIN rows[c] = {}
  BY DEF Init
<1>3. \A r \in Requests : req[r] = IdleRequest
  BY DEF Init
<1>4. AdmittedByOwner /\ OutcomeKnown /\ QuestionFirst
  BY <1>3 DEF AdmittedByOwner, OutcomeKnown, OutcomeFits, QuestionFirst, Underway, IdleRequest
<1>5. LiveChatsAreOwned
  BY DEF Init, LiveChatsAreOwned
<1> QED
  BY <1>1, <1>2, <1>4, <1>5
  DEF HandlerInv, RowsBehindHandlers, AnswersAfterQuestions, OneRowPerRole, AnswersAreHonest

\* A step that stores nothing and leaves the chats' status and owner alone keeps
\* the invariant, if the moving handler has stored nothing or comes to its end.
LEMMA QuietStep ==
  ASSUME HandlerInv, TypeOK', NEW r \in Requests, NEW q, Becomes(r, q), rows' = rows,
         \A c \in Chats : chat'[c].status = chat[c].status /\ chat'[c].owner = chat[c].owner,
         OutcomeFits(q),
         Underway(q) => /\ q.chat \in Chats
                        /\ chat[q.chat].status # "unborn"
                        /\ chat[q.chat].owner = q.who,
         q.at = "assistant" => q.kind \notin TurnKinds,
         \/ Unstored(req[r])
         \/ /\ q.at = "ended" /\ q.reply # "interrupt" /\ q.outcome = req[r].outcome
            /\ q.kind = req[r].kind /\ q.chat = req[r].chat /\ q.who = req[r].who
  PROVE  HandlerInv'
<1>1. TypeOK
  BY DEF HandlerInv
<1>2. req'[r] = q /\ \A x \in Requests : x # r => req'[x] = req[x]
  BY <1>1 DEF Becomes, TypeOK
<1>3. AdmittedByOwner'
  BY <1>1, <1>2, HandlerType DEF AdmittedByOwner, HandlerInv, Underway
<1>4. OutcomeKnown'
  BY <1>2 DEF OutcomeKnown, HandlerInv
<1>5. \A c \in Chats : \A i \in DOMAIN rows[c] :
        rows[c][i].by = r =>
          /\ q.at = "ended" /\ q.reply # "interrupt" /\ q.outcome = req[r].outcome
          /\ q.kind = req[r].kind /\ q.chat = req[r].chat /\ q.who = req[r].who
  BY NoRowsYet
<1>6. RowsBehindHandlers'
  BY <1>1, <1>2, <1>5, RowType DEF RowsBehindHandlers, HandlerInv
<1>7. QuestionFirst'
  <2> SUFFICES ASSUME NEW x \in Requests, x # r,
                      req[x].at = "assistant", req[x].kind \in TurnKinds,
                      chat'[req[x].chat].status # "deleted"
               PROVE  HasRow(req[x].chat, "user", x)'
    BY <1>2 DEF QuestionFirst
  <2>1. req[x].chat \in Chats
    BY <1>1, HandlerType
  <2> QED BY <1>2, <2>1 DEF QuestionFirst, HandlerInv, HasRow, IsRow
<1>8. AnswersAfterQuestions'
  <2> SUFFICES ASSUME NEW c \in Chats, chat[c].status # "deleted",
                      NEW i \in DOMAIN rows[c], NEW x \in Requests,
                      IsRow(c, i, "assistant", x), req'[x].kind \in TurnKinds
               PROVE  \E j \in 1..(i - 1) : IsRow(c, j, "user", x)
    BY DEF AnswersAfterQuestions, IsRow
  <2>1. req[x].kind \in TurnKinds
    BY <1>2, <1>5 DEF IsRow
  <2> QED BY <2>1 DEF AnswersAfterQuestions, HandlerInv
<1>9. OneRowPerRole'
  BY DEF OneRowPerRole, HandlerInv
<1>10. AnswersAreHonest'
  <2> SUFFICES ASSUME NEW c \in Chats, NEW i \in DOMAIN rows[c]
               PROVE  req'[rows[c][i].by].outcome = req[rows[c][i].by].outcome
    BY DEF AnswersAreHonest, HandlerInv
  <2> QED BY <1>1, <1>2, <1>5, RowType
<1>11. LiveChatsAreOwned'
  BY DEF LiveChatsAreOwned, HandlerInv
<1> QED BY <1>3, <1>4, <1>6, <1>7, <1>8, <1>9, <1>10, <1>11 DEF HandlerInv

\* What add_message does to the rows.
LEMMA AddedRow ==
  ASSUME TypeOK, NEW c \in Chats, NEW row, AddMessage(c, row)
  PROVE  /\ \A d \in Chats : d # c => rows'[d] = rows[d]
         /\ DOMAIN rows[c] = 1..Len(rows[c]) /\ Len(rows[c]) \in Nat
         /\ DOMAIN rows'[c] = 1..(Len(rows[c]) + 1)
         /\ \A i \in DOMAIN rows[c] : rows'[c][i] = rows[c][i]
         /\ rows'[c][Len(rows[c]) + 1] = row
<1>1. rows[c] \in Seq(Row)
  BY DEF TypeOK
<1>2. rows'[c] = Append(rows[c], row) /\ \A d \in Chats : d # c => rows'[d] = rows[d]
  BY DEF AddMessage, TypeOK
<1> QED BY <1>1, <1>2

\* A step that stores the next row of handler r keeps the invariant: the row is
\* not there yet, an answer has its question before it, and r moves on past it.
LEMMA StoringStep ==
  ASSUME HandlerInv, TypeOK', NEW r \in Requests, NEW q, Becomes(r, q),
         UNCHANGED <<chat, paused, thread>>,
         NEW row, row.by = r, AddMessage(req[r].chat, row),
         \/ row.role = "user" /\ req[r].at = "user" /\ row.cut = FALSE
         \/ /\ row.role = "assistant" /\ req[r].at = "assistant"
            /\ row.cut = (req[r].outcome = "cancelled"),
         q.at \in {"title", "ended"} \/ (q.at = "assistant" /\ row.role = "user"),
         q.reply # "interrupt", q.kind = req[r].kind, q.chat = req[r].chat,
         q.who = req[r].who, q.outcome = req[r].outcome, OutcomeFits(q)
  PROVE  HandlerInv'
<1> DEFINE c == req[r].chat
           n == Len(rows[c]) + 1
<1>1. TypeOK /\ c \in Chats
  BY HandlerType DEF HandlerInv
<1>2. req'[r] = q /\ \A x \in Requests : x # r => req'[x] = req[x]
  BY <1>1 DEF Becomes, TypeOK
<1>3. /\ \A d \in Chats : d # c => rows'[d] = rows[d]
      /\ DOMAIN rows[c] = 1..(n - 1) /\ n \in Nat \ {0}
      /\ DOMAIN rows'[c] = 1..n
      /\ \A i \in 1..(n - 1) : rows'[c][i] = rows[c][i]
      /\ rows'[c][n] = row
  <2>1. AddMessage(c, row)
    OBVIOUS
  <2> HIDE DEF c
  <2> QED BY <1>1, <2>1, AddedRow
<1>4. /\ chat[c].status # "unborn" /\ chat[c].owner = req[r].who
  BY DEF HandlerInv, AdmittedByOwner, Underway
<1> HIDE DEF n
\* Every row of the new state is an old one at its place, or the new one.
<1>5. \A d \in Chats : \A i \in DOMAIN rows'[d] :
        \/ i \in DOMAIN rows[d] /\ rows'[d][i] = rows[d][i]
        \/ d = c /\ i = n /\ rows'[d][i] = row
  BY <1>1, <1>3
\* Handler r has not stored this row before.
<1>6. \A d \in Chats : \A i \in DOMAIN rows[d] :
        rows[d][i].by = r => row.role = "assistant" /\ rows[d][i].role = "user"
  <2> SUFFICES ASSUME NEW d \in Chats, NEW i \in DOMAIN rows[d], rows[d][i].by = r
               PROVE  row.role = "assistant" /\ rows[d][i].role = "user"
    OBVIOUS
  <2>1. req[r].at \in IF rows[d][i].role = "user" THEN {"assistant", "title", "ended"}
                                                  ELSE {"title", "ended"}
    BY DEF HandlerInv, RowsBehindHandlers
  <2>2. rows[d][i].role \in {"user", "assistant"}
    BY <1>1, RowType DEF Row
  <2> QED BY <2>1, <2>2
<1>7. AdmittedByOwner'
  BY <1>1, <1>2, HandlerType DEF AdmittedByOwner, HandlerInv, Underway
<1>8. OutcomeKnown'
  BY <1>2 DEF OutcomeKnown, HandlerInv
<1>9. RowsBehindHandlers'
  <2> SUFFICES ASSUME NEW d \in Chats, NEW i \in DOMAIN rows'[d]
               PROVE  LET w == req'[rows'[d][i].by] IN
                      /\ w.at \in IF rows'[d][i].role = "user"
                                  THEN {"assistant", "title", "ended"}
                                  ELSE {"title", "ended"}
                      /\ w.reply # "interrupt"
                      /\ w.chat = d /\ w.who = chat'[d].owner
                      /\ chat'[d].status # "unborn"
    BY DEF RowsBehindHandlers
  <2>1. CASE i \in DOMAIN rows[d] /\ rows'[d][i] = rows[d][i] /\ rows[d][i].by # r
    BY <1>1, <1>2, <2>1, RowType DEF HandlerInv, RowsBehindHandlers
  <2>2. CASE i \in DOMAIN rows[d] /\ rows'[d][i] = rows[d][i] /\ rows[d][i].by = r
    <3>1. row.role = "assistant" /\ rows[d][i].role = "user"
      BY <1>6, <2>2
    <3>2. req[r].chat = d /\ req[r].who = chat[d].owner /\ chat[d].status # "unborn"
      BY <2>2 DEF HandlerInv, RowsBehindHandlers
    <3> QED BY <1>2, <2>2, <3>1, <3>2
  <2>3. CASE d = c /\ i = n /\ rows'[d][i] = row
    BY <1>2, <1>4, <2>3
  <2> QED BY <1>5, <2>1, <2>2, <2>3
<1>10. QuestionFirst'
  <2> SUFFICES ASSUME NEW x \in Requests, req'[x].at = "assistant",
                      req'[x].kind \in TurnKinds,
                      chat[req'[x].chat].status # "deleted"
               PROVE  \E i \in DOMAIN rows'[req'[x].chat] :
                        /\ rows'[req'[x].chat][i].role = "user"
                        /\ rows'[req'[x].chat][i].by = x
    BY DEF QuestionFirst, HasRow, IsRow
  <2>1. CASE x = r
    BY <1>2, <1>3, <2>1
  <2>2. CASE x # r
    <3>1. req'[x] = req[x] /\ req[x].chat \in Chats
      BY <1>1, <1>2, <2>2, HandlerType
    <3>2. PICK i \in DOMAIN rows[req[x].chat] :
                 rows[req[x].chat][i].role = "user" /\ rows[req[x].chat][i].by = x
      BY <3>1 DEF HandlerInv, QuestionFirst, HasRow, IsRow
    <3>3. i \in DOMAIN rows'[req[x].chat]
          /\ rows'[req[x].chat][i] = rows[req[x].chat][i]
      BY <1>3, <3>1, <3>2
    <3> QED BY <3>1, <3>2, <3>3
  <2> QED BY <2>1, <2>2
<1>11. AnswersAfterQuestions'
  <2> SUFFICES ASSUME NEW d \in Chats, chat[d].status # "deleted",
                      NEW i \in DOMAIN rows'[d], NEW x \in Requests,
                      rows'[d][i].role = "assistant", rows'[d][i].by = x,
                      req'[x].kind \in TurnKinds
               PROVE  \E j \in 1..(i - 1) : rows'[d][j].role = "user" /\ rows'[d][j].by = x
    BY DEF AnswersAfterQuestions, IsRow
  <2>1. req[x].kind \in TurnKinds
    BY <1>2
  <2>2. CASE i \in DOMAIN rows[d] /\ rows'[d][i] = rows[d][i]
    <3>1. PICK j \in 1..(i - 1) : rows[d][j].role = "user" /\ rows[d][j].by = x
      BY <2>1, <2>2 DEF HandlerInv, AnswersAfterQuestions, IsRow
    <3>2. rows'[d][j] = rows[d][j]
      BY <1>3, <2>2, <3>1
    <3> QED BY <3>1, <3>2
  <2>3. CASE d = c /\ i = n /\ rows'[d][i] = row
    <3>1. x = r /\ req[r].at = "assistant"
      BY <2>3
    <3>2. PICK j \in DOMAIN rows[c] : rows[c][j].role = "user" /\ rows[c][j].by = r
      BY <2>1, <2>3, <3>1 DEF HandlerInv, QuestionFirst, HasRow, IsRow
    <3>3. j \in 1..(i - 1) /\ rows'[d][j] = rows[c][j]
      BY <1>3, <2>3, <3>2
    <3> QED BY <3>1, <3>2, <3>3
  <2> QED BY <1>5, <2>2, <2>3
<1>12. OneRowPerRole'
  <2> SUFFICES ASSUME NEW d \in Chats, NEW e \in Chats,
                      NEW i \in DOMAIN rows'[d], NEW j \in DOMAIN rows'[e],
                      rows'[d][i].by = rows'[e][j].by, rows'[d][i].role = rows'[e][j].role
               PROVE  d = e /\ i = j
    BY DEF OneRowPerRole
  <2>1. CASE i \in DOMAIN rows[d] /\ rows'[d][i] = rows[d][i]
             /\ j \in DOMAIN rows[e] /\ rows'[e][j] = rows[e][j]
    BY <2>1 DEF HandlerInv, OneRowPerRole
  <2> QED BY <1>5, <1>6, <2>1
<1>13. AnswersAreHonest'
  <2> SUFFICES ASSUME NEW d \in Chats, NEW i \in DOMAIN rows'[d],
                      rows'[d][i].role = "assistant"
               PROVE  LET w == req'[rows'[d][i].by] IN
                      /\ w.outcome \in {"final", "timeout", "cancelled"}
                      /\ rows'[d][i].cut <=> w.outcome = "cancelled"
    BY DEF AnswersAreHonest
  <2>1. CASE i \in DOMAIN rows[d] /\ rows'[d][i] = rows[d][i]
    <3>1. rows[d][i].by # r /\ rows[d][i].by \in Requests
      BY <1>1, <1>6, <2>1, RowType
    <3> QED BY <1>2, <2>1, <3>1 DEF HandlerInv, AnswersAreHonest
  <2>2. CASE d = c /\ i = n /\ rows'[d][i] = row
    <3>1. req[r].outcome \in {"final", "timeout", "cancelled"}
      BY <2>2 DEF HandlerInv, OutcomeKnown, OutcomeFits
    <3> QED BY <1>2, <2>2, <3>1
  <2> QED BY <1>5, <2>1, <2>2
<1>14. LiveChatsAreOwned'
  BY DEF LiveChatsAreOwned, HandlerInv
<1> QED BY <1>7, <1>8, <1>9, <1>10, <1>11, <1>12, <1>13, <1>14 DEF HandlerInv

\* What the invariant says of a handler that is still underway.
LEMMA UnderwayFacts ==
  ASSUME HandlerInv, NEW r \in Requests, Underway(req[r])
  PROVE  /\ req[r].chat \in Chats
         /\ chat[req[r].chat].status # "unborn"
         /\ chat[req[r].chat].owner = req[r].who
         /\ OutcomeFits(req[r])
         /\ req[r].reply # "interrupt"
<1>1. OutcomeFits(req[r])
  BY DEF HandlerInv, OutcomeKnown
<1>2. req[r].reply # "interrupt"
  BY <1>1 DEF OutcomeFits, Underway
<1> QED BY <1>1, <1>2 DEF HandlerInv, AdmittedByOwner

\* CreateChat touches only a chat that no row and no handler knows.
LEMMA InvCreateChat ==
  ASSUME HandlerInv, TypeOK', NEW p \in Principals, NEW c \in Chats, CreateChat(p, c)
  PROVE  HandlerInv'
<1>1. rows' = rows /\ req' = req /\ chat[c].status = "unborn"
  BY DEF CreateChat
<1>2. \A d \in Chats : d # c => chat'[d] = chat[d]
  BY DEF CreateChat, HandlerInv, TypeOK
<1>3. DOMAIN rows[c] = {}
  BY <1>1 DEF HandlerInv, RowsBehindHandlers
<1>4. \A r \in Requests : Underway(req[r]) => req[r].chat \in Chats \ {c}
  BY <1>1 DEF HandlerInv, AdmittedByOwner
<1>5. AdmittedByOwner'
  BY <1>1, <1>2, <1>4 DEF HandlerInv, AdmittedByOwner
<1>6. RowsBehindHandlers'
  BY <1>1, <1>2, <1>3 DEF HandlerInv, RowsBehindHandlers
<1>7. OutcomeKnown' /\ OneRowPerRole' /\ AnswersAreHonest'
  BY <1>1 DEF HandlerInv, OutcomeKnown, OneRowPerRole, AnswersAreHonest
<1>8. QuestionFirst'
  BY <1>1, <1>2, <1>4 DEF HandlerInv, QuestionFirst, HasRow, IsRow, Underway
<1>9. AnswersAfterQuestions'
  BY <1>1, <1>2, <1>3 DEF HandlerInv, AnswersAfterQuestions, IsRow
<1>10. LiveChatsAreOwned'
  BY DEF CreateChat, LiveChatsAreOwned, HandlerInv, TypeOK
<1> QED BY <1>5, <1>6, <1>7, <1>8, <1>9, <1>10 DEF HandlerInv

\* DeleteChat takes the rows of one chat away and ends its own handler.
LEMMA InvDeleteChat ==
  ASSUME HandlerInv, TypeOK', NEW r \in Requests, DeleteChat(r)
  PROVE  HandlerInv'
<1> DEFINE c == req[r].chat
           q == [req[r] EXCEPT !.at = "ended", !.reply = "ok"]
<1>1. TypeOK /\ c \in Chats
  BY UnderwayFacts DEF DeleteChat, HandlerInv, Underway
<1>2. req'[r] = q /\ \A x \in Requests : x # r => req'[x] = req[x]
  BY <1>1 DEF DeleteChat, Becomes, TypeOK
<1>3. /\ q.at = "ended" /\ q.reply = "ok" /\ q.outcome = req[r].outcome
      /\ q.kind = req[r].kind /\ q.chat = req[r].chat /\ q.who = req[r].who
  BY <1>1, HandlerType DEF Request
<1>4. /\ chat'[c].status = "deleted" /\ chat'[c].owner = chat[c].owner
      /\ chat[c].status # "unborn"
      /\ \A d \in Chats : d # c => chat'[d] = chat[d]
  <2>1. chat[c].status # "unborn"
    BY UnderwayFacts DEF DeleteChat, Underway
  <2>2. chat' = [chat EXCEPT ![c].status = "deleted"]
    BY DEF DeleteChat
  <2>3. chat \in [Chats -> Session]
    BY <1>1 DEF TypeOK
  <2> HIDE DEF c
  <2>4. \A d \in Chats : d # c => chat'[d] = chat[d]
    BY <1>1, <2>2, <2>3
  <2>5. chat'[c] = [chat[c] EXCEPT !.status = "deleted"]
    BY <1>1, <2>2, <2>3
  <2>6. chat'[c].status = "deleted" /\ chat'[c].owner = chat[c].owner
    BY <1>1, <2>3, <2>5 DEF Session
  <2> QED BY <2>1, <2>4, <2>6
<1>5. DOMAIN rows'[c] = {} /\ \A d \in Chats : d # c => rows'[d] = rows[d]
  BY <1>1 DEF DeleteChat, TypeOK
<1>6. \A d \in Chats : \A i \in DOMAIN rows[d] : rows[d][i].by # r
  BY NoRowsYet DEF DeleteChat, Unstored
<1> HIDE DEF c, q
<1>7. AdmittedByOwner'
  BY <1>1, <1>2, <1>3, <1>4, HandlerType DEF AdmittedByOwner, HandlerInv, Underway
<1>8. OutcomeKnown'
  BY <1>2, <1>3 DEF OutcomeKnown, OutcomeFits, HandlerInv
<1>9. RowsBehindHandlers'
  BY <1>1, <1>2, <1>4, <1>5, <1>6, RowType DEF RowsBehindHandlers, HandlerInv
<1>10. QuestionFirst'
  <2> SUFFICES ASSUME NEW x \in Requests, req'[x].at = "assistant",
                      req'[x].kind \in TurnKinds, chat'[req'[x].chat].status # "deleted"
               PROVE  \E i \in DOMAIN rows'[req'[x].chat] :
                        /\ rows'[req'[x].chat][i].role = "user"
                        /\ rows'[req'[x].chat][i].by = x
    BY DEF QuestionFirst, HasRow, IsRow
  <2>1. x # r /\ req'[x] = req[x] /\ req[x].chat \in Chats /\ req[x].chat # c
    BY <1>1, <1>2, <1>3, <1>4, HandlerType
  <2> QED BY <1>4, <1>5, <2>1 DEF QuestionFirst, HandlerInv, HasRow, IsRow
<1>11. AnswersAfterQuestions'
  <2> SUFFICES ASSUME NEW d \in Chats, d # c, chat[d].status # "deleted",
                      NEW i \in DOMAIN rows[d], NEW x \in Requests,
                      IsRow(d, i, "assistant", x), req'[x].kind \in TurnKinds
               PROVE  \E j \in 1..(i - 1) : IsRow(d, j, "user", x)
    BY <1>4, <1>5 DEF AnswersAfterQuestions, IsRow
  <2>1. req[x].kind \in TurnKinds
    BY <1>2, <1>3
  <2> QED BY <2>1 DEF AnswersAfterQuestions, HandlerInv
<1>12. OneRowPerRole'
  BY <1>5 DEF OneRowPerRole, HandlerInv
<1>13. AnswersAreHonest'
  BY <1>1, <1>2, <1>5, <1>6, RowType DEF AnswersAreHonest, HandlerInv
<1>14. LiveChatsAreOwned'
  BY <1>4 DEF LiveChatsAreOwned, HandlerInv
<1> QED BY <1>7, <1>8, <1>9, <1>10, <1>11, <1>12, <1>13, <1>14 DEF HandlerInv

\* A request that arrives has stored nothing, whatever else is going on.
LEMMA InvArrive ==
  ASSUME HandlerInv, TypeOK', NEW r \in Requests, NEW k \in Kinds,
         NEW p \in Principals, NEW c \in Chats, Arrive(r, k, p, c)
  PROVE  HandlerInv'
<1> DEFINE answered == {q \in Requests : /\ req[q].chat = c
                                         /\ req[q].kind = "send"
                                         /\ req[q].reply = "ok"}
           turn == IF k \in TurnKinds THEN r ELSE None
           arrived == [IdleRequest EXCEPT !.kind = k, !.who = p, !.chat = c,
                                          !.turn = turn, !.answered = answered]
           q == IF ~Owns(p, c)
                THEN [arrived EXCEPT !.at = "ended", !.reply = "notfound"]
                ELSE IF Refused(k)
                THEN [arrived EXCEPT !.at = "ended", !.reply = "badrequest"]
                ELSE [arrived EXCEPT !.at = AfterVerify(k)]
<1>1. Becomes(r, q) /\ rows' = rows /\ chat' = chat /\ req[r].at = "idle"
  BY DEF Arrive
<1> HIDE DEF answered, turn
<1>2. /\ q.chat = c /\ q.who = p /\ q.outcome = "none" /\ q.reply # "interrupt"
      /\ q.at \in {"ended", "verified", "loaded", "delete"}
      /\ q.at # "ended" => Owns(p, c)
  BY ConstantsAssumption DEF IdleRequest, AfterVerify, TurnKinds
<1> HIDE DEF q
<1>3. OutcomeFits(q)
  BY <1>2 DEF OutcomeFits
<1>4. Underway(q) => chat[c].status # "unborn" /\ chat[c].owner = p
  <2> SUFFICES ASSUME Owns(p, c) PROVE chat[c].status # "unborn" /\ chat[c].owner = p
    BY <1>2 DEF Underway
  <2>1. chat[c].status = "live"
    BY DEF Owns, Live
  <2>2. chat[c].owner \in Principals
    BY <2>1 DEF HandlerInv, LiveChatsAreOwned
  <2> QED BY <2>1, <2>2 DEF Owns, Principals
<1>5. Unstored(req[r])
  BY <1>1 DEF Unstored
<1> QED BY <1>1, <1>2, <1>3, <1>4, <1>5, QuietStep

\* QuietStep for a handler that stays with its chat, its principal and its kind,
\* on chats that keep their status and owner.
LEMMA MovingOn ==
  ASSUME HandlerInv, TypeOK', NEW r \in Requests, NEW q, Becomes(r, q), rows' = rows,
         \A c \in Chats : chat'[c].status = chat[c].status /\ chat'[c].owner = chat[c].owner,
         Underway(req[r]), OutcomeFits(q),
         q.kind = req[r].kind, q.chat = req[r].chat, q.who = req[r].who,
         q.at = "assistant" => q.kind \notin TurnKinds,
         \/ Unstored(req[r])
         \/ q.at = "ended" /\ q.reply # "interrupt" /\ q.outcome = req[r].outcome
  PROVE  HandlerInv'
BY UnderwayFacts, QuietStep

\* Where a finished or a failed run takes a handler.
LEMMA AfterGraph ==
  ASSUME NEW q \in Request, AtOwnPoint(q), q.at = "graph"
  PROVE  /\ LET n == [q EXCEPT !.at = AfterResult(q.kind), !.outcome = "final"]
            IN  n.at \in {"user", "ack"} \/ (n.at = "assistant" /\ n.kind \notin TurnKinds)
         /\ LET n == Failed(q)
            IN  \/ n.at \in {"user", "ack"} /\ n.outcome = "error" /\ n.reply = q.reply
                \/ n.at = "ended" /\ n.outcome = "error" /\ n.reply = "failed"
BY ConstantsAssumption
   DEF AfterResult, Failed, TurnKinds, Request, PointsOf, AtOwnPoint

\* Every step keeps the invariant: one case for each await of the handlers.
LEMMA InvStep == HandlerInv /\ [Next]_vars => HandlerInv'
<1> SUFFICES ASSUME HandlerInv, [Next]_vars PROVE HandlerInv'
  OBVIOUS
<1>0. TypeOK /\ TypeOK'
  BY TypeStep DEF HandlerInv
<1>1. ASSUME NEW p \in Principals, NEW c \in Chats, CreateChat(p, c) PROVE HandlerInv'
  BY <1>0, <1>1, InvCreateChat
<1>2. ASSUME NEW r \in Requests, NEW k \in Kinds, NEW p \in Principals, NEW c \in Chats,
             Arrive(r, k, p, c)
      PROVE  HandlerInv'
  BY <1>0, <1>2, InvArrive
<1>3. ASSUME NEW r \in Requests, LoadHistory(r) PROVE HandlerInv'
  <2>0. PICK page \in Pages(req[r].chat) :
          Becomes(r, [req[r] EXCEPT !.at = "loaded", !.fresh = (page = {}),
                                    !.input = GraphInput(r, AskedIn(req[r].chat, page))])
    BY <1>3 DEF LoadHistory
  <2> DEFINE q == [req[r] EXCEPT !.at = "loaded", !.fresh = (page = {}),
                                 !.input = GraphInput(r, AskedIn(req[r].chat, page))]
  <2>1. Becomes(r, q) /\ rows' = rows /\ chat' = chat /\ req[r].at = "verified"
    BY <1>3, <2>0 DEF LoadHistory
  <2>2. /\ q.at = "loaded" /\ q.outcome = req[r].outcome /\ q.reply = req[r].reply
        /\ q.kind = req[r].kind /\ q.chat = req[r].chat /\ q.who = req[r].who
    BY <1>0, <2>1, HandlerType DEF Request
  <2> HIDE DEF q
  <2>3. Underway(req[r]) /\ Unstored(req[r])
    BY <2>1 DEF Underway, Unstored
  <2>4. OutcomeFits(q)
    BY <2>1, <2>2, <2>3, UnderwayFacts DEF OutcomeFits
  <2> QED BY <1>0, <2>1, <2>2, <2>3, <2>4, MovingOn
<1>4. ASSUME NEW r \in Requests, StartGraph(r) PROVE HandlerInv'
  <2> DEFINE q == IF req[r].kind = "resume"
                  THEN [req[r] EXCEPT !.at = "graph", !.turn = paused[req[r].chat]]
                  ELSE [req[r] EXCEPT !.at = "graph"]
  <2>1. Becomes(r, q) /\ rows' = rows /\ chat' = chat /\ req[r].at = "loaded"
    BY <1>4 DEF StartGraph
  <2>2. /\ q.at = "graph" /\ q.outcome = req[r].outcome /\ q.reply = req[r].reply
        /\ q.kind = req[r].kind /\ q.chat = req[r].chat /\ q.who = req[r].who
    BY <1>0, <2>1, HandlerType DEF Request
  <2> HIDE DEF q
  <2>3. Underway(req[r]) /\ Unstored(req[r])
    BY <2>1 DEF Underway, Unstored
  <2>4. OutcomeFits(q)
    BY <2>1, <2>2, <2>3, UnderwayFacts DEF OutcomeFits
  <2> QED BY <1>0, <2>1, <2>2, <2>3, <2>4, MovingOn
<1>5. ASSUME NEW r \in Requests, GraphFinishes(r) PROVE HandlerInv'
  <2> DEFINE q == [req[r] EXCEPT !.at = AfterResult(req[r].kind), !.outcome = "final"]
  <2>1. Becomes(r, q) /\ rows' = rows /\ chat' = chat /\ req[r].at = "graph"
    BY <1>5 DEF GraphFinishes
  <2>2. /\ q.at \in {"user", "ack"} \/ (q.at = "assistant" /\ q.kind \notin TurnKinds)
        /\ q.outcome = "final" /\ q.reply = req[r].reply
        /\ q.kind = req[r].kind /\ q.chat = req[r].chat /\ q.who = req[r].who
    BY <1>0, <2>1, HandlerType, AfterGraph DEF Request
  <2> HIDE DEF q
  <2>3. Underway(req[r]) /\ Unstored(req[r])
    BY <2>1 DEF Underway, Unstored
  <2>4. OutcomeFits(q)
    BY <2>1, <2>2, <2>3, UnderwayFacts DEF OutcomeFits
  <2> QED BY <1>0, <2>1, <2>2, <2>3, <2>4, MovingOn
<1>6. ASSUME NEW r \in Requests, GraphInterrupts(r) PROVE HandlerInv'
  <2> DEFINE q == Interrupted(req[r])
  <2>1. Becomes(r, q) /\ rows' = rows /\ chat' = chat /\ req[r].at = "graph"
    BY <1>6 DEF GraphInterrupts
  <2>2. /\ \/ q.at = "ack" /\ q.outcome = "error" /\ q.reply = req[r].reply
           \/ q.at = "ended" /\ q.outcome = "interrupt" /\ q.reply = "interrupt"
        /\ q.kind = req[r].kind /\ q.chat = req[r].chat /\ q.who = req[r].who
    BY <1>0, <2>1, HandlerType DEF Request, Interrupted
  <2> HIDE DEF q
  <2>3. Underway(req[r]) /\ Unstored(req[r])
    BY <2>1 DEF Underway, Unstored
  <2>4. OutcomeFits(q)
    BY <2>1, <2>2, <2>3, UnderwayFacts DEF OutcomeFits
  <2> QED BY <1>0, <2>1, <2>2, <2>3, <2>4, MovingOn
<1>7. ASSUME NEW r \in Requests, GraphFails(r) PROVE HandlerInv'
  <2> DEFINE q == Failed(req[r])
  <2>1. Becomes(r, q) /\ rows' = rows /\ chat' = chat /\ req[r].at = "graph"
    BY <1>7 DEF GraphFails
  <2>2. /\ \/ q.at \in {"user", "ack"} /\ q.outcome = "error" /\ q.reply = req[r].reply
           \/ q.at = "ended" /\ q.outcome = "error" /\ q.reply = "failed"
        /\ q.kind = req[r].kind /\ q.chat = req[r].chat /\ q.who = req[r].who
    BY <1>0, <2>1, HandlerType, AfterGraph DEF Request, Failed
  <2> HIDE DEF q
  <2>3. Underway(req[r]) /\ Unstored(req[r])
    BY <2>1 DEF Underway, Unstored
  <2>4. OutcomeFits(q)
    BY <2>1, <2>2, <2>3, UnderwayFacts DEF OutcomeFits
  <2> QED BY <1>0, <2>1, <2>2, <2>3, <2>4, MovingOn
<1>8. ASSUME NEW r \in Requests, CancelSend(r) PROVE HandlerInv'
  <2> DEFINE q == [req[r] EXCEPT !.at = "user", !.outcome = "cancelled"]
  <2>1. Becomes(r, q) /\ rows' = rows /\ chat' = chat /\ req[r].at = "graph"
    BY <1>8 DEF CancelSend
  <2>2. /\ q.at = "user" /\ q.outcome = "cancelled" /\ q.reply = req[r].reply
        /\ q.kind = req[r].kind /\ q.chat = req[r].chat /\ q.who = req[r].who
    BY <1>0, <2>1, HandlerType DEF Request
  <2> HIDE DEF q
  <2>3. Underway(req[r]) /\ Unstored(req[r])
    BY <2>1 DEF Underway, Unstored
  <2>4. OutcomeFits(q)
    BY <2>1, <2>2, <2>3, UnderwayFacts DEF OutcomeFits
  <2> QED BY <1>0, <2>1, <2>2, <2>3, <2>4, MovingOn
<1>9. ASSUME NEW r \in Requests, StreamTimesOut(r) PROVE HandlerInv'
  <2> DEFINE q == [req[r] EXCEPT !.at = "ack", !.outcome = "timeout"]
  <2>1. Becomes(r, q) /\ rows' = rows /\ chat' = chat /\ req[r].at = "graph"
    BY <1>9 DEF StreamTimesOut
  <2>2. /\ q.at = "ack" /\ q.outcome = "timeout" /\ q.reply = req[r].reply
        /\ q.kind = req[r].kind /\ q.chat = req[r].chat /\ q.who = req[r].who
    BY <1>0, <2>1, HandlerType DEF Request
  <2> HIDE DEF q
  <2>3. Underway(req[r]) /\ Unstored(req[r])
    BY <2>1 DEF Underway, Unstored
  <2>4. OutcomeFits(q)
    BY <2>1, <2>2, <2>3, UnderwayFacts DEF OutcomeFits
  <2> QED BY <1>0, <2>1, <2>2, <2>3, <2>4, MovingOn
<1>10. ASSUME NEW r \in Requests, Acknowledge(r) PROVE HandlerInv'
  <2> DEFINE q == [req[r] EXCEPT !.at = "user",
                            !.reply = IF req[r].outcome = "error" THEN "error" ELSE "ok"]
  <2>1. Becomes(r, q) /\ rows' = rows /\ chat' = chat /\ req[r].at = "ack"
    BY <1>10 DEF Acknowledge
  <2>2. /\ q.at = "user" /\ q.outcome = req[r].outcome /\ q.reply \in {"error", "ok"}
        /\ q.kind = req[r].kind /\ q.chat = req[r].chat /\ q.who = req[r].who
    BY <1>0, <2>1, HandlerType DEF Request
  <2> HIDE DEF q
  <2>3. Underway(req[r]) /\ Unstored(req[r])
    BY <2>1 DEF Underway, Unstored
  <2>4. OutcomeFits(q)
    BY <2>1, <2>2, <2>3, UnderwayFacts DEF OutcomeFits
  <2> QED BY <1>0, <2>1, <2>2, <2>3, <2>4, MovingOn
<1>11. ASSUME NEW r \in Requests, StoreUser(r) PROVE HandlerInv'
  <2> DEFINE row == [role |-> "user", by |-> r, cut |-> FALSE]
             q == AfterUser(req[r])
  <2>1. /\ Becomes(r, q) /\ AddMessage(req[r].chat, row) /\ req[r].at = "user"
        /\ UNCHANGED <<chat, paused, thread>>
    BY <1>11 DEF StoreUser
  <2>2. row.role = "user" /\ row.by = r /\ row.cut = FALSE
    OBVIOUS
  <2>3. OutcomeFits(req[r]) /\ req[r].reply # "interrupt"
    BY <2>1, UnderwayFacts DEF Underway
  <2>4. /\ q.at \in {"ended", "title"} \/ (q.at = "assistant" /\ req[r].outcome # "error")
        /\ q.reply # "interrupt" /\ q.outcome = req[r].outcome
        /\ q.kind = req[r].kind /\ q.chat = req[r].chat /\ q.who = req[r].who
    BY <1>0, <2>3, HandlerType DEF Request, AfterUser
  <2> HIDE DEF q, row
  <2>5. OutcomeFits(q)
    BY <2>1, <2>3, <2>4 DEF OutcomeFits
  <2> QED BY <1>0, <2>1, <2>2, <2>4, <2>5, StoringStep
<1>12. ASSUME NEW r \in Requests, StoreAssistant(r) PROVE HandlerInv'
  <2> DEFINE row == [role |-> "assistant", by |-> r,
                     cut |-> (req[r].outcome = "cancelled")]
             q == AfterAssistant(req[r])
  <2>1. /\ Becomes(r, q) /\ AddMessage(req[r].chat, row) /\ req[r].at = "assistant"
        /\ UNCHANGED <<chat, paused, thread>>
    BY <1>12 DEF StoreAssistant
  <2>2. row.role = "assistant" /\ row.by = r /\ row.cut = (req[r].outcome = "cancelled")
    OBVIOUS
  <2>3. OutcomeFits(req[r]) /\ req[r].reply # "interrupt"
    BY <2>1, UnderwayFacts DEF Underway
  <2>4. /\ q.at \in {"ended", "title"}
        /\ q.reply # "interrupt" /\ q.outcome = req[r].outcome
        /\ q.kind = req[r].kind /\ q.chat = req[r].chat /\ q.who = req[r].who
    BY <1>0, <2>3, HandlerType DEF Request, AfterAssistant
  <2> HIDE DEF q, row
  <2>5. OutcomeFits(q)
    BY <2>1, <2>3, <2>4 DEF OutcomeFits
  <2> QED BY <1>0, <2>1, <2>2, <2>4, <2>5, StoringStep
<1>13. ASSUME NEW r \in Requests, SetTitle(r) PROVE HandlerInv'
  <2> DEFINE q == [req[r] EXCEPT !.at = "ended",
                            !.reply = IF req[r].reply = "none" THEN "ok" ELSE req[r].reply]
  <2>1. Becomes(r, q) /\ rows' = rows /\ Underway(req[r])
    BY <1>13 DEF SetTitle, Underway
  <2>2. \A c \in Chats : chat'[c].status = chat[c].status /\ chat'[c].owner = chat[c].owner
    BY <1>0, <1>13 DEF SetTitle, TypeOK, Session
  <2>3. /\ q.at = "ended" /\ q.outcome = req[r].outcome /\ q.reply # "interrupt"
        /\ q.kind = req[r].kind /\ q.chat = req[r].chat /\ q.who = req[r].who
    BY <1>0, <2>1, HandlerType, UnderwayFacts DEF Request
  <2> HIDE DEF q
  <2>4. OutcomeFits(q)
    BY <2>3 DEF OutcomeFits
  <2> QED BY <1>0, <2>1, <2>2, <2>3, <2>4, MovingOn
<1>14. ASSUME NEW r \in Requests, StorageRaises(r) PROVE HandlerInv'
  <2> DEFINE q == [req[r] EXCEPT !.at = "ended", !.reply = ReplyAfterRaise(req[r])]
  <2>1. Becomes(r, q) /\ rows' = rows /\ Underway(req[r])
    BY <1>14 DEF StorageRaises, Underway
  <2>2. \A c \in Chats : chat'[c].status = chat[c].status /\ chat'[c].owner = chat[c].owner
    BY <1>0, <1>14 DEF StorageRaises
  <2>3. /\ q.at = "ended" /\ q.outcome = req[r].outcome /\ q.reply # "interrupt"
        /\ q.kind = req[r].kind /\ q.chat = req[r].chat /\ q.who = req[r].who
    BY <1>0, <2>1, HandlerType, UnderwayFacts DEF Request, ReplyAfterRaise
  <2> HIDE DEF q
  <2>4. OutcomeFits(q)
    BY <2>3 DEF OutcomeFits
  <2> QED BY <1>0, <2>1, <2>2, <2>3, <2>4, MovingOn
<1>15. ASSUME NEW r \in Requests, Abandon(r) PROVE HandlerInv'
  <2> DEFINE q == [req[r] EXCEPT !.at = "ended",
                            !.reply = IF req[r].reply = "none" THEN "failed" ELSE req[r].reply]
  <2>1. Becomes(r, q) /\ rows' = rows /\ Underway(req[r])
    BY <1>15 DEF Abandon, Underway
  <2>2. \A c \in Chats : chat'[c].status = chat[c].status /\ chat'[c].owner = chat[c].owner
    BY <1>0, <1>15 DEF Abandon
  <2>3. /\ q.at = "ended" /\ q.outcome = req[r].outcome /\ q.reply # "interrupt"
        /\ q.kind = req[r].kind /\ q.chat = req[r].chat /\ q.who = req[r].who
    BY <1>0, <2>1, HandlerType, UnderwayFacts DEF Request
  <2> HIDE DEF q
  <2>4. OutcomeFits(q)
    BY <2>3 DEF OutcomeFits
  <2> QED BY <1>0, <2>1, <2>2, <2>3, <2>4, MovingOn
<1>16. ASSUME NEW r \in Requests, DeleteChat(r) PROVE HandlerInv'
  BY <1>0, <1>16, InvDeleteChat
<1>17. CASE UNCHANGED vars
  <2>1. TypeOK' /\ LiveChatsAreOwned' /\ AdmittedByOwner' /\ OutcomeKnown'
    BY <1>0, <1>17
    DEF vars, HandlerInv, TypeOK, LiveChatsAreOwned, AdmittedByOwner, OutcomeKnown
  <2>2. RowsBehindHandlers' /\ QuestionFirst'
    BY <1>0, <1>17 DEF vars, HandlerInv, RowsBehindHandlers, QuestionFirst, HasRow, IsRow
  <2>3. AnswersAfterQuestions' /\ OneRowPerRole' /\ AnswersAreHonest'
    BY <1>0, <1>17
    DEF vars, HandlerInv, IsRow, AnswersAfterQuestions, OneRowPerRole, AnswersAreHonest
  <2> QED BY <1>0, <2>1, <2>2, <2>3 DEF HandlerInv
<1> QED
  BY <1>1, <1>2, <1>3, <1>4, <1>5, <1>6, <1>7, <1>8, <1>9, <1>10, <1>11, <1>12,
     <1>13, <1>14, <1>15, <1>16, <1>17
  DEF Next, Proceed, GraphReturns, AllServed

\* The handler invariant holds in every reachable state: how far each coroutine
\* has come bounds what it has stored, whatever the others do in between.
THEOREM HandlersSafe == Spec => []HandlerInv
BY InvInit, InvStep, PTL DEF Spec

\* In a live chat every answer stands after the question of its own turn, for any
\* number of concurrent sends, streams, resumes and deletes.
THEOREM AnswersFollowQuestions == Spec => []AnswerFollowsItsQuestion
<1>1. HandlerInv => AnswerFollowsItsQuestion
  BY DEF HandlerInv, AnswersAfterQuestions, AnswerFollowsItsQuestion, Live
<1> QED BY <1>1, HandlersSafe, PTL

\* No path through a handler stores a question or an answer twice.
THEOREM NoRowTwice == Spec => []OneRowPerRole
<1>1. HandlerInv => OneRowPerRole
  BY DEF HandlerInv
<1> QED BY <1>1, HandlersSafe, PTL

\* No failed or interrupted run leaves an answer, and cancelled ones are marked.
THEOREM StoredAnswersAreHonest == Spec => []AnswersAreHonest
<1>1. HandlerInv => AnswersAreHonest
  BY DEF HandlerInv
<1> QED BY <1>1, HandlersSafe, PTL

\* A request answered with an InterruptResponse has stored nothing.
THEOREM InterruptsLeaveNoRow == Spec => []PausedTurnLeavesNoRow
<1>1. HandlerInv => PausedTurnLeavesNoRow
  BY DEF HandlerInv, RowsBehindHandlers, PausedTurnLeavesNoRow, HasRow, IsRow
<1> QED BY <1>1, HandlersSafe, PTL

\* Every stored message was written by a request of the chat's owner.
THEOREM OwnersWrite == Spec => []OnlyTheOwnerWrites
<1>1. HandlerInv => OnlyTheOwnerWrites
  BY DEF HandlerInv, RowsBehindHandlers, OnlyTheOwnerWrites
<1> QED BY <1>1, HandlersSafe, PTL

-----------------------------------------------------------------------------
(***************************************************************************)
(* What an answered request may rely on: an acknowledged send is stored, a *)
(* title belongs to an opening turn, the graph knows every answered turn   *)
(* and is given none twice. AnswerInv says of each handler what it has     *)
(* left behind in the chat and in the checkpointer by the time it stands   *)
(* at an await.                                                            *)
(***************************************************************************)


\* A chat that was not deleted.
Kept(c) == chat[c].status # "deleted"

\* A handler whose graph run has not begun.
Waiting(q) == q.at \in {"idle", "verified", "loaded"}

\* At the title, the turn is stored: a send's with its answer.
StoredBeforeTitle(r) ==
  LET c == req[r].chat IN
  req[r].at = "title" /\ c \in Chats /\ Kept(c) =>
    /\ HasRow(c, "user", r)
    /\ req[r].kind = "send" => HasRow(c, "assistant", r)

\* What AckedSendIsStored says of the answers that come from a run, and only an
\* ended send has the reply "ok".
StoredOnceAcked(r) ==
  LET c == req[r].chat IN
  req[r].kind = "send" /\ req[r].reply = "ok" =>
    /\ req[r].at = "ended" /\ c \in Chats /\ chat[c].status # "unborn"
    /\ Kept(c) => /\ HasRow(c, "user", r)
                  /\ HasRow(c, "assistant", r)
                  /\ req[r].fresh => chat[c].title # None

\* A turn that found no history arrived before any send was answered.
FreshIsFirst(r) ==
  req[r].fresh /\ req[r].chat \in Chats /\ Kept(req[r].chat) => req[r].answered = {}

\* What a turn hands to the graph: its own message, and with a checkpointer
\* nothing else.
InputIsOwn(r) ==
  /\ Checkpointing => req[r].input \subseteq {r}
  /\ req[r].kind \in TurnKinds /\ req[r].at = "loaded" => r \in req[r].input

\* With a checkpointer a send that has started its run is in the thread.
ThreadHasRun(r) ==
  Checkpointing /\ req[r].kind = "send"
    /\ (req[r].at \in {"graph", "user", "assistant", "title"} \/ req[r].reply = "ok")
  => req[r].chat \in Chats /\ r \in thread[req[r].chat]

\* Without one the loaded history carries every answered turn, if it is whole.
HistoryIsGiven(r) ==
  ~Checkpointing /\ req[r].kind \in TurnKinds /\ req[r].at \in {"loaded", "graph"}
    /\ req[r].chat \in Chats /\ Kept(req[r].chat) /\ OnOnePage(req[r].chat)
  => req[r].answered \subseteq req[r].input

Sound(r) ==
  /\ StoredBeforeTitle(r) /\ StoredOnceAcked(r) /\ FreshIsFirst(r)
  /\ InputIsOwn(r) /\ ThreadHasRun(r) /\ HistoryIsGiven(r)

\* A send that was answered when another request arrived stays answered.
AnsweredStay ==
  \A r \in Requests : \A x \in req[r].answered :
    req[x].kind = "send" /\ req[x].reply = "ok" /\ req[x].chat = req[r].chat

\* TitleIsFromAnOpeningTurn, for chats that are yet to be created too.
TitlesOpen ==
  \A c \in Chats : Kept(c) /\ chat[c].title # None =>
    HasRow(c, "user", chat[c].title) /\ req[chat[c].title].answered = {}

\* The checkpointer holds only turns whose run has begun.
ThreadIsStarted == \A c \in Chats : \A r \in thread[c] : ~Waiting(req[r])

AnswerInv ==
  /\ \A r \in Requests : Sound(r)
  /\ AnsweredStay
  /\ TitlesOpen
  /\ ThreadIsStarted

-----------------------------------------------------------------------------
(* What survives a step. *)

\* No step brings a deleted chat back, or takes rows, titles or turns away from a
\* chat that it does not delete.
Remains ==
  \A c \in Chats :
    /\ Kept(c)' => Kept(c)
    /\ chat[c].status # "unborn" => chat'[c].status # "unborn"
    /\ Kept(c)' => \A i \in DOMAIN rows[c] : i \in DOMAIN rows'[c] /\ rows'[c][i] = rows[c][i]
    /\ chat[c].status # "unborn" /\ Kept(c)' /\ chat[c].title # None => chat'[c].title # None
    /\ thread[c] \subseteq thread'[c]

\* A stored message stays until its chat is deleted.
LEMMA RowsRemain ==
  ASSUME Remains, NEW c \in Chats, Kept(c)', NEW role, NEW r, HasRow(c, role, r)
  PROVE  HasRow(c, role, r)'
<1>1. PICK i \in DOMAIN rows[c] : rows[c][i].role = role /\ rows[c][i].by = r
  BY DEF HasRow, IsRow
<1>2. i \in DOMAIN rows'[c] /\ rows'[c][i] = rows[c][i]
  BY <1>1 DEF Remains
<1> QED BY <1>1, <1>2 DEF HasRow, IsRow

\* What is known of a handler that does not move stays known.
LEMMA SoundRemains ==
  ASSUME Remains, NEW r \in Requests, req'[r] = req[r], Sound(r)
  PROVE  Sound(r)'
<1>1. \A c \in Chats : Kept(c)' => \A role \in {"user", "assistant"} :
        HasRow(c, role, r) => HasRow(c, role, r)'
  BY RowsRemain
<1>2. \A c \in Chats : Kept(c)' => Kept(c)
  BY DEF Remains
<1>3. StoredBeforeTitle(r)'
  BY <1>1, <1>2 DEF Sound, StoredBeforeTitle, Kept, HasRow, IsRow
<1>4. StoredOnceAcked(r)'
  <2> SUFFICES ASSUME req[r].kind = "send", req[r].reply = "ok"
               PROVE  StoredOnceAcked(r)'
    BY DEF StoredOnceAcked
  <2>1. req[r].at = "ended" /\ req[r].chat \in Chats /\ chat[req[r].chat].status # "unborn"
    BY DEF Sound, StoredOnceAcked
  <2>2. chat'[req[r].chat].status # "unborn"
    BY <2>1 DEF Remains
  <2>3. Kept(req[r].chat)' => Kept(req[r].chat)
    BY <1>2, <2>1 DEF Kept
  <2>4. chat'[req[r].chat].status # "deleted" =>
          /\ HasRow(req[r].chat, "user", r)
          /\ HasRow(req[r].chat, "assistant", r)
          /\ req[r].fresh => chat'[req[r].chat].title # None
    BY <2>1, <2>3 DEF Sound, StoredOnceAcked, Remains, Kept
  <2> QED BY <1>1, <2>1, <2>2, <2>4 DEF StoredOnceAcked, Kept, HasRow, IsRow
<1>5. FreshIsFirst(r)'
  BY <1>2 DEF Sound, FreshIsFirst, Kept
<1>6. InputIsOwn(r)'
  BY DEF Sound, InputIsOwn
<1>7. ThreadHasRun(r)'
  BY DEF Sound, ThreadHasRun, Remains
<1>8. HistoryIsGiven(r)'
  BY <1>2 DEF Sound, HistoryIsGiven, Kept, Remains, OnOnePage
<1> QED BY <1>3, <1>4, <1>5, <1>6, <1>7, <1>8 DEF Sound

\* A step of handler r keeps the invariant: r is sound where it arrives, it adds
\* only its own turn to the thread, and titles a chat only with an opening turn.
LEMMA HandlerStep ==
  ASSUME HandlerInv, TypeOK', AnswerInv, Remains, NEW r \in Requests, NEW q,
         Becomes(r, q), req[r].at # "ended", Sound(r)',
         \/ q.answered = req[r].answered /\ q.chat = req[r].chat
         \/ /\ req[r].at = "idle"
            /\ \A x \in q.answered :
                 req[x].kind = "send" /\ req[x].reply = "ok" /\ req[x].chat = q.chat,
         Waiting(q) => Waiting(req[r]) /\ thread' = thread,
         \A c \in Chats : thread'[c] \subseteq thread[c] \cup {r},
         \A c \in Chats :
           \/ chat'[c].title = chat[c].title
           \/ chat'[c].title = r /\ q.answered = {} /\ (Kept(c)' => HasRow(c, "user", r)')
  PROVE  AnswerInv'
<1>1. TypeOK
  BY DEF HandlerInv
<1>2. req'[r] = q /\ \A x \in Requests : x # r => req'[x] = req[x]
  BY <1>1 DEF Becomes, TypeOK
<1>3. \A x \in Requests : Sound(x)'
  BY <1>2, SoundRemains DEF AnswerInv
<1>4. AnsweredStay'
  <2> SUFFICES ASSUME NEW x \in Requests, NEW y \in req'[x].answered
               PROVE  /\ req'[y].kind = "send" /\ req'[y].reply = "ok"
                      /\ req'[y].chat = req'[x].chat
    BY DEF AnsweredStay
  <2>1. y \in Requests
    BY HandlerType DEF TypeOK, Request
  <2>2. req[y].kind = "send" /\ req[y].reply = "ok" /\ req[y].chat = req'[x].chat
    <3>1. CASE req'[x].answered = req[x].answered /\ req'[x].chat = req[x].chat
      BY <3>1 DEF AnswerInv, AnsweredStay
    <3>2. CASE /\ x = r
               /\ \A z \in q.answered :
                    req[z].kind = "send" /\ req[z].reply = "ok" /\ req[z].chat = q.chat
      BY <1>2, <3>2
    <3> QED BY <1>2, <3>1, <3>2
  <2>3. req[y].at = "ended"
    BY <2>1, <2>2 DEF AnswerInv, Sound, StoredOnceAcked
  <2> QED BY <1>2, <2>1, <2>2, <2>3
<1>5. TitlesOpen'
  <2> SUFFICES ASSUME NEW c \in Chats, Kept(c)', chat'[c].title # None
               PROVE  HasRow(c, "user", chat[c].title)' /\ req'[chat'[c].title].answered = {}
    BY DEF TitlesOpen, HasRow, IsRow
  <2>1. CASE chat'[c].title = r /\ q.answered = {} /\ HasRow(c, "user", r)'
    BY <1>2, <2>1 DEF HasRow, IsRow
  <2>2. CASE chat'[c].title = chat[c].title
    <3>1. PICK t \in Requests : t = chat[c].title
      BY <1>1, <2>2 DEF TypeOK, Session
    <3>2. Kept(c) /\ HasRow(c, "user", t) /\ req[t].answered = {}
      BY <2>2, <3>1 DEF AnswerInv, TitlesOpen, Remains
    <3>3. HasRow(c, "user", t)'
      BY <3>1, <3>2, RowsRemain
    <3>4. t = r => req[r].at # "idle"
      <4> SUFFICES ASSUME t = r PROVE req[r].at # "idle"
        OBVIOUS
      <4>1. PICK i \in DOMAIN rows[c] : rows[c][i].by = r
        BY <3>2 DEF HasRow, IsRow
      <4>2. req[r].at \in {"assistant", "title", "ended"}
        BY <4>1 DEF HandlerInv, RowsBehindHandlers
      <4> QED BY <4>2
    <3>5. req'[t].answered = {}
      BY <1>2, <3>1, <3>2, <3>4
    <3>6. chat'[c].title = t
      BY <2>2, <3>1
    <3> QED BY <3>3, <3>5, <3>6 DEF HasRow, IsRow
  <2> QED BY <2>1, <2>2
<1>6. ThreadIsStarted'
  <2> SUFFICES ASSUME NEW c \in Chats, NEW x \in thread'[c] PROVE ~Waiting(req'[x])
    BY DEF ThreadIsStarted, Waiting
  <2>1. x \in Requests
    BY DEF TypeOK
  <2>2. x \in thread[c] => ~Waiting(req[x])
    BY DEF AnswerInv, ThreadIsStarted
  <2>3. CASE x # r
    BY <1>2, <2>1, <2>2, <2>3
  <2>4. CASE x = r
    BY <1>2, <2>2, <2>4
  <2> QED BY <2>3, <2>4
<1> QED BY <1>3, <1>4, <1>5, <1>6 DEF AnswerInv

\* A handler that runs on after its graph run has begun keeps the invariant: it
\* keeps what it knows of the chat, and what its await promises is stored.
LEMMA Advance ==
  ASSUME HandlerInv, TypeOK', AnswerInv, Remains, NEW r \in Requests, NEW q \in Request,
         Becomes(r, q), Underway(req[r]),
         q.kind = req[r].kind, q.chat = req[r].chat, q.fresh = req[r].fresh,
         q.input = req[r].input, q.answered = req[r].answered, ~Waiting(q),
         q.at = "graph" => req[r].at = "loaded",
         q.at \in {"graph", "user", "assistant", "title"} \/ (q.kind = "send" /\ q.reply = "ok")
           => \/ req[r].at \in {"graph", "user", "assistant", "title"}
              \/ Checkpointing /\ q.kind = "send" => r \in thread'[req[r].chat],
         \A c \in Chats : thread'[c] \subseteq thread[c] \cup {r},
         q.at = "title" /\ Kept(req[r].chat)' =>
           /\ HasRow(req[r].chat, "user", r)'
           /\ q.kind = "send" => HasRow(req[r].chat, "assistant", r)',
         q.kind = "send" /\ q.reply = "ok" =>
           /\ q.at = "ended"
           /\ Kept(req[r].chat)' =>
                /\ HasRow(req[r].chat, "user", r)'
                /\ HasRow(req[r].chat, "assistant", r)'
                /\ q.fresh => chat'[req[r].chat].title # None,
         \A c \in Chats :
           \/ chat'[c].title = chat[c].title
           \/ chat'[c].title = r /\ q.answered = {} /\ (Kept(c)' => HasRow(c, "user", r)')
  PROVE  AnswerInv'
<1>1. TypeOK /\ req[r].chat \in Chats /\ chat[req[r].chat].status # "unborn"
  BY UnderwayFacts DEF HandlerInv
<1>2. req'[r] = q
  BY <1>1 DEF Becomes, TypeOK
<1>3. Sound(r) /\ req[r].at # "ended"
  BY DEF AnswerInv, Underway
<1>4. StoredBeforeTitle(r)'
  BY <1>1, <1>2 DEF StoredBeforeTitle, Kept, HasRow, IsRow
<1>5. StoredOnceAcked(r)'
  BY <1>1, <1>2 DEF StoredOnceAcked, Kept, HasRow, IsRow, Remains
<1>6. FreshIsFirst(r)'
  BY <1>1, <1>2, <1>3 DEF Sound, FreshIsFirst, Kept, Remains
<1>7. InputIsOwn(r)'
  BY <1>2, <1>3 DEF Sound, InputIsOwn, Waiting
<1>8. ThreadHasRun(r)'
  BY <1>1, <1>2, <1>3 DEF Sound, ThreadHasRun, Remains
<1>9. HistoryIsGiven(r)'
  BY <1>1, <1>2, <1>3 DEF Sound, HistoryIsGiven, Waiting, Kept, Remains, OnOnePage
<1>10. Sound(r)'
  BY <1>4, <1>5, <1>6, <1>7, <1>8, <1>9 DEF Sound
<1> QED BY <1>3, <1>10, HandlerStep DEF Waiting

\* A step that leaves the storage alone takes nothing away from it.
LEMMA QuietRemains ==
  ASSUME chat' = chat, rows' = rows,
         \A c \in Chats : thread[c] \subseteq thread'[c]
  PROVE  Remains
BY DEF Remains, Kept

\* A stored message does not push an earlier one out.
LEMMA AddRemains ==
  ASSUME TypeOK, NEW c \in Chats, NEW row, AddMessage(c, row), UNCHANGED <<chat, thread>>
  PROVE  Remains
<1>1. \A d \in Chats : \A i \in DOMAIN rows[d] :
        i \in DOMAIN rows'[d] /\ rows'[d][i] = rows[d][i]
  <2> SUFFICES ASSUME NEW d \in Chats, NEW i \in DOMAIN rows[d]
               PROVE  i \in DOMAIN rows'[d] /\ rows'[d][i] = rows[d][i]
    OBVIOUS
  <2>1. CASE d = c
    BY <2>1, AddedRow
  <2>2. CASE d # c
    BY <2>2, AddedRow
  <2> QED BY <2>1, <2>2
<1> QED BY <1>1 DEF Remains, Kept

\* A handler that ends, or moves on, without touching the storage: only a send
\* that gets its "ok" here and a turn that comes to the title would promise more.
LEMMA QuietAdvance ==
  ASSUME HandlerInv, TypeOK', AnswerInv, NEW r \in Requests, NEW q \in Request,
         Becomes(r, q), Underway(req[r]), UNCHANGED <<chat, rows, thread>>,
         q.kind = req[r].kind, q.chat = req[r].chat, q.fresh = req[r].fresh,
         q.input = req[r].input, q.answered = req[r].answered,
         q.at \in {"ack", "user", "assistant", "ended"},
         q.at \in {"user", "assistant"} /\ q.kind = "send" =>
           req[r].at \in {"graph", "user", "assistant", "title"},
         ~(q.kind = "send" /\ q.reply = "ok")
  PROVE  AnswerInv'
<1>1. Remains
  BY QuietRemains
<1>2. Sound(r)
  BY DEF AnswerInv
<1> QED BY <1>1, <1>2, Advance DEF Waiting

-----------------------------------------------------------------------------
(* The steps. *)

\* The invariant holds before any request arrives.
LEMMA AnswersInit == Init => AnswerInv
<1> SUFFICES ASSUME Init PROVE AnswerInv
  OBVIOUS
<1>1. \A r \in Requests : req[r] = IdleRequest
  BY DEF Init
<1>2. \A r \in Requests : Sound(r)
  BY <1>1 DEF Sound, StoredBeforeTitle, StoredOnceAcked, FreshIsFirst, InputIsOwn,
              ThreadHasRun, HistoryIsGiven, IdleRequest, TurnKinds
<1>3. AnsweredStay
  BY <1>1 DEF AnsweredStay, IdleRequest
<1>4. TitlesOpen /\ ThreadIsStarted
  BY DEF Init, TitlesOpen, ThreadIsStarted
<1> QED BY <1>2, <1>3, <1>4 DEF AnswerInv

\* A new chat has no title, no rows and no handlers.
LEMMA AnswersCreateChat ==
  ASSUME HandlerInv, TypeOK', AnswerInv, NEW p \in Principals, NEW c \in Chats,
         CreateChat(p, c)
  PROVE  AnswerInv'
<1>1. /\ UNCHANGED <<rows, thread, req>>
      /\ chat[c].status = "unborn" /\ chat'[c].status = "live" /\ chat'[c].title = None
      /\ \A d \in Chats : d # c => chat'[d] = chat[d]
  BY DEF CreateChat, HandlerInv, TypeOK
<1>2. Remains
  BY <1>1 DEF Remains, Kept
<1>3. \A r \in Requests : Sound(r)'
  BY <1>1, <1>2, SoundRemains DEF AnswerInv
<1>4. AnsweredStay' /\ ThreadIsStarted'
  BY <1>1 DEF AnswerInv, AnsweredStay, ThreadIsStarted, Waiting
<1>5. TitlesOpen'
  BY <1>1 DEF AnswerInv, TitlesOpen, Kept, HasRow, IsRow
<1> QED BY <1>3, <1>4, <1>5 DEF AnswerInv

\* A request that arrives knows which sends have been answered, and no more.
LEMMA AnswersArrive ==
  ASSUME HandlerInv, TypeOK', AnswerInv, NEW r \in Requests, NEW k \in Kinds,
         NEW p \in Principals, NEW c \in Chats, Arrive(r, k, p, c)
  PROVE  AnswerInv'
<1> DEFINE answered == {q \in Requests : /\ req[q].chat = c
                                         /\ req[q].kind = "send"
                                         /\ req[q].reply = "ok"}
           turn == IF k \in TurnKinds THEN r ELSE None
           arrived == [IdleRequest EXCEPT !.kind = k, !.who = p, !.chat = c,
                                          !.turn = turn, !.answered = answered]
           q == IF ~Owns(p, c)
                THEN [arrived EXCEPT !.at = "ended", !.reply = "notfound"]
                ELSE IF Refused(k)
                THEN [arrived EXCEPT !.at = "ended", !.reply = "badrequest"]
                ELSE [arrived EXCEPT !.at = AfterVerify(k)]
<1>1. Becomes(r, q) /\ UNCHANGED <<chat, rows, thread>> /\ req[r].at = "idle"
  BY DEF Arrive
<1> HIDE DEF turn
<1>2. \A x \in q.answered :
        req[x].kind = "send" /\ req[x].reply = "ok" /\ req[x].chat = q.chat
  BY DEF IdleRequest
<1> HIDE DEF answered
<1>3. /\ q.reply \in {"none", "notfound", "badrequest"} /\ q.fresh = FALSE /\ q.input = {}
      /\ q.at \in {"ended", "verified", "loaded", "delete"}
      /\ q.at = "loaded" => q.kind \notin TurnKinds
  BY ConstantsAssumption DEF IdleRequest, AfterVerify, TurnKinds
<1> HIDE DEF q
<1>4. req'[r] = q
  BY <1>1 DEF HandlerInv, TypeOK, Becomes
<1>5. Remains
  BY <1>1, QuietRemains
<1>6. Sound(r)'
  BY <1>3, <1>4
  DEF Sound, StoredBeforeTitle, StoredOnceAcked, FreshIsFirst, InputIsOwn,
      ThreadHasRun, HistoryIsGiven
<1> QED BY <1>1, <1>2, <1>5, <1>6, HandlerStep DEF Waiting

\* The loaded history holds the question of every send answered before: an empty
\* one means that there is none.
LEMMA AnswersLoadHistory ==
  ASSUME HandlerInv, TypeOK', AnswerInv, NEW r \in Requests, LoadHistory(r)
  PROVE  AnswerInv'
<1> DEFINE c == req[r].chat
<1>0. PICK page \in Pages(c) :
        Becomes(r, [req[r] EXCEPT !.at = "loaded", !.fresh = (page = {}),
                                  !.input = GraphInput(r, AskedIn(c, page))])
  BY DEF LoadHistory
<1> DEFINE q == [req[r] EXCEPT !.at = "loaded", !.fresh = (page = {}),
                               !.input = GraphInput(r, AskedIn(c, page))]
<1>1. Becomes(r, q) /\ UNCHANGED <<chat, rows, thread>> /\ req[r].at = "verified"
  BY <1>0 DEF LoadHistory
<1>2. TypeOK /\ c \in Chats
  BY <1>1, UnderwayFacts DEF HandlerInv, Underway
<1>3. /\ q.at = "loaded" /\ q.fresh = (page = {})
      /\ q.input = GraphInput(r, AskedIn(c, page)) /\ q.kind = req[r].kind
      /\ q.chat = c /\ q.reply = req[r].reply /\ q.answered = req[r].answered
  BY <1>2, HandlerType DEF Request
<1> HIDE DEF q
<1>4. req'[r] = q
  BY <1>1, <1>2 DEF TypeOK, Becomes
<1>5. \A x \in req[r].answered : Kept(c) => HasRow(c, "user", x)
  <2> SUFFICES ASSUME NEW x \in req[r].answered, Kept(c) PROVE HasRow(c, "user", x)
    OBVIOUS
  <2>1. x \in Requests
    BY <1>2, HandlerType DEF Request
  <2>2. req[x].kind = "send" /\ req[x].reply = "ok" /\ req[x].chat = c
    BY DEF AnswerInv, AnsweredStay
  <2> QED BY <2>1, <2>2 DEF AnswerInv, Sound, StoredOnceAcked
<1>6. /\ page = {} => rows[c] = <<>>
      /\ OnOnePage(c) => page = DOMAIN rows[c]
  BY <1>2, PageFacts
<1> HIDE DEF c
<1>12. \A x \in req[r].answered : Kept(c) => rows[c] # <<>>
  BY <1>5 DEF HasRow, IsRow
<1>13. \A x \in req[r].answered : Kept(c) /\ OnOnePage(c) => x \in AskedIn(c, page)
  BY <1>5, <1>6 DEF HasRow, IsRow, AskedIn
<1>7. StoredBeforeTitle(r)' /\ StoredOnceAcked(r)' /\ ThreadHasRun(r)'
  BY <1>1, <1>3, <1>4
  DEF StoredBeforeTitle, StoredOnceAcked, ThreadHasRun, AnswerInv, Sound
<1>8. FreshIsFirst(r)'
  BY <1>1, <1>3, <1>4, <1>6, <1>12 DEF FreshIsFirst, Kept
<1>9. InputIsOwn(r)' /\ HistoryIsGiven(r)'
  BY <1>1, <1>3, <1>4, <1>13 DEF InputIsOwn, HistoryIsGiven, GraphInput, Kept, OnOnePage
<1>10. Sound(r)'
  BY <1>7, <1>8, <1>9 DEF Sound
<1>11. Remains
  BY <1>1, QuietRemains
<1> QED BY <1>1, <1>3, <1>10, <1>11, HandlerStep DEF Waiting, c

\* A run that starts puts its input into the thread.
LEMMA AnswersStartGraph ==
  ASSUME HandlerInv, TypeOK', AnswerInv, NEW r \in Requests, StartGraph(r)
  PROVE  AnswerInv'
<1> DEFINE c == req[r].chat
           q == IF req[r].kind = "resume"
                THEN [req[r] EXCEPT !.at = "graph", !.turn = paused[c]]
                ELSE [req[r] EXCEPT !.at = "graph"]
<1>1. Becomes(r, q) /\ UNCHANGED <<chat, rows>> /\ req[r].at = "loaded"
  BY DEF StartGraph
<1>2. TypeOK /\ c \in Chats
  BY <1>1, UnderwayFacts DEF HandlerInv, Underway
<1>3. /\ q.at = "graph" /\ q.kind = req[r].kind /\ q.chat = req[r].chat
      /\ q.fresh = req[r].fresh /\ q.input = req[r].input /\ q.reply = req[r].reply
      /\ q.answered = req[r].answered
  BY <1>2, HandlerType DEF Request
<1>4. q \in Request
  BY <1>2, <1>3, <1>1 DEF TypeOK, Becomes
<1> HIDE DEF q
<1>5. InputIsOwn(r) /\ StoredOnceAcked(r)
  BY DEF AnswerInv, Sound
<1>6. \A d \in Chats : \/ thread'[d] = thread[d]
                       \/ Checkpointing /\ thread'[d] = thread[d] \cup req[r].input
  <2>1. CASE req[r].kind = "resume"
    BY <2>1 DEF StartGraph
  <2>2. CASE req[r].kind # "resume"
    <3>1. thread' = [thread EXCEPT ![c] = IF Checkpointing THEN @ \cup req[r].input ELSE @]
      BY <2>2 DEF StartGraph
    <3> HIDE DEF c
    <3> QED BY <1>2, <3>1 DEF TypeOK
  <2> QED BY <2>1, <2>2
<1>7. /\ \A d \in Chats : thread[d] \subseteq thread'[d]
      /\ \A d \in Chats : thread'[d] \subseteq thread[d] \cup {r}
  BY <1>5, <1>6 DEF InputIsOwn
<1>8. Checkpointing /\ q.kind = "send" => r \in thread'[c]
  BY <1>1, <1>2, <1>3, <1>5 DEF StartGraph, TypeOK, InputIsOwn, TurnKinds
<1>9. ~(q.kind = "send" /\ q.reply = "ok")
  BY <1>1, <1>3, <1>5 DEF StoredOnceAcked
<1>10. Remains
  BY <1>1, <1>7, QuietRemains
<1> QED BY <1>1, <1>3, <1>4, <1>7, <1>8, <1>9, <1>10, Advance DEF Underway, Waiting

\* The row that a handler stores is in its chat from then on.
LEMMA AddedIsThere ==
  ASSUME TypeOK, NEW c \in Chats, NEW row, AddMessage(c, row)
  PROVE  \E i \in DOMAIN rows'[c] : rows'[c][i] = row
<1>1. Len(rows[c]) + 1 \in DOMAIN rows'[c] /\ rows'[c][Len(rows[c]) + 1] = row
  BY AddedRow
<1> QED BY <1>1

\* The question is stored: a failed stream goes on to the title with it.
LEMMA AnswersStoreUser ==
  ASSUME HandlerInv, TypeOK', AnswerInv, NEW r \in Requests, StoreUser(r)
  PROVE  AnswerInv'
<1> DEFINE row == [role |-> "user", by |-> r, cut |-> FALSE]
           q == AfterUser(req[r])
<1>1. /\ Becomes(r, q) /\ AddMessage(req[r].chat, row) /\ UNCHANGED <<chat, thread>>
      /\ req[r].at = "user"
  BY DEF StoreUser
<1>2. TypeOK /\ req[r].chat \in Chats
  BY <1>1, UnderwayFacts DEF HandlerInv, Underway
<1>3. /\ q.kind = req[r].kind /\ q.chat = req[r].chat /\ q.fresh = req[r].fresh
      /\ q.input = req[r].input /\ q.answered = req[r].answered
      /\ q.at \in {"ended", "title", "assistant"}
      /\ q.at = "title" => q.kind # "send"
      /\ q.reply = req[r].reply \/ q.reply = "error"
  BY <1>2, HandlerType DEF Request, AfterUser
<1>4. q \in Request
  BY <1>1, <1>2, HandlerType, AfterUserType
<1> HIDE DEF q
<1>5. ~(q.kind = "send" /\ q.reply = "ok")
  BY <1>1, <1>3 DEF AnswerInv, Sound, StoredOnceAcked
<1>6. Remains
  BY <1>1, <1>2, AddRemains
<1>7. \E i \in DOMAIN rows'[req[r].chat] : rows'[req[r].chat][i] = row
  BY <1>1, <1>2, AddedIsThere
<1>8. req'[r].chat = req[r].chat
  BY <1>1, <1>2, <1>3 DEF Becomes, TypeOK
<1>9. HasRow(req[r].chat, "user", r)'
  BY <1>7, <1>8 DEF HasRow, IsRow
<1> QED BY <1>1, <1>3, <1>4, <1>5, <1>6, <1>9, Advance DEF Underway, Waiting

\* The answer is stored: a send comes to the title with both rows.
LEMMA AnswersStoreAssistant ==
  ASSUME HandlerInv, TypeOK', AnswerInv, NEW r \in Requests, StoreAssistant(r)
  PROVE  AnswerInv'
<1> DEFINE row == [role |-> "assistant", by |-> r, cut |-> (req[r].outcome = "cancelled")]
           q == AfterAssistant(req[r])
<1>1. /\ Becomes(r, q) /\ AddMessage(req[r].chat, row) /\ UNCHANGED <<chat, thread>>
      /\ req[r].at = "assistant"
  BY DEF StoreAssistant
<1>2. TypeOK /\ req[r].chat \in Chats
  BY <1>1, UnderwayFacts DEF HandlerInv, Underway
<1>3. /\ q.kind = req[r].kind /\ q.chat = req[r].chat /\ q.fresh = req[r].fresh
      /\ q.input = req[r].input /\ q.answered = req[r].answered
      /\ \/ q.at = "title" /\ q.kind \in TurnKinds /\ q.reply = req[r].reply
         \/ q.at = "ended" /\ q.kind = "resume"
  BY <1>1, <1>2, HandlerType, ConstantsAssumption
  DEF Request, AfterAssistant, AtOwnPoint, PointsOf, TurnKinds
<1>4. q \in Request
  BY <1>1, <1>2, HandlerType, AfterAssistantType
<1> HIDE DEF q
<1>5. ~(q.kind = "send" /\ q.reply = "ok")
  BY <1>1, <1>3 DEF AnswerInv, Sound, StoredOnceAcked
<1>6. Remains
  BY <1>1, <1>2, AddRemains
<1>7. \E i \in DOMAIN rows'[req[r].chat] : rows'[req[r].chat][i] = row
  BY <1>1, <1>2, AddedIsThere
<1>8. req'[r].chat = req[r].chat
  BY <1>1, <1>2, <1>3 DEF Becomes, TypeOK
<1>9. HasRow(req[r].chat, "assistant", r)'
  BY <1>7, <1>8 DEF HasRow, IsRow
<1>10. q.at = "title" /\ Kept(req[r].chat)' => HasRow(req[r].chat, "user", r)'
  <2> SUFFICES ASSUME q.at = "title", Kept(req[r].chat)' PROVE HasRow(req[r].chat, "user", r)'
    OBVIOUS
  <2>1. chat[req[r].chat].status # "deleted" /\ req[r].kind \in TurnKinds
    BY <1>1, <1>3, <1>8 DEF Kept, TurnKinds
  <2>2. PICK i \in DOMAIN rows[req[r].chat] : IsRow(req[r].chat, i, "user", r)
    BY <1>1, <2>1 DEF HandlerInv, QuestionFirst, HasRow
  <2>3. i \in DOMAIN rows'[req[r].chat] /\ rows'[req[r].chat][i] = rows[req[r].chat][i]
    BY <1>2, <1>6, <1>8, <2>2 DEF Remains, Kept
  <2> QED BY <1>8, <2>2, <2>3 DEF HasRow, IsRow
<1> QED BY <1>1, <1>3, <1>4, <1>5, <1>6, <1>9, <1>10, Advance DEF Underway, Waiting

\* The handler ends: a turn that opened the chat leaves its title there.
LEMMA AnswersSetTitle ==
  ASSUME HandlerInv, TypeOK', AnswerInv, NEW r \in Requests, SetTitle(r)
  PROVE  AnswerInv'
<1> DEFINE c == req[r].chat
           q == [req[r] EXCEPT !.at = "ended",
                          !.reply = IF req[r].reply = "none" THEN "ok" ELSE req[r].reply]
<1>1. Becomes(r, q) /\ UNCHANGED <<rows, thread>> /\ req[r].at = "title"
  BY DEF SetTitle
<1>2. TypeOK /\ c \in Chats /\ chat[c].status # "unborn"
  BY <1>1, UnderwayFacts DEF HandlerInv, Underway
<1>3. /\ q.kind = req[r].kind /\ q.chat = req[r].chat /\ q.fresh = req[r].fresh
      /\ q.input = req[r].input /\ q.answered = req[r].answered /\ q.at = "ended"
  BY <1>2, HandlerType DEF Request
<1>4. q \in Request
  BY <1>1, <1>2 DEF TypeOK, Becomes
<1> HIDE DEF q
<1>5. StoredBeforeTitle(r) /\ FreshIsFirst(r)
  BY DEF AnswerInv, Sound
<1>6. /\ \A d \in Chats : d # c => chat'[d] = chat[d]
      /\ chat'[c].status = chat[c].status
      /\ chat'[c].title = IF req[r].fresh /\ Live(c) THEN r ELSE chat[c].title
  <2>1. chat' = [chat EXCEPT ![c].title = IF req[r].fresh /\ Live(c) THEN r ELSE @]
    BY DEF SetTitle, Titles
  <2> HIDE DEF c
  <2>2. \A d \in Chats : chat[d] \in Session
    BY <1>2 DEF TypeOK
  <2>3. \A d \in Chats : d # c => chat'[d] = chat[d]
    BY <1>2, <2>1 DEF TypeOK
  <2>4. chat'[c] = [chat[c] EXCEPT !.title = IF req[r].fresh /\ Live(c) THEN r ELSE @]
    BY <1>2, <2>1 DEF TypeOK
  <2> QED BY <1>2, <2>2, <2>3, <2>4 DEF Session
<1>7. req'[r] = q
  BY <1>1, <1>2 DEF Becomes, TypeOK
<1>8. r # None
  BY ConstantsAssumption
<1>9. Remains
  BY <1>1, <1>6, <1>8 DEF Remains, Kept
<1>10. Kept(c)' => Kept(c)
  BY <1>2, <1>3, <1>6, <1>7 DEF Kept
<1>11. Kept(c)' => /\ HasRow(c, "user", r)'
                   /\ q.kind = "send" => HasRow(c, "assistant", r)'
  BY <1>1, <1>2, <1>3, <1>5, <1>7, <1>10 DEF StoredBeforeTitle, HasRow, IsRow
<1>12. Kept(c)' /\ q.fresh => chat'[c].title # None
  <2> SUFFICES ASSUME Kept(c), q.fresh PROVE chat'[c].title # None
    BY <1>10
  <2>1. chat[c].status \in {"unborn", "live", "deleted"}
    BY <1>2 DEF TypeOK, Session
  <2>2. Live(c)
    BY <1>2, <2>1 DEF Kept, Live
  <2> QED BY <1>3, <1>6, <1>8, <2>2
<1>13. \A d \in Chats :
         \/ chat'[d].title = chat[d].title
         \/ chat'[d].title = r /\ q.answered = {} /\ (Kept(d)' => HasRow(d, "user", r)')
  <2> SUFFICES ASSUME req[r].fresh, Live(c)
               PROVE  q.answered = {} /\ (Kept(c)' => HasRow(c, "user", r)')
    BY <1>3, <1>6, <1>7 DEF Kept, HasRow, IsRow
  <2>1. q.answered = {}
    BY <1>2, <1>3, <1>5 DEF FreshIsFirst, Kept, Live
  <2> QED BY <1>11, <2>1
<1> QED BY <1>1, <1>3, <1>4, <1>9, <1>11, <1>12, <1>13, Advance DEF Underway, Waiting

\* A deleted chat promises nothing any more.
LEMMA AnswersDeleteChat ==
  ASSUME HandlerInv, TypeOK', AnswerInv, NEW r \in Requests, DeleteChat(r)
  PROVE  AnswerInv'
<1> DEFINE c == req[r].chat
           q == [req[r] EXCEPT !.at = "ended", !.reply = "ok"]
<1>1. Becomes(r, q) /\ UNCHANGED thread /\ req[r].at = "delete"
  BY DEF DeleteChat
<1>2. TypeOK /\ c \in Chats /\ chat[c].status # "unborn"
  BY <1>1, UnderwayFacts DEF HandlerInv, Underway
<1>3. /\ q.kind = req[r].kind /\ q.chat = req[r].chat /\ q.fresh = req[r].fresh
      /\ q.input = req[r].input /\ q.answered = req[r].answered /\ q.at = "ended"
  BY <1>2, HandlerType DEF Request
<1>4. q \in Request
  BY <1>1, <1>2 DEF TypeOK, Becomes
<1> HIDE DEF q
<1>5. q.kind # "send"
  BY <1>1, <1>2, <1>3, HandlerType, ConstantsAssumption DEF AtOwnPoint, PointsOf, Request
<1>6. /\ \A d \in Chats : d # c => chat'[d] = chat[d] /\ rows'[d] = rows[d]
      /\ chat'[c].status = "deleted" /\ chat'[c].title = chat[c].title
  <2>1. chat' = [chat EXCEPT ![c].status = "deleted"] /\ rows' = [rows EXCEPT ![c] = <<>>]
    BY DEF DeleteChat
  <2> HIDE DEF c
  <2>2. \A d \in Chats : d # c => chat'[d] = chat[d] /\ rows'[d] = rows[d]
    BY <1>2, <2>1 DEF TypeOK
  <2>3. chat'[c] = [chat[c] EXCEPT !.status = "deleted"] /\ chat[c] \in Session
    BY <1>2, <2>1 DEF TypeOK
  <2> QED BY <2>2, <2>3 DEF Session
<1>7. Remains
  BY <1>1, <1>2, <1>6 DEF Remains, Kept
<1>8. \A d \in Chats : chat'[d].title = chat[d].title
  BY <1>6
<1> QED BY <1>1, <1>3, <1>4, <1>5, <1>7, <1>8, Advance DEF Underway, Waiting

\* Every step keeps the invariant: one case for each await of the handlers.
LEMMA AnswersStep == HandlerInv /\ AnswerInv /\ [Next]_vars => AnswerInv'
<1> SUFFICES ASSUME HandlerInv, AnswerInv, [Next]_vars PROVE AnswerInv'
  OBVIOUS
<1>0. TypeOK /\ TypeOK'
  BY TypeStep DEF HandlerInv
<1>1. ASSUME NEW r \in Requests, GraphFinishes(r) PROVE AnswerInv'
  <2> DEFINE q == [req[r] EXCEPT !.at = AfterResult(req[r].kind), !.outcome = "final"]
  <2>1. Becomes(r, q) /\ UNCHANGED <<chat, rows, thread>> /\ req[r].at = "graph"
    BY <1>1 DEF GraphFinishes
  <2>2. q \in Request /\ q.at \in {"ack", "user", "assistant"}
    BY <1>0, <2>1, HandlerType, FinishedType, AfterGraph DEF Request
  <2>3. /\ q.kind = req[r].kind /\ q.chat = req[r].chat /\ q.fresh = req[r].fresh
        /\ q.input = req[r].input /\ q.answered = req[r].answered /\ q.reply = req[r].reply
    BY <1>0, HandlerType DEF Request
  <2> HIDE DEF q
  <2>4. ~(q.kind = "send" /\ q.reply = "ok")
    BY <2>1, <2>3 DEF AnswerInv, Sound, StoredOnceAcked
  <2> QED BY <1>0, <2>1, <2>2, <2>3, <2>4, QuietAdvance DEF Underway
<1>2. ASSUME NEW r \in Requests, GraphInterrupts(r) PROVE AnswerInv'
  <2> DEFINE q == Interrupted(req[r])
  <2>1. Becomes(r, q) /\ UNCHANGED <<chat, rows, thread>> /\ req[r].at = "graph"
    BY <1>2 DEF GraphInterrupts
  <2>2. q \in Request
    BY <1>0, <2>1, HandlerType, InterruptedType
  <2>3. /\ q.kind = req[r].kind /\ q.chat = req[r].chat /\ q.fresh = req[r].fresh
        /\ q.input = req[r].input /\ q.answered = req[r].answered
        /\ q.at \in {"ack", "ended"} /\ q.reply \in {req[r].reply, "interrupt"}
    BY <1>0, HandlerType DEF Request, Interrupted
  <2> HIDE DEF q
  <2>4. ~(q.kind = "send" /\ q.reply = "ok")
    BY <2>1, <2>3 DEF AnswerInv, Sound, StoredOnceAcked
  <2> QED BY <1>0, <2>1, <2>2, <2>3, <2>4, QuietAdvance DEF Underway
<1>3. ASSUME NEW r \in Requests, GraphFails(r) PROVE AnswerInv'
  <2> DEFINE q == Failed(req[r])
  <2>1. Becomes(r, q) /\ UNCHANGED <<chat, rows, thread>> /\ req[r].at = "graph"
    BY <1>3 DEF GraphFails
  <2>2. q \in Request /\ q.at \in {"ack", "user", "ended"}
        /\ q.reply \in {req[r].reply, "failed"}
    BY <1>0, <2>1, HandlerType, FailedType, AfterGraph
  <2>3. /\ q.kind = req[r].kind /\ q.chat = req[r].chat /\ q.fresh = req[r].fresh
        /\ q.input = req[r].input /\ q.answered = req[r].answered
    BY <1>0, HandlerType DEF Request, Failed
  <2> HIDE DEF q
  <2>4. ~(q.kind = "send" /\ q.reply = "ok")
    BY <2>1, <2>2, <2>3 DEF AnswerInv, Sound, StoredOnceAcked
  <2> QED BY <1>0, <2>1, <2>2, <2>3, <2>4, QuietAdvance DEF Underway
<1>4. ASSUME NEW r \in Requests, CancelSend(r) PROVE AnswerInv'
  <2> DEFINE q == [req[r] EXCEPT !.at = "user", !.outcome = "cancelled"]
  <2>1. /\ Becomes(r, q) /\ UNCHANGED <<chat, rows, thread>>
        /\ req[r].at = "graph" /\ req[r].kind = "send"
    BY <1>4 DEF CancelSend
  <2>2. q \in Request /\ q.at = "user"
    BY <1>0, <2>1, HandlerType, CancelledType DEF Request
  <2>3. /\ q.kind = req[r].kind /\ q.chat = req[r].chat /\ q.fresh = req[r].fresh
        /\ q.input = req[r].input /\ q.answered = req[r].answered /\ q.reply = req[r].reply
    BY <1>0, HandlerType DEF Request
  <2> HIDE DEF q
  <2>4. ~(q.kind = "send" /\ q.reply = "ok")
    BY <2>1, <2>3 DEF AnswerInv, Sound, StoredOnceAcked
  <2> QED BY <1>0, <2>1, <2>2, <2>3, <2>4, QuietAdvance DEF Underway
<1>5. ASSUME NEW r \in Requests, StreamTimesOut(r) PROVE AnswerInv'
  <2> DEFINE q == [req[r] EXCEPT !.at = "ack", !.outcome = "timeout"]
  <2>1. /\ Becomes(r, q) /\ UNCHANGED <<chat, rows, thread>>
        /\ req[r].at = "graph" /\ req[r].kind = "stream"
    BY <1>5 DEF StreamTimesOut
  <2>2. q \in Request /\ q.at = "ack"
    <3>1. req[r] \in Request /\ AtOwnPoint(req[r])
      BY <1>0, HandlerType
    <3>2. q \in Request
      BY <2>1, <3>1, TimedOutType
    <3>3. q.at = "ack"
      BY <3>1 DEF Request
    <3> QED BY <3>2, <3>3
  <2>3. /\ q.kind = req[r].kind /\ q.chat = req[r].chat /\ q.fresh = req[r].fresh
        /\ q.input = req[r].input /\ q.answered = req[r].answered
    BY <1>0, HandlerType DEF Request
  <2> HIDE DEF q
  <2> QED BY <1>0, <2>1, <2>2, <2>3, QuietAdvance DEF Underway
<1>6. ASSUME NEW r \in Requests, Acknowledge(r) PROVE AnswerInv'
  <2> DEFINE q == [req[r] EXCEPT !.at = "user",
                          !.reply = IF req[r].outcome = "error" THEN "error" ELSE "ok"]
  <2>1. Becomes(r, q) /\ UNCHANGED <<chat, rows, thread>> /\ req[r].at = "ack"
    BY <1>6 DEF Acknowledge
  <2>2. q \in Request /\ q.at = "user"
    <3>1. req[r] \in Request /\ AtOwnPoint(req[r])
      BY <1>0, HandlerType
    <3>2. q \in Request
      BY <2>1, <3>1, AcknowledgedType
    <3>3. q.at = "user"
      BY <3>1 DEF Request
    <3> QED BY <3>2, <3>3
  <2>3. /\ q.kind = req[r].kind /\ q.chat = req[r].chat /\ q.fresh = req[r].fresh
        /\ q.input = req[r].input /\ q.answered = req[r].answered
    BY <1>0, HandlerType DEF Request
  <2>4. req[r].kind # "send"
    BY <1>0, <2>1, HandlerType DEF AtOwnPoint, PointsOf
  <2> HIDE DEF q
  <2> QED BY <1>0, <2>1, <2>2, <2>3, <2>4, QuietAdvance DEF Underway
<1>7. ASSUME NEW r \in Requests, StorageRaises(r) PROVE AnswerInv'
  <2> DEFINE q == [req[r] EXCEPT !.at = "ended", !.reply = ReplyAfterRaise(req[r])]
  <2>1. Becomes(r, q) /\ UNCHANGED <<chat, rows, thread>> /\ Underway(req[r])
    BY <1>7 DEF StorageRaises, Underway
  <2>2. q \in Request
    BY <1>0, <2>1 DEF TypeOK, Becomes
  <2>3. /\ q.kind = req[r].kind /\ q.chat = req[r].chat /\ q.fresh = req[r].fresh
        /\ q.input = req[r].input /\ q.answered = req[r].answered /\ q.at = "ended"
        /\ q.reply \in {req[r].reply, "error", "failed"}
    BY <1>0, HandlerType DEF Request, ReplyAfterRaise
  <2> HIDE DEF q
  <2>4. ~(q.kind = "send" /\ q.reply = "ok")
    BY <2>1, <2>3 DEF AnswerInv, Sound, StoredOnceAcked, Underway
  <2> QED BY <1>0, <2>1, <2>2, <2>3, <2>4, QuietAdvance
<1>8. ASSUME NEW r \in Requests, Abandon(r) PROVE AnswerInv'
  <2> DEFINE q == [req[r] EXCEPT !.at = "ended",
                          !.reply = IF req[r].reply = "none" THEN "failed" ELSE req[r].reply]
  <2>1. Becomes(r, q) /\ UNCHANGED <<chat, rows, thread>> /\ Underway(req[r])
    BY <1>8 DEF Abandon, Underway
  <2>2. q \in Request
    BY <1>0, <2>1 DEF TypeOK, Becomes
  <2>3. /\ q.kind = req[r].kind /\ q.chat = req[r].chat /\ q.fresh = req[r].fresh
        /\ q.input = req[r].input /\ q.answered = req[r].answered /\ q.at = "ended"
        /\ q.reply \in {req[r].reply, "failed"}
    BY <1>0, HandlerType DEF Request
  <2> HIDE DEF q
  <2>4. ~(q.kind = "send" /\ q.reply = "ok")
    BY <2>1, <2>3 DEF AnswerInv, Sound, StoredOnceAcked, Underway
  <2> QED BY <1>0, <2>1, <2>2, <2>3, <2>4, QuietAdvance
<1>9. ASSUME UNCHANGED vars PROVE AnswerInv'
  <2>1. Remains
    BY <1>9, QuietRemains DEF vars
  <2>2. \A r \in Requests : Sound(r)'
    BY <1>9, <2>1, SoundRemains DEF vars, AnswerInv
  <2> QED BY <1>9, <2>2
          DEF vars, AnswerInv, AnsweredStay, TitlesOpen, ThreadIsStarted, Waiting, Kept,
              HasRow, IsRow
<1> QED
  BY <1>0, <1>1, <1>2, <1>3, <1>4, <1>5, <1>6, <1>7, <1>8, <1>9, AnswersCreateChat,
     AnswersArrive, AnswersLoadHistory, AnswersStartGraph, AnswersStoreUser,
     AnswersStoreAssistant, AnswersSetTitle, AnswersDeleteChat
  DEF Next, Proceed, GraphReturns, AllServed

\* Every reachable state: what an answered request has stored stays stored, and
\* what the handlers know of the answered turns stays true.
THEOREM AnswersSafe == Spec => []AnswerInv
<1>1. HandlerInv /\ AnswerInv /\ [Next]_vars => (HandlerInv /\ AnswerInv)'
  BY InvStep, AnswersStep
<1>2. Init => HandlerInv /\ AnswerInv
  BY InvInit, AnswersInit
<1> QED BY <1>1, <1>2, PTL DEF Spec

\* Handlers say "error" for failed runs only: each step keeps that.
LEMMA ErrorsStep ==
  ASSUME TypeOK, ErrorsAreTheRuns, [Next]_vars
  PROVE  ErrorsAreTheRuns'
<1> DEFINE Honest(q) == q.kind = "send" /\ q.reply = "error"
                          => q.at = "ended" /\ q.outcome = "error"
<1>1. \A r \in Requests : req[r] \in Request /\ AtOwnPoint(req[r]) /\ Honest(req[r])
  BY HandlerType DEF ErrorsAreTheRuns
<1>2. ASSUME NEW r \in Requests, NEW q, Becomes(r, q), Honest(q)
      PROVE  ErrorsAreTheRuns'
  <2>1. \A x \in Requests : req'[x] = IF x = r THEN q ELSE req[x]
    BY <1>2 DEF Becomes, TypeOK
  <2> QED BY <1>1, <1>2, <2>1 DEF ErrorsAreTheRuns
<1>3. ASSUME NEW r \in Requests, NEW k \in Kinds, NEW p \in Principals, NEW c \in Chats,
             Arrive(r, k, p, c)
      PROVE  ErrorsAreTheRuns'
  <2> DEFINE arrived == [IdleRequest EXCEPT
               !.kind = k, !.who = p, !.chat = c,
               !.turn = IF k \in TurnKinds THEN r ELSE None,
               !.answered = {x \in Requests : /\ req[x].chat = c
                                              /\ req[x].kind = "send"
                                              /\ req[x].reply = "ok"}]
             q == IF ~Owns(p, c)
                  THEN [arrived EXCEPT !.at = "ended", !.reply = "notfound"]
                  ELSE IF Refused(k)
                  THEN [arrived EXCEPT !.at = "ended", !.reply = "badrequest"]
                  ELSE [arrived EXCEPT !.at = AfterVerify(k)]
  <2>1. Becomes(r, q)
    BY <1>3 DEF Arrive
  <2>2. q.reply \in {"none", "notfound", "badrequest"}
    BY DEF IdleRequest
  <2> HIDE DEF q
  <2> QED BY <1>2, <2>1, <2>2
<1>4. ASSUME NEW r \in Requests, LoadHistory(r) \/ StartGraph(r) PROVE ErrorsAreTheRuns'
  <2>1. \E q : Becomes(r, q) /\ q.kind = req[r].kind /\ q.reply = req[r].reply
               /\ req[r].at # "ended"
    BY <1>1, <1>4 DEF LoadHistory, StartGraph, Request
  <2> QED BY <1>1, <1>2, <2>1
<1>5. ASSUME NEW r \in Requests, StreamTimesOut(r) PROVE ErrorsAreTheRuns'
  <2> DEFINE q == [req[r] EXCEPT !.at = "ack", !.outcome = "timeout"]
  <2>1. Becomes(r, q) /\ req[r].at # "ended"
    BY <1>5 DEF StreamTimesOut
  <2>2. Honest(q)
    BY <1>1, <1>5, <2>1 DEF StreamTimesOut, Request
  <2> HIDE DEF q
  <2> QED BY <1>2, <2>1, <2>2
<1>6. ASSUME NEW r \in Requests, CancelSend(r) PROVE ErrorsAreTheRuns'
  <2> DEFINE q == [req[r] EXCEPT !.at = "user", !.outcome = "cancelled"]
  <2>1. Becomes(r, q) /\ req[r].at # "ended"
    BY <1>6 DEF CancelSend
  <2>2. Honest(q)
    BY <1>1, <1>6, <2>1 DEF CancelSend, Request
  <2> HIDE DEF q
  <2> QED BY <1>2, <2>1, <2>2
<1>7. ASSUME NEW r \in Requests, GraphFinishes(r) PROVE ErrorsAreTheRuns'
  <2> DEFINE q == [req[r] EXCEPT !.at = AfterResult(req[r].kind), !.outcome = "final"]
  <2>1. Becomes(r, q) /\ req[r].at # "ended"
    BY <1>7 DEF GraphFinishes
  <2>2. Honest(q)
    BY <1>1, <1>7, <2>1 DEF GraphFinishes, Request
  <2> HIDE DEF q
  <2> QED BY <1>2, <2>1, <2>2
<1>8. ASSUME NEW r \in Requests, GraphInterrupts(r) PROVE ErrorsAreTheRuns'
  <2> DEFINE q == Interrupted(req[r])
  <2>1. Becomes(r, q) /\ req[r].at # "ended"
    BY <1>8 DEF GraphInterrupts
  <2>2. Honest(q)
    BY <1>1, <1>8, <2>1 DEF GraphInterrupts, Request, Interrupted
  <2> HIDE DEF q
  <2> QED BY <1>2, <2>1, <2>2
<1>9. ASSUME NEW r \in Requests, GraphFails(r) PROVE ErrorsAreTheRuns'
  <2> DEFINE q == Failed(req[r])
  <2>1. Becomes(r, q) /\ req[r].at # "ended"
    BY <1>9 DEF GraphFails
  <2>2. Honest(q)
    BY <1>1, <1>9, <2>1 DEF GraphFails, Request, Failed
  <2> HIDE DEF q
  <2> QED BY <1>2, <2>1, <2>2
<1>10. ASSUME NEW r \in Requests, Acknowledge(r) PROVE ErrorsAreTheRuns'
  <2> DEFINE q == [req[r] EXCEPT !.at = "user",
                          !.reply = IF req[r].outcome = "error" THEN "error" ELSE "ok"]
  <2>1. Becomes(r, q) /\ req[r].at # "ended"
    BY <1>10 DEF Acknowledge
  <2>2. Honest(q)
    BY <1>1, <1>10, <2>1 DEF Acknowledge, Request, AtOwnPoint, PointsOf
  <2> HIDE DEF q
  <2> QED BY <1>2, <2>1, <2>2
<1>11. ASSUME NEW r \in Requests, StoreUser(r) PROVE ErrorsAreTheRuns'
  <2> DEFINE q == AfterUser(req[r])
  <2>1. Becomes(r, q) /\ req[r].at # "ended"
    BY <1>11 DEF StoreUser
  <2>2. Honest(q)
    BY <1>1, <1>11, <2>1 DEF StoreUser, Request, AfterUser
  <2> HIDE DEF q
  <2> QED BY <1>2, <2>1, <2>2
<1>12. ASSUME NEW r \in Requests, StoreAssistant(r) PROVE ErrorsAreTheRuns'
  <2> DEFINE q == AfterAssistant(req[r])
  <2>1. Becomes(r, q) /\ req[r].at # "ended"
    BY <1>12 DEF StoreAssistant
  <2>2. Honest(q)
    BY <1>1, <1>12, <2>1 DEF StoreAssistant, Request, AfterAssistant
  <2> HIDE DEF q
  <2> QED BY <1>2, <2>1, <2>2
<1>13. ASSUME NEW r \in Requests, SetTitle(r) PROVE ErrorsAreTheRuns'
  <2> DEFINE q == [req[r] EXCEPT !.at = "ended",
                          !.reply = IF req[r].reply = "none" THEN "ok" ELSE req[r].reply]
  <2>1. Becomes(r, q) /\ req[r].at # "ended"
    BY <1>13 DEF SetTitle
  <2>2. Honest(q)
    BY <1>1, <1>13, <2>1 DEF SetTitle, Request
  <2> HIDE DEF q
  <2> QED BY <1>2, <2>1, <2>2
<1>14. ASSUME NEW r \in Requests, Abandon(r) PROVE ErrorsAreTheRuns'
  <2> DEFINE q == [req[r] EXCEPT !.at = "ended",
                          !.reply = IF req[r].reply = "none" THEN "failed" ELSE req[r].reply]
  <2>1. Becomes(r, q) /\ req[r].at # "ended"
    BY <1>14 DEF Abandon
  <2>2. Honest(q)
    BY <1>1, <1>14, <2>1 DEF Abandon, Request
  <2> HIDE DEF q
  <2> QED BY <1>2, <2>1, <2>2
<1>15. ASSUME NEW r \in Requests, DeleteChat(r) PROVE ErrorsAreTheRuns'
  <2> DEFINE q == [req[r] EXCEPT !.at = "ended", !.reply = "ok"]
  <2>1. Becomes(r, q) /\ req[r].at # "ended"
    BY <1>15 DEF DeleteChat
  <2>2. Honest(q)
    BY <1>1, <1>15, <2>1 DEF DeleteChat, Request
  <2> HIDE DEF q
  <2> QED BY <1>2, <2>1, <2>2
<1>16. ASSUME NEW r \in Requests, StorageRaises(r) PROVE ErrorsAreTheRuns'
  <2> DEFINE q == [req[r] EXCEPT !.at = "ended", !.reply = ReplyAfterRaise(req[r])]
  <2>1. Becomes(r, q) /\ req[r].at # "ended"
    BY <1>16 DEF StorageRaises
  <2>2. Honest(q)
    BY <1>1, <1>16, <2>1 DEF StorageRaises, Request, ReplyAfterRaise
  <2> HIDE DEF q
  <2> QED BY <1>2, <2>1, <2>2
<1>17. ASSUME req' = req PROVE ErrorsAreTheRuns'
  BY <1>17 DEF ErrorsAreTheRuns
<1>18. ASSUME NEW p \in Principals, NEW c \in Chats, CreateChat(p, c) PROVE req' = req
  BY <1>18 DEF CreateChat
<1> QED
  BY <1>3, <1>4, <1>5, <1>6, <1>7, <1>8, <1>9, <1>10, <1>11, <1>12, <1>13, <1>14, <1>15,
     <1>16, <1>17, <1>18
  DEF Next, Proceed, GraphReturns, AllServed, vars

\* The 200 of a send means a stored turn exactly when its run did not fail, for
\* every overlap with other handlers: question, answer and, for the first turn, a
\* title; after a failed run it comes with no stored answer.
THEOREM AckedSendsAreStored == Spec => []AckedSendIsStored
<1>1. Init => ErrorsAreTheRuns
  BY DEF Init, IdleRequest, ErrorsAreTheRuns
<1>2. TypeOK /\ ErrorsAreTheRuns /\ [Next]_vars => ErrorsAreTheRuns'
  BY ErrorsStep
<1>3. HandlerInv /\ AnswerInv /\ ErrorsAreTheRuns => AckedSendIsStored
  <2> SUFFICES ASSUME HandlerInv, AnswerInv, ErrorsAreTheRuns, NEW r \in Requests,
                      AnsweredWithChat(req[r]), Live(req[r].chat)
               PROVE  /\ HasRow(req[r].chat, "assistant", r) => req[r].outcome # "error"
                      /\ req[r].outcome # "error" =>
                           /\ HasRow(req[r].chat, "user", r)
                           /\ HasRow(req[r].chat, "assistant", r)
                           /\ req[r].fresh => chat[req[r].chat].title # None
    BY DEF AckedSendIsStored, HasRow
  <2>1. req[r].chat \in Chats
    BY HandlerType DEF HandlerInv, AtOwnPoint, AnsweredWithChat
  <2>2. HasRow(req[r].chat, "assistant", r) => req[r].outcome # "error"
    BY <2>1 DEF HandlerInv, AnswersAreHonest, HasRow, IsRow
  <2>3. req[r].outcome # "error" => req[r].reply = "ok"
    BY DEF ErrorsAreTheRuns, AnsweredWithChat
  <2>4. ASSUME req[r].outcome # "error"
        PROVE  /\ HasRow(req[r].chat, "user", r)
               /\ HasRow(req[r].chat, "assistant", r)
               /\ req[r].fresh => chat[req[r].chat].title # None
    BY <2>3, <2>4
    DEF AnswerInv, Sound, StoredOnceAcked, AnsweredWithChat, Kept, Live
  <2> QED BY <2>2, <2>4
<1>4. Spec => []ErrorsAreTheRuns
  BY <1>1, <1>2, TypeCorrect, PTL DEF Spec
<1> QED BY <1>3, <1>4, HandlersSafe, AnswersSafe, PTL

\* A title comes from a stored question that no answered send precedes.
THEOREM TitlesAreFromOpeningTurns == Spec => []TitleIsFromAnOpeningTurn
<1>1. AnswerInv => TitleIsFromAnOpeningTurn
  BY DEF AnswerInv, TitlesOpen, TitleIsFromAnOpeningTurn, Kept, Live
<1> QED BY <1>1, AnswersSafe, PTL

\* With a checkpointer, no run is given a message that the checkpointer holds.
THEOREM TurnsAreSentOnce == Spec => []NoTurnSentTwice
<1>1. HandlerInv /\ AnswerInv => NoTurnSentTwice
  <2> SUFFICES ASSUME HandlerInv, AnswerInv, NEW r \in Requests, req[r].at = "loaded",
                      Checkpointing
               PROVE  req[r].input \cap thread[req[r].chat] = {}
    BY DEF NoTurnSentTwice
  <2>1. req[r].chat \in Chats
    BY UnderwayFacts DEF Underway
  <2>2. r \notin thread[req[r].chat]
    BY <2>1 DEF AnswerInv, ThreadIsStarted, Waiting
  <2>3. req[r].input \subseteq {r}
    BY DEF AnswerInv, Sound, InputIsOwn
  <2> QED BY <2>2, <2>3
<1> QED BY <1>1, HandlersSafe, AnswersSafe, PTL

\* With or without a checkpointer, the run of a turn knows every send whose own run
\* had answered before the turn arrived.
THEOREM ContextIsComplete == Spec => []ContextKeepsAnsweredTurns
<1>1. HandlerInv /\ AnswerInv => ContextKeepsAnsweredTurns
  <2> SUFFICES ASSUME HandlerInv, AnswerInv, NEW r \in Requests, req[r].at = "graph",
                      req[r].kind \in TurnKinds, Live(req[r].chat),
                      Checkpointing \/ OnOnePage(req[r].chat), NEW x \in req[r].answered
               PROVE  x \in thread[req[r].chat] \cup req[r].input
    BY DEF ContextKeepsAnsweredTurns
  <2>1. req[r].chat \in Chats /\ Kept(req[r].chat)
    BY UnderwayFacts DEF Underway, Kept, Live
  <2>2. x \in Requests
    BY HandlerType DEF HandlerInv, Request
  <2>3. CASE Checkpointing
    <3>1. req[x].kind = "send" /\ req[x].reply = "ok" /\ req[x].chat = req[r].chat
      BY DEF AnswerInv, AnsweredStay
    <3> QED BY <2>2, <2>3, <3>1 DEF AnswerInv, Sound, ThreadHasRun
  <2>4. CASE ~Checkpointing
    BY <2>1, <2>4 DEF AnswerInv, Sound, HistoryIsGiven
  <2> QED BY <2>3, <2>4
<1> QED BY <1>1, HandlersSafe, AnswersSafe, PTL

-----------------------------------------------------------------------------
(***************************************************************************)
(* ChatTurns implements Conversation for every set of requests, chats and  *)
(* principals: each step of a handler is a step of the promise, or changes *)
(* nothing the promise speaks of. Only type correctness is needed of the   *)
(* state in which the step is taken.                                       *)
(***************************************************************************)


\* The mapped state after handler r has gone on as q.
LEMMA MappedStep ==
  ASSUME TypeOK, NEW r \in Requests, NEW q, Becomes(r, q)
  PROVE  /\ [x \in Requests |-> PhaseOf(req[x])]'
              = [[x \in Requests |-> PhaseOf(req[x])] EXCEPT ![r] = PhaseOf(q)]
         /\ [x \in Requests |-> req[x].chat]'
              = [[x \in Requests |-> req[x].chat] EXCEPT ![r] = q.chat]
<1>1. req \in [Requests -> Request] /\ req' = [req EXCEPT ![r] = q]
  BY DEF TypeOK, Becomes
<1>2. req'[r] = q /\ \A x \in Requests : x # r => req'[x] = req[x]
  BY <1>1
<1>3. \A x \in Requests : PhaseOf(req'[x]) = IF x = r THEN PhaseOf(q) ELSE PhaseOf(req[x])
  BY <1>2
<1>4. \A x \in Requests : req'[x].chat = IF x = r THEN q.chat ELSE req[x].chat
  BY <1>2
<1> QED BY <1>3, <1>4

\* A handler that keeps its chat, and its phase unless it closes, stores nothing:
\* the promise sees a closing request or nothing at all.
LEMMA QuietImplements ==
  ASSUME TypeOK, NEW r \in Requests, NEW q, Becomes(r, q), rows' = rows,
         q.chat = req[r].chat,
         \/ PhaseOf(q) = PhaseOf(req[r])
         \/ PhaseOf(q) = "closed" /\ PhaseOf(req[r]) \in Promise!Open
  PROVE  [Promise!Next]_(Promise!vars)
<1>1. [x \in Requests |-> req[x].chat]' = [x \in Requests |-> req[x].chat]
  BY MappedStep
<1>2. CASE PhaseOf(q) = PhaseOf(req[r])
  <2> DEFINE phases == [x \in Requests |-> PhaseOf(req[x])]
  <2>1. phases' = phases
    <3>1. phases' = [phases EXCEPT ![r] = PhaseOf(q)]
      BY MappedStep
    <3>2. phases = [phases EXCEPT ![r] = PhaseOf(req[r])]
      OBVIOUS
    <3> QED BY <1>2, <3>1, <3>2
  <2> QED BY <1>1, <2>1 DEF Promise!vars
<1>3. CASE PhaseOf(q) = "closed" /\ PhaseOf(req[r]) \in Promise!Open
  <2>1. Promise!Moves(r, PhaseOf(q))
    BY MappedStep DEF Promise!Moves
  <2>2. [x \in Requests |-> PhaseOf(req[x])][r] \in Promise!Open
    BY <1>3
  <2>3. Promise!Close(r)
    BY <1>1, <1>3, <2>1, <2>2 DEF Promise!Close
  <2> QED BY <2>3 DEF Promise!Next
<1> QED BY <1>2, <1>3

\* The phase a handler is in, from what it is doing.
LEMMA PhaseFacts ==
  ASSUME NEW q \in Request, AtOwnPoint(q)
  PROVE  /\ q.at = "idle" => PhaseOf(q) = "new"
         /\ q.at = "delete" => PhaseOf(q) = "clear"
         /\ q.at \in {"title", "ended"} => PhaseOf(q) = "closed"
         /\ q.at \in {"verified", "ack", "user"} => PhaseOf(q) = "turn"
         /\ q.at \in {"loaded", "graph"} /\ q.kind # "resume" => PhaseOf(q) = "turn"
         /\ q.at = "assistant" /\ q.kind # "resume" => PhaseOf(q) = "asked"
         /\ q.at \in {"loaded", "graph", "assistant"} /\ q.kind = "resume"
              => PhaseOf(q) = "reply"
BY ConstantsAssumption DEF PhaseOf, PointsOf, AtOwnPoint, Request

\* Storing the question is an Ask, storing the answer a Reply, clearing the chat
\* a Clear: each for the chat the handler arrived at.
LEMMA StoringImplements ==
  ASSUME TypeOK, NEW r \in Requests, NEW q, Becomes(r, q), q.chat = req[r].chat
  PROVE  /\ (/\ PhaseOf(req[r]) = "turn" /\ PhaseOf(q) \in {"asked", "closed"}
             /\ AddMessage(req[r].chat, [role |-> "user", by |-> r, cut |-> FALSE]))
           => Promise!Next
         /\ (/\ PhaseOf(req[r]) \in {"asked", "reply"} /\ PhaseOf(q) = "closed"
             /\ \E cut \in BOOLEAN :
                  AddMessage(req[r].chat, [role |-> "assistant", by |-> r, cut |-> cut]))
           => Promise!Next
         /\ (/\ PhaseOf(req[r]) = "clear" /\ PhaseOf(q) = "closed"
             /\ rows' = [rows EXCEPT ![req[r].chat] = <<>>])
           => Promise!Next
<1> DEFINE phases == [x \in Requests |-> PhaseOf(req[x])]
           homes == [x \in Requests |-> req[x].chat]
<1>1. homes' = homes /\ homes[r] = req[r].chat /\ phases[r] = PhaseOf(req[r])
  BY MappedStep
<1>2. Promise!Moves(r, PhaseOf(q))
  BY MappedStep DEF Promise!Moves
<1>3. ASSUME PhaseOf(req[r]) = "turn", PhaseOf(q) \in {"asked", "closed"},
             AddMessage(req[r].chat, [role |-> "user", by |-> r, cut |-> FALSE])
      PROVE  Promise!Next
  <2>1. [role |-> "user", by |-> r, cut |-> FALSE] \in Promise!Question(r)
    BY DEF Promise!Question
  <2>2. \E message \in Promise!Question(r) : Promise!Add(homes[r], message)
    BY <1>1, <1>3, <2>1 DEF Promise!Add, AddMessage
  <2>3. Promise!Ask(r)
    BY <1>1, <1>2, <1>3, <2>2 DEF Promise!Ask
  <2> QED BY <2>3 DEF Promise!Next
<1>4. ASSUME PhaseOf(req[r]) \in {"asked", "reply"}, PhaseOf(q) = "closed",
             NEW cut \in BOOLEAN,
             AddMessage(req[r].chat, [role |-> "assistant", by |-> r, cut |-> cut])
      PROVE  Promise!Next
  <2>1. [role |-> "assistant", by |-> r, cut |-> cut] \in Promise!Answer(r)
    BY DEF Promise!Answer
  <2>2. \E message \in Promise!Answer(r) : Promise!Add(homes[r], message)
    BY <1>1, <1>4, <2>1 DEF Promise!Add, AddMessage
  <2>3. Promise!Reply(r)
    BY <1>1, <1>2, <1>4, <2>2 DEF Promise!Reply
  <2> QED BY <2>3 DEF Promise!Next
<1>5. ASSUME PhaseOf(req[r]) = "clear", PhaseOf(q) = "closed",
             rows' = [rows EXCEPT ![req[r].chat] = <<>>]
      PROVE  Promise!Next
  <2>1. Promise!Clear(r)
    BY <1>1, <1>2, <1>5 DEF Promise!Clear
  <2> QED BY <2>1 DEF Promise!Next
<1> QED BY <1>3, <1>4, <1>5

\* Arriving is the beginning of a request.
LEMMA ArriveImplements ==
  ASSUME TypeOK, NEW r \in Requests, NEW k \in Kinds, NEW p \in Principals, NEW c \in Chats,
         Arrive(r, k, p, c)
  PROVE  Promise!Next
<1> DEFINE answered == {x \in Requests : /\ req[x].chat = c
                                         /\ req[x].kind = "send"
                                         /\ req[x].reply = "ok"}
           turn == IF k \in TurnKinds THEN r ELSE None
           arrived == [IdleRequest EXCEPT !.kind = k, !.who = p, !.chat = c,
                                          !.turn = turn, !.answered = answered]
           q == IF ~Owns(p, c)
                THEN [arrived EXCEPT !.at = "ended", !.reply = "notfound"]
                ELSE IF Refused(k)
                THEN [arrived EXCEPT !.at = "ended", !.reply = "badrequest"]
                ELSE [arrived EXCEPT !.at = AfterVerify(k)]
<1>1. Becomes(r, q) /\ rows' = rows /\ req[r].at = "idle"
  BY DEF Arrive
<1>2. answered \in SUBSET Requests /\ turn \in Requests \cup {None}
  OBVIOUS
<1> HIDE DEF answered, turn
<1>3. q \in Request /\ AtOwnPoint(q)
  BY <1>2, ArrivedType
<1>4. /\ q.chat = c
      /\ q.at \in {"ended", "delete", "verified"} \/ (q.at = "loaded" /\ q.kind = "resume")
  BY ConstantsAssumption DEF IdleRequest, AfterVerify, TurnKinds
<1> HIDE DEF q
<1>5. PhaseOf(q) \in {"turn", "reply", "clear", "closed"}
  BY <1>3, <1>4, PhaseFacts
<1>6. [x \in Requests |-> PhaseOf(req[x])][r] = "new"
  BY <1>1, HandlerType, PhaseFacts
<1>7. Promise!Moves(r, PhaseOf(q))
  BY <1>1, MappedStep DEF Promise!Moves
<1>8. [x \in Requests |-> req[x].chat]' = [[x \in Requests |-> req[x].chat] EXCEPT ![r] = c]
  BY <1>1, <1>4, MappedStep
<1>9. Promise!Begin(r, c)
  BY <1>1, <1>5, <1>6, <1>7, <1>8 DEF Promise!Begin
<1> QED BY <1>9 DEF Promise!Next

\* Before any request arrives the conversations are empty and nothing is promised.
LEMMA InitImplements == Init => Promise!Init
BY DEF Init, Promise!Init, IdleRequest, PhaseOf

\* Every step of ChatTurns, by the handler step it is.
LEMMA StepImplements == TypeOK /\ [Next]_vars => [Promise!Next]_(Promise!vars)
<1> SUFFICES ASSUME TypeOK, [Next]_vars PROVE [Promise!Next]_(Promise!vars)
  OBVIOUS
<1> USE DEF Promise!Open
<1>1. ASSUME NEW p \in Principals, NEW c \in Chats, CreateChat(p, c)
      PROVE  [Promise!Next]_(Promise!vars)
  BY <1>1 DEF CreateChat, Promise!vars
<1>2. ASSUME NEW r \in Requests, NEW k \in Kinds, NEW p \in Principals, NEW c \in Chats,
             Arrive(r, k, p, c)
      PROVE  [Promise!Next]_(Promise!vars)
  BY <1>2, ArriveImplements
<1>3. ASSUME NEW r \in Requests, LoadHistory(r) PROVE [Promise!Next]_(Promise!vars)
  <2>0. PICK page \in Pages(req[r].chat) :
          Becomes(r, [req[r] EXCEPT !.at = "loaded", !.fresh = (page = {}),
                                    !.input = GraphInput(r, AskedIn(req[r].chat, page))])
    BY <1>3 DEF LoadHistory
  <2> DEFINE q == [req[r] EXCEPT !.at = "loaded", !.fresh = (page = {}),
                                 !.input = GraphInput(r, AskedIn(req[r].chat, page))]
  <2>1. Becomes(r, q) /\ rows' = rows /\ req[r].at = "verified"
    BY <1>3, <2>0 DEF LoadHistory
  <2>2. req[r] \in Request /\ AtOwnPoint(req[r]) /\ req[r].kind # "resume"
    BY <2>1, HandlerType DEF AtOwnPoint, PointsOf
  <2>3. q.chat = req[r].chat /\ PhaseOf(q) = PhaseOf(req[r])
    BY <2>1, <2>2 DEF Request, PhaseOf
  <2> HIDE DEF q
  <2> QED BY <2>1, <2>3, QuietImplements
<1>4. ASSUME NEW r \in Requests, StartGraph(r) PROVE [Promise!Next]_(Promise!vars)
  <2> DEFINE q == IF req[r].kind = "resume"
                  THEN [req[r] EXCEPT !.at = "graph", !.turn = paused[req[r].chat]]
                  ELSE [req[r] EXCEPT !.at = "graph"]
  <2>1. Becomes(r, q) /\ rows' = rows /\ req[r].at = "loaded"
    BY <1>4 DEF StartGraph
  <2>2. q.chat = req[r].chat /\ PhaseOf(q) = PhaseOf(req[r])
    BY <2>1, HandlerType DEF Request, PhaseOf
  <2> HIDE DEF q
  <2> QED BY <2>1, <2>2, QuietImplements
<1>5. ASSUME NEW r \in Requests, GraphFinishes(r) PROVE [Promise!Next]_(Promise!vars)
  <2> DEFINE q == [req[r] EXCEPT !.at = AfterResult(req[r].kind), !.outcome = "final"]
  <2>1. Becomes(r, q) /\ rows' = rows /\ req[r].at = "graph"
    BY <1>5 DEF GraphFinishes
  <2>2. req[r] \in Request /\ req[r].kind \in {"send", "stream", "resume"}
    BY <2>1, HandlerType, ConstantsAssumption DEF AtOwnPoint, PointsOf, Request
  <2>3. q.chat = req[r].chat /\ PhaseOf(q) = PhaseOf(req[r])
    BY <2>1, <2>2 DEF Request, PhaseOf, AfterResult
  <2> HIDE DEF q
  <2> QED BY <2>1, <2>3, QuietImplements
<1>6. ASSUME NEW r \in Requests, GraphInterrupts(r) PROVE [Promise!Next]_(Promise!vars)
  <2> DEFINE q == Interrupted(req[r])
  <2>1. Becomes(r, q) /\ rows' = rows /\ req[r].at = "graph"
    BY <1>6 DEF GraphInterrupts
  <2>2. /\ q.chat = req[r].chat
        /\ PhaseOf(q) = PhaseOf(req[r]) \/ PhaseOf(q) = "closed"
        /\ PhaseOf(req[r]) \in Promise!Open
    BY <2>1, HandlerType DEF Request, PhaseOf, Interrupted
  <2> HIDE DEF q
  <2> QED BY <2>1, <2>2, QuietImplements
<1>7. ASSUME NEW r \in Requests, GraphFails(r) PROVE [Promise!Next]_(Promise!vars)
  <2> DEFINE q == Failed(req[r])
  <2>1. Becomes(r, q) /\ rows' = rows /\ req[r].at = "graph"
    BY <1>7 DEF GraphFails
  <2>2. req[r] \in Request /\ req[r].kind \in {"send", "stream", "resume"}
    BY <2>1, HandlerType, ConstantsAssumption DEF AtOwnPoint, PointsOf, Request
  <2>3. /\ q.chat = req[r].chat
        /\ PhaseOf(q) = PhaseOf(req[r]) \/ PhaseOf(q) = "closed"
        /\ PhaseOf(req[r]) \in Promise!Open
    BY <2>1, <2>2 DEF Request, PhaseOf, Failed, AfterResult
  <2> HIDE DEF q
  <2> QED BY <2>1, <2>3, QuietImplements
<1>8. ASSUME NEW r \in Requests, CancelSend(r) PROVE [Promise!Next]_(Promise!vars)
  <2> DEFINE q == [req[r] EXCEPT !.at = "user", !.outcome = "cancelled"]
  <2>1. Becomes(r, q) /\ rows' = rows /\ req[r].at = "graph" /\ req[r].kind = "send"
    BY <1>8 DEF CancelSend
  <2>2. q.chat = req[r].chat /\ PhaseOf(q) = PhaseOf(req[r])
    BY <2>1, HandlerType DEF Request, PhaseOf
  <2> HIDE DEF q
  <2> QED BY <2>1, <2>2, QuietImplements
<1>9. ASSUME NEW r \in Requests, StreamTimesOut(r) PROVE [Promise!Next]_(Promise!vars)
  <2> DEFINE q == [req[r] EXCEPT !.at = "ack", !.outcome = "timeout"]
  <2>1. Becomes(r, q) /\ rows' = rows /\ req[r].at = "graph" /\ req[r].kind = "stream"
    BY <1>9 DEF StreamTimesOut
  <2>2. q.chat = req[r].chat /\ PhaseOf(q) = PhaseOf(req[r])
    BY <2>1, HandlerType DEF Request, PhaseOf
  <2> HIDE DEF q
  <2> QED BY <2>1, <2>2, QuietImplements
<1>10. ASSUME NEW r \in Requests, Acknowledge(r) PROVE [Promise!Next]_(Promise!vars)
  <2> DEFINE q == [req[r] EXCEPT !.at = "user",
                            !.reply = IF req[r].outcome = "error" THEN "error" ELSE "ok"]
  <2>1. Becomes(r, q) /\ rows' = rows /\ req[r].at = "ack"
    BY <1>10 DEF Acknowledge
  <2>2. req[r] \in Request /\ req[r].kind = "stream"
    BY <2>1, HandlerType, ConstantsAssumption DEF AtOwnPoint, PointsOf, Request
  <2>3. q.chat = req[r].chat /\ PhaseOf(q) = PhaseOf(req[r])
    BY <2>1, <2>2 DEF Request, PhaseOf
  <2> HIDE DEF q
  <2> QED BY <2>1, <2>3, QuietImplements
<1>11. ASSUME NEW r \in Requests, StoreUser(r) PROVE [Promise!Next]_(Promise!vars)
  <2> DEFINE q == AfterUser(req[r])
  <2>1. /\ Becomes(r, q) /\ req[r].at = "user"
        /\ AddMessage(req[r].chat, [role |-> "user", by |-> r, cut |-> FALSE])
    BY <1>11 DEF StoreUser
  <2>2. req[r] \in Request /\ AtOwnPoint(req[r]) /\ req[r].kind \in TurnKinds
    BY <2>1, HandlerType, ConstantsAssumption DEF AtOwnPoint, PointsOf, Request, TurnKinds
  <2>3. /\ q.chat = req[r].chat
        /\ PhaseOf(req[r]) = "turn"
        /\ PhaseOf(q) \in {"asked", "closed"}
    BY <2>1, <2>2 DEF Request, PhaseOf, AfterUser, TurnKinds
  <2> HIDE DEF q
  <2> QED BY <2>1, <2>3, StoringImplements
<1>12. ASSUME NEW r \in Requests, StoreAssistant(r) PROVE [Promise!Next]_(Promise!vars)
  <2> DEFINE q == AfterAssistant(req[r])
             cut == req[r].outcome = "cancelled"
  <2>1. /\ Becomes(r, q) /\ req[r].at = "assistant"
        /\ AddMessage(req[r].chat, [role |-> "assistant", by |-> r, cut |-> cut])
    BY <1>12 DEF StoreAssistant
  <2>2. /\ q.chat = req[r].chat
        /\ PhaseOf(req[r]) \in {"asked", "reply"}
        /\ PhaseOf(q) = "closed"
    BY <2>1, HandlerType DEF Request, PhaseOf, AfterAssistant
  <2>3. cut \in BOOLEAN
    OBVIOUS
  <2> HIDE DEF q, cut
  <2> QED BY <2>1, <2>2, <2>3, StoringImplements
<1>13. ASSUME NEW r \in Requests, SetTitle(r) PROVE [Promise!Next]_(Promise!vars)
  <2> DEFINE q == [req[r] EXCEPT !.at = "ended",
                            !.reply = IF req[r].reply = "none" THEN "ok" ELSE req[r].reply]
  <2>1. Becomes(r, q) /\ rows' = rows /\ req[r].at = "title"
    BY <1>13 DEF SetTitle
  <2>2. q.chat = req[r].chat /\ PhaseOf(q) = PhaseOf(req[r])
    BY <2>1, HandlerType DEF Request, PhaseOf
  <2> HIDE DEF q
  <2> QED BY <2>1, <2>2, QuietImplements
<1>14. ASSUME NEW r \in Requests, DeleteChat(r) PROVE [Promise!Next]_(Promise!vars)
  <2> DEFINE q == [req[r] EXCEPT !.at = "ended", !.reply = "ok"]
  <2>1. /\ Becomes(r, q) /\ req[r].at = "delete"
        /\ rows' = [rows EXCEPT ![req[r].chat] = <<>>]
    BY <1>14 DEF DeleteChat
  <2>2. /\ q.chat = req[r].chat /\ PhaseOf(req[r]) = "clear" /\ PhaseOf(q) = "closed"
    BY <2>1, HandlerType DEF Request, PhaseOf
  <2> HIDE DEF q
  <2> QED BY <2>1, <2>2, StoringImplements
<1>15. ASSUME NEW r \in Requests, NEW reply, req[r].at \notin {"idle", "ended"},
              Becomes(r, [req[r] EXCEPT !.at = "ended", !.reply = reply]), rows' = rows
       PROVE  [Promise!Next]_(Promise!vars)
  <2> DEFINE q == [req[r] EXCEPT !.at = "ended", !.reply = reply]
  <2>1. /\ q.chat = req[r].chat /\ PhaseOf(q) = "closed"
        /\ PhaseOf(req[r]) \in Promise!Open \cup {"closed"}
    BY <1>15, HandlerType DEF Request, Points, PhaseOf
  <2>2. Becomes(r, q)
    BY <1>15
  <2> HIDE DEF q
  <2> QED BY <1>15, <2>1, <2>2, QuietImplements
<1>16. ASSUME NEW r \in Requests, StorageRaises(r) \/ Abandon(r)
       PROVE  [Promise!Next]_(Promise!vars)
  <2>1. rows' = rows /\ req[r].at \notin {"idle", "ended"}
    BY <1>16 DEF StorageRaises, Abandon
  <2>2. \E reply : Becomes(r, [req[r] EXCEPT !.at = "ended", !.reply = reply])
    BY <1>16, HandlerType DEF StorageRaises, Abandon, Request
  <2> QED BY <1>15, <2>1, <2>2
<1>17. CASE UNCHANGED vars
  BY <1>17 DEF vars, Promise!vars
<1> QED
  BY <1>1, <1>2, <1>3, <1>4, <1>5, <1>6, <1>7, <1>8, <1>9, <1>10, <1>11, <1>12,
     <1>13, <1>14, <1>16, <1>17
  DEF Next, Proceed, GraphReturns, AllServed

\* The handlers implement Conversation: whatever their number and overlap, and
\* wherever storage raises, a client goes away or the graph fails, a request adds
\* at most one question and then one answer, to the chat it arrived at.
THEOREM ImplementsConversation == Spec => KeepsItsPromise
<1>1. Spec => [][Promise!Next]_(Promise!vars)
  <2>1. Spec => []TypeOK
    BY TypeCorrect
  <2> QED BY <2>1, StepImplements, PTL DEF Spec
<1>2. Spec => Promise!Init
  BY InitImplements DEF Spec
<1> QED BY <1>1, <1>2 DEF KeepsItsPromise, Promise!Spec

=============================================================================
