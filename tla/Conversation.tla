---------------------------- MODULE Conversation ----------------------------
(***************************************************************************)
(* What the chat endpoints promise about a conversation, whatever happens  *)
(* inside them: each request belongs to one chat and adds to it nothing,   *)
(* or a question, or a question and later its answer; a request that       *)
(* resumes a paused turn adds nothing or one answer. What is stored stays  *)
(* as it is and in its order until the whole chat is cleared. ChatTurns    *)
(* implements this specification.                                          *)
(***************************************************************************)
EXTENDS Sequences

CONSTANTS
  Requests, Chats,
  None  \* the chat of a request that has not begun

VARIABLES
  log,   \* log[c]: the messages of chat c, oldest first
  phase, \* phase[r]: what request r may still add
  home   \* home[r]: the chat of request r, once it has begun

vars == <<log, phase, home>>

\* The phases in which a request may still change its chat.
Open == {"turn", "asked", "reply", "clear"}

\* A message of request r; cut says that the answer was cut short.
Question(r) == [role : {"user"}, by : {r}, cut : {FALSE}]
Answer(r) == [role : {"assistant"}, by : {r}, cut : BOOLEAN]

Init ==
  /\ log = [c \in Chats |-> <<>>]
  /\ phase = [r \in Requests |-> "new"]
  /\ home = [r \in Requests |-> None]

Add(c, message) == log' = [log EXCEPT ![c] = Append(@, message)]

Moves(r, to) == phase' = [phase EXCEPT ![r] = to]

\* A new turn, the answer to an approval, a deletion, or a refused request.
Begin(r, c) ==
  /\ phase[r] = "new"
  /\ \E to \in {"turn", "reply", "clear", "closed"} : Moves(r, to)
  /\ home' = [home EXCEPT ![r] = c]
  /\ UNCHANGED log

\* The question is stored; a turn whose run failed stops here.
Ask(r) ==
  /\ phase[r] = "turn"
  /\ \E message \in Question(r) : Add(home[r], message)
  /\ \E to \in {"asked", "closed"} : Moves(r, to)
  /\ UNCHANGED home

Reply(r) ==
  /\ phase[r] \in {"asked", "reply"}
  /\ \E message \in Answer(r) : Add(home[r], message)
  /\ Moves(r, "closed")
  /\ UNCHANGED home

\* A request may stop short anywhere; what it has stored stays.
Close(r) ==
  /\ phase[r] \in Open
  /\ Moves(r, "closed")
  /\ UNCHANGED <<log, home>>

\* The messages of a chat go all at once, and only by a deletion of that chat.
Clear(r) ==
  /\ phase[r] = "clear"
  /\ log' = [log EXCEPT ![home[r]] = <<>>]
  /\ Moves(r, "closed")
  /\ UNCHANGED home

Next ==
  \/ \E r \in Requests, c \in Chats : Begin(r, c)
  \/ \E r \in Requests : Ask(r) \/ Reply(r) \/ Clear(r) \/ Close(r)

Spec == Init /\ [][Next]_vars

=============================================================================
