---------------------------- MODULE TokenStream ----------------------------
(***************************************************************************)
(* One SSE response: the loop of stream_supervisor_tokens over the agent   *)
(* graph's stream (routers/_streaming.py) and the buffer that decides      *)
(* whether a supervisor chunk is a handoff or an answer token              *)
(* (routers/_stream_buffer.py), up to the persistence of the turn.         *)
(*                                                                         *)
(* The graph is external: it emits messages of the kinds the loop tells    *)
(* apart, in any order. A text is a sequence of characters, long enough    *)
(* only for what the code compares: equality, prefixes, blanks, the        *)
(* preamble and the quotes that clean_handoff strips.                      *)
(***************************************************************************)
EXTENDS Naturals, Sequences, FiniteSets, SequencesExt

CONSTANTS
  Agents,     \* names of the *_agent nodes
  Characters, \* the characters of a text
  Texts,      \* texts the supervisor node may produce
  Blank,      \* the character that str.strip removes
  Quote,      \* the quotation mark
  Preamble,   \* the text of an entry of _HANDOFF_PREAMBLES
  KeyLength,  \* length of a deduplication key (100 in the code)
  MaxEvents,  \* bound: messages the graph emits
  NoText      \* Python's None

ASSUME ConstantsAssumption ==
  /\ KeyLength \in Nat \ {0}
  /\ MaxEvents \in Nat
  /\ Texts \subseteq Seq(Characters)
  /\ NoText \notin Texts

VARIABLES
  phase,      \* where the generator stands
  outcome,    \* how the graph run ended: timed_out, errored, cancelled
  events,     \* graph messages consumed so far
  chunks,     \* SupervisorTokenBuffer._chunks
  emitted,    \* SupervisorTokenBuffer._emitted_prefixes
  handoffs,   \* SupervisorTokenBuffer._seen_handoffs
  seen,       \* seen_agents
  results,    \* keys of agent_results
  agentsDone, \* agents_done
  final,      \* direct_final
  parts,      \* full_response_parts
  frames,     \* the SSE frames yielded so far
  stored,     \* the text of the assistant row this generator stored, or NoText
  said        \* history: the synthesis text streamed since the last handoff,
              \* and whether the buffer skipped a part of it as an echo

buffer == <<chunks, emitted, handoffs>>
agents == <<seen, results, agentsDone>>
vars == <<phase, outcome, events, buffer, agents, final, parts, frames, stored, said>>

Phases   == {"running", "flushing", "finished", "persisting", "ended"}
Outcomes == {"open", "normal", "timedout", "errored", "stopped"}
Nothing == [text |-> <<>>, dropped |-> FALSE]

Init ==
  /\ phase = "running" /\ outcome = "open" /\ events = 0
  /\ chunks = <<>> /\ emitted = {} /\ handoffs = {}
  /\ seen = {} /\ results = {} /\ agentsDone = FALSE
  /\ final = NoText /\ parts = <<>> /\ frames = <<>>
  /\ stored = NoText /\ said = Nothing

-----------------------------------------------------------------------------
(* Text operations *)

Key(t) == SubSeq(t, 1, IF Len(t) < KeyLength THEN Len(t) ELSE KeyLength)

\* str.strip()
Strip(t) ==
  LET solid == {i \in DOMAIN t : t[i] # Blank}
      first == CHOOSE i \in solid : \A j \in solid : i <= j
      last  == CHOOSE i \in solid : \A j \in solid : j <= i
  IN IF solid = {} THEN <<>> ELSE SubSeq(t, first, last)

DropPreamble(t) ==
  IF IsPrefix(Preamble, t) THEN Strip(SubSeq(t, Len(Preamble) + 1, Len(t))) ELSE t

\* A text that is one quotation mark both starts and ends with it: s[1:-1] = "".
DropQuotes(t) ==
  IF t # <<>> /\ Head(t) = Quote /\ Last(t) = Quote
  THEN Strip(SubSeq(t, 2, Len(t) - 1)) ELSE t

clean_handoff(t) == DropQuotes(DropPreamble(Strip(t)))

Combined == FlattenSeq(chunks)

\* A plausible slip: nothing remembers what went out as a handoff.
never_emitted(t) == FALSE

already_emitted(t) == Key(t) \in emitted

\* A plausible slip: only the last chunk is compared, not the assembled text.
would_duplicate_last(t) == chunks # <<>> /\ t = Last(chunks)

would_duplicate(t) ==
  chunks # <<>> /\ (IsPrefix(t, Combined) \/ t = Last(chunks))

-----------------------------------------------------------------------------
(* The loop over graph.astream *)

Receive == phase = "running" /\ events < MaxEvents /\ events' = events + 1

Frame(kind, of) == [kind |-> kind, of |-> of]

\* mode "values": the last non-empty final_response is kept.
GraphValue(t) ==
  /\ Receive
  /\ final' = t
  /\ UNCHANGED <<phase, outcome, buffer, agents, parts, frames, stored, said>>

\* A mini-agent lifecycle event goes out before any other processing.
MiniAgentEvent ==
  /\ Receive
  /\ frames' = Append(frames, Frame("mini", NoText))
  /\ UNCHANGED <<phase, outcome, buffer, agents, final, parts, stored, said>>

\* Inner nodes, other nodes, empty or JSON content, "[Supervisor" without an
\* arrow, and chunks with tool calls leave everything as it is.
IgnoredMessage ==
  /\ Receive
  /\ UNCHANGED <<phase, outcome, buffer, agents, final, parts, frames, stored, said>>

\* discard_as_handoff and record_inline_handoff: the frames a handoff text adds.
HandoffFrames(cleaned) ==
  IF cleaned = <<>> \/ cleaned \in handoffs THEN <<>>
  ELSE <<Frame("handoff", cleaned)>>

RecordHandoff(cleaned) ==
  /\ chunks' = <<>>
  /\ handoffs' = IF cleaned = <<>> THEN handoffs ELSE handoffs \cup {cleaned}
  /\ emitted'  = IF cleaned = <<>> \/ cleaned \in handoffs THEN emitted
                 ELSE emitted \cup {Key(cleaned)}

\* _maybe_emit_agent_done: the first substantial reply without tool calls.
AgentDoneFrames(a, substantial) ==
  IF substantial /\ a \notin results THEN <<Frame("agent_done", a)>> ELSE <<>>

\* A message of an *_agent node: what the supervisor had said was a handoff.
AgentMessage(a, substantial) ==
  LET cleaned == clean_handoff(Strip(Combined)) IN
  /\ Receive
  /\ frames' = frames \o HandoffFrames(cleaned)
                 \o (IF a \in seen THEN <<>> ELSE <<Frame("agent_started", a)>>)
                 \o AgentDoneFrames(a, substantial)
  /\ RecordHandoff(cleaned)
  /\ seen' = seen \cup {a}
  /\ results' = IF substantial THEN results \cup {a} ELSE results
  /\ agentsDone' = TRUE
  /\ said' = Nothing
  /\ UNCHANGED <<phase, outcome, final, parts, stored>>

\* "[Supervisor -> agent] text" in one message; t is the text after the bracket.
InlineHandoff(t) ==
  LET cleaned == clean_handoff(t) IN
  /\ Receive
  /\ frames' = frames \o HandoffFrames(cleaned)
  /\ RecordHandoff(cleaned)
  /\ said' = Nothing
  /\ UNCHANGED <<phase, outcome, agents, final, parts, stored>>

\* Before the first agent message a supervisor chunk is never synthesis.
Synthesizing == agentsDone

Skipped(t) == already_emitted(t) \/ would_duplicate(t)

BufferChunk(t) ==
  /\ Receive
  /\ chunks' = IF Synthesizing /\ ~Skipped(t) THEN Append(chunks, t) ELSE chunks
  /\ UNCHANGED <<phase, outcome, emitted, handoffs, agents, final, parts, frames, stored>>

\* An increment of the synthesis. said keeps the text the graph streamed.
SupervisorChunk(t) ==
  /\ BufferChunk(t)
  /\ said' = IF agentsDone
             THEN [text |-> said.text \o t, dropped |-> said.dropped \/ Skipped(t)]
             ELSE said

\* "a final assembled message that contains all the chunk text concatenated"
AssembledMessage ==
  /\ said.text # <<>>
  /\ BufferChunk(said.text)
  /\ UNCHANGED said

-----------------------------------------------------------------------------
(* The end of the stream *)

Emit(t) ==
  /\ parts' = Append(parts, t)
  /\ frames' = Append(frames, Frame("token", t))

GraphEnds ==
  /\ phase = "running"
  /\ phase' = "flushing" /\ outcome' = "normal"
  /\ UNCHANGED <<events, buffer, agents, final, parts, frames, stored, said>>

Flushes(phases) ==
  /\ phase \in phases /\ chunks # <<>>
  /\ chunks' = Tail(chunks)
  /\ IF already_emitted(Head(chunks)) THEN UNCHANGED <<parts, frames>>
     ELSE Emit(Head(chunks))
  /\ UNCHANGED <<phase, outcome, events, emitted, handoffs, agents, final, stored, said>>

\* A plausible slip: chunks are shown before the graph has finished.
FlushChunkLive == Flushes({"running", "flushing"})

\* flush_as_tokens yields one token at a time.
FlushChunk == Flushes({"flushing"})

\* Direct-response fallback: nothing was streamed, the graph has a final response.
FlushEnds ==
  /\ phase = "flushing" /\ chunks = <<>>
  /\ IF parts = <<>> /\ final # NoText THEN Emit(final) ELSE UNCHANGED <<parts, frames>>
  /\ phase' = "finished"
  /\ UNCHANGED <<outcome, events, buffer, agents, final, stored, said>>

\* A plausible slip: the exception is logged inside the loop, which goes on.
FailsLogged(why) ==
  /\ phase = "running"
  /\ outcome' = why
  /\ frames' = Append(frames, Frame("error", NoText))
  /\ UNCHANGED <<phase, events, buffer, agents, final, parts, stored, said>>

Fails(why) ==
  /\ phase = "running"
  /\ phase' = "finished" /\ outcome' = why
  /\ frames' = Append(frames, Frame("error", NoText))
  /\ UNCHANGED <<events, buffer, agents, final, parts, stored, said>>

\* asyncio.timeout expires while the graph is awaited. The buffer is not flushed.
TimesOut == Fails("timedout")

\* Any exception of the graph, GraphInterrupt included.
GraphFails == Fails("errored")

\* A plausible slip: the last token is taken for the whole response.
LastPart == IF parts = <<>> THEN <<>> ELSE Last(parts)

\* "".join(full_response_parts); <<>> stands for "No response generated.".
Response == FlattenSeq(parts)

Done ==
  /\ phase = "finished"
  /\ phase' = "persisting"
  /\ frames' = Append(frames, Frame("done", Response))
  /\ UNCHANGED <<outcome, events, buffer, agents, final, parts, stored, said>>

\* A plausible slip: the graph's final response is stored, not what was shown.
StoresFinal(text) == text = IF outcome = "errored" \/ final = NoText THEN NoText ELSE final

\* What the assistant row may hold: the response unless the run failed, and
\* nothing if the storage raises (it is logged, the stream ends as it would).
Stores(text) == text = NoText \/ (outcome # "errored" /\ text = Response)

Persist ==
  /\ phase = "persisting"
  /\ phase' = "ended"
  /\ \E text \in {NoText, Response, final} : Stores(text) /\ stored' = text
  /\ UNCHANGED <<outcome, events, buffer, agents, final, parts, frames, said>>

\* The client stops reading. While the graph is awaited this is a CancelledError,
\* whose handler stores a response only if a token has been emitted; at a yield
\* the generator is closed, which no except clause covers.
Stop ==
  /\ phase # "ended"
  /\ phase' = "ended" /\ outcome' = "stopped"
  /\ IF phase = "running" /\ parts # <<>>
     THEN /\ frames' = Append(frames, Frame("done", Response))
          /\ stored' = Response
     ELSE UNCHANGED <<frames, stored>>
  /\ UNCHANGED <<events, buffer, agents, final, parts, said>>

\* The response is over.
Over == phase = "ended" /\ UNCHANGED vars

Next ==
  \/ \E t \in Texts : GraphValue(t) \/ InlineHandoff(t) \/ SupervisorChunk(t)
  \/ MiniAgentEvent \/ IgnoredMessage \/ AssembledMessage
  \/ \E a \in Agents, substantial \in BOOLEAN : AgentMessage(a, substantial)
  \/ GraphEnds \/ FlushChunk \/ FlushEnds \/ TimesOut \/ GraphFails
  \/ Done \/ Persist \/ Stop \/ Over

Spec == Init /\ [][Next]_vars

-----------------------------------------------------------------------------
(* Properties *)

TypeOK ==
  /\ phase \in Phases /\ outcome \in Outcomes /\ events \in 0..MaxEvents
  /\ seen \subseteq Agents /\ results \subseteq seen /\ agentsDone = (seen # {})
  /\ final \in Texts \cup {NoText}
  /\ outcome = "open" <=> phase = "running"

\* The frames of a stream are in an order a client can follow:
\* no token before the graph has finished, since a supervisor chunk may still turn
\* out to be a handoff (_stream_buffer.py 63; so the CancelledError handler of
\* _streaming.py 188 never finds a token to store); each handoff once, however
\* often it is repeated; each agent started once, and done at most once, after its
\* start; an answer after an agent's start, or the graph's final response alone
\* (_streaming.py 160, 177).
FramesFollowTheRun ==
  /\ outcome \in {"open", "timedout", "errored"} =>
       parts = <<>> /\ \A i \in DOMAIN frames : frames[i].kind # "token"
  /\ \A i, j \in DOMAIN frames :
       (frames[i] = frames[j] /\ frames[i].kind \in {"handoff", "agent_started", "agent_done"})
         => i = j
  /\ \A i \in DOMAIN frames :
       LET Before(frame) == \E k \in 1..(i - 1) : frames[k] = frame IN
       /\ frames[i].kind = "agent_done" => Before(Frame("agent_started", frames[i].of))
       /\ frames[i].kind = "token" =>
            parts = <<final>> \/ \E a \in Agents : Before(Frame("agent_started", a))

\* What was shown as a handoff is not shown again as an answer token, except as
\* the fallback when the answer has no other token.
TokensAreNotHandoffs ==
  \A i, j \in DOMAIN frames :
    /\ frames[i].kind = "handoff"
    /\ frames[j].kind = "token"
    /\ Key(frames[i].of) = Key(frames[j].of)
    => parts = <<final>>

\* The done frame comes last, right after the tokens, which nothing interrupts, and
\* its response is their text; the assistant row, if there is one, holds what the
\* client was told in it, and a failed run has none (_streaming.py 257-281).
StoredIsWhatWasShown ==
  /\ \A d \in DOMAIN frames : frames[d].kind = "done" =>
       /\ d = Len(frames)
       /\ \E first \in 1..d :
            /\ \A i \in 1..(d - 1) : frames[i].kind = "token" <=> i >= first
            /\ frames[d].of = FlattenSeq([i \in 1..(d - first) |-> frames[first + i - 1].of])
  /\ stored # NoText => /\ outcome # "errored"
                        /\ frames # <<>> /\ Last(frames) = Frame("done", stored)

\* The graph streams increments and the assembled text in between or at the end;
\* the client gets the text exactly once, if no increment looked like an echo.
AnswerIsShownOnce ==
  (outcome = "normal" /\ phase \in {"finished", "persisting", "ended"}
    /\ said.text # <<>> /\ ~said.dropped) => Response = said.text

(* A statement of the code's comments that does not hold; see the README. *)

\* "user-initiated stops (where content was generated) persist the partial
\* response with metadata.cancelled=True" (_streaming.py 57).
StoppedStreamKeepsItsContent ==
  (outcome = "stopped" /\ (chunks # <<>> \/ parts # <<>>)) => stored # NoText

=============================================================================
