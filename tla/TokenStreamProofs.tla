------------------------- MODULE TokenStreamProofs -------------------------
(***************************************************************************)
(* Safety of TokenStream for every set of agents, texts and characters and *)
(* any number of graph messages: the order of the frames, what is a token  *)
(* and what a handoff, and that what is stored is what was shown.          *)
(***************************************************************************)
EXTENDS TokenStream, FiniteSetTheorems, SequenceTheorems, WellFoundedInduction, TLAPS

-----------------------------------------------------------------------------
(* Induction, and what FlattenSeq computes. *)

\* A set of numbers has a least one: the form of induction used below.
LEMMA LeastNumber ==
  ASSUME NEW T \in SUBSET Nat, T # {}
  PROVE  \E x \in T : \A y \in T : x <= y
<1> DEFINE R == OpToRel(<, Nat)
<1>1. IsWellFoundedOn(R, Nat)
  BY NatLessThanWellFounded
<1>2. \A x, y \in Nat : y < x => <<y, x>> \in R
  BY DEF OpToRel
<1> HIDE DEF R
<1>3. PICK x \in T : \A y \in T : <<y, x>> \notin R
  BY <1>1, WFMin
<1>4. \A y \in T : ~(y < x)
  BY <1>2, <1>3
<1>5. \A a, b \in Nat : ~(a < b) => b <= a
  OBVIOUS
<1> QED BY <1>4, <1>5

\* The value of flatten[i], from the value before it.
Flattened(f, s, i) == IF i = 1 THEN s[i] ELSE f[i - 1] \o s[i]

\* f[i] is the first i of the first n texts of s, put together.
Gathers(s, n, f) == \A i \in 1..n : f[i] = Flattened(f, s, i)

PutTogether(C, s, n, f) == f \in [1..n -> Seq(C)] /\ Gathers(s, n, f)

\* One more text can be put behind those before it.
LEMMA FlattenStep ==
  ASSUME NEW C, NEW s \in Seq(Seq(C)), NEW n \in 1..Len(s), NEW f,
         PutTogether(C, s, n - 1, f)
  PROVE  \E g : PutTogether(C, s, n, g)
<1>1. n \in Nat /\ n - 1 \in Nat /\ n >= 1 /\ s[1] \in Seq(C) /\ s[n] \in Seq(C)
  OBVIOUS
<1>2. /\ f \in [1..(n - 1) -> Seq(C)]
      /\ \A i \in 1..(n - 1) : f[i] = Flattened(f, s, i)
  BY DEF PutTogether, Gathers
<1> DEFINE last == Flattened(f, s, n)
           g == [i \in 1..n |-> IF i = n THEN last ELSE f[i]]
<1>3. last \in Seq(C)
  <2>1. CASE n = 1
    BY <1>1, <2>1 DEF Flattened
  <2>2. CASE n # 1
    <3>1. n - 1 \in 1..(n - 1)
      BY <1>1, <2>2
    <3>2. f[n - 1] \in Seq(C)
      BY <1>2, <3>1
    <3>3. f[n - 1] \o s[n] \in Seq(C)
      BY <1>1, <3>2, ConcatProperties
    <3> QED BY <2>2, <3>3 DEF Flattened
  <2> QED BY <2>1, <2>2
<1> HIDE DEF last
<1>4. g \in [1..n -> Seq(C)]
  <2>1. \A i \in 1..n : i # n => i \in 1..(n - 1)
    BY <1>1
  <2> QED BY <1>2, <1>3, <2>1
<1>5. g[n] = last /\ \A i \in 1..(n - 1) : g[i] = f[i]
  <2>1. n \in 1..n /\ \A i \in 1..(n - 1) : i \in 1..n /\ i # n
    BY <1>1
  <2> QED BY <2>1
<1> HIDE DEF g
<1>6. ASSUME NEW i \in 1..n PROVE g[i] = Flattened(g, s, i)
  <2>1. i \in Nat /\ (i # n => i \in 1..(n - 1)) /\ (i # 1 => i - 1 \in 1..(n - 1))
    BY <1>1
  <2>2. g[i] = Flattened(f, s, i)
    BY <1>2, <1>5, <2>1 DEF last
  <2>3. i # 1 => g[i - 1] = f[i - 1]
    BY <1>5, <2>1
  <2> QED BY <2>2, <2>3 DEF Flattened
<1> QED BY <1>4, <1>6 DEF PutTogether, Gathers

\* The texts of s can be put together one by one.
LEMMA FlattenExists ==
  ASSUME NEW C, NEW s \in Seq(Seq(C))
  PROVE  \E f : PutTogether(C, s, Len(s), f)
<1> DEFINE T == {n \in 0..Len(s) : ~ \E f : PutTogether(C, s, n, f)}
<1>1. Len(s) \in Nat
  OBVIOUS
<1>2. T = {}
  <2> SUFFICES ASSUME T # {} PROVE FALSE
    OBVIOUS
  <2>1. T \in SUBSET Nat
    BY <1>1
  <2> HIDE DEF T
  <2>2. PICK n \in T : \A m \in T : n <= m
    BY <2>1, LeastNumber
  <2>3. n \in 0..Len(s) /\ ~ \E f : PutTogether(C, s, n, f)
    BY <2>2 DEF T
  <2>4. n # 0
    <3>1. PutTogether(C, s, 0, <<>>)
      BY DEF PutTogether, Gathers
    <3> QED BY <2>3, <3>1
  <2>5. n \in 1..Len(s) /\ n - 1 \in 0..Len(s) /\ ~(n <= n - 1)
    BY <1>1, <2>3, <2>4
  <2>6. n - 1 \notin T
    BY <2>2, <2>5
  <2>7. \E f : PutTogether(C, s, n - 1, f)
    BY <2>5, <2>6 DEF T
  <2> QED BY <2>3, <2>5, <2>7, FlattenStep
<1>3. Len(s) \in 0..Len(s)
  BY <1>1
<1> QED BY <1>2, <1>3

\* There is only one way to do so.
LEMMA FlattenUnique ==
  ASSUME NEW s, NEW n \in Nat, NEW f, NEW g, Gathers(s, n, f), Gathers(s, n, g)
  PROVE  \A i \in 1..n : f[i] = g[i]
<1> DEFINE T == {i \in 1..n : f[i] # g[i]}
<1>1. SUFFICES ASSUME T # {} PROVE FALSE
  OBVIOUS
<1>2. n \in Nat /\ T \in SUBSET Nat
  OBVIOUS
<1> HIDE DEF T
<1>3. PICK i \in T : \A j \in T : i <= j
  BY <1>1, <1>2, LeastNumber
<1>4. i \in 1..n /\ f[i] # g[i]
  BY <1>3 DEF T
<1>5. CASE i = 1
  BY <1>4, <1>5 DEF Gathers, Flattened
<1>6. CASE i # 1
  <2>1. i - 1 \in 1..n /\ ~(i <= i - 1)
    BY <1>2, <1>4, <1>6
  <2>2. i - 1 \notin T
    BY <1>3, <2>1
  <2>3. f[i - 1] = g[i - 1]
    BY <2>1, <2>2 DEF T
  <2> QED BY <1>4, <1>6, <2>3 DEF Gathers, Flattened
<1> QED BY <1>5, <1>6

\* What FlattenSeq returns.
LEMMA FlattenValue ==
  ASSUME NEW C, NEW s \in Seq(Seq(C)), NEW f, PutTogether(C, s, Len(s), f)
  PROVE  FlattenSeq(s) = IF Len(s) = 0 THEN <<>> ELSE f[Len(s)]
<1>1. Len(s) \in Nat /\ (Len(s) = 0 => s = <<>>)
  BY EmptySeq
<1> DEFINE flatten == CHOOSE h : h = [i \in 1..Len(s) |-> Flattened(h, s, i)]
<1>2. f = [i \in 1..Len(s) |-> Flattened(f, s, i)]
  BY DEF PutTogether, Gathers
<1>3. flatten = [i \in 1..Len(s) |-> Flattened(flatten, s, i)]
  BY <1>2
<1>4. FlattenSeq(s) = IF Len(s) = 0 THEN s ELSE flatten[Len(s)]
  BY DEF FlattenSeq, Flattened
<1> HIDE DEF flatten
<1>5. Gathers(s, Len(s), f) /\ Gathers(s, Len(s), flatten)
  BY <1>2, <1>3 DEF Gathers
<1>6. \A i \in 1..Len(s) : flatten[i] = f[i]
  BY <1>1, <1>5, FlattenUnique
<1>7. Len(s) # 0 => Len(s) \in 1..Len(s)
  BY <1>1
<1> QED BY <1>1, <1>4, <1>6, <1>7

\* Putting one more text behind the others puts it behind their flattening.
LEMMA FlattenAppend ==
  ASSUME NEW C, NEW s \in Seq(Seq(C)), NEW t \in Seq(C)
  PROVE  /\ FlattenSeq(s) \in Seq(C)
         /\ FlattenSeq(Append(s, t)) = FlattenSeq(s) \o t
<1> DEFINE n == Len(s)
           u == Append(s, t)
<1>1. /\ n \in Nat /\ u \in Seq(Seq(C)) /\ Len(u) = n + 1
      /\ \A i \in 1..n : u[i] = s[i]
      /\ u[n + 1] = t
  BY AppendProperties
<1>2. PICK f : PutTogether(C, s, n, f)
  BY FlattenExists
<1>3. PICK g : PutTogether(C, u, n + 1, g)
  BY <1>1, FlattenExists
<1>4. FlattenSeq(s) = IF n = 0 THEN <<>> ELSE f[n]
  BY <1>2, FlattenValue
<1> HIDE DEF n, u
<1>5. FlattenSeq(u) = g[n + 1]
  <2>1. PutTogether(C, u, Len(u), g) /\ Len(u) # 0
    BY <1>1, <1>3
  <2> QED BY <1>1, <2>1, FlattenValue
<1>6. \A i \in 1..n : g[i] = f[i]
  <2>1. Gathers(s, n, f)
    BY <1>2 DEF PutTogether
  <2>2. Gathers(s, n, g)
    <3>1. \A i \in 1..(n + 1) : g[i] = Flattened(g, u, i)
      BY <1>3 DEF PutTogether, Gathers
    <3>2. \A i \in 1..n : i \in 1..(n + 1)
      BY <1>1
    <3> QED BY <1>1, <3>1, <3>2 DEF Gathers, Flattened
  <2> QED BY <1>1, <2>1, <2>2, FlattenUnique
<1>7. g[n + 1] = IF n = 0 THEN t ELSE g[n] \o t
  <2>1. n + 1 \in 1..(n + 1) /\ (n + 1 = 1 <=> n = 0) /\ (n + 1) - 1 = n
    BY <1>1
  <2> QED BY <1>1, <1>3, <2>1 DEF PutTogether, Gathers, Flattened
<1>8. n # 0 => g[n] = f[n] /\ f[n] \in Seq(C)
  BY <1>1, <1>2, <1>6 DEF PutTogether, Gathers
<1>9. <<>> \in Seq(C) /\ <<>> \o t = t
  BY ConcatEmptySeq, EmptySeq
<1> QED BY <1>4, <1>5, <1>7, <1>8, <1>9 DEF u

-----------------------------------------------------------------------------
(* Sequences whose elements have no type of their own, as frames. *)

IsSequence(s) == \E S : s \in Seq(S)

\* A sequence, and the sequence with one more element.
LEMMA Appending ==
  ASSUME NEW s, IsSequence(s), NEW x
  PROVE  /\ Len(s) \in Nat /\ DOMAIN s = 1..Len(s)
         /\ IsSequence(Append(s, x))
         /\ Len(Append(s, x)) = Len(s) + 1
         /\ DOMAIN Append(s, x) = 1..(Len(s) + 1)
         /\ \A i \in 1..Len(s) : Append(s, x)[i] = s[i]
         /\ Append(s, x)[Len(s) + 1] = x
         /\ Append(s, x) # <<>>
<1>1. PICK S : s \in Seq(S)
  BY DEF IsSequence
<1> DEFINE T == S \cup {x}
<1>2. S \subseteq T /\ x \in T
  OBVIOUS
<1> HIDE DEF T
<1>3. s \in Seq(T)
  BY <1>1, <1>2, SeqMonotonic
<1>4. Append(s, x) \in Seq(T)
  BY <1>2, <1>3, AppendProperties
<1>5. Len(s) \in Nat /\ DOMAIN s = 1..Len(s)
  BY <1>3
<1>6. /\ Len(Append(s, x)) = Len(s) + 1
      /\ \A i \in 1..Len(s) : Append(s, x)[i] = s[i]
      /\ Append(s, x)[Len(s) + 1] = x
      /\ Append(s, x) # <<>>
  BY <1>2, <1>3, AppendProperties
<1>7. DOMAIN Append(s, x) = 1..(Len(s) + 1)
  BY <1>4, <1>6
<1> QED BY <1>4, <1>5, <1>6, <1>7 DEF IsSequence

\* Nothing, or one element, behind a sequence.
LEMMA Concatenating ==
  ASSUME NEW s, IsSequence(s), NEW x
  PROVE  s \o <<>> = s /\ s \o <<x>> = Append(s, x)
<1>1. PICK S : s \in Seq(S)
  BY DEF IsSequence
<1> DEFINE T == S \cup {x}
<1>2. S \subseteq T /\ x \in T
  OBVIOUS
<1> HIDE DEF T
<1>3. s \in Seq(T)
  BY <1>1, <1>2, SeqMonotonic
<1>4. s \o <<>> = s
  BY <1>3, ConcatEmptySeq
<1>5. Append(s, x) = s \o <<x>>
  BY <1>2, <1>3, AppendIsConcat
<1> QED BY <1>4, <1>5

-----------------------------------------------------------------------------
(* The order of the frames. *)

\* The frames f tell of the handoffs h, the agents s that have started and the
\* agents r that have answered: each once, and an answer after its start.
Follows(f, h, s, r) ==
  /\ IsSequence(f)
  /\ \A i, j \in DOMAIN f :
       f[i] = f[j] /\ f[i].kind \in {"handoff", "agent_started", "agent_done"} => i = j
  /\ \A i \in DOMAIN f :
       /\ f[i].kind = "handoff" => f[i].of \in h
       /\ f[i].kind = "agent_started" => f[i].of \in s
       /\ f[i].kind = "agent_done" =>
            f[i].of \in r /\ \E k \in 1..(i - 1) : f[k] = Frame("agent_started", f[i].of)
  /\ \A a \in s : \E i \in DOMAIN f : f[i] = Frame("agent_started", a)

\* One more frame, of something that has not been told yet.
LEMMA OneMoreFrame ==
  ASSUME NEW f, NEW h, NEW s, NEW r, Follows(f, h, s, r), NEW kind, NEW of,
         NEW h2, h2 = IF kind = "handoff" THEN h \cup {of} ELSE h,
         NEW s2, s2 = IF kind = "agent_started" THEN s \cup {of} ELSE s,
         NEW r2, r2 = IF kind = "agent_done" THEN r \cup {of} ELSE r,
         kind = "handoff" => of \notin h,
         kind = "agent_started" => of \notin s,
         kind = "agent_done" => of \in s \ r
  PROVE  Follows(Append(f, Frame(kind, of)), h2, s2, r2)
<1> DEFINE x == Frame(kind, of)
           g == Append(f, x)
           n == Len(f)
<1>1. /\ n \in Nat /\ DOMAIN f = 1..n /\ IsSequence(g) /\ DOMAIN g = 1..(n + 1)
      /\ \A i \in 1..n : g[i] = f[i]
      /\ g[n + 1] = x
  BY Appending DEF Follows
<1>2. x.kind = kind /\ x.of = of
  BY DEF Frame
<1>3. h \subseteq h2 /\ s \subseteq s2 /\ r \subseteq r2
  OBVIOUS
<1>4. /\ kind = "handoff" => of \in h2
      /\ kind = "agent_started" => of \in s2
      /\ kind = "agent_done" => of \in r2
  OBVIOUS
<1> HIDE DEF x, g, n
<1>5. \A i \in DOMAIN g : i \in DOMAIN f \/ i = n + 1
  BY <1>1
<1>6. ASSUME NEW i \in DOMAIN f, f[i] = x,
             kind \in {"handoff", "agent_started", "agent_done"}
      PROVE  FALSE
  BY <1>2, <1>6 DEF Follows
<1>7. ASSUME NEW i \in DOMAIN g, NEW j \in DOMAIN g, g[i] = g[j],
             g[i].kind \in {"handoff", "agent_started", "agent_done"}
      PROVE  i = j
  <2>1. CASE i \in DOMAIN f /\ j \in DOMAIN f
    <3>1. f[i] = f[j] /\ f[i].kind \in {"handoff", "agent_started", "agent_done"}
      BY <1>1, <1>7, <2>1
    <3> QED BY <2>1, <3>1 DEF Follows
  <2>2. CASE i = n + 1 /\ j \in DOMAIN f
    <3>1. f[j] = x /\ kind \in {"handoff", "agent_started", "agent_done"}
      BY <1>1, <1>2, <1>7, <2>2
    <3> QED BY <1>6, <2>2, <3>1
  <2>3. CASE j = n + 1 /\ i \in DOMAIN f
    <3>1. f[i] = x /\ kind \in {"handoff", "agent_started", "agent_done"}
      BY <1>1, <1>2, <1>7, <2>3
    <3> QED BY <1>6, <2>3, <3>1
  <2> QED BY <1>5, <2>1, <2>2, <2>3
<1>8. \A a \in s2 : \E i \in DOMAIN g : g[i] = Frame("agent_started", a)
  <2> SUFFICES ASSUME NEW a \in s2
               PROVE  \E i \in DOMAIN g : g[i] = Frame("agent_started", a)
    OBVIOUS
  <2>1. CASE a \in s
    <3>1. PICK i \in DOMAIN f : f[i] = Frame("agent_started", a)
      BY <2>1 DEF Follows
    <3>2. i \in DOMAIN g /\ g[i] = f[i]
      BY <1>1
    <3> QED BY <3>1, <3>2
  <2>2. CASE a \notin s
    <3>1. kind = "agent_started" /\ a = of
      BY <2>2
    <3>2. n + 1 \in DOMAIN g /\ g[n + 1] = Frame("agent_started", a)
      BY <1>1, <3>1 DEF x
    <3> QED BY <3>2
  <2> QED BY <2>1, <2>2
<1>9. ASSUME NEW i \in DOMAIN g
      PROVE  /\ g[i].kind = "handoff" => g[i].of \in h2
             /\ g[i].kind = "agent_started" => g[i].of \in s2
             /\ g[i].kind = "agent_done" =>
                  /\ g[i].of \in r2
                  /\ \E k \in 1..(i - 1) : g[k] = Frame("agent_started", g[i].of)
  <2>1. CASE i \in DOMAIN f
    <3>1. /\ f[i].kind = "handoff" => f[i].of \in h
          /\ f[i].kind = "agent_started" => f[i].of \in s
          /\ f[i].kind = "agent_done" =>
               f[i].of \in r /\ \E k \in 1..(i - 1) : f[k] = Frame("agent_started", f[i].of)
      BY <2>1 DEF Follows
    <3>2. g[i] = f[i] /\ \A k \in 1..(i - 1) : g[k] = f[k]
      BY <1>1, <2>1
    <3> QED BY <1>3, <3>1, <3>2
  <2>2. CASE i = n + 1
    <3>1. g[i].kind = kind /\ g[i].of = of
      BY <1>1, <1>2, <2>2
    <3>2. kind = "agent_done" => \E k \in 1..n : f[k] = Frame("agent_started", of)
      BY <1>1 DEF Follows
    <3>3. i - 1 = n /\ \A k \in 1..n : g[k] = f[k]
      BY <1>1, <2>2
    <3> QED BY <1>4, <3>1, <3>2, <3>3
  <2> QED BY <1>5, <2>1, <2>2
<1>10. Follows(g, h2, s2, r2)
  BY <1>1, <1>7, <1>8, <1>9 DEF Follows
<1> QED BY <1>10 DEF g, x

-----------------------------------------------------------------------------
(* The invariant. *)

\* The first n frames of f end with the tokens p, have no other, and none is done.
Shows(f, n, p) ==
  /\ Len(p) <= n
  /\ \A i \in 1..n : f[i].kind # "done" /\ (f[i].kind = "token" <=> i > n - Len(p))
  /\ \A i \in 1..Len(p) : f[(n - Len(p)) + i].of = p[i]

\* A done frame behind them tells their text.
Told(f, p) ==
  /\ Len(f) \in Nat \ {0}
  /\ Shows(f, Len(f) - 1, p)
  /\ f[Len(f)] = Frame("done", FlattenSeq(p))

\* The graph runs, or has just ended and the buffer is flushed.
Streaming == phase \in {"running", "flushing"}

TypeInv ==
  /\ TypeOK
  /\ chunks \in Seq(Seq(Characters)) /\ parts \in Seq(Seq(Characters))
  /\ said.text \in Seq(Characters)
  /\ phase = "flushing" => outcome = "normal"
  /\ outcome = "stopped" => phase = "ended"
  /\ outcome \in {"open", "timedout", "errored"} => parts = <<>>

\* What is buffered was streamed after an agent, and is no handoff; together with
\* what has been shown it is the text said.
BufferInv ==
  /\ chunks # <<>> => agentsDone
  /\ \A i \in DOMAIN chunks : Key(chunks[i]) \notin emitted
  /\ Streaming /\ ~said.dropped => FlattenSeq(parts \o chunks) = said.text
  /\ ~Streaming /\ outcome = "normal" /\ ~said.dropped /\ said.text # <<>> =>
       Response = said.text

\* A token is no handoff and stands behind an agent's start, or is the graph's
\* final response alone.
SourceInv ==
  /\ \A i \in DOMAIN frames : frames[i].kind = "handoff" => Key(frames[i].of) \in emitted
  /\ \A i \in DOMAIN frames : frames[i].kind = "token" =>
       \/ ~Streaming /\ parts = <<final>>
       \/ /\ Key(frames[i].of) \notin emitted
          /\ \E a \in Agents : \E k \in 1..(i - 1) : frames[k] = Frame("agent_started", a)

\* Where the tokens and the done frame are, and what is stored.
ShownInv ==
  /\ Streaming \/ phase = "finished" => Shows(frames, Len(frames), parts)
  /\ phase = "persisting" => Told(frames, parts)
  /\ phase = "ended" => Shows(frames, Len(frames), parts) \/ Told(frames, parts)
  /\ stored # NoText =>
       phase = "ended" /\ outcome # "errored" /\ Told(frames, parts) /\ stored = Response

IInv ==
  TypeInv /\ Follows(frames, handoffs, seen, results) /\ BufferInv /\ SourceInv /\ ShownInv

-----------------------------------------------------------------------------
(* Tokens and the done frame. *)

\* A frame that is no token and no done frame, before anything is shown.
LEMMA ShowsNothing ==
  ASSUME NEW f, IsSequence(f), Shows(f, Len(f), <<>>), NEW x,
         x.kind \notin {"token", "done"}
  PROVE  Shows(Append(f, x), Len(Append(f, x)), <<>>)
<1> DEFINE n == Len(f)
           g == Append(f, x)
<1>1. /\ n \in Nat /\ Len(g) = n + 1 /\ \A i \in 1..n : g[i] = f[i]
      /\ g[n + 1] = x /\ Len(<<>>) = 0
  BY Appending
<1> HIDE DEF g, n
<1>2. \A i \in 1..n : f[i].kind # "done" /\ f[i].kind # "token"
  BY <1>1 DEF Shows, n
<1>3. \A i \in 1..(n + 1) : g[i].kind # "done" /\ g[i].kind # "token" /\ ~(i > n + 1)
  BY <1>1, <1>2
<1> QED BY <1>1, <1>3 DEF Shows, g

\* A token is shown behind the others.
LEMMA ShowsToken ==
  ASSUME NEW f, IsSequence(f), NEW p, IsSequence(p), Shows(f, Len(f), p), NEW t
  PROVE  LET g == Append(f, Frame("token", t))
         IN Shows(g, Len(g), Append(p, t))
<1> DEFINE n == Len(f)
           m == Len(p)
           g == Append(f, Frame("token", t))
           q == Append(p, t)
<1>1. /\ n \in Nat /\ Len(g) = n + 1 /\ \A i \in 1..n : g[i] = f[i]
      /\ g[n + 1] = Frame("token", t)
  BY Appending
<1>2. /\ m \in Nat /\ Len(q) = m + 1 /\ \A i \in 1..m : q[i] = p[i]
      /\ q[m + 1] = t
  BY Appending
<1> HIDE DEF g, n, q, m
<1>3. /\ m <= n
      /\ \A i \in 1..n : f[i].kind # "done" /\ (f[i].kind = "token" <=> i > n - m)
      /\ \A i \in 1..m : f[(n - m) + i].of = p[i]
  BY DEF Shows, n, m
<1>4. m + 1 <= n + 1 /\ (n + 1) - (m + 1) = n - m
  BY <1>1, <1>2, <1>3
<1>5. ASSUME NEW i \in 1..(n + 1)
      PROVE  g[i].kind # "done" /\ (g[i].kind = "token" <=> i > n - m)
  <2>1. CASE i \in 1..n
    BY <1>1, <1>3, <2>1
  <2>2. CASE i = n + 1
    <3>1. g[i].kind = "token"
      BY <1>1, <2>2 DEF Frame
    <3>2. i > n - m
      BY <1>1, <1>2, <2>2
    <3> QED BY <3>1, <3>2
  <2> QED BY <1>1, <2>1, <2>2
<1>6. ASSUME NEW i \in 1..(m + 1)
      PROVE  g[(n - m) + i].of = q[i]
  <2>1. CASE i \in 1..m
    <3>1. (n - m) + i \in 1..n
      BY <1>1, <1>2, <1>3, <2>1
    <3> QED BY <1>1, <1>2, <1>3, <2>1, <3>1
  <2>2. CASE i = m + 1
    <3>1. (n - m) + i = n + 1
      BY <1>1, <1>2, <2>2
    <3>2. g[n + 1].of = t
      BY <1>1 DEF Frame
    <3> QED BY <1>2, <2>2, <3>1, <3>2
  <2> QED BY <1>2, <2>1, <2>2
<1>7. Shows(g, Len(g), q)
  BY <1>1, <1>2, <1>4, <1>5, <1>6 DEF Shows
<1> QED BY <1>7 DEF g, q

\* The done frame tells what is shown.
LEMMA TellsShown ==
  ASSUME NEW f, IsSequence(f), NEW p, IsSequence(p), Shows(f, Len(f), p)
  PROVE  Told(Append(f, Frame("done", FlattenSeq(p))), p)
<1> DEFINE n == Len(f)
           m == Len(p)
           x == Frame("done", FlattenSeq(p))
           g == Append(f, x)
<1>1. /\ n \in Nat /\ Len(g) = n + 1 /\ \A i \in 1..n : g[i] = f[i]
      /\ g[n + 1] = x
  BY Appending
<1>2. m \in Nat
  BY Appending
<1> HIDE DEF g, n, m, x
<1>3. /\ m <= n
      /\ \A i \in 1..n : f[i].kind # "done" /\ (f[i].kind = "token" <=> i > n - m)
      /\ \A i \in 1..m : f[(n - m) + i].of = p[i]
  BY DEF Shows, n, m
<1>4. \A i \in 1..m : (n - m) + i \in 1..n
  BY <1>1, <1>2, <1>3
<1>5. Shows(g, n, p)
  BY <1>1, <1>3, <1>4 DEF Shows, m
<1>6. Len(g) \in Nat \ {0} /\ Len(g) - 1 = n
  BY <1>1
<1> QED BY <1>1, <1>5, <1>6 DEF Told, g, x

-----------------------------------------------------------------------------
(* While the graph runs. *)

HandoffsKnown(f, e) == \A i \in DOMAIN f : f[i].kind = "handoff" => Key(f[i].of) \in e

\* The frames f tell of the graph's run, and no token is among them.
Heard(f, h, s, r, e) ==
  Follows(f, h, s, r) /\ Shows(f, Len(f), <<>>) /\ HandoffsKnown(f, e)

\* One more frame about the run.
LEMMA HearsMore ==
  ASSUME NEW f, NEW h, NEW s, NEW r, NEW e, Heard(f, h, s, r, e), NEW kind, NEW of,
         kind \notin {"token", "done"},
         NEW h2, h2 = IF kind = "handoff" THEN h \cup {of} ELSE h,
         NEW s2, s2 = IF kind = "agent_started" THEN s \cup {of} ELSE s,
         NEW r2, r2 = IF kind = "agent_done" THEN r \cup {of} ELSE r,
         NEW e2, e2 = IF kind = "handoff" THEN e \cup {Key(of)} ELSE e,
         kind = "handoff" => of \notin h,
         kind = "agent_started" => of \notin s,
         kind = "agent_done" => of \in s \ r
  PROVE  Heard(Append(f, Frame(kind, of)), h2, s2, r2, e2)
<1> DEFINE x == Frame(kind, of)
           g == Append(f, x)
<1>1. x.kind = kind /\ x.of = of
  BY DEF Frame
<1>2. Follows(g, h2, s2, r2)
  BY OneMoreFrame DEF Heard
<1> HIDE DEF x
<1>3. Shows(g, Len(g), <<>>)
  BY <1>1, ShowsNothing DEF Heard, Follows
<1>4. /\ Len(f) \in Nat /\ DOMAIN f = 1..Len(f) /\ DOMAIN g = 1..(Len(f) + 1)
      /\ \A i \in 1..Len(f) : g[i] = f[i]
      /\ g[Len(f) + 1] = x
  BY Appending DEF Heard, Follows
<1> HIDE DEF g
<1>5. e \subseteq e2 /\ (kind = "handoff" => Key(of) \in e2)
  OBVIOUS
<1>6. \A i \in DOMAIN g : (i \in DOMAIN f /\ g[i] = f[i]) \/ g[i] = x
  BY <1>4
<1>7. HandoffsKnown(g, e2)
  BY <1>1, <1>5, <1>6 DEF Heard, HandoffsKnown
<1>8. Heard(g, h2, s2, r2, e2)
  BY <1>2, <1>3, <1>7 DEF Heard
<1> QED BY <1>8 DEF g, x

\* A handoff that is recorded is told once.
LEMMA HearsHandoff ==
  ASSUME Heard(frames, handoffs, seen, results, emitted), NEW cleaned, RecordHandoff(cleaned)
  PROVE  Heard(frames \o HandoffFrames(cleaned), handoffs', seen, results, emitted')
<1>1. IsSequence(frames)
  BY DEF Heard, Follows
<1>2. CASE cleaned = <<>> \/ cleaned \in handoffs
  <2>1. HandoffFrames(cleaned) = <<>> /\ handoffs' = handoffs /\ emitted' = emitted
    BY <1>2 DEF HandoffFrames, RecordHandoff
  <2> QED BY <1>1, <2>1, Concatenating
<1>3. CASE ~(cleaned = <<>> \/ cleaned \in handoffs)
  <2>1. /\ HandoffFrames(cleaned) = <<Frame("handoff", cleaned)>>
        /\ handoffs' = handoffs \cup {cleaned} /\ emitted' = emitted \cup {Key(cleaned)}
    BY <1>3 DEF HandoffFrames, RecordHandoff
  <2>2. Heard(Append(frames, Frame("handoff", cleaned)), handoffs', seen, results, emitted')
    BY <1>3, <2>1, HearsMore
  <2>3. frames \o HandoffFrames(cleaned) = Append(frames, Frame("handoff", cleaned))
    BY <1>1, <2>1, Concatenating
  <2> QED BY <2>2, <2>3
<1> QED BY <1>2, <1>3

\* An agent's message tells of the handoff before it, the agent's start and its
\* answer, as far as they have not been told.
LEMMA HearsAgent ==
  ASSUME Heard(frames, handoffs, seen, results, emitted),
         NEW a \in Agents, NEW substantial \in BOOLEAN, AgentMessage(a, substantial)
  PROVE  Heard(frames', handoffs', seen', results', emitted')
<1> DEFINE cleaned == clean_handoff(Strip(Combined))
           f1 == frames \o HandoffFrames(cleaned)
           f2 == f1 \o (IF a \in seen THEN <<>> ELSE <<Frame("agent_started", a)>>)
           f3 == f2 \o AgentDoneFrames(a, substantial)
<1>1. /\ RecordHandoff(cleaned) /\ frames' = f3
      /\ seen' = seen \cup {a}
      /\ results' = IF substantial THEN results \cup {a} ELSE results
  BY DEF AgentMessage
<1>2. Heard(f1, handoffs', seen, results, emitted')
  BY <1>1, HearsHandoff
<1> HIDE DEF f1, cleaned
<1>3. Heard(f2, handoffs', seen', results, emitted')
  <2>1. IsSequence(f1)
    BY <1>2 DEF Heard, Follows
  <2>2. CASE a \in seen
    <3>1. f2 = f1
      BY <2>1, <2>2, Concatenating
    <3>2. seen' = seen
      BY <1>1, <2>2
    <3> HIDE DEF f2
    <3> QED BY <1>2, <3>1, <3>2
  <2>3. CASE a \notin seen
    <3>1. f2 = Append(f1, Frame("agent_started", a))
      BY <2>1, <2>3, Concatenating
    <3> HIDE DEF f2
    <3>2. Heard(Append(f1, Frame("agent_started", a)), handoffs', seen', results, emitted')
      BY <1>1, <1>2, <2>3, HearsMore
    <3> QED BY <3>1, <3>2
  <2> QED BY <2>2, <2>3
<1> HIDE DEF f2
<1>4. Heard(f3, handoffs', seen', results', emitted')
  <2>1. IsSequence(f2)
    BY <1>3 DEF Heard, Follows
  <2>2. CASE ~substantial \/ a \in results
    <3>1. f3 = f2
      BY <2>1, <2>2, Concatenating DEF AgentDoneFrames
    <3>2. results' = results
      BY <1>1, <2>2
    <3> HIDE DEF f3
    <3> QED BY <1>3, <3>1, <3>2
  <2>3. CASE substantial /\ a \notin results
    <3>1. f3 = Append(f2, Frame("agent_done", a))
      BY <2>1, <2>3, Concatenating DEF AgentDoneFrames
    <3>2. results' = results \cup {a} /\ a \in seen' \ results
      BY <1>1, <2>3
    <3> HIDE DEF f3
    <3>3. Heard(Append(f2, Frame("agent_done", a)), handoffs', seen', results', emitted')
      BY <1>3, <3>2, HearsMore
    <3> QED BY <3>1, <3>3
  <2> QED BY <2>2, <2>3
<1> QED BY <1>1, <1>4

\* What the invariant says while the graph runs.
LEMMA RunningFacts ==
  ASSUME IInv, phase = "running"
  PROVE  /\ Heard(frames, handoffs, seen, results, emitted)
         /\ outcome = "open" /\ parts = <<>> /\ stored = NoText
<1>1. outcome = "open"
  BY DEF IInv, TypeInv, TypeOK
<1>2. parts = <<>> /\ Streaming
  BY <1>1 DEF IInv, TypeInv, Streaming
<1>3. stored = NoText
  BY DEF IInv, ShownInv
<1>4. Shows(frames, Len(frames), <<>>)
  BY <1>2 DEF IInv, ShownInv
<1>5. HandoffsKnown(frames, emitted)
  BY DEF IInv, SourceInv, HandoffsKnown
<1> QED BY <1>1, <1>2, <1>3, <1>4, <1>5 DEF Heard, IInv

\* The frames after a step of the loop, or after its end.
LEMMA HeardSuffices ==
  ASSUME Heard(frames', handoffs', seen', results', emitted'), parts' = <<>>,
         stored' = NoText, phase' \in {"running", "flushing", "finished"}
  PROVE  Follows(frames, handoffs, seen, results)' /\ SourceInv' /\ ShownInv'
<1>1. Follows(frames', handoffs', seen', results')
  BY DEF Heard
<1>2. Shows(frames', Len(frames'), parts')
  BY DEF Heard
<1>3. \A i \in DOMAIN frames' : frames'[i].kind # "token"
  <2>1. Len(frames') \in Nat /\ DOMAIN frames' = 1..Len(frames') /\ Len(<<>>) = 0
    BY <1>1, Appending DEF Follows
  <2> QED BY <2>1 DEF Heard, Shows
<1>4. SourceInv'
  BY <1>3 DEF SourceInv, Heard, HandoffsKnown
<1>5. ShownInv'
  BY <1>2 DEF ShownInv
<1>6. Follows(frames, handoffs, seen, results)'
  BY <1>1 DEF Follows, IsSequence, Frame
<1> QED BY <1>4, <1>5, <1>6

\* A step of the loop, or its end.
LoopStep ==
  \/ \E t \in Texts : GraphValue(t) \/ InlineHandoff(t) \/ SupervisorChunk(t)
  \/ MiniAgentEvent \/ IgnoredMessage \/ AssembledMessage
  \/ \E a \in Agents, substantial \in BOOLEAN : AgentMessage(a, substantial)
  \/ GraphEnds \/ TimesOut \/ GraphFails

\* Its frames are about the run: handoffs, agents, and the error that ends it.
LEMMA LoopFrames ==
  ASSUME IInv, LoopStep
  PROVE  Follows(frames, handoffs, seen, results)' /\ SourceInv' /\ ShownInv'
<1>1. phase = "running"
  BY DEF LoopStep, GraphValue, InlineHandoff, SupervisorChunk, MiniAgentEvent,
         IgnoredMessage, AssembledMessage, AgentMessage, GraphEnds, TimesOut, GraphFails,
         BufferChunk, Receive, Fails
<1>2. /\ Heard(frames, handoffs, seen, results, emitted)
      /\ parts = <<>> /\ stored = NoText
  BY <1>1, RunningFacts
<1>3. /\ parts' = <<>> /\ stored' = NoText
      /\ phase' \in {"running", "flushing", "finished"}
  BY <1>1, <1>2
  DEF LoopStep, GraphValue, InlineHandoff, SupervisorChunk, MiniAgentEvent,
      IgnoredMessage, AssembledMessage, AgentMessage, GraphEnds, TimesOut, GraphFails,
      BufferChunk, Receive, Fails
<1>4. CASE UNCHANGED <<frames, emitted, handoffs, agents>>
  BY <1>2, <1>3, <1>4, HeardSuffices DEF agents
<1>5. CASE /\ \E kind \in {"mini", "error"} : frames' = Append(frames, Frame(kind, NoText))
           /\ UNCHANGED <<buffer, agents>>
  <2>1. PICK kind \in {"mini", "error"} : frames' = Append(frames, Frame(kind, NoText))
    BY <1>5
  <2>2. emitted' = emitted /\ handoffs' = handoffs /\ seen' = seen /\ results' = results
    BY <1>5 DEF buffer, agents
  <2>3. Heard(frames', handoffs', seen', results', emitted')
    BY <1>2, <2>1, <2>2, HearsMore
  <2> QED BY <1>3, <2>3, HeardSuffices
<1>6. CASE \E t \in Texts : InlineHandoff(t)
  <2>1. PICK t \in Texts : InlineHandoff(t)
    BY <1>6
  <2>2. /\ RecordHandoff(clean_handoff(t))
        /\ frames' = frames \o HandoffFrames(clean_handoff(t))
        /\ seen' = seen /\ results' = results
    BY <2>1 DEF InlineHandoff, agents
  <2>3. Heard(frames', handoffs', seen', results', emitted')
    BY <1>2, <2>2, HearsHandoff
  <2> QED BY <1>3, <2>3, HeardSuffices
<1>7. CASE \E a \in Agents, substantial \in BOOLEAN : AgentMessage(a, substantial)
  BY <1>2, <1>3, <1>7, HearsAgent, HeardSuffices
<1>8. \/ UNCHANGED <<frames, emitted, handoffs, agents>>
      \/ /\ \E kind \in {"mini", "error"} : frames' = Append(frames, Frame(kind, NoText))
         /\ UNCHANGED <<buffer, agents>>
      \/ \E t \in Texts : InlineHandoff(t)
      \/ \E a \in Agents, substantial \in BOOLEAN : AgentMessage(a, substantial)
  BY DEF LoopStep, GraphValue, SupervisorChunk, MiniAgentEvent, IgnoredMessage,
         AssembledMessage, GraphEnds, TimesOut, GraphFails, BufferChunk, Fails, buffer
<1> QED BY <1>4, <1>5, <1>6, <1>7, <1>8

\* The variables keep their types in the loop.
LEMMA LoopTypes ==
  ASSUME IInv, LoopStep
  PROVE  TypeInv'
<1>1. /\ TypeOK /\ chunks \in Seq(Seq(Characters)) /\ parts \in Seq(Seq(Characters))
      /\ said.text \in Seq(Characters)
  BY DEF IInv, TypeInv
<1>2. \A t \in Texts : t \in Seq(Characters)
  BY ConstantsAssumption
<1>3. /\ phase = "running" => outcome = "open" /\ parts = <<>>
      /\ events \in Nat /\ MaxEvents \in Nat
  BY <1>1, ConstantsAssumption DEF IInv, TypeInv, TypeOK
<1>4. Receive => phase = "running" /\ events' \in 0..MaxEvents
  BY <1>3 DEF Receive
<1>5. CASE \E t \in Texts : GraphValue(t)
  BY <1>1, <1>3, <1>4, <1>5 DEF GraphValue, TypeInv, TypeOK, buffer, agents
<1>6. CASE MiniAgentEvent \/ IgnoredMessage
  BY <1>1, <1>3, <1>4, <1>6
  DEF MiniAgentEvent, IgnoredMessage, TypeInv, TypeOK, buffer, agents
<1>7. CASE \E t \in Texts : InlineHandoff(t)
  <2>1. chunks' = <<>> /\ said'.text = <<>>
    BY <1>7 DEF InlineHandoff, RecordHandoff, Nothing
  <2> QED BY <1>1, <1>3, <1>4, <1>7, <2>1 DEF InlineHandoff, TypeInv, TypeOK, agents
<1>8. CASE \E a \in Agents, substantial \in BOOLEAN : AgentMessage(a, substantial)
  <2>1. chunks' = <<>> /\ said'.text = <<>>
    BY <1>8 DEF AgentMessage, RecordHandoff, Nothing
  <2>2. seen' \subseteq Agents /\ results' \subseteq seen' /\ agentsDone' = (seen' # {})
    BY <1>1, <1>8 DEF AgentMessage, TypeOK
  <2> QED BY <1>1, <1>3, <1>4, <1>8, <2>1, <2>2 DEF AgentMessage, TypeInv, TypeOK
<1>9. CASE \E t \in Texts : SupervisorChunk(t)
  <2>1. PICK t \in Texts : SupervisorChunk(t)
    BY <1>9
  <2>2. t \in Seq(Characters) /\ said.text \o t \in Seq(Characters)
    BY <1>1, <1>2, ConcatProperties
  <2>3. said'.text \in Seq(Characters)
    BY <1>1, <2>1, <2>2 DEF SupervisorChunk
  <2>4. Append(chunks, t) \in Seq(Seq(Characters))
    BY <1>1, <2>2, AppendProperties
  <2>5. chunks' \in Seq(Seq(Characters))
    BY <1>1, <2>1, <2>4 DEF SupervisorChunk, BufferChunk
  <2> QED BY <1>1, <1>3, <1>4, <2>1, <2>3, <2>5
          DEF SupervisorChunk, BufferChunk, TypeInv, TypeOK, agents
<1>10. CASE AssembledMessage
  <2>1. Append(chunks, said.text) \in Seq(Seq(Characters))
    BY <1>1, AppendProperties
  <2>2. chunks' \in Seq(Seq(Characters)) /\ said'.text \in Seq(Characters)
    BY <1>1, <1>10, <2>1 DEF AssembledMessage, BufferChunk
  <2> QED BY <1>1, <1>3, <1>4, <1>10, <2>2
          DEF AssembledMessage, BufferChunk, TypeInv, TypeOK, agents
<1>11. CASE GraphEnds \/ TimesOut \/ GraphFails
  BY <1>1, <1>3, <1>11
  DEF GraphEnds, TimesOut, GraphFails, Fails, TypeInv, TypeOK, Phases, Outcomes, buffer,
      agents
<1> QED BY <1>5, <1>6, <1>7, <1>8, <1>9, <1>10, <1>11 DEF LoopStep

-----------------------------------------------------------------------------
(* The buffer. *)

LEMMA FlattenNothing == FlattenSeq(<<>>) = <<>>
<1>1. Len(<<>>) = 0
  OBVIOUS
<1> QED BY <1>1 DEF FlattenSeq

\* What the invariant says of the buffer while the graph runs.
LEMMA RunningBuffer ==
  ASSUME IInv, phase = "running"
  PROVE  /\ chunks \in Seq(Seq(Characters)) /\ said.text \in Seq(Characters)
         /\ parts = <<>> /\ parts \o chunks = chunks
         /\ ~said.dropped => Combined = said.text
<1>1. chunks \in Seq(Seq(Characters)) /\ said.text \in Seq(Characters)
  BY DEF IInv, TypeInv
<1>2. parts = <<>> /\ Streaming
  BY RunningFacts DEF Streaming
<1>3. <<>> \o chunks = chunks
  BY <1>1, ConcatEmptySeq
<1> QED BY <1>1, <1>2, <1>3 DEF IInv, BufferInv, Combined

\* A chunk that is not skipped is put behind the others, and is no handoff.
LEMMA BufferGrows ==
  ASSUME IInv, phase = "running", NEW t \in Seq(Characters), BufferChunk(t)
  PROVE  /\ parts' = <<>> /\ parts' \o chunks' = chunks'
         /\ chunks' # <<>> => agentsDone'
         /\ \A i \in DOMAIN chunks' : Key(chunks'[i]) \notin emitted'
         /\ FlattenSeq(chunks') = IF agentsDone /\ ~Skipped(t) THEN Combined \o t
                                  ELSE Combined
<1>1. /\ chunks \in Seq(Seq(Characters)) /\ parts = <<>> /\ parts \o chunks = chunks
      /\ chunks # <<>> => agentsDone
      /\ \A i \in DOMAIN chunks : Key(chunks[i]) \notin emitted
  BY RunningBuffer DEF IInv, BufferInv
<1>2. parts' = parts /\ emitted' = emitted /\ agentsDone' = agentsDone
  BY DEF BufferChunk, agents
<1>3. CASE agentsDone /\ ~Skipped(t)
  <2>1. chunks' = Append(chunks, t) /\ Key(t) \notin emitted
    BY <1>3 DEF BufferChunk, Synthesizing, Skipped, already_emitted
  <2>2. IsSequence(chunks)
    BY <1>1 DEF IsSequence
  <2>3. \A i \in DOMAIN chunks' : chunks'[i] = t \/ (i \in DOMAIN chunks /\ chunks'[i] = chunks[i])
    BY <2>1, <2>2, Appending
  <2>4. chunks' \in Seq(Seq(Characters))
    BY <1>1, <2>1, AppendProperties
  <2>5. <<>> \o chunks' = chunks'
    BY <2>4, ConcatEmptySeq
  <2>6. FlattenSeq(chunks') = Combined \o t
    BY <1>1, <2>1, FlattenAppend DEF Combined
  <2> QED BY <1>1, <1>2, <1>3, <2>1, <2>3, <2>5, <2>6
<1>4. CASE ~(agentsDone /\ ~Skipped(t))
  <2>1. chunks' = chunks
    BY <1>4 DEF BufferChunk, Synthesizing
  <2> QED BY <1>1, <1>2, <1>4, <2>1 DEF Combined
<1> QED BY <1>3, <1>4

\* The buffer holds the text said, in the loop and when the graph ends.
LEMMA LoopBuffer ==
  ASSUME IInv, LoopStep
  PROVE  BufferInv'
<1>1. phase = "running"
  BY DEF LoopStep, GraphValue, InlineHandoff, SupervisorChunk, MiniAgentEvent,
         IgnoredMessage, AssembledMessage, AgentMessage, GraphEnds, TimesOut, GraphFails,
         BufferChunk, Receive, Fails
<1>2. /\ chunks \in Seq(Seq(Characters)) /\ said.text \in Seq(Characters)
      /\ parts = <<>> /\ parts \o chunks = chunks
      /\ ~said.dropped => Combined = said.text
  BY <1>1, RunningBuffer
<1>3. BufferInv /\ Streaming
  BY <1>1 DEF IInv, Streaming
<1>4. CASE UNCHANGED <<phase, buffer, agents, parts, said>>
  BY <1>3, <1>4 DEF BufferInv, Streaming, buffer, agents
<1>5. CASE GraphEnds
  BY <1>3, <1>5 DEF GraphEnds, BufferInv, Streaming, buffer, agents
<1>6. CASE TimesOut \/ GraphFails
  <2>1. /\ phase' = "finished" /\ outcome' # "normal"
        /\ chunks' = chunks /\ emitted' = emitted /\ agentsDone' = agentsDone
    BY <1>6 DEF TimesOut, GraphFails, Fails, buffer, agents
  <2> QED BY <1>3, <2>1 DEF BufferInv, Streaming
<1>7. CASE \/ \E t \in Texts : InlineHandoff(t)
           \/ \E a \in Agents, substantial \in BOOLEAN : AgentMessage(a, substantial)
  <2>1. /\ chunks' = <<>> /\ said' = Nothing /\ parts' = <<>> /\ phase' = "running"
    BY <1>1, <1>2, <1>7 DEF InlineHandoff, AgentMessage, RecordHandoff
  <2>2. <<>> \o <<>> = <<>> /\ said'.text = <<>> /\ DOMAIN chunks' = {}
    BY <2>1 DEF Nothing
  <2>3. FlattenSeq(parts' \o chunks') = said'.text
    BY <2>1, <2>2, FlattenNothing
  <2> QED BY <2>1, <2>2, <2>3 DEF BufferInv, Streaming
<1>8. CASE \E t \in Texts : SupervisorChunk(t)
  <2>1. PICK t \in Texts : SupervisorChunk(t)
    BY <1>8
  <2>2. BufferChunk(t) /\ t \in Seq(Characters) /\ phase' = "running"
    BY <1>1, <2>1, ConstantsAssumption DEF SupervisorChunk, BufferChunk
  <2>3. /\ parts' = <<>> /\ parts' \o chunks' = chunks'
        /\ chunks' # <<>> => agentsDone'
        /\ \A i \in DOMAIN chunks' : Key(chunks'[i]) \notin emitted'
        /\ FlattenSeq(chunks') = IF agentsDone /\ ~Skipped(t) THEN Combined \o t ELSE Combined
    BY <1>1, <2>2, BufferGrows
  <2>4. said' = IF agentsDone
                THEN [text |-> said.text \o t, dropped |-> said.dropped \/ Skipped(t)]
                ELSE said
    BY <2>1 DEF SupervisorChunk
  <2>5. ~said'.dropped => FlattenSeq(chunks') = said'.text
    <3>1. CASE agentsDone
      <4>1. said'.text = said.text \o t /\ said'.dropped = (said.dropped \/ Skipped(t))
        BY <2>4, <3>1
      <4> QED BY <1>2, <2>3, <3>1, <4>1
    <3>2. CASE ~agentsDone
      BY <1>2, <2>3, <2>4, <3>2
    <3> QED BY <3>1, <3>2
  <2> QED BY <2>2, <2>3, <2>5 DEF BufferInv, Streaming
<1>9. CASE AssembledMessage
  <2>1. BufferChunk(said.text) /\ said.text # <<>> /\ said' = said /\ phase' = "running"
    BY <1>1, <1>9 DEF AssembledMessage, BufferChunk
  <2>2. /\ parts' = <<>> /\ parts' \o chunks' = chunks'
        /\ chunks' # <<>> => agentsDone'
        /\ \A i \in DOMAIN chunks' : Key(chunks'[i]) \notin emitted'
        /\ FlattenSeq(chunks') = IF agentsDone /\ ~Skipped(said.text)
                                 THEN Combined \o said.text ELSE Combined
    BY <1>1, <1>2, <2>1, BufferGrows
  <2>3. ~said.dropped => Skipped(said.text)
    <3> SUFFICES ASSUME ~said.dropped PROVE would_duplicate(said.text)
      BY DEF Skipped
    <3>1. Combined = said.text
      BY <1>2
    <3>2. chunks # <<>>
      BY <2>1, <3>1, FlattenNothing DEF Combined
    <3>3. IsPrefix(said.text, Combined)
      BY <1>2, <3>1 DEF IsPrefix
    <3> QED BY <3>2, <3>3 DEF would_duplicate
  <2>4. ~said'.dropped => FlattenSeq(chunks') = said'.text
    BY <1>2, <2>1, <2>2, <2>3
  <2> QED BY <2>1, <2>2, <2>4 DEF BufferInv, Streaming
<1>10. \/ UNCHANGED <<phase, buffer, agents, parts, said>>
       \/ GraphEnds \/ TimesOut \/ GraphFails
       \/ \E t \in Texts : InlineHandoff(t)
       \/ \E a \in Agents, substantial \in BOOLEAN : AgentMessage(a, substantial)
       \/ \E t \in Texts : SupervisorChunk(t)
       \/ AssembledMessage
  BY DEF LoopStep, GraphValue, MiniAgentEvent, IgnoredMessage
<1> QED BY <1>4, <1>5, <1>6, <1>7, <1>8, <1>9, <1>10

-----------------------------------------------------------------------------
(* After the loop. *)

\* A token or a done frame behind the others leaves the order of the run alone.
LEMMA FollowsStill ==
  ASSUME Follows(frames, handoffs, seen, results), NEW kind \in {"token", "done"}, NEW of,
         frames' = Append(frames, Frame(kind, of)), UNCHANGED <<handoffs, seen, results>>
  PROVE  Follows(frames, handoffs, seen, results)'
<1>1. Follows(Append(frames, Frame(kind, of)), handoffs, seen, results)
  BY OneMoreFrame
<1>2. Follows(frames', handoffs', seen', results')
  BY <1>1
<1> QED BY <1>2 DEF Follows, IsSequence, Frame

\* Nothing about the sources of the frames changes with the frames.
LEMMA SourcesStay ==
  ASSUME SourceInv, UNCHANGED <<frames, emitted, final, parts>>, Streaming' => Streaming
  PROVE  SourceInv'
BY DEF SourceInv, Frame, Key

\* The first buffered chunk is shown.
LEMMA FlushChunkInv ==
  ASSUME IInv, FlushChunk
  PROVE  IInv'
<1> DEFINE h == Head(chunks)
           n == Len(frames)
<1>1. /\ chunks \in Seq(Seq(Characters)) /\ parts \in Seq(Seq(Characters)) /\ chunks # <<>>
      /\ phase = "flushing" /\ phase' = "flushing" /\ outcome = "normal" /\ outcome' = "normal"
      /\ chunks' = Tail(chunks) /\ UNCHANGED <<events, emitted, handoffs, agents, final, stored, said>>
  BY DEF IInv, TypeInv, FlushChunk, Flushes
<1>2. /\ h \in Seq(Characters) /\ Tail(chunks) \in Seq(Seq(Characters))
      /\ h = chunks[1] /\ 1 \in DOMAIN chunks
      /\ \A i \in DOMAIN Tail(chunks) : i + 1 \in DOMAIN chunks /\ Tail(chunks)[i] = chunks[i + 1]
  BY <1>1, HeadTailProperties
<1>3. Key(h) \notin emitted
  BY <1>2 DEF IInv, BufferInv
<1>4. parts' = Append(parts, h) /\ frames' = Append(frames, Frame("token", h))
  BY <1>3 DEF FlushChunk, Flushes, already_emitted, Emit
<1>5. parts' \in Seq(Seq(Characters))
  BY <1>1, <1>2, <1>4, AppendProperties
<1>6. parts' \o chunks' = parts \o chunks
  <2>1. chunks = <<h>> \o Tail(chunks)
    BY <1>1, HeadTailProperties
  <2>2. <<h>> \in Seq(Seq(Characters)) /\ Append(parts, h) = parts \o <<h>>
    BY <1>1, <1>2, AppendIsConcat
  <2>3. parts \in Seq(Seq(Characters)) /\ Tail(chunks) \in Seq(Seq(Characters))
    BY <1>1, <1>2
  <2> DEFINE Text == Seq(Characters)
             one == <<h>>
             rest == Tail(chunks)
  <2>4. parts \in Seq(Text) /\ one \in Seq(Text) /\ rest \in Seq(Text)
    BY <2>2, <2>3
  <2>5. chunks = one \o rest /\ parts' = parts \o one /\ chunks' = rest
    BY <1>1, <1>4, <2>1, <2>2
  <2> HIDE DEF Text, one, rest
  <2>6. (parts \o one) \o rest = parts \o (one \o rest)
    BY <2>4, ConcatAssociative
  <2> QED BY <2>5, <2>6
<1> HIDE DEF h
<1>7. TypeInv'
  BY <1>1, <1>2, <1>5 DEF IInv, TypeInv, TypeOK, agents
<1>8. Follows(frames, handoffs, seen, results)'
  BY <1>1, <1>4, FollowsStill DEF IInv, agents
<1>9. BufferInv'
  <2>1. Streaming /\ Streaming' /\ BufferInv
    BY <1>1 DEF Streaming, IInv
  <2>2. agentsDone' = agentsDone /\ emitted' = emitted /\ said' = said
    BY <1>1 DEF agents
  <2>3. \A i \in DOMAIN chunks' : Key(chunks'[i]) \notin emitted'
    BY <1>1, <1>2, <2>1, <2>2 DEF BufferInv
  <2>4. agentsDone
    BY <1>1, <2>1 DEF BufferInv
  <2> QED BY <1>6, <2>1, <2>2, <2>3, <2>4 DEF BufferInv
<1>10. IsSequence(frames) /\ IsSequence(parts)
  BY <1>1 DEF IInv, Follows, IsSequence
<1>11. SourceInv'
  <2>1. /\ n \in Nat /\ DOMAIN frames = 1..n /\ DOMAIN frames' = 1..(n + 1)
        /\ \A i \in 1..n : frames'[i] = frames[i]
        /\ frames'[n + 1] = Frame("token", h)
    BY <1>4, <1>10, Appending
  <2> HIDE DEF n
  <2>2. Streaming /\ SourceInv /\ emitted' = emitted
    BY <1>1 DEF Streaming, IInv
  <2>3. \E a \in Agents : \E k \in 1..n : frames[k] = Frame("agent_started", a)
    <3>1. PICK a \in seen : TRUE
      BY <1>1 DEF IInv, BufferInv, TypeInv, TypeOK
    <3>2. a \in Agents
      BY DEF IInv, TypeInv, TypeOK
    <3>3. \E k \in 1..n : frames[k] = Frame("agent_started", a)
      BY <2>1 DEF IInv, Follows
    <3> QED BY <3>2, <3>3
  <2>4. ASSUME NEW i \in 1..n
        PROVE  /\ frames'[i].kind = "handoff" => Key(frames'[i].of) \in emitted'
               /\ frames'[i].kind = "token" =>
                    /\ Key(frames'[i].of) \notin emitted'
                    /\ \E a \in Agents : \E k \in 1..(i - 1) :
                         frames'[k] = Frame("agent_started", a)
    <3>1. /\ frames[i].kind = "handoff" => Key(frames[i].of) \in emitted
          /\ frames[i].kind = "token" =>
               /\ Key(frames[i].of) \notin emitted
               /\ \E a \in Agents : \E k \in 1..(i - 1) :
                    frames[k] = Frame("agent_started", a)
      BY <2>1, <2>2 DEF SourceInv
    <3>2. frames'[i] = frames[i] /\ \A k \in 1..(i - 1) : frames'[k] = frames[k]
      BY <2>1
    <3> QED BY <2>2, <3>1, <3>2
  <2>5. /\ frames'[n + 1].kind = "token" /\ Key(frames'[n + 1].of) \notin emitted'
        /\ \E a \in Agents : \E k \in 1..((n + 1) - 1) : frames'[k] = Frame("agent_started", a)
    <3>1. frames'[n + 1].kind = "token" /\ frames'[n + 1].of = h
      BY <2>1 DEF Frame
    <3>2. (n + 1) - 1 = n
      BY <2>1
    <3> QED BY <1>3, <2>1, <2>2, <2>3, <3>1, <3>2
  <2>6. \A i \in DOMAIN frames' : i \in 1..n \/ i = n + 1
    BY <2>1
  <2>7. frames'[n + 1].kind # "handoff"
    BY <2>5
  <2>8. \A i \in DOMAIN frames' : frames'[i].kind = "handoff" => Key(frames'[i].of) \in emitted'
    BY <2>4, <2>6, <2>7
  <2>9. \A i \in DOMAIN frames' : frames'[i].kind = "token" =>
          /\ Key(frames'[i].of) \notin emitted'
          /\ \E a \in Agents : \E k \in 1..(i - 1) : frames'[k] = Frame("agent_started", a)
    <3> SUFFICES ASSUME NEW i \in DOMAIN frames', frames'[i].kind = "token"
                 PROVE  /\ Key(frames'[i].of) \notin emitted'
                        /\ \E a \in Agents : \E k \in 1..(i - 1) :
                             frames'[k] = Frame("agent_started", a)
      OBVIOUS
    <3>1. CASE i \in 1..n
      BY <2>4, <3>1
    <3>2. CASE i = n + 1
      BY <2>5, <3>2
    <3> QED BY <2>6, <3>1, <3>2
  <2> QED BY <2>8, <2>9 DEF SourceInv
<1>12. ShownInv'
  <2>1. Shows(frames, Len(frames), parts) /\ stored = NoText
    BY <1>1 DEF IInv, ShownInv, Streaming
  <2>2. Shows(frames', Len(frames'), parts')
    BY <1>4, <1>10, <2>1, ShowsToken
  <2> QED BY <1>1, <2>1, <2>2 DEF ShownInv
<1> QED BY <1>7, <1>8, <1>9, <1>11, <1>12 DEF IInv

\* The buffer is empty: nothing more is shown, unless nothing has been and the
\* graph has a final response.
LEMMA FlushEndsInv ==
  ASSUME IInv, FlushEnds
  PROVE  IInv'
<1>1. /\ chunks = <<>> /\ phase = "flushing" /\ phase' = "finished"
      /\ outcome = "normal" /\ outcome' = "normal"
      /\ UNCHANGED <<events, chunks, emitted, handoffs, seen, results, agentsDone, final,
                     stored, said>>
  BY DEF IInv, TypeInv, FlushEnds, buffer, agents
<1>2. /\ parts \in Seq(Seq(Characters)) /\ parts \o chunks = parts
      /\ IsSequence(frames) /\ IsSequence(parts)
  BY <1>1, ConcatEmptySeq DEF IInv, TypeInv, Follows, IsSequence
<1>3. Streaming /\ ~Streaming' /\ stored = NoText /\ Shows(frames, Len(frames), parts)
  BY <1>1 DEF Streaming, IInv, ShownInv
<1>4. ~said.dropped => Response = said.text
  BY <1>2, <1>3 DEF IInv, BufferInv, Response
<1>5. CASE parts = <<>> /\ final # NoText
  <2>1. parts' = Append(parts, final) /\ frames' = Append(frames, Frame("token", final))
    BY <1>5 DEF FlushEnds, Emit
  <2>2. final \in Seq(Characters)
    BY <1>5, ConstantsAssumption DEF IInv, TypeInv, TypeOK
  <2>3. parts' = <<final>> /\ parts' \in Seq(Seq(Characters))
    BY <1>5, <2>1, <2>2
  <2>4. TypeInv'
    BY <1>1, <2>3 DEF IInv, TypeInv, TypeOK, Phases, Outcomes
  <2>5. Follows(frames, handoffs, seen, results)'
    BY <1>1, <2>1, FollowsStill DEF IInv
  <2>6. BufferInv'
    <3>1. ~said.dropped => said.text = <<>>
      BY <1>4, <1>5, FlattenNothing DEF Response
    <3> QED BY <1>1, <1>3, <3>1 DEF IInv, BufferInv
  <2>7. SourceInv'
    <3>1. /\ DOMAIN frames = 1..Len(frames) /\ DOMAIN frames' = 1..(Len(frames) + 1)
          /\ \A i \in 1..Len(frames) : frames'[i] = frames[i]
          /\ frames'[Len(frames) + 1] = Frame("token", final) /\ Len(frames) \in Nat
      BY <1>2, <2>1, Appending
    <3>2. \A i \in DOMAIN frames' : frames'[i].kind = "handoff" =>
            i \in DOMAIN frames /\ frames'[i] = frames[i]
      BY <3>1 DEF Frame
    <3>3. \A i \in DOMAIN frames' :
            frames'[i].kind = "handoff" => Key(frames'[i].of) \in emitted'
      BY <1>1, <3>2 DEF IInv, SourceInv
    <3> QED BY <1>1, <1>3, <2>3, <3>3 DEF SourceInv
  <2>8. ShownInv'
    <3>1. Shows(frames', Len(frames'), parts')
      BY <1>2, <1>3, <2>1, ShowsToken
    <3> QED BY <1>1, <1>3, <3>1 DEF ShownInv
  <2> QED BY <2>4, <2>5, <2>6, <2>7, <2>8 DEF IInv
<1>6. CASE ~(parts = <<>> /\ final # NoText)
  <2>1. parts' = parts /\ frames' = frames
    BY <1>6 DEF FlushEnds
  <2>2. TypeInv'
    BY <1>1, <2>1 DEF IInv, TypeInv, TypeOK, Phases, Outcomes
  <2>3. Follows(frames, handoffs, seen, results)'
    BY <1>1, <2>1 DEF IInv, Follows, IsSequence, Frame
  <2>4. BufferInv'
    <3>1. Response' = Response
      BY <2>1 DEF Response
    <3> QED BY <1>1, <1>3, <1>4, <3>1 DEF IInv, BufferInv
  <2>5. SourceInv'
    BY <1>1, <1>3, <2>1, SourcesStay DEF IInv
  <2>6. ShownInv'
    BY <1>1, <1>3, <2>1 DEF ShownInv
  <2> QED BY <2>2, <2>3, <2>4, <2>5, <2>6 DEF IInv
<1> QED BY <1>5, <1>6

\* The done frame tells what has been shown.
LEMMA DoneInv ==
  ASSUME IInv, Done
  PROVE  IInv'
<1>1. /\ phase = "finished" /\ phase' = "persisting"
      /\ frames' = Append(frames, Frame("done", FlattenSeq(parts)))
      /\ UNCHANGED <<outcome, events, chunks, emitted, handoffs, seen, results, agentsDone,
                     final, parts, stored, said>>
  BY DEF Done, buffer, agents, Response
<1>2. /\ IsSequence(frames) /\ IsSequence(parts)
      /\ Shows(frames, Len(frames), parts) /\ stored = NoText
      /\ ~Streaming /\ ~Streaming'
  BY <1>1 DEF IInv, ShownInv, TypeInv, Follows, IsSequence, Streaming
<1>3. TypeInv'
  BY <1>1 DEF IInv, TypeInv, TypeOK, Phases
<1>4. Follows(frames, handoffs, seen, results)'
  BY <1>1, FollowsStill DEF IInv
<1>5. BufferInv'
  <2>1. Response' = Response
    BY <1>1 DEF Response
  <2> QED BY <1>1, <1>2, <2>1 DEF IInv, BufferInv
<1>6. SourceInv'
  <2>1. /\ DOMAIN frames = 1..Len(frames) /\ DOMAIN frames' = 1..(Len(frames) + 1)
        /\ \A i \in 1..Len(frames) : frames'[i] = frames[i]
        /\ frames'[Len(frames) + 1].kind = "done" /\ Len(frames) \in Nat
    BY <1>1, <1>2, Appending DEF Frame
  <2>2. \A i \in DOMAIN frames' : frames'[i].kind \in {"handoff", "token"} =>
          /\ i \in DOMAIN frames /\ frames'[i] = frames[i]
          /\ \A k \in 1..(i - 1) : frames'[k] = frames[k]
    BY <2>1
  <2>3. SourceInv /\ emitted' = emitted /\ parts' = parts /\ final' = final
    BY <1>1 DEF IInv
  <2>4. \A i \in DOMAIN frames' :
          frames'[i].kind = "handoff" => Key(frames'[i].of) \in emitted'
    BY <2>2, <2>3 DEF SourceInv
  <2>5. ASSUME NEW i \in DOMAIN frames', frames'[i].kind = "token"
        PROVE  \/ parts' = <<final'>>
               \/ /\ Key(frames'[i].of) \notin emitted'
                  /\ \E a \in Agents : \E k \in 1..(i - 1) :
                       frames'[k] = Frame("agent_started", a)
    <3>1. /\ i \in DOMAIN frames /\ frames'[i] = frames[i]
          /\ \A k \in 1..(i - 1) : frames'[k] = frames[k]
      BY <2>2, <2>5
    <3>2. \/ parts = <<final>>
          \/ /\ Key(frames[i].of) \notin emitted
             /\ \E a \in Agents : \E k \in 1..(i - 1) : frames[k] = Frame("agent_started", a)
      BY <2>3, <2>5, <3>1 DEF SourceInv
    <3> QED BY <2>3, <3>1, <3>2
  <2> QED BY <1>2, <2>4, <2>5 DEF SourceInv
<1>7. ShownInv'
  <2>1. Told(frames', parts')
    BY <1>1, <1>2, TellsShown
  <2> QED BY <1>1, <1>2, <2>1 DEF ShownInv, Streaming
<1> QED BY <1>3, <1>4, <1>5, <1>6, <1>7 DEF IInv

\* The turn is stored, or not, and the stream is over.
LEMMA EndsInv ==
  ASSUME IInv, Persist \/ Stop
  PROVE  IInv'
<1>1. /\ phase # "ended" /\ phase' = "ended"
      /\ UNCHANGED <<events, chunks, emitted, handoffs, seen, results, agentsDone, final,
                     parts, said>>
      /\ Persist => outcome' = outcome /\ phase = "persisting"
      /\ Stop => outcome' = "stopped"
  BY DEF Persist, Stop, buffer, agents
<1>2. frames' = frames /\ stored = NoText
  <2>1. stored = NoText
    BY <1>1 DEF IInv, ShownInv
  <2>2. phase = "running" => parts = <<>>
    BY RunningFacts
  <2> QED BY <2>1, <2>2 DEF Persist, Stop
<1>3. stored' # NoText => /\ outcome' # "errored" /\ phase = "persisting"
                          /\ stored' = Response
  BY <1>1, <1>2, RunningFacts DEF Persist, Stop, Stores
<1>4. Response' = Response /\ ~Streaming'
  BY <1>1 DEF Response, Streaming
<1>5. TypeInv'
  <2>1. outcome' \in Outcomes /\ outcome' # "open"
    BY <1>1 DEF IInv, TypeInv, TypeOK, Outcomes
  <2> QED BY <1>1, <2>1 DEF IInv, TypeInv, TypeOK, Phases
<1>6. Follows(frames, handoffs, seen, results)'
  BY <1>1, <1>2 DEF IInv, Follows, IsSequence, Frame
<1>7. BufferInv'
  <2>1. BufferInv /\ (outcome' = "normal" => outcome = "normal" /\ phase = "persisting")
    BY <1>1 DEF IInv
  <2> QED BY <1>1, <1>4, <2>1 DEF BufferInv, Streaming
<1>8. SourceInv'
  BY <1>1, <1>2, <1>4, SourcesStay DEF IInv
<1>9. ShownInv'
  <2>1. phase \in Phases
    BY DEF IInv, TypeInv, TypeOK
  <2>2. /\ phase # "persisting" => Shows(frames, Len(frames), parts)
        /\ phase = "persisting" => Told(frames, parts)
    BY <1>1, <2>1 DEF IInv, ShownInv, Streaming, Phases
  <2> QED BY <1>1, <1>2, <1>3, <1>4, <2>2 DEF ShownInv
<1> QED BY <1>5, <1>6, <1>7, <1>8, <1>9 DEF IInv

-----------------------------------------------------------------------------
(* The invariant holds. *)

LEMMA InitInv == Init => IInv
<1> SUFFICES ASSUME Init PROVE IInv
  OBVIOUS
<1>1. /\ phase = "running" /\ outcome = "open" /\ events = 0
      /\ chunks = <<>> /\ emitted = {} /\ handoffs = {}
      /\ seen = {} /\ results = {} /\ agentsDone = FALSE
      /\ final = NoText /\ parts = <<>> /\ frames = <<>>
      /\ stored = NoText /\ said.text = <<>>
  BY DEF Init, Nothing
<1>2. TypeInv
  <2>1. 0 \in 0..MaxEvents
    BY ConstantsAssumption
  <2>2. TypeOK
    BY <1>1, <2>1 DEF TypeOK, Phases, Outcomes
  <2>3. <<>> \in Seq(Seq(Characters)) /\ <<>> \in Seq(Characters)
    OBVIOUS
  <2> QED BY <1>1, <2>2, <2>3 DEF TypeInv
<1>3. Follows(frames, handoffs, seen, results)
  <2>1. IsSequence(frames) /\ DOMAIN frames = {}
    BY <1>1 DEF IsSequence
  <2> QED BY <1>1, <2>1 DEF Follows
<1>4. BufferInv
  <2>1. parts \o chunks = <<>> /\ DOMAIN chunks = {} /\ Streaming
    BY <1>1 DEF Streaming
  <2>2. FlattenSeq(parts \o chunks) = said.text
    BY <1>1, <2>1, FlattenNothing
  <2> QED BY <1>1, <2>1, <2>2 DEF BufferInv
<1>5. SourceInv
  BY <1>1 DEF SourceInv
<1>6. ShownInv
  <2>1. Len(frames) = 0 /\ Len(parts) = 0
    BY <1>1
  <2>2. Shows(frames, Len(frames), parts)
    BY <2>1 DEF Shows
  <2> QED BY <1>1, <2>2 DEF ShownInv
<1> QED BY <1>2, <1>3, <1>4, <1>5, <1>6 DEF IInv

LEMMA StepInv == IInv /\ [Next]_vars => IInv'
<1> SUFFICES ASSUME IInv, [Next]_vars PROVE IInv'
  OBVIOUS
<1>1. CASE LoopStep
  BY <1>1, LoopFrames, LoopTypes, LoopBuffer DEF IInv
<1>2. CASE FlushChunk
  BY <1>2, FlushChunkInv
<1>3. CASE FlushEnds
  BY <1>3, FlushEndsInv
<1>4. CASE Done
  BY <1>4, DoneInv
<1>5. CASE Persist \/ Stop
  BY <1>5, EndsInv
<1>6. CASE UNCHANGED vars
  <2>1. UNCHANGED <<phase, outcome, events, chunks, emitted, handoffs, seen, results,
                    agentsDone, final, parts, frames, stored, said>>
    BY <1>6 DEF vars, buffer, agents
  <2>2. TypeInv'
    BY <2>1 DEF IInv, TypeInv, TypeOK
  <2>3. Follows(frames, handoffs, seen, results)'
    BY <2>1 DEF IInv, Follows, IsSequence, Frame
  <2>4. Streaming' = Streaming /\ Response' = Response
    BY <2>1 DEF Streaming, Response
  <2>5. BufferInv'
    BY <2>1, <2>4 DEF IInv, BufferInv
  <2>6. SourceInv'
    BY <2>1, <2>4, SourcesStay DEF IInv
  <2>7. ShownInv'
    BY <2>1, <2>4 DEF IInv, ShownInv
  <2> QED BY <2>2, <2>3, <2>5, <2>6, <2>7 DEF IInv
<1>7. LoopStep \/ FlushChunk \/ FlushEnds \/ Done \/ Persist \/ Stop \/ UNCHANGED vars
  BY DEF Next, LoopStep, Over
<1> QED BY <1>1, <1>2, <1>3, <1>4, <1>5, <1>6, <1>7

LEMMA Invariant == Spec => []IInv
BY InitInv, StepInv, PTL DEF Spec

-----------------------------------------------------------------------------
(* What a client can rely on. *)

\* The loop of stream_supervisor_tokens keeps what it counts: agents that have
\* answered have started, and the run is over exactly when it has an outcome.
THEOREM TypeCorrect == Spec => []TypeOK
<1>1. IInv => TypeOK
  BY DEF IInv, TypeInv
<1> QED BY <1>1, Invariant, PTL

\* Where a frame can be.
LEMMA FramePositions ==
  ASSUME IInv
  PROVE  /\ Len(frames) \in Nat /\ DOMAIN frames = 1..Len(frames)
         /\ parts \in Seq(Seq(Characters))
         /\ Shows(frames, Len(frames), parts) \/ Told(frames, parts)
<1>1. Len(frames) \in Nat /\ DOMAIN frames = 1..Len(frames)
  BY Appending DEF IInv, Follows
<1>2. phase \in Phases /\ parts \in Seq(Seq(Characters))
  BY DEF IInv, TypeInv, TypeOK
<1>3. Shows(frames, Len(frames), parts) \/ Told(frames, parts)
  BY <1>2 DEF IInv, ShownInv, Streaming, Phases
<1> QED BY <1>1, <1>2, <1>3

\* The SSE frames of stream_supervisor_tokens come in an order a client can
\* follow: no token before the graph has finished, each handoff and each agent's
\* start and answer once, an answer after its start, tokens after an agent.
THEOREM FramesInOrder == Spec => []FramesFollowTheRun
<1>1. ASSUME IInv PROVE FramesFollowTheRun
  <2>1. ASSUME outcome \in {"open", "timedout", "errored"}
        PROVE  parts = <<>> /\ \A i \in DOMAIN frames : frames[i].kind # "token"
    <3>1. parts = <<>> /\ Len(<<>>) = 0
      BY <1>1, <2>1 DEF IInv, TypeInv
    <3>2. Len(frames) \in Nat /\ DOMAIN frames = 1..Len(frames)
      BY <1>1, FramePositions
    <3>3. CASE Shows(frames, Len(frames), parts)
      BY <3>1, <3>2, <3>3 DEF Shows
    <3>4. CASE Told(frames, parts)
      <4>1. frames[Len(frames)].kind = "done"
        BY <3>4 DEF Told, Frame
      <4>2. \A i \in 1..(Len(frames) - 1) : frames[i].kind # "token"
        BY <3>1, <3>2, <3>4 DEF Told, Shows
      <4>3. \A i \in DOMAIN frames : i = Len(frames) \/ i \in 1..(Len(frames) - 1)
        BY <3>2
      <4> QED BY <3>1, <4>1, <4>2, <4>3
    <3> QED BY <1>1, <3>3, <3>4, FramePositions
  <2>2. \A i, j \in DOMAIN frames :
          frames[i] = frames[j] /\ frames[i].kind \in {"handoff", "agent_started", "agent_done"}
            => i = j
    BY <1>1 DEF IInv, Follows
  <2>3. \A i \in DOMAIN frames : frames[i].kind = "agent_done" =>
          \E k \in 1..(i - 1) : frames[k] = Frame("agent_started", frames[i].of)
    BY <1>1 DEF IInv, Follows
  <2>4. \A i \in DOMAIN frames : frames[i].kind = "token" =>
          \/ parts = <<final>>
          \/ \E a \in Agents : \E k \in 1..(i - 1) : frames[k] = Frame("agent_started", a)
    BY <1>1 DEF IInv, SourceInv
  <2> QED BY <2>1, <2>2, <2>3, <2>4 DEF FramesFollowTheRun
<1> QED BY <1>1, Invariant, PTL

\* SupervisorTokenBuffer keeps a handoff out of the answer: flush_as_tokens yields
\* nothing whose key went out as a handoff.
THEOREM HandoffsStayHandoffs == Spec => []TokensAreNotHandoffs
<1>1. ASSUME IInv PROVE TokensAreNotHandoffs
  <2> SUFFICES ASSUME NEW i \in DOMAIN frames, NEW j \in DOMAIN frames,
                      frames[i].kind = "handoff", frames[j].kind = "token",
                      Key(frames[i].of) = Key(frames[j].of)
               PROVE  parts = <<final>>
    BY DEF TokensAreNotHandoffs
  <2>1. Key(frames[i].of) \in emitted
    BY <1>1 DEF IInv, SourceInv
  <2>2. parts = <<final>> \/ Key(frames[j].of) \notin emitted
    BY <1>1 DEF IInv, SourceInv
  <2> QED BY <2>1, <2>2
<1> QED BY <1>1, Invariant, PTL

\* The done frame behind the tokens tells their text.
LEMMA DoneTellsTokens ==
  ASSUME IInv, NEW d \in DOMAIN frames, frames[d].kind = "done"
  PROVE  /\ d = Len(frames)
         /\ \E first \in 1..d :
              /\ \A i \in 1..(d - 1) : frames[i].kind = "token" <=> i >= first
              /\ frames[d].of = FlattenSeq([i \in 1..(d - first) |-> frames[first + i - 1].of])
<1> DEFINE n == Len(frames)
           m == Len(parts)
           first == n - m
<1>1. n \in Nat /\ DOMAIN frames = 1..n /\ parts \in Seq(Seq(Characters))
  BY FramePositions
<1>2. ~Shows(frames, n, parts)
  BY <1>1 DEF Shows
<1>3. Told(frames, parts)
  BY <1>2, FramePositions
<1>4. Shows(frames, n - 1, parts) /\ frames[n] = Frame("done", FlattenSeq(parts)) /\ n # 0
  BY <1>3 DEF Told
<1>5. m \in Nat /\ parts = [i \in 1..m |-> parts[i]]
  BY <1>1
<1> HIDE DEF n, m
<1>6. /\ m <= n - 1
      /\ \A i \in 1..(n - 1) :
           frames[i].kind # "done" /\ (frames[i].kind = "token" <=> i > (n - 1) - m)
      /\ \A i \in 1..m : frames[((n - 1) - m) + i].of = parts[i]
  BY <1>4 DEF Shows, m
<1>7. d = n
  <2>1. d = n \/ d \in 1..(n - 1)
    BY <1>1
  <2> QED BY <1>6, <2>1
<1>8. first \in 1..n /\ n - first = m
  BY <1>1, <1>4, <1>5, <1>6
<1>9. \A i \in 1..(n - 1) : frames[i].kind = "token" <=> i >= first
  <2>1. \A i \in 1..(n - 1) : (i > (n - 1) - m) <=> (i >= first)
    BY <1>1, <1>5
  <2> QED BY <1>6, <2>1
<1>10. [i \in 1..(n - first) |-> frames[first + i - 1].of] = parts
  <2>1. \A i \in 1..m : first + i - 1 = ((n - 1) - m) + i
    BY <1>1, <1>5
  <2>2. \A i \in 1..m : frames[first + i - 1].of = parts[i]
    BY <1>6, <2>1
  <2> HIDE DEF first
  <2> QED BY <1>5, <1>8, <2>2
<1>11. frames[d].of = FlattenSeq(parts)
  BY <1>4, <1>7 DEF Frame
<1> HIDE DEF first
<1>12. /\ first \in 1..d
       /\ \A i \in 1..(d - 1) : frames[i].kind = "token" <=> i >= first
       /\ frames[d].of = FlattenSeq([i \in 1..(d - first) |-> frames[first + i - 1].of])
  BY <1>7, <1>8, <1>9, <1>10, <1>11
<1> QED BY <1>7, <1>12 DEF n

\* What stream_supervisor_tokens stores is what the client was told in the done
\* frame, the text of its tokens, and a run that failed leaves no assistant row.
THEOREM WhatIsStoredWasShown == Spec => []StoredIsWhatWasShown
<1>1. ASSUME IInv PROVE StoredIsWhatWasShown
  <2>1. ASSUME stored # NoText
        PROVE  /\ outcome # "errored"
               /\ frames # <<>> /\ Last(frames) = Frame("done", stored)
    <3>1. outcome # "errored" /\ Told(frames, parts) /\ stored = Response
      BY <1>1, <2>1 DEF IInv, ShownInv
    <3>2. Len(frames) # 0 /\ frames[Len(frames)] = Frame("done", stored)
      BY <3>1 DEF Told, Response
    <3>3. frames # <<>>
      <4>1. Len(<<>>) = 0
        OBVIOUS
      <4> QED BY <3>2, <4>1
    <3> QED BY <3>1, <3>2, <3>3 DEF Last
  <2>2. \A d \in DOMAIN frames : frames[d].kind = "done" =>
          /\ d = Len(frames)
          /\ \E first \in 1..d :
               /\ \A i \in 1..(d - 1) : frames[i].kind = "token" <=> i >= first
               /\ frames[d].of = FlattenSeq([i \in 1..(d - first) |-> frames[first + i - 1].of])
    BY <1>1, DoneTellsTokens
  <2> QED BY <2>1, <2>2 DEF StoredIsWhatWasShown
<1> QED BY <1>1, Invariant, PTL

\* SupervisorTokenBuffer.would_duplicate keeps the assembled message out, and
\* flush_as_tokens nothing else: the answer is the text the graph streamed, once.
THEOREM AnswerOnce == Spec => []AnswerIsShownOnce
<1>1. ASSUME IInv PROVE AnswerIsShownOnce
  <2>1. BufferInv
    BY <1>1 DEF IInv
  <2> QED BY <2>1 DEF BufferInv, Streaming, AnswerIsShownOnce
<1> QED BY <1>1, Invariant, PTL

=============================================================================
