-------------------------- MODULE SchedulesProofs --------------------------
(***************************************************************************)
(* Schedules for every number of patches and producers: types, one cadence *)
(* as long as no body names two, and producers that run what is stored     *)
(* unless the patch that stored it owes them a refresh.                    *)
(***************************************************************************)
EXTENDS Schedules, TLAPS

\* The row a patch builds is a record again.
LEMMA MergedType ==
  ASSUME NEW body \in Body, NEW seen \in Record
  PROVE  Merged(body, seen) \in Record
BY SchedulesAssumption DEF Merged, Body, Record

\* A cadence that a body names is a cadence.
LEMMA CadenceType ==
  ASSUME NEW record \in Record
  PROVE  CadenceOf(record) \in Cadence
BY DEF CadenceOf, Record, Cadence

\* The other handlers stay as they are.
LEMMA BecomesOnly ==
  ASSUME req \in [Patches -> Handler], NEW p \in Patches, NEW q \in Handler, Becomes(p, q)
  PROVE  /\ req' \in [Patches -> Handler]
         /\ req'[p] = q
         /\ \A x \in Patches : x # p => req'[x] = req[x]
BY DEF Becomes

\* Handler p goes on as q, and row and live keep their types.
LEMMA TypeOfStep ==
  ASSUME TypeOK, NEW p \in Patches, NEW q \in Handler, Becomes(p, q),
         q.at # "idle", HasRead(q) => q.body \in Body /\ q.seen \in Record,
         row' \in Record, live' \in [Producers -> Cadence]
  PROVE  TypeOK'
<1>1. /\ req' \in [Patches -> Handler]
      /\ \A x \in Patches : req'[x] = IF x = p THEN q ELSE req[x]
  BY BecomesOnly DEF TypeOK
<1> QED BY <1>1 DEF TypeOK

\* Types are right at first.
LEMMA TypeInit == Init => TypeOK
<1> SUFFICES ASSUME Init PROVE TypeOK
  OBVIOUS
<1>1. row \in Record /\ live \in [Producers -> Cadence]
  BY CadenceType DEF Init
<1>2. IdlePatch \in Handler /\ ~HasRead(IdlePatch)
  BY DEF IdlePatch, Handler, PatchPoints, HasRead
<1>3. \A p \in Patches : req[p] = IdlePatch
  BY DEF Init
<1> QED BY <1>1, <1>2, <1>3 DEF TypeOK, Init

\* What a patch has stored, if it has stored something.
Stored(p) == CadenceOf(Merged(req[p].body, req[p].seen))

\* What an upsert does to its handler and to the row.
LEMMA UpsertFacts ==
  ASSUME TypeOK, NEW p \in Patches, Upsert(p)
  PROVE  \E q \in Handler :
           /\ Becomes(p, q) /\ q.todo = Producers /\ q.at = "refresh"
           /\ q.body = req[p].body /\ q.seen = req[p].seen
           /\ q.body \in Body /\ q.seen \in Record
           /\ row' = Merged(q.body, q.seen) /\ live' = live
<1> DEFINE q == [req[p] EXCEPT !.at = "refresh", !.todo = Producers]
<1>1. req[p] \in Handler /\ req[p].body \in Body /\ req[p].seen \in Record
  BY DEF TypeOK, HasRead, Upsert
<1>2. /\ q \in Handler /\ q.todo = Producers /\ q.at = "refresh"
      /\ q.body = req[p].body /\ q.seen = req[p].seen
  BY <1>1 DEF Handler, PatchPoints
<1>3. Becomes(p, q) /\ row' = Merged(req[p].body, req[p].seen) /\ live' = live
  BY DEF Upsert
<1> HIDE DEF q
<1> QED BY <1>1, <1>2, <1>3

\* Every step keeps the types and leaves each handler at an await of its own.
LEMMA TypeStep == TypeOK /\ [Next]_vars => TypeOK'
<1> SUFFICES ASSUME TypeOK, [Next]_vars PROVE TypeOK'
  OBVIOUS
<1> USE DEF Handler, PatchPoints
<1>1. ASSUME NEW p \in Patches, NEW body \in Body, NEW refused \in BOOLEAN,
             ReadRow(p, body, refused)
      PROVE  TypeOK'
  <2> DEFINE q == IF refused
                  THEN [IdlePatch EXCEPT !.at = "ended", !.body = body, !.reply = "notfound"]
                  ELSE [IdlePatch EXCEPT !.at = "read", !.body = body, !.seen = row]
  <2>1. row \in Record /\ Becomes(p, q) /\ row' = row /\ live' = live
    BY <1>1 DEF ReadRow, TypeOK
  <2>2. /\ q \in Handler /\ q.at # "idle"
        /\ HasRead(q) => q.body \in Body /\ q.seen \in Record
    BY <2>1 DEF IdlePatch, HasRead
  <2> HIDE DEF q
  <2> QED BY <2>1, <2>2, TypeOfStep DEF TypeOK
<1>2. ASSUME NEW p \in Patches, Upsert(p) PROVE TypeOK'
  <2>1. PICK q \in Handler :
          /\ Becomes(p, q) /\ q.body \in Body /\ q.seen \in Record /\ q.at = "refresh"
          /\ row' = Merged(q.body, q.seen) /\ live' = live
    BY <1>2, UpsertFacts
  <2>2. row' \in Record
    BY <2>1, MergedType
  <2> QED BY <2>1, <2>2, TypeOfStep DEF TypeOK
<1>3. ASSUME NEW p \in Patches, NEW s \in Producers, Refresh(p, s) PROVE TypeOK'
  <2> DEFINE q == [req[p] EXCEPT !.todo = req[p].todo \ {s}]
  <2>1. Becomes(p, q) /\ q \in Handler /\ row' = row /\ req[p].at = "refresh"
    BY <1>3 DEF Refresh, TypeOK
  <2>2. q.body \in Body /\ q.seen \in Record /\ q.at # "idle"
    BY <2>1 DEF TypeOK, HasRead
  <2>3. live' \in [Producers -> Cadence]
    BY <1>3, CadenceType DEF Refresh, Runs, TypeOK
  <2> HIDE DEF q
  <2> QED BY <2>1, <2>2, <2>3, TypeOfStep DEF TypeOK
<1>4. ASSUME NEW p \in Patches, NEW s \in Producers, RefreshRaises(p, s) PROVE TypeOK'
  <2> DEFINE q == AfterRefreshRaises(req[p], s)
  <2>1. Becomes(p, q) /\ q \in Handler /\ row' = row /\ live' = live /\ req[p].at = "refresh"
    BY <1>4 DEF RefreshRaises, AfterRefreshRaises, TypeOK
  <2>2. q.body \in Body /\ q.seen \in Record /\ q.at # "idle"
    BY <2>1 DEF TypeOK, HasRead, AfterRefreshRaises
  <2> HIDE DEF q
  <2> QED BY <2>1, <2>2, TypeOfStep DEF TypeOK
<1>5. ASSUME NEW p \in Patches, Respond(p) PROVE TypeOK'
  <2> DEFINE q == [req[p] EXCEPT !.at = "ended", !.reply = "ok"]
  <2>1. Becomes(p, q) /\ q \in Handler /\ row' = row /\ live' = live /\ req[p].at = "refresh"
    BY <1>5 DEF Respond, TypeOK
  <2>2. q.body \in Body /\ q.seen \in Record /\ q.at # "idle"
    BY <2>1 DEF TypeOK, HasRead
  <2> HIDE DEF q
  <2> QED BY <2>1, <2>2, TypeOfStep DEF TypeOK
<1>6. ASSUME NEW p \in Patches, Abandon(p) PROVE TypeOK'
  <2> DEFINE q == [req[p] EXCEPT !.at = "ended", !.reply = "failed"]
  <2>1. /\ Becomes(p, q) /\ q \in Handler /\ row' = row /\ live' = live
        /\ req[p].at \in {"read", "refresh"}
    BY <1>6 DEF Abandon, TypeOK
  <2>2. q.body \in Body /\ q.seen \in Record /\ q.at # "idle"
    BY <2>1 DEF TypeOK, HasRead
  <2> HIDE DEF q
  <2> QED BY <2>1, <2>2, TypeOfStep DEF TypeOK
<1>7. ASSUME NEW s \in Producers, Fire(s) PROVE TypeOK'
  <2>1. row' \in Record
    BY <1>7, SchedulesAssumption DEF Fire, Record, TypeOK
  <2> QED BY <1>7, <2>1 DEF Fire, TypeOK
<1>8. CASE UNCHANGED vars
  BY <1>8 DEF vars, TypeOK
<1> QED BY <1>1, <1>2, <1>3, <1>4, <1>5, <1>6, <1>7, <1>8 DEF Next, AllServed

\* Types are right in every reachable state, and no handler forgets what it read.
THEOREM TypeCorrect == Spec => []TypeOK
BY TypeInit, TypeStep, PTL DEF Spec

-----------------------------------------------------------------------------
(* Producers follow. *)

\* What p has stored does not change while p goes on with the same body and row.
LEMMA FollowStep == TypeOK /\ ProducersFollow /\ [Next]_vars => ProducersFollow'
<1> SUFFICES ASSUME TypeOK, ProducersFollow, [Next]_vars,
                    NEW s \in Producers
             PROVE  \/ live'[s] = CadenceOf(row')
                    \/ \E p \in Patches :
                         /\ s \in req'[p].todo \cup req'[p].raised
                         /\ CadenceOf(Merged(req'[p].body, req'[p].seen)) = CadenceOf(row')
  BY DEF ProducersFollow, Owes
<1> DEFINE Follows == \/ live'[s] = CadenceOf(row')
                      \/ \E p \in Patches :
                           /\ s \in req'[p].todo \cup req'[p].raised
                           /\ CadenceOf(Merged(req'[p].body, req'[p].seen)) = CadenceOf(row')
<1>0. \/ live[s] = CadenceOf(row)
      \/ \E p \in Patches : s \in req[p].todo \cup req[p].raised /\ Stored(p) = CadenceOf(row)
  BY DEF ProducersFollow, Owes, Stored
\* A step of p that leaves the row alone, and takes no debt of s from p.
<1>1. ASSUME NEW p \in Patches, NEW q \in Handler, Becomes(p, q),
             CadenceOf(row') = CadenceOf(row), live'[s] = live[s],
             s \in req[p].todo \cup req[p].raised =>
               /\ s \in q.todo \cup q.raised
               /\ q.body = req[p].body /\ q.seen = req[p].seen
      PROVE  Follows
  <2>1. req'[p] = q /\ \A x \in Patches : x # p => req'[x] = req[x]
    BY <1>1, BecomesOnly DEF TypeOK
  <2> QED BY <1>0, <1>1, <2>1 DEF Stored
<1>2. ASSUME NEW p \in Patches, NEW body \in Body, NEW refused \in BOOLEAN,
             ReadRow(p, body, refused)
      PROVE  Follows
  <2> DEFINE q == IF refused
                  THEN [IdlePatch EXCEPT !.at = "ended", !.body = body, !.reply = "notfound"]
                  ELSE [IdlePatch EXCEPT !.at = "read", !.body = body, !.seen = row]
  <2>1. row \in Record /\ Becomes(p, q) /\ row' = row /\ live' = live /\ req[p].at = "idle"
    BY <1>2 DEF ReadRow, TypeOK
  <2>2. q \in Handler
    BY <2>1 DEF IdlePatch, Handler, PatchPoints
  <2>3. req[p].todo = {} /\ req[p].raised = {}
    <3>1. req[p] = IdlePatch
      BY <2>1 DEF TypeOK
    <3> QED BY <3>1 DEF IdlePatch
  <2> HIDE DEF q
  <2> QED BY <1>1, <2>1, <2>2, <2>3
<1>3. ASSUME NEW p \in Patches, Upsert(p) PROVE Follows
  <2>1. PICK q \in Handler :
          Becomes(p, q) /\ q.todo = Producers /\ row' = Merged(q.body, q.seen)
    BY <1>3, UpsertFacts
  <2>2. req'[p] = q
    BY <2>1, BecomesOnly DEF TypeOK
  <2> QED BY <2>1, <2>2
<1>4. ASSUME NEW p \in Patches, NEW x \in Producers, Refresh(p, x) PROVE Follows
  <2> DEFINE q == [req[p] EXCEPT !.todo = req[p].todo \ {x}]
  <2>1. Becomes(p, q) /\ q \in Handler /\ row' = row
    BY <1>4 DEF Refresh, TypeOK, Handler
  <2>2. CASE x = s
    <3>1. live'[s] = CadenceOf(row')
      BY <1>4, <2>2 DEF Refresh, Runs, TypeOK
    <3> QED BY <3>1
  <2>3. CASE x # s
    <3>1. /\ live'[s] = live[s]
          /\ s \in req[p].todo => s \in q.todo
          /\ q.raised = req[p].raised /\ q.body = req[p].body /\ q.seen = req[p].seen
      BY <1>4, <2>3 DEF Refresh, TypeOK, Handler
    <3> HIDE DEF q
    <3> QED BY <1>1, <2>1, <3>1
  <2> QED BY <2>2, <2>3
<1>5. ASSUME NEW p \in Patches, NEW x \in Producers, RefreshRaises(p, x) PROVE Follows
  <2> DEFINE q == AfterRefreshRaises(req[p], x)
  <2>1. /\ Becomes(p, q) /\ q \in Handler /\ row' = row /\ live' = live
        /\ s \in req[p].todo \cup req[p].raised => s \in q.todo \cup q.raised
        /\ q.body = req[p].body /\ q.seen = req[p].seen
    BY <1>5 DEF RefreshRaises, AfterRefreshRaises, TypeOK, Handler
  <2> HIDE DEF q
  <2> QED BY <1>1, <2>1
<1>6. ASSUME NEW p \in Patches, Respond(p) \/ Abandon(p) PROVE Follows
  <2>1. PICK reply \in {"ok", "failed"} :
          Becomes(p, [req[p] EXCEPT !.at = "ended", !.reply = reply])
    BY <1>6 DEF Respond, Abandon
  <2> DEFINE q == [req[p] EXCEPT !.at = "ended", !.reply = reply]
  <2>2. /\ Becomes(p, q) /\ q \in Handler /\ row' = row /\ live' = live
        /\ q.todo = req[p].todo /\ q.raised = req[p].raised
        /\ q.body = req[p].body /\ q.seen = req[p].seen
    BY <1>6, <2>1 DEF Respond, Abandon, TypeOK, Handler, PatchPoints
  <2> HIDE DEF q
  <2> QED BY <1>1, <2>2
<1>7. ASSUME NEW x \in Producers, Fire(x) PROVE Follows
  <2>1. CadenceOf(row') = CadenceOf(row) /\ live' = live /\ req' = req
    BY <1>7 DEF Fire, CadenceOf, TypeOK, Record
  <2> QED BY <1>0, <2>1 DEF Stored
<1>8. CASE UNCHANGED vars
  BY <1>0, <1>8 DEF vars, Stored
<1> QED BY <1>2, <1>3, <1>4, <1>5, <1>6, <1>7, <1>8 DEF Next, AllServed

\* Whatever patches overlap and whichever refreshes raise, a producer runs what is
\* stored unless the very patch that stored it has not refreshed it.
THEOREM ProducersAreRefreshed == Spec => []ProducersFollow
<1>1. Init => ProducersFollow
  BY DEF Init, ProducersFollow
<1> QED BY <1>1, FollowStep, TypeCorrect, PTL DEF Spec

\* A patch that nothing overtook changes what its body decides and nothing else.
THEOREM PatchesChangeWhatTheyName == Spec => PatchesOnlyWhatItNames
<1>1. TypeOK /\ [Next]_vars =>
        [\A p \in Patches :
          (req[p].at = "read" /\ req'[p].at = "refresh" /\ req[p].seen = row) =>
            LET body == req[p].body IN
            /\ row'.fired = row.fired
            /\ body.enabled = None => row'.enabled = row.enabled
            /\ body.cron = None /\ body.interval = None =>
                 row'.cron = row.cron /\ row'.interval = row.interval]_vars
  <2> SUFFICES ASSUME TypeOK, [Next]_vars, NEW p \in Patches,
                      req[p].at = "read", req'[p].at = "refresh", req[p].seen = row
               PROVE  LET body == req[p].body IN
                      /\ row'.fired = row.fired
                      /\ body.enabled = None => row'.enabled = row.enabled
                      /\ body.cron = None /\ body.interval = None =>
                           row'.cron = row.cron /\ row'.interval = row.interval
    OBVIOUS
  <2>1. Upsert(p)
    <3>1. req \in [Patches -> Handler]
      BY DEF TypeOK
    <3>2. ASSUME NEW x \in Patches, NEW q, Becomes(x, q)
          PROVE  x = p /\ q.at = "refresh"
      BY <3>1, <3>2 DEF Becomes
    <3>3. ASSUME NEW x \in Patches, NEW body \in Body, NEW refused \in BOOLEAN,
                 ReadRow(x, body, refused)
          PROVE  FALSE
      BY <3>2, <3>3 DEF ReadRow
    <3>4. ASSUME NEW x \in Patches, NEW s \in Producers,
                 Refresh(x, s) \/ RefreshRaises(x, s)
          PROVE  FALSE
      BY <3>2, <3>4 DEF Refresh, RefreshRaises
    <3>5. ASSUME NEW x \in Patches, Respond(x) PROVE FALSE
      BY <3>2, <3>5 DEF Respond
    <3>6. ASSUME NEW x \in Patches, Abandon(x) PROVE FALSE
      <4>1. Becomes(x, [req[x] EXCEPT !.at = "ended", !.reply = "failed"])
        BY <3>6 DEF Abandon
      <4>2. req[x] \in Handler
        BY <3>1
      <4>3. [req[x] EXCEPT !.at = "ended", !.reply = "failed"].at = "ended"
        BY <4>2 DEF Handler
      <4> QED BY <3>2, <4>1, <4>3
    <3>7. ASSUME NEW x \in Patches, Upsert(x) PROVE Upsert(p)
      BY <3>2, <3>7 DEF Upsert
    <3>8. req' # req
      OBVIOUS
    <3> QED BY <3>3, <3>4, <3>5, <3>6, <3>7, <3>8 DEF Next, AllServed, vars, Fire
  <2> QED BY <2>1 DEF Upsert, Merged, TypeOK, HasRead, Body, Record
<1> QED BY <1>1, TypeCorrect, PTL DEF Spec, PatchesOnlyWhatItNames

-----------------------------------------------------------------------------
(* One cadence. *)

OneOf(record) == record.cron = None <=> record.interval # None

\* Also what the handlers have read has one cadence, unless a body names two.
OneInv ==
  (\A p \in Patches : ~NamesBoth(p)) =>
    /\ OneOf(row)
    /\ \A p \in Patches : req[p].at = "read" => OneOf(req[p].seen)

\* Merged with a body that names one cadence at most, a row has one of the two.
LEMMA MergedIsOne ==
  ASSUME NEW body \in Body, NEW seen \in Record, OneOf(seen),
         body.cron = None \/ body.interval = None
  PROVE  OneOf(Merged(body, seen))
BY DEF OneOf, Merged, Body, Record

\* A step of handler p to q; a body that names two cadences stays.
LEMMA OneByHandler ==
  ASSUME TypeOK, OneInv, NEW p \in Patches, NEW q \in Handler, Becomes(p, q),
         req[p].body # None => q.body = req[p].body,
         OneOf(row) => OneOf(row'),
         q.at = "read" => q.seen = row
  PROVE  OneInv'
<1>1. /\ req'[p] = q
      /\ \A x \in Patches : x # p => req'[x] = req[x]
  BY BecomesOnly DEF TypeOK
<1>2. \A x \in Patches : NamesBoth(x) => NamesBoth(x)'
  BY <1>1 DEF NamesBoth
<1> QED BY <1>1, <1>2 DEF OneInv, OneOf

LEMMA OneStep == TypeOK /\ OneInv /\ [Next]_vars => OneInv'
<1> SUFFICES ASSUME TypeOK, OneInv, [Next]_vars PROVE OneInv'
  OBVIOUS
<1>1. ASSUME NEW p \in Patches, NEW body \in Body, NEW refused \in BOOLEAN,
             ReadRow(p, body, refused)
      PROVE  OneInv'
  <2> DEFINE q == IF refused
                  THEN [IdlePatch EXCEPT !.at = "ended", !.body = body, !.reply = "notfound"]
                  ELSE [IdlePatch EXCEPT !.at = "read", !.body = body, !.seen = row]
  <2>1. row \in Record /\ Becomes(p, q) /\ row' = row /\ req[p].at = "idle"
    BY <1>1 DEF ReadRow, TypeOK
  <2>2. q \in Handler /\ (q.at = "read" => q.seen = row)
    BY <2>1 DEF IdlePatch, Handler, PatchPoints
  <2>3. req[p].body = None
    <3>1. req[p] = IdlePatch
      BY <2>1 DEF TypeOK
    <3> QED BY <3>1 DEF IdlePatch
  <2> HIDE DEF q
  <2> QED BY <2>1, <2>2, <2>3, OneByHandler
<1>2. ASSUME NEW p \in Patches, Upsert(p) PROVE OneInv'
  <2>1. PICK q \in Handler :
          /\ Becomes(p, q) /\ q.body \in Body /\ q.seen \in Record /\ q.at = "refresh"
          /\ q.body = req[p].body /\ q.seen = req[p].seen
          /\ row' = Merged(q.body, q.seen)
    BY <1>2, UpsertFacts
  <2>2. CASE \E x \in Patches : NamesBoth(x)
    <3>1. \A x \in Patches : NamesBoth(x) => NamesBoth(x)'
      BY <2>1, BecomesOnly DEF NamesBoth, TypeOK
    <3> QED BY <2>2, <3>1 DEF OneInv
  <2>3. CASE \A x \in Patches : ~NamesBoth(x)
    <3>1. OneOf(req[p].seen)
      BY <1>2, <2>3 DEF OneInv, Upsert
    <3>2. req[p].body # None
      BY <1>2, NoneIsNoBody DEF Upsert, TypeOK, HasRead
    <3>3. q.body.cron = None \/ q.body.interval = None
      BY <2>1, <2>3, <3>2 DEF NamesBoth
    <3>4. OneOf(row')
      BY <2>1, <3>1, <3>3, MergedIsOne
    <3> QED BY <2>1, <3>4, OneByHandler
  <2> QED BY <2>2, <2>3
<1>3. ASSUME NEW p \in Patches, NEW q \in Handler, Becomes(p, q), row' = row,
             q.body = req[p].body, q.at # "read"
      PROVE  OneInv'
  BY <1>3, OneByHandler
<1>4. ASSUME NEW p \in Patches, NEW s \in Producers, Refresh(p, s) PROVE OneInv'
  <2> DEFINE q == [req[p] EXCEPT !.todo = req[p].todo \ {s}]
  <2>1. /\ Becomes(p, q) /\ q \in Handler /\ row' = row
        /\ q.body = req[p].body /\ q.at # "read"
    BY <1>4 DEF Refresh, TypeOK, Handler
  <2> HIDE DEF q
  <2> QED BY <1>3, <2>1
<1>5. ASSUME NEW p \in Patches, NEW s \in Producers, RefreshRaises(p, s) PROVE OneInv'
  <2> DEFINE q == AfterRefreshRaises(req[p], s)
  <2>1. /\ Becomes(p, q) /\ q \in Handler /\ row' = row
        /\ q.body = req[p].body /\ q.at # "read"
    BY <1>5 DEF RefreshRaises, AfterRefreshRaises, TypeOK, Handler
  <2> HIDE DEF q
  <2> QED BY <1>3, <2>1
<1>8. ASSUME NEW p \in Patches, Respond(p) \/ Abandon(p) PROVE OneInv'
  <2>1. PICK reply \in {"ok", "failed"} :
          Becomes(p, [req[p] EXCEPT !.at = "ended", !.reply = reply])
    BY <1>8 DEF Respond, Abandon
  <2> DEFINE q == [req[p] EXCEPT !.at = "ended", !.reply = reply]
  <2>2. /\ Becomes(p, q) /\ q \in Handler /\ row' = row
        /\ q.body = req[p].body /\ q.at # "read"
    BY <1>8, <2>1 DEF Respond, Abandon, TypeOK, Handler, PatchPoints
  <2> HIDE DEF q
  <2> QED BY <1>3, <2>2
<1>6. ASSUME NEW s \in Producers, Fire(s) PROVE OneInv'
  BY <1>6 DEF Fire, OneInv, OneOf, NamesBoth, TypeOK, Record
<1>7. CASE UNCHANGED vars
  BY <1>7 DEF vars, OneInv, OneOf, NamesBoth
<1> QED BY <1>1, <1>2, <1>4, <1>5, <1>6, <1>7, <1>8 DEF Next, AllServed

\* As long as no body names both a cron and an interval, the stored schedule has
\* one of the two, however many patches overlap and overtake each other.
THEOREM CadenceIsExclusive == Spec => []OneCadence
<1>1. Init => OneInv
  BY DEF Init, OneInv, OneOf, IdlePatch
<1>2. OneInv => OneCadence
  BY DEF OneInv, OneOf, OneCadence
<1> QED BY <1>1, <1>2, OneStep, TypeCorrect, PTL DEF Spec

=============================================================================
