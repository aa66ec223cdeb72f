----------------------------- MODULE Schedules -----------------------------
(***************************************************************************)
(* One schedule under concurrent PATCH /schedules/{id} requests            *)
(* (routers/schedules.py): a patch reads the row, builds a whole new one   *)
(* from it and from its body, upserts that, and then asks every scheduler  *)
(* producer to refresh, one after the other.                               *)
(*                                                                         *)
(* External: the schedule store (get and upsert are atomic), the producers *)
(* (a refresh reads the row as it is then, or raises and changes nothing)  *)
(* and the firings, which record last_fire_at in the row.                  *)
(***************************************************************************)
EXTENDS Naturals, FiniteSets

CONSTANTS
  Patches,    \* requests that may ever arrive
  Producers,  \* the producers that have a refresh
  Crons, Intervals,
  MaxFires,   \* bound on the recorded firings
  None

ASSUME SchedulesAssumption ==
  /\ None \notin Crons /\ None \notin Intervals /\ None \notin BOOLEAN
  /\ MaxFires \in Nat

VARIABLES
  row,   \* the stored OrchidScheduleRecord
  live,  \* live[s]: the cadence that producer s runs
  req    \* req[p]: the handler coroutine of patch p

vars == <<row, live, req>>

\* What a producer runs; None: it has not picked the schedule up.
Cadence == [cron : Crons \cup {None}, interval : Intervals \cup {None}, enabled : BOOLEAN]

\* last_fire_at is the number of firings recorded.
Record == [cron : Crons \cup {None}, interval : Intervals \cup {None},
           enabled : BOOLEAN, fired : 0..MaxFires]

\* _SchedulePatchBody: every field may be missing.
Body == [cron : Crons \cup {None}, interval : Intervals \cup {None},
         enabled : BOOLEAN \cup {None}]

ASSUME NoneIsNoBody == None \notin Body

CadenceOf(record) ==
  [cron |-> record.cron, interval |-> record.interval, enabled |-> record.enabled]

PatchPoints == {"idle", "read", "refresh", "ended"}

\* todo: the producers the handler has not refreshed yet, or could not refresh.
Handler == [at : PatchPoints, body : Body \cup {None}, seen : Record \cup {None},
            todo : SUBSET Producers, raised : SUBSET Producers,
            reply : {"none", "ok", "notfound", "failed"}]

IdlePatch == [at |-> "idle", body |-> None, seen |-> None, todo |-> {}, raised |-> {},
              reply |-> "none"]

Becomes(p, q) == req' = [req EXCEPT ![p] = q]

\* The schedule comes from the configuration: a cron or an interval.
Init ==
  /\ row \in {r \in Record : r.fired = 0 /\ (r.cron = None <=> r.interval # None)}
  /\ live = [s \in Producers |-> CadenceOf(row)]
  /\ req = [p \in Patches |-> IdlePatch]

\* _require_admin, and the record is fetched. Another id than the schedule's, and
\* a caller who is no admin, are answered alike.
ReadRow(p, body, refused) ==
  /\ req[p].at = "idle"
  /\ Becomes(p, IF refused
                THEN [IdlePatch EXCEPT !.at = "ended", !.body = body, !.reply = "notfound"]
                ELSE [IdlePatch EXCEPT !.at = "read", !.body = body, !.seen = row])
  /\ UNCHANGED <<row, live>>

\* A plausible slip: a new cadence does not clear the other kind.
MergedKeepsBoth(body, seen) ==
  [cron     |-> IF body.cron # None THEN body.cron ELSE seen.cron,
   interval |-> IF body.interval # None THEN body.interval ELSE seen.interval,
   enabled  |-> IF body.enabled # None THEN body.enabled ELSE seen.enabled,
   fired    |-> seen.fired]

\* A plausible slip: the record is built from the body alone.
MergedFromBody(body, seen) ==
  [cron     |-> body.cron,
   interval |-> IF body.cron = None /\ body.interval = None THEN seen.interval
                                                            ELSE body.interval,
   enabled  |-> IF body.enabled # None THEN body.enabled ELSE seen.enabled,
   fired    |-> seen.fired]

\* The body's fields over those of the row that was read; naming one cadence
\* clears the other, naming both keeps both.
Merged(body, seen) ==
  [cron     |-> IF body.cron # None THEN body.cron
                ELSE IF body.interval # None THEN None ELSE seen.cron,
   interval |-> IF body.interval # None THEN body.interval
                ELSE IF body.cron # None THEN None ELSE seen.interval,
   enabled  |-> IF body.enabled # None THEN body.enabled ELSE seen.enabled,
   fired    |-> seen.fired]

\* upsert of the whole record, whatever the row has become since it was read.
Upsert(p) ==
  /\ req[p].at = "read"
  /\ row' = Merged(req[p].body, req[p].seen)
  /\ Becomes(p, [req[p] EXCEPT !.at = "refresh", !.todo = Producers])
  /\ UNCHANGED live

\* refresh reads the store.
Runs(p) == CadenceOf(row)

Refresh(p, s) ==
  /\ req[p].at = "refresh"
  /\ s \in req[p].todo
  /\ live' = [live EXCEPT ![s] = Runs(p)]
  /\ Becomes(p, [req[p] EXCEPT !.todo = @ \ {s}])
  /\ UNCHANGED row

\* A plausible slip: the first producer that fails ends the loop.
AfterRefreshRaisesStops(q, s) == [q EXCEPT !.todo = {}, !.raised = @ \cup {s}]

\* The failure is logged and the next producer follows.
AfterRefreshRaises(q, s) == [q EXCEPT !.todo = @ \ {s}, !.raised = @ \cup {s}]

RefreshRaises(p, s) ==
  /\ req[p].at = "refresh"
  /\ s \in req[p].todo
  /\ Becomes(p, AfterRefreshRaises(req[p], s))
  /\ UNCHANGED <<row, live>>

Respond(p) ==
  /\ req[p].at = "refresh"
  /\ req[p].todo = {}
  /\ Becomes(p, [req[p] EXCEPT !.at = "ended", !.reply = "ok"])
  /\ UNCHANGED <<row, live>>

\* The store raises, or the client goes away: between the upsert and the refresh
\* nothing catches either.
Abandon(p) ==
  /\ req[p].at \in {"read", "refresh"}
  /\ Becomes(p, [req[p] EXCEPT !.at = "ended", !.reply = "failed"])
  /\ UNCHANGED <<row, live>>

\* External: a producer fires the schedule and records it.
Fire(s) ==
  /\ live[s].enabled
  /\ row.fired < MaxFires
  /\ row' = [row EXCEPT !.fired = @ + 1]
  /\ UNCHANGED <<live, req>>

AllServed == (\A p \in Patches : req[p].at = "ended") /\ UNCHANGED vars

Next ==
  \/ \E p \in Patches, body \in Body, refused \in BOOLEAN : ReadRow(p, body, refused)
  \/ \E p \in Patches : Upsert(p) \/ Respond(p) \/ Abandon(p)
  \/ \E p \in Patches, s \in Producers : Refresh(p, s) \/ RefreshRaises(p, s)
  \/ \E s \in Producers : Fire(s)
  \/ AllServed

Spec == Init /\ [][Next]_vars

-----------------------------------------------------------------------------
(* Properties *)

\* Patch p has not made producer s run what it has stored.
Owes(p, s) == s \in req[p].todo \cup req[p].raised

HasRead(q) == q.at \in {"read", "refresh"} \/ q.todo \cup q.raised # {}

\* Types; a request that has not arrived is blank, and a handler that has read the
\* row knows its body and the row ever after.
TypeOK ==
  /\ row \in Record
  /\ live \in [Producers -> Cadence]
  /\ req \in [Patches -> Handler]
  /\ \A p \in Patches :
       /\ req[p].at = "idle" => req[p] = IdlePatch
       /\ HasRead(req[p]) => req[p].body \in Body /\ req[p].seen \in Record

\* The schedule has exactly one cadence, unless a patch has named both: no overlap
\* of patches leaves it with two, or with none ("the cron / interval_seconds
\* exclusivity is preserved", schedules.py 79-87).
NamesBoth(p) == req[p].body # None /\ req[p].body.cron # None /\ req[p].body.interval # None

OneCadence ==
  (\A p \in Patches : ~NamesBoth(p)) => (row.cron = None <=> row.interval # None)

\* Every producer runs the stored cadence, or else the patch that stored it has
\* yet to refresh that producer, was given up before that, or saw the refresh
\* raise: one producer's failure costs no other its refresh, and the refresh of an
\* overtaken patch brings no old cadence back (schedules.py 100-116).
ProducersFollow ==
  \A s \in Producers :
    \/ live[s] = CadenceOf(row)
    \/ \E p \in Patches : /\ Owes(p, s)
                          /\ CadenceOf(Merged(req[p].body, req[p].seen)) = CadenceOf(row)

\* An upsert takes back what others have written since its read, and only then:
\* a patch that nothing overtook changes no field but those its body decides,
\* keeps the firings, and leaves a cadence it does not name as it was.
PatchesOnlyWhatItNames ==
  [][\A p \in Patches :
       (req[p].at = "read" /\ req'[p].at = "refresh" /\ req[p].seen = row) =>
         LET body == req[p].body IN
         /\ row'.fired = row.fired
         /\ body.enabled = None => row'.enabled = row.enabled
         /\ body.cron = None /\ body.interval = None =>
              row'.cron = row.cron /\ row'.interval = row.interval]_vars

=============================================================================
