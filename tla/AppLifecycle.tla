---------------------------- MODULE AppLifecycle ----------------------------
(***************************************************************************)
(* The life of one API process: setup_orchid opens the resources of        *)
(* app_ctx one after the other, teardown_orchid releases them, and while   *)
(* the process serves, ConfigReloadMiddleware looks for a changed          *)
(* configuration on the requests that pass it.                             *)
(*                                                                         *)
(* External: what the resources are (Orchid with its stores and its graph, *)
(* the events runtime with its producers and its processor), whether       *)
(* opening or closing one raises, reload_config, and the server, which     *)
(* calls the lifespan and serves requests only between its two halves.     *)
(***************************************************************************)
EXTENDS Naturals, Sequences

CONSTANTS
  Requests,      \* requests that pass the middleware
  Interval,      \* orchid_reload_interval, in ticks
  RefTaken,      \* when orchid_ref is evaluated: "import" (main.py) or "startup"
  MaxTime,       \* bound: ticks of the monotonic clock
  MaxLives       \* bound: setups of the process

ASSUME ConstantsAssumption ==
  /\ Interval \in Nat \ {0}
  /\ RefTaken \in {"import", "startup"}
  /\ MaxTime \in Nat
  /\ MaxLives \in Nat

VARIABLES
  phase,      \* "down", "setup", "up", "failed" (setup raised), "teardown",
              \* "stuck" (teardown raised), "exited" (the process is gone)
  step,       \* the step of setup or teardown that is awaited
  open,       \* the resources app_ctx holds
  lives,      \* setups begun
  now,        \* time.monotonic()
  lastCheck,  \* the middleware's _last_check
  request,    \* request[r]: where the request is
  reloaded,   \* history: when the last reload_config started, 0 if none did
  tooSoon,    \* history: a reload started less than an interval after the last
  skipped     \* history: a request was passed on unchecked with a check due

app == <<phase, step, open, lives>>
reload == <<now, lastCheck, request, reloaded, tooSoon, skipped>>
vars == <<app, reload>>

Resources == {"http", "orchid", "oauth", "events"}

\* The awaits of setup_orchid, in order. The step named after a resource opens
\* it; "http" stands for everything before the first await.
SetupOrder == <<"http", "orchid", "oauth", "warm", "events", "producer", "cleanup">>

\* A plausible slip: the framework is closed first.
TeardownOrderSwapped == <<"orchid", "events", "oauth", "http">>

\* release_resources, then the HTTP client of teardown_orchid.
TeardownOrder == <<"events", "orchid", "oauth", "http">>

\* The machine has been up for an interval: the first request finds a check due.
Init ==
  /\ phase = "down"
  /\ step = 0
  /\ open = {}
  /\ lives = 0
  /\ now = Interval
  /\ lastCheck = 0
  /\ request = [r \in Requests |-> "idle"]
  /\ reloaded = 0
  /\ tooSoon = FALSE
  /\ skipped = FALSE

-----------------------------------------------------------------------------
(* Startup *)

Setup ==
  /\ phase = "down"
  /\ lives < MaxLives
  /\ phase' = "setup"
  /\ step' = 1
  /\ lives' = lives + 1
  /\ UNCHANGED <<open, reload>>

\* After the last step the server begins to serve.
StepDone ==
  IF step = Len(SetupOrder)
  THEN phase' = "up" /\ step' = 0
  ELSE phase' = "setup" /\ step' = step + 1

\* The step succeeds. start_events opens nothing when events are disabled. The
\* warm-up and the token cleanup succeed or are logged.
SetupStep ==
  LET s == SetupOrder[step] IN
  /\ phase = "setup"
  /\ IF s \in Resources
     THEN \/ open' = open \cup {s}
          \/ s = "events" /\ UNCHANGED open
     ELSE UNCHANGED open
  /\ StepDone
  /\ UNCHANGED <<lives, reload>>

\* The step raises and setup_orchid with it; what is open stays open. The HTTP
\* client is there before an import of "http" can raise; the producer is only
\* started when events are enabled.
SetupFails ==
  LET s == SetupOrder[step] IN
  /\ phase = "setup"
  /\ s \notin {"warm", "cleanup"}
  /\ s = "producer" => "events" \in open
  /\ open' = IF s = "http" THEN open \cup {s} ELSE open
  /\ phase' = "failed"
  /\ step' = 0
  /\ UNCHANGED <<lives, reload>>

\* lifespan has no finally: the server gives up, and the process ends.
Exit ==
  /\ phase \in {"failed", "stuck"}
  /\ phase' = "exited"
  /\ open' = {}
  /\ UNCHANGED <<step, lives, reload>>

-----------------------------------------------------------------------------
(* Shutdown *)

\* The server drains its requests first. An integrator's lifespan may also call
\* teardown_orchid after a setup that raised, and again after a teardown that did.
\* (Called when nothing is up, it finds every field None and changes nothing.)
Teardown ==
  /\ phase \in {"up", "failed", "stuck"}
  /\ \A r \in Requests : request[r] # "reload"
  /\ phase' = "teardown"
  /\ step' = 1
  /\ UNCHANGED <<open, lives, reload>>

\* The awaited close returns and the field is cleared, or the step is skipped
\* because the field is None already.
TeardownStep ==
  /\ phase = "teardown"
  /\ open' = open \ {TeardownOrder[step]}
  /\ IF step = Len(TeardownOrder)
     THEN phase' = "down" /\ step' = 0
     ELSE step' = step + 1 /\ UNCHANGED phase
  /\ UNCHANGED <<lives, reload>>

\* A plausible slip: a close that raises is swallowed and the next one tried.
TeardownFailsSoftly ==
  /\ phase = "teardown"
  /\ TeardownOrder[step] \in open
  /\ IF step = Len(TeardownOrder)
     THEN phase' = "down" /\ step' = 0
     ELSE step' = step + 1 /\ UNCHANGED phase
  /\ UNCHANGED <<open, lives, reload>>

\* The close raises: its field and those after it keep their resources.
TeardownFails ==
  /\ phase = "teardown"
  /\ TeardownOrder[step] \in open
  /\ phase' = "stuck"
  /\ step' = 0
  /\ UNCHANGED <<open, lives, reload>>

-----------------------------------------------------------------------------
(* Hot reload *)

\* _orchid_ref is not None. main.py evaluates app_ctx.orchid when the module is
\* imported, before any setup; an integrator may do so after its own setup.
Referenced == RefTaken = "startup"

Due == now - lastCheck >= Interval

Starts(r) ==
  /\ request' = [request EXCEPT ![r] = "reload"]
  /\ reloaded' = now
  /\ tooSoon' = (tooSoon \/ (reloaded # 0 /\ now - reloaded < Interval))

\* A plausible slip: the check is not stamped.
CheckUnstamped(r) == Starts(r) /\ UNCHANGED lastCheck

\* The stamp is set before reload_config is awaited.
Check(r) == Starts(r) /\ lastCheck' = now

\* dispatch, up to its first await.
Dispatch(r) ==
  /\ phase = "up"
  /\ request[r] = "idle"
  /\ IF Referenced /\ Due
     THEN Check(r) /\ UNCHANGED skipped
     ELSE /\ request' = [request EXCEPT ![r] = "served"]
          /\ skipped' = (skipped \/ Due)
          /\ UNCHANGED <<lastCheck, reloaded, tooSoon>>
  /\ UNCHANGED <<app, now>>

\* reload_config returns or raises; the request goes on either way.
Reloaded(r) ==
  /\ request[r] = "reload"
  /\ request' = [request EXCEPT ![r] = "served"]
  /\ UNCHANGED <<app, now, lastCheck, reloaded, tooSoon, skipped>>

\* Another request takes this one's place.
NextRequest(r) ==
  /\ request[r] = "served"
  /\ request' = [request EXCEPT ![r] = "idle"]
  /\ UNCHANGED <<app, now, lastCheck, reloaded, tooSoon, skipped>>

Tick ==
  /\ now < MaxTime
  /\ now' = now + 1
  /\ UNCHANGED <<app, lastCheck, request, reloaded, tooSoon, skipped>>

\* The process has been shut down for the last time.
Over ==
  /\ phase = "exited" \/ (phase = "down" /\ lives = MaxLives)
  /\ UNCHANGED vars

Next ==
  \/ Setup \/ SetupStep \/ SetupFails \/ Exit
  \/ Teardown \/ TeardownStep \/ TeardownFails
  \/ \E r \in Requests : Dispatch(r) \/ Reloaded(r) \/ NextRequest(r)
  \/ Tick
  \/ Over

Spec == Init /\ [][Next]_vars

-----------------------------------------------------------------------------
(* Properties *)

TypeOK ==
  /\ phase \in {"down", "setup", "up", "failed", "teardown", "stuck", "exited"}
  /\ step \in 0..Len(SetupOrder)
  /\ open \subseteq Resources
  /\ lives \in 0..MaxLives
  /\ now \in 0..MaxTime
  /\ lastCheck \in 0..now /\ reloaded \in 0..now
  /\ request \in [Requests -> {"idle", "reload", "served"}]
  /\ tooSoon \in BOOLEAN /\ skipped \in BOOLEAN
  /\ phase = "up" => {"http", "orchid", "oauth"} \subseteq open

\* Producers and the processor write to the chat database, run the graph and
\* resolve identities over HTTP by themselves, so whichever step of a startup
\* or a shutdown raises, the events runtime is never up without the framework
\* and the HTTP client (context.py 90, lifecycle.py 218).
EventsRunOnOpenResources == "events" \in open => {"orchid", "http"} \subseteq open

\* A teardown that returns has released everything, after a partial startup and
\* after a teardown that raised half-way as well (context.py 87, lifecycle.py 376).
TornDownIsEmpty == phase = "down" => open = {}

\* However many requests arrive together and however long a reload takes, two
\* reloads start an interval apart at least (middleware.py 50).
ReloadsAreSpaced == ~tooSoon

\* Once the interval is over, the next request checks for a new configuration,
\* because the reference is "resolved lazily at each dispatch" (main.py 156).
DueRequestsCheck == ~skipped

=============================================================================
