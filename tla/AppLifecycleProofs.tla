------------------------- MODULE AppLifecycleProofs -------------------------
(***************************************************************************)
(* Theorems about AppLifecycle, for any requests, interval and number of   *)
(* lives: what a startup and a shutdown of which any step may raise leave  *)
(* open, and how reloads are spaced.                                       *)
(***************************************************************************)
EXTENDS AppLifecycle, TLAPS

-----------------------------------------------------------------------------
(* Startup and shutdown *)

\* What the place of setup or teardown says of the resources held: those whose
\* opening step is over are open, those not yet reached are not, and likewise
\* for closing. Startup opens in the order of SetupOrder, teardown closes in the
\* order of TeardownOrder, and a failed one has any prefix behind it.
HeldWhere ==
  /\ phase \in {"down", "exited"} => open = {}
  /\ phase = "setup" =>
       /\ step \in 1..7
       /\ step = 1 => open = {}
       /\ step > 1 => "http" \in open
       /\ step > 2 => "orchid" \in open
       /\ step > 3 => "oauth" \in open
       /\ "orchid" \in open => step > 2
       /\ "oauth" \in open => step > 3
       /\ "events" \in open => step > 5
  /\ phase = "up" => {"http", "orchid", "oauth"} \subseteq open
  /\ phase = "teardown" =>
       /\ step \in 1..4
       /\ step > 1 => "events" \notin open
       /\ step > 2 => "orchid" \notin open
       /\ step > 3 => "oauth" \notin open

\* The inductive invariant of the resources.
ResourceInv ==
  /\ open \subseteq Resources
  /\ HeldWhere
  /\ EventsRunOnOpenResources

\* The orders written out, for the provers.
LEMMA Orders ==
  /\ Len(SetupOrder) = 7 /\ Len(TeardownOrder) = 4
  /\ SetupOrder[1] = "http" /\ SetupOrder[2] = "orchid" /\ SetupOrder[3] = "oauth"
  /\ SetupOrder[4] = "warm" /\ SetupOrder[5] = "events" /\ SetupOrder[6] = "producer"
  /\ SetupOrder[7] = "cleanup"
  /\ TeardownOrder[1] = "events" /\ TeardownOrder[2] = "orchid"
  /\ TeardownOrder[3] = "oauth" /\ TeardownOrder[4] = "http"
BY DEF SetupOrder, TeardownOrder

\* A process that has not been set up holds nothing.
LEMMA ResourceInit == Init => ResourceInv
BY DEF Init, ResourceInv, HeldWhere, EventsRunOnOpenResources, Resources

\* Only startup and shutdown touch the resources.
LEMMA ResourcesRest ==
  ASSUME ResourceInv, UNCHANGED app
  PROVE  ResourceInv'
BY DEF ResourceInv, HeldWhere, EventsRunOnOpenResources, app

\* Every step of setup and teardown keeps the order, whether or not it raises.
LEMMA ResourceStep == ResourceInv /\ [Next]_vars => ResourceInv'
<1> USE DEF ResourceInv, HeldWhere, EventsRunOnOpenResources, Resources
<1> SUFFICES ASSUME ResourceInv, [Next]_vars PROVE ResourceInv'
  OBVIOUS
<1>1. CASE Setup
  BY <1>1 DEF Setup
<1>2. CASE SetupStep
  <2>0. step \in 1..7 /\ phase = "setup"
    BY <1>2 DEF SetupStep
  <2>1. CASE step = 1
    <3>1. phase' = "setup" /\ step' = 2 /\ open' = open \cup {"http"}
      BY <1>2, <2>1, Orders DEF SetupStep, StepDone
    <3>2. "events" \notin open
      BY <2>0, <2>1
    <3> QED BY <2>0, <2>1, <3>1, <3>2
  <2>2. CASE step = 2
    <3>1. phase' = "setup" /\ step' = 3 /\ open' = open \cup {"orchid"}
      BY <1>2, <2>2, Orders DEF SetupStep, StepDone
    <3>2. "events" \notin open
      BY <2>0, <2>2
    <3> QED BY <2>0, <2>2, <3>1, <3>2
  <2>3. CASE step = 3
    <3>1. phase' = "setup" /\ step' = 4 /\ open' = open \cup {"oauth"}
      BY <1>2, <2>3, Orders DEF SetupStep, StepDone
    <3>2. "events" \notin open
      BY <2>0, <2>3
    <3> QED BY <2>0, <2>3, <3>1, <3>2
  <2>4. CASE step \in {4, 6}
    <3>1. phase' = "setup" /\ step' = step + 1 /\ open' = open
      BY <1>2, <2>4, Orders DEF SetupStep, StepDone
    <3> QED BY <2>0, <2>4, <3>1
  <2>5. CASE step = 5
    <3>1. /\ phase' = "setup" /\ step' = 6
          /\ open' = open \/ open' = open \cup {"events"}
      BY <1>2, <2>5, Orders DEF SetupStep, StepDone
    <3>2. {"http", "orchid", "oauth"} \subseteq open
      BY <2>0, <2>5
    <3>3. CASE open' = open
      BY <2>0, <2>5, <3>1, <3>2, <3>3
    <3>4. CASE open' = open \cup {"events"}
      <4>1. /\ open' \subseteq Resources /\ {"http", "orchid", "oauth"} \subseteq open'
        BY <3>2, <3>4
      <4> QED BY <3>1, <4>1
    <3> QED BY <3>1, <3>3, <3>4
  <2>6. CASE step = 7
    <3>1. phase' = "up" /\ step' = 0 /\ open' = open
      BY <1>2, <2>6, Orders DEF SetupStep, StepDone
    <3> QED BY <2>0, <2>6, <3>1
  <2> QED BY <2>0, <2>1, <2>2, <2>3, <2>4, <2>5, <2>6
<1>3. CASE SetupFails
  <2>1. phase' = "failed" /\ (open' = open \/ (step = 1 /\ open' = open \cup {"http"}))
    <3>1. step \in 1..7
      BY <1>3 DEF SetupFails
    <3> QED BY <1>3, <3>1, Orders DEF SetupFails
  <2> QED BY <1>3, <2>1 DEF SetupFails
<1>4. CASE Exit
  BY <1>4 DEF Exit
<1>5. CASE Teardown
  BY <1>5 DEF Teardown
<1>6. CASE TeardownStep
  <2>0. step \in 1..4 /\ phase = "teardown"
    BY <1>6 DEF TeardownStep
  <2>1. CASE step = 1
    <3>1. phase' = "teardown" /\ step' = 2 /\ open' = open \ {"events"}
      BY <1>6, <2>1, Orders DEF TeardownStep
    <3> QED BY <2>0, <2>1, <3>1
  <2>2. CASE step = 2
    <3>1. phase' = "teardown" /\ step' = 3 /\ open' = open \ {"orchid"}
      BY <1>6, <2>2, Orders DEF TeardownStep
    <3> QED BY <2>0, <2>2, <3>1
  <2>3. CASE step = 3
    <3>1. phase' = "teardown" /\ step' = 4 /\ open' = open \ {"oauth"}
      BY <1>6, <2>3, Orders DEF TeardownStep
    <3> QED BY <2>0, <2>3, <3>1
  <2>4. CASE step = 4
    <3>1. phase' = "down" /\ open' = open \ {"http"}
      BY <1>6, <2>4, Orders DEF TeardownStep
    <3>2. open \subseteq {"http"}
      BY <2>0, <2>4
    <3> QED BY <3>1, <3>2
  <2> QED BY <2>0, <2>1, <2>2, <2>3, <2>4
<1>7. CASE TeardownFails
  BY <1>7 DEF TeardownFails
<1>8. CASE \E r \in Requests : Dispatch(r) \/ Reloaded(r) \/ NextRequest(r)
  BY <1>8, ResourcesRest DEF Dispatch, Reloaded, NextRequest
<1>9. CASE Tick \/ Over \/ UNCHANGED vars
  BY <1>9, ResourcesRest DEF Tick, Over, vars
<1> QED BY <1>1, <1>2, <1>3, <1>4, <1>5, <1>6, <1>7, <1>8, <1>9 DEF Next

\* What is held fits the place of setup or teardown, always.
THEOREM ResourcesSafe == Spec => []ResourceInv
BY ResourceInit, ResourceStep, PTL DEF Spec

\* Whichever step of a startup or a shutdown raises, the events runtime is never
\* up without the framework and the HTTP client (context.py 90).
THEOREM EventsLast == Spec => []EventsRunOnOpenResources
BY ResourcesSafe, PTL DEF ResourceInv

\* A teardown that returns has released everything (context.py 87).
THEOREM TeardownReleases == Spec => []TornDownIsEmpty
<1>1. ResourceInv => TornDownIsEmpty
  BY DEF ResourceInv, HeldWhere, TornDownIsEmpty
<1> QED BY <1>1, ResourcesSafe, PTL

-----------------------------------------------------------------------------
(* Hot reload *)

\* The stamp is the time of the last reload.
StampInv ==
  /\ now \in Nat /\ lastCheck \in Nat
  /\ reloaded # 0 => lastCheck = reloaded
  /\ ReloadsAreSpaced

\* No reload has started at first.
LEMMA StampInit == Init => StampInv
BY ConstantsAssumption DEF Init, StampInv, ReloadsAreSpaced

\* Only dispatch starts a reload, and it stamps it in the same step.
LEMMA StampStep == StampInv /\ [Next]_vars => StampInv'
<1> USE DEF StampInv, ReloadsAreSpaced
<1> SUFFICES ASSUME StampInv, [Next]_vars PROVE StampInv'
  OBVIOUS
<1>1. ASSUME NEW r \in Requests, Dispatch(r) PROVE StampInv'
  <2>1. CASE Referenced /\ Due
    <3>1. /\ now' = now /\ lastCheck' = now /\ reloaded' = now
          /\ tooSoon' = (tooSoon \/ (reloaded # 0 /\ now - reloaded < Interval))
      BY <1>1, <2>1 DEF Dispatch, Check, Starts
    <3>2. ~(reloaded # 0 /\ now - reloaded < Interval)
      BY <2>1, ConstantsAssumption DEF Due
    <3>3. ~tooSoon'
      BY <3>1, <3>2, Zenon
    <3> QED BY <3>1, <3>3
  <2>2. CASE ~(Referenced /\ Due)
    BY <1>1, <2>2 DEF Dispatch
  <2> QED BY <2>1, <2>2
<1>2. ASSUME NEW r \in Requests, Reloaded(r) \/ NextRequest(r) PROVE StampInv'
  BY <1>2 DEF Reloaded, NextRequest
<1>3. CASE Tick
  BY <1>3 DEF Tick
<1>4. CASE \/ Setup \/ SetupStep \/ SetupFails \/ Exit
           \/ Teardown \/ TeardownStep \/ TeardownFails \/ Over \/ UNCHANGED vars
  BY <1>4 DEF Setup, SetupStep, SetupFails, Exit, Teardown, TeardownStep, TeardownFails,
              Over, reload, vars
<1> QED BY <1>1, <1>2, <1>3, <1>4 DEF Next

\* However many requests arrive together and however long a reload takes, two
\* reloads start an interval apart at least (middleware.py 50).
THEOREM ReloadsSpaced == Spec => []ReloadsAreSpaced
<1>1. StampInv => ReloadsAreSpaced
  BY DEF StampInv
<1> QED BY <1>1, StampInit, StampStep, PTL DEF Spec

=============================================================================
